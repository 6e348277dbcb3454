-------------------------- MODULE ShellPathProofs ---------------------------
(***************************************************************************)
(* Where the shells are, when what is typed is served (Slips = {}): every  *)
(* stack, of a working directory or of a command on its way, is a path of  *)
(* directories on the disk, and cd goes where its path leads.              *)
(*                                                                         *)
(* What could break a path is rm, and mv, which ends with one.  So the     *)
(* invariant follows a removal from the line to the system call: who       *)
(* removes runs alone (Apart); what it may remove no shell stands in and   *)
(* no file lies in (Doomed), which is known of the place the line names,   *)
(* and has to be handed on, from the loop that walks there, through what   *)
(* mv copies first, to the rm of every child (Good, Nested).  That a       *)
(* directory in the working directory of one shell is entered, copied and  *)
(* searched by others who only add entries then disturbs no path (Grows),  *)
(* and an rm takes entries that no path passes (Shrinks).                  *)
(***************************************************************************)
EXTENDS ShellProofs

-----------------------------------------------------------------------------
\* Where a path leads.  A path is followed in a sequence of stacks.

\* Where one component leads from stack w.
PathStep(d, w, n) ==
    IF w = <<>> \/ n = Here THEN w
    ELSE IF n = Up THEN (IF Len(w) > 1 THEN Front(w) ELSE w)
    ELSE IF Has(d, Last(w).cluster, n) /\ EntryOf(d, Last(w).cluster, n).dir
      THEN Append(w, Link(n, EntryOf(d, Last(w).cluster, n).cluster))
    ELSE <<>>

\* A sequence without its last.
LEMMA FrontIs ==
    ASSUME NEW S, NEW w \in Seq(S), Len(w) > 0
    PROVE  /\ Front(w) \in Seq(S) /\ Len(Front(w)) = Len(w) - 1
           /\ \A i \in 1 .. Len(w) - 1 : Front(w)[i] = w[i]
  <1> DEFINE n == Len(w) - 1
  <1>1. n \in Int /\ 1 \in Int /\ n >= 0 /\ \A i \in 1 .. n : w[i] \in S
    OBVIOUS
  <1> HIDE DEF n
  <1>2. /\ SubSeq(w, 1, n) \in Seq(S)
        /\ Len(SubSeq(w, 1, n)) = IF 1 <= n THEN n - 1 + 1 ELSE 0
        /\ \A i \in 1 .. n - 1 + 1 : SubSeq(w, 1, n)[i] = w[1 + i - 1]
    BY <1>1, SubSeqProperties
  <1>3. /\ Len(SubSeq(w, 1, n)) = n
        /\ \A i \in 1 .. n : SubSeq(w, 1, n)[i] = w[i]
    BY <1>1, <1>2
  <1> QED
    BY <1>2, <1>3 DEF Front, n

\* It leads to a stack, or nowhere.
LEMMA StepIsStack ==
    ASSUME NEW d, DiskOK(d), NEW w \in Seq(Links), NEW n
    PROVE  PathStep(d, w, n) \in Seq(Links)
  <1>1. CASE w = <<>> \/ n = Here
    BY <1>1 DEF PathStep
  <1>2. CASE w # <<>> /\ n # Here /\ n = Up
    <2>1. Len(w) > 0 /\ Front(w) \in Seq(Links)
      BY <1>2, FrontIs
    <2> QED
      BY <1>2, <2>1 DEF PathStep
  <1>3. CASE w # <<>> /\ n # Here /\ n # Up
    <2> DEFINE c == Last(w).cluster
    <2>1. Last(w) \in Links
      BY <1>3 DEF Last
    <2>2. c \in Clusters
      BY <2>1, LinkFields
    <2> HIDE DEF c
    <2>3. TableOK(ReadTable(d, c))
      BY <2>2, ReadTableOK
    <2>4. ASSUME Has(d, c, n) PROVE Link(n, EntryOf(d, c, n).cluster) \in Links
      BY <2>3, <2>4 DEF TableOK, Has, EntryOf, Links
    <2>5. ASSUME Has(d, c, n) PROVE Append(w, Link(n, EntryOf(d, c, n).cluster)) \in Seq(Links)
      BY <2>4, <2>5
    <2> QED
      BY <1>3, <2>5 DEF PathStep, c
  <1> QED
    BY <1>1, <1>2, <1>3

\* The stacks Follow is worked out by.
Trail(d, walk, path) ==
    LET to[i \in 0 .. Len(path)] ==
          IF i = 0 THEN walk
          ELSE LET w == to[i - 1]
                   n == path[i]
               IN  IF w = <<>> \/ n = Here THEN w
                   ELSE IF n = Up THEN (IF Len(w) > 1 THEN Front(w) ELSE w)
                   ELSE IF Has(d, Last(w).cluster, n) /\ EntryOf(d, Last(w).cluster, n).dir
                     THEN Append(w, Link(n, EntryOf(d, Last(w).cluster, n).cluster))
                   ELSE <<>>
    IN  to

\* The stacks a path passes, one by one.
LEMMA TrailUnfold ==
    ASSUME NEW d, DiskOK(d), NEW walk \in Seq(Links), NEW path, Len(path) \in Nat
    PROVE  /\ Trail(d, walk, path)[0] = walk
           /\ \A i \in 1 .. Len(path) :
                Trail(d, walk, path)[i] = PathStep(d, Trail(d, walk, path)[i - 1], path[i])
           /\ Follow(d, walk, path) = Trail(d, walk, path)[Len(path)]
  <1> DEFINE N == Len(path)
             S == Seq(Links) \X Nat
             next == [y \in S |-> <<PathStep(d, y[1], path[y[2] + 1]), y[2] + 1>>]
             Body(g, i) == IF i = 0 THEN walk ELSE PathStep(d, g[i - 1], path[i])
  <1>1. N \in Nat /\ <<walk, 0>> \in S
    OBVIOUS
  <1>2. next \in [S -> S]
    BY StepIsStack
  <1>3. \E g \in [0 .. N -> S] : g = [i \in 0 .. N |-> IF i = 0 THEN <<walk, 0>> ELSE next[g[i - 1]]]
    <2> HIDE DEF next, S, N
    <2>1. Iterates(S, <<walk, 0>>, next, N) # {}
      BY <1>1, <1>2, IterationExists
    <2> QED
      BY <2>1 DEF Iterates
  <1>4. \E g : g = [i \in 0 .. N |-> Body(g, i)]
    <2>1. PICK g \in [0 .. N -> S] : g = [i \in 0 .. N |-> IF i = 0 THEN <<walk, 0>> ELSE next[g[i - 1]]]
      BY <1>3
    <2> DEFINE T == {i \in 0 .. N : g[i][2] # i}
    <2>2. \A i \in 0 .. N : i # 0 => i - 1 \in 0 .. N /\ i - 1 \in Nat
      BY <1>1
    <2>3. \A i \in 0 .. N : g[i] = IF i = 0 THEN <<walk, 0>> ELSE next[g[i - 1]]
      BY <2>1
    <2>4. \A i \in 0 .. N : i # 0 =>
            g[i] = <<PathStep(d, g[i - 1][1], path[g[i - 1][2] + 1]), g[i - 1][2] + 1>>
      <3> HIDE DEF N
      <3>1. \A i \in 0 .. N : i # 0 => g[i - 1] \in S
        BY <2>1, <2>2
      <3> QED
        BY <2>3, <3>1
    <2> HIDE DEF next, S, N
    <2>5. T = {}
      <3> SUFFICES ASSUME T # {} PROVE FALSE
        OBVIOUS
      <3>1. PICK i \in T : \A j \in T : i <= j
        <4>1. T \subseteq Nat
          BY <1>1
        <4> HIDE DEF T
        <4> QED
          BY <4>1, LeastNat
      <3>2. i \in 0 .. N /\ i # 0 /\ g[i][2] # i
        <4>1. 0 \in 0 .. N => g[0] = <<walk, 0>>
          BY <2>3
        <4> QED
          BY <4>1
      <3>3. i - 1 \in 0 .. N /\ ~(i <= i - 1)
        BY <1>1, <2>2, <3>2
      <3>4. g[i - 1][2] = i - 1
        BY <3>1, <3>3
      <3>5. g[i][2] = (i - 1) + 1
        BY <2>4, <3>2, <3>4
      <3> QED
        BY <1>1, <3>2, <3>5
    <2> DEFINE h == [i \in 0 .. N |-> g[i][1]]
    <2>6. \A i \in 0 .. N : h[i] = Body(h, i)
      <3> SUFFICES ASSUME NEW i \in 0 .. N PROVE h[i] = Body(h, i)
        OBVIOUS
      <3>1. CASE i = 0
        BY <2>3, <3>1
      <3>2. CASE i # 0
        <4>1. i - 1 \in 0 .. N /\ (i - 1) + 1 = i
          BY <1>1, <2>2, <3>2
        <4>2. g[i - 1][2] = i - 1
          BY <2>5, <4>1
        <4>3. g[i][1] = PathStep(d, g[i - 1][1], path[i])
          BY <2>4, <3>2, <4>1, <4>2
        <4> QED
          BY <3>2, <4>1, <4>3
      <3> QED
        BY <3>1, <3>2
    <2> HIDE DEF Body
    <2>7. h = [i \in 0 .. N |-> Body(h, i)]
      BY <2>6
    <2> QED
      BY <2>7
  <1>5. Trail(d, walk, path) = [i \in 0 .. N |-> Body(Trail(d, walk, path), i)]
    <2>1. Trail(d, walk, path) = CHOOSE g : g = [i \in 0 .. N |-> Body(g, i)]
      BY DEF Trail, PathStep
    <2> HIDE DEF Body
    <2> QED
      BY <1>4, <2>1
  <1>6. \A i \in 0 .. N : Trail(d, walk, path)[i] = Body(Trail(d, walk, path), i)
    BY <1>5
  <1>7. 0 \in 0 .. N /\ \A i \in 1 .. N : i \in 0 .. N /\ i # 0
    BY <1>1
  <1>8. Follow(d, walk, path) = Trail(d, walk, path)[N]
    BY DEF Follow, Trail
  <1> QED
    BY <1>6, <1>7, <1>8

\* What is a sequence of such steps is that one.
LEMMA FollowIs ==
    ASSUME NEW d, DiskOK(d), NEW walk \in Seq(Links), NEW path, Len(path) \in Nat,
           NEW g, g[0] = walk, \A i \in 1 .. Len(path) : g[i] = PathStep(d, g[i - 1], path[i])
    PROVE  \A i \in 0 .. Len(path) : g[i] = Trail(d, walk, path)[i]
  <1> DEFINE N == Len(path)
             t == Trail(d, walk, path)
             T == {i \in 0 .. N : g[i] # t[i]}
  <1>1. t[0] = walk /\ \A i \in 1 .. N : t[i] = PathStep(d, t[i - 1], path[i])
    BY TrailUnfold
  <1> HIDE DEF t
  <1> SUFFICES ASSUME T # {} PROVE FALSE
    BY DEF t
  <1>2. PICK i \in T : \A j \in T : i <= j
    <2>1. T \subseteq Nat
      OBVIOUS
    <2> HIDE DEF T
    <2> QED
      BY <2>1, LeastNat
  <1>3. i # 0 /\ i \in 1 .. N /\ i - 1 \in 0 .. N /\ ~(i <= i - 1)
    BY <1>1
  <1>4. g[i - 1] = t[i - 1]
    BY <1>2, <1>3
  <1> QED
    BY <1>1, <1>3, <1>4

\* A path without components leads nowhere else.
LEMMA FollowNothing ==
    ASSUME NEW d, DiskOK(d), NEW walk \in Seq(Links)
    PROVE  Follow(d, walk, <<>>) = walk
  BY TrailUnfold

\* All of them are stacks.
LEMMA TrailStacks ==
    ASSUME NEW d, DiskOK(d), NEW walk \in Seq(Links), NEW path, Len(path) \in Nat
    PROVE  \A i \in 0 .. Len(path) : Trail(d, walk, path)[i] \in Seq(Links)
  <1> DEFINE N == Len(path)
             t == Trail(d, walk, path)
             T == {i \in 0 .. N : t[i] \notin Seq(Links)}
  <1>1. t[0] = walk /\ \A i \in 1 .. N : t[i] = PathStep(d, t[i - 1], path[i])
    BY TrailUnfold
  <1> HIDE DEF t
  <1> SUFFICES ASSUME T # {} PROVE FALSE
    BY DEF t
  <1>2. PICK i \in T : \A j \in T : i <= j
    <2>1. T \subseteq Nat
      OBVIOUS
    <2> HIDE DEF T
    <2> QED
      BY <2>1, LeastNat
  <1>3. i # 0 /\ i \in 1 .. N /\ i - 1 \in 0 .. N /\ ~(i <= i - 1)
    BY <1>1
  <1>4. t[i - 1] \in Seq(Links)
    BY <1>2, <1>3
  <1> QED
    BY <1>1, <1>3, <1>4, StepIsStack

\* One component more.
LEMMA FollowAppend ==
    ASSUME NEW d, DiskOK(d), NEW walk \in Seq(Links), NEW S, NEW path \in Seq(S), NEW k \in Nat, k + 1 <= Len(path)
    PROVE  Follow(d, walk, SubSeq(path, 1, k + 1)) =
             PathStep(d, Follow(d, walk, SubSeq(path, 1, k)), path[k + 1])
  <1> DEFINE p == SubSeq(path, 1, k)
             q == SubSeq(path, 1, k + 1)
             g == Trail(d, walk, q)
  <1>1. Len(p) = k /\ Len(q) = k + 1 /\ q[k + 1] = path[k + 1] /\ \A i \in 1 .. k : p[i] = q[i]
    OBVIOUS
  <1> HIDE DEF p, q
  <1>2. /\ g[0] = walk /\ \A i \in 1 .. k + 1 : g[i] = PathStep(d, g[i - 1], q[i])
        /\ Follow(d, walk, q) = g[k + 1]
    BY <1>1, TrailUnfold
  <1> HIDE DEF g
  <1>3. \A i \in 1 .. k : g[i] = PathStep(d, g[i - 1], p[i])
    BY <1>1, <1>2
  <1>4. \A i \in 0 .. k : g[i] = Trail(d, walk, p)[i]
    <2>1. Len(p) \in Nat /\ g[0] = walk /\ \A i \in 1 .. Len(p) : g[i] = PathStep(d, g[i - 1], p[i])
      BY <1>1, <1>2, <1>3
    <2>2. \A i \in 0 .. Len(p) : g[i] = Trail(d, walk, p)[i]
      BY <2>1, FollowIs
    <2> QED
      BY <1>1, <2>2
  <1>5. Follow(d, walk, p) = g[k]
    BY <1>1, <1>4, TrailUnfold
  <1> QED
    BY <1>1, <1>2, <1>5 DEF p, q

\* Entry n of the directory with cluster p is a directory with cluster c.
Leads(d, p, n, c) == Has(d, p, n) /\ EntryOf(d, p, n).dir /\ EntryOf(d, p, n).cluster = c

\* A stack that is a path of directories on disk d; the clusters it passes.
Path(d, w) ==
    /\ StackOK(w)
    /\ \A i \in 1 .. Len(w) - 1 : Leads(d, w[i].cluster, w[i + 1].name, w[i + 1].cluster)

On(w) == {w[i].cluster : i \in 1 .. Len(w)}

\* There is no file below the directory with cluster c.
NoFiles(d, c) ==
    \E S \in SUBSET Clusters :
      /\ c \in S
      /\ \A x \in S : \A n \in DOMAIN ReadTable(d, x).entries :
           EntryOf(d, x, n).dir /\ EntryOf(d, x, n).cluster \in S

\* An entry <<p, n>> comes at most, for an empty directory or for a file; it goes
\* at most, and is no directory with something in it.
Grows(d, e, p, n, isdir) ==
    /\ \A q \in Clusters : \A m : Has(d, q, m) => Has(e, q, m) /\ EntryOf(e, q, m) = EntryOf(d, q, m)
    /\ \A q \in Clusters : \A m : Has(e, q, m) => Has(d, q, m) \/ (q = p /\ m = n)
    /\ Has(e, p, n) /\ ~Has(d, p, n) =>
         /\ EntryOf(e, p, n).dir = isdir
         /\ isdir => LET c == EntryOf(e, p, n).cluster
                     IN  /\ ~MakesRoot(p, n)
                         /\ c \in Clusters /\ c # ROOT_CLUSTER_NUMBER
                         /\ \A q \in Clusters : \A m : ~Leads(d, q, m, c)
                         /\ \A m : ~Has(e, c, m)

Shrinks(d, e, p, n) ==
    /\ \A q \in Clusters : \A m : Has(e, q, m) => Has(d, q, m) /\ EntryOf(e, q, m) = EntryOf(d, q, m)
    /\ \A q \in Clusters : \A m : Has(d, q, m) => Has(e, q, m) \/ (q = p /\ m = n)
    /\ Has(d, p, n) /\ ~Has(e, p, n) /\ EntryOf(d, p, n).dir =>
         \A m : ~Has(d, EntryOf(d, p, n).cluster, m)

\* Has finds the entries of a store.
LEMMA HasIsEntry ==
    ASSUME NEW d, IsStore(d), NEW p \in Clusters, NEW n
    PROVE  Has(d, p, n) <=> <<p, n>> \in EntriesOn(d)
  BY HasMeansTable, EntriesFact DEF Has

\* A directory is led to by one entry, and the root by none.
LEMMA LedToOnce ==
    ASSUME NEW d, IsStore(d), NEW p \in Clusters, NEW n, NEW c, Leads(d, p, n, c)
    PROVE  /\ c \in Clusters /\ c # ROOT_CLUSTER_NUMBER /\ n \in Names
           /\ \A q \in Clusters : \A m : Leads(d, q, m, c) => q = p /\ m = n
  <1> DEFINE x == <<p, n>>
  <1>1. x \in EntriesOn(d) /\ ClusterOf(d, x) = c /\ x[1] = p /\ x[2] = n
    BY HasIsEntry DEF Leads, ClusterOf
  <1> HIDE DEF x
  <1>2. DiskOK(d)
    BY DEF IsStore
  <1>3. c \in Clusters /\ n \in Names /\ c \in Owned(d, x)
    BY <1>1, <1>2, EntryTypes, OwnedFacts
  <1>4. c # ROOT_CLUSTER_NUMBER
    BY <1>1, <1>3 DEF IsStore, ChainsApart
  <1>5. ASSUME NEW q \in Clusters, NEW m, Leads(d, q, m, c) PROVE q = p /\ m = n
    <2> DEFINE y == <<q, m>>
    <2>1. y \in EntriesOn(d) /\ ClusterOf(d, y) = c /\ y[1] = q /\ y[2] = m
      BY <1>5, HasIsEntry DEF Leads, ClusterOf
    <2> HIDE DEF y
    <2>2. c \in Owned(d, y)
      BY <2>1, OwnedFacts
    <2>3. x = y
      BY <1>1, <1>3, <2>1, <2>2 DEF IsStore, ChainsApart
    <2> QED
      BY <1>1, <2>1, <2>3
  <1> QED
    BY <1>3, <1>4, <1>5

\* What the file system calls do to the entries.

\* Adds says that an entry comes, and with a directory nothing in it.
LEMMA AddGrows ==
    ASSUME NEW d, NEW e, NEW p \in Clusters, NEW n, NEW entry, NEW s,
           IsStore(d), IsStore(e), Adds(d, e, p, n, entry, s), entry.dir => ~MakesRoot(p, n)
    PROVE  Grows(d, e, p, n, entry.dir)
  <1> DEFINE new == <<p, n>>
             K == {s[i] : i \in 1 .. Len(s)}
  <1>1. DiskOK(d) /\ DiskOK(e)
    BY DEF IsStore
  <1>2. /\ EntriesOn(e) = EntriesOn(d) \cup {new} /\ new \notin EntriesOn(d)
        /\ \A x \in EntriesOn(d) : EntryOf(e, x[1], x[2]) = EntryOf(d, x[1], x[2])
    BY <1>1, AddKeeps
  <1>3. /\ EntryOf(e, p, n) = entry /\ entry.cluster = s[1]
        /\ \A y \in K : LoadedFat(d)[y] = EMPTY_ENTRY /\ DOMAIN ReadTable(e, y).entries = {}
        /\ s[1] \in K
    <2>1. IsPath(LoadedFat(e), s)
      BY DEF Adds
    <2>2. Len(s) \in Nat /\ Len(s) >= 1
      BY <2>1 DEF IsPath
    <2> QED
      BY <2>2 DEF Adds
  <1> HIDE DEF new, K
  <1>4. ASSUME NEW q \in Clusters, NEW m
        PROVE  /\ Has(d, q, m) => Has(e, q, m) /\ EntryOf(e, q, m) = EntryOf(d, q, m)
               /\ Has(e, q, m) => Has(d, q, m) \/ (q = p /\ m = n)
    <2> DEFINE x == <<q, m>>
    <2>1. x[1] = q /\ x[2] = m /\ (x = new => q = p /\ m = n)
      BY DEF new
    <2>2. (Has(d, q, m) <=> x \in EntriesOn(d)) /\ (Has(e, q, m) <=> x \in EntriesOn(e))
      BY HasIsEntry
    <2> HIDE DEF x
    <2> QED
      BY <1>2, <2>1, <2>2
  <1>5. ASSUME entry.dir
        PROVE  LET c == EntryOf(e, p, n).cluster
               IN  /\ c \in Clusters /\ c # ROOT_CLUSTER_NUMBER
                   /\ \A q \in Clusters : \A m : ~Leads(d, q, m, c)
                   /\ \A m : ~Has(e, c, m)
    <2> DEFINE c == EntryOf(e, p, n).cluster
    <2>1. c = s[1] /\ c \in K
      BY <1>3
    <2> HIDE DEF c
    <2>2. Has(e, p, n)
      <3>1. new \in EntriesOn(e)
        BY <1>2
      <3> QED
        BY <3>1, HasIsEntry DEF new
    <2>3. Leads(e, p, n, c)
      BY <1>3, <1>5, <2>2 DEF Leads, c
    <2>4. c \in Clusters /\ c # ROOT_CLUSTER_NUMBER
      BY <2>3, LedToOnce
    <2>5. \A m : ~Has(e, c, m)
      BY <1>3, <2>1 DEF Has
    <2>6. ASSUME NEW q \in Clusters, NEW m, Leads(d, q, m, c) PROVE FALSE
      <3> DEFINE x == <<q, m>>
      <3>1. x \in EntriesOn(d) /\ ClusterOf(d, x) = c
        BY <2>6, HasIsEntry DEF Leads, ClusterOf
      <3> HIDE DEF x
      <3>2. c \in Owned(d, x) /\ \A y \in Owned(d, x) : LoadedFat(d)[y] # EMPTY_ENTRY
        BY <3>1, OwnedFacts
      <3> QED
        BY <1>3, <2>1, <3>2
    <2> QED
      BY <2>4, <2>5, <2>6 DEF c
  <1> QED
    BY <1>3, <1>4, <1>5 DEF Grows

\* What Removes says is that an entry goes, and with a directory nothing in it.
LEMMA RemoveShrinks ==
    ASSUME NEW d, NEW e, NEW p \in Clusters, NEW n, IsStore(d), IsStore(e), Removes(d, e, p, n)
    PROVE  Shrinks(d, e, p, n)
  <1> DEFINE old == <<p, n>>
  <1>1. DiskOK(d) /\ DiskOK(e)
    BY DEF IsStore
  <1>2. /\ EntriesOn(e) = EntriesOn(d) \ {old}
        /\ \A x \in EntriesOn(d) : x # old => EntryOf(e, x[1], x[2]) = EntryOf(d, x[1], x[2])
    BY <1>1, RemoveKeeps
  <1> HIDE DEF old
  <1>4. ASSUME NEW q \in Clusters, NEW m
        PROVE  /\ Has(e, q, m) => Has(d, q, m) /\ EntryOf(e, q, m) = EntryOf(d, q, m)
               /\ Has(d, q, m) => Has(e, q, m) \/ (q = p /\ m = n)
    <2> DEFINE x == <<q, m>>
    <2>1. x[1] = q /\ x[2] = m /\ (x = old => q = p /\ m = n)
      BY DEF old
    <2>2. (Has(d, q, m) <=> x \in EntriesOn(d)) /\ (Has(e, q, m) <=> x \in EntriesOn(e))
      BY HasIsEntry
    <2> HIDE DEF x
    <2> QED
      BY <1>2, <2>1, <2>2
  <1>5. EntryOf(d, p, n).dir => \A m : ~Has(d, EntryOf(d, p, n).cluster, m)
    BY DEF Removes, Has
  <1> QED
    BY <1>4, <1>5 DEF Shrinks

\* A disk that stays has grown by nothing.
LEMMA SameGrows ==
    ASSUME NEW d, NEW p, NEW n, NEW isdir
    PROVE  Grows(d, d, p, n, isdir) /\ Shrinks(d, d, p, n)
  BY DEF Grows, Shrinks

\* sys_write makes one entry, or none.
LEMMA WriteGrows ==
    ASSUME Served, NEW p \in Clusters, NEW n \in Names, NEW size \in Sizes \cup {0}, NEW data,
           SysWrite(p, n, size, data)
    PROVE  Served' /\ Grows(disk, disk', p, n, size = 0)
  <1>1. Served' /\ SystemCall
    BY WriteIsCall, CallKeepsStore
  <1>2. OwnershipInv /\ WellUsed /\ IsStore(disk) /\ IsStore(disk')
    BY <1>1, NothingMisused, FormattedWhenUsed DEF Served, OwnershipInv
  <1>3. CASE WriteCode(p, n) # 0
    <2>1. disk' = disk
      BY <1>3 DEF SysWrite, vars
    <2> QED
      BY <1>1, <2>1, SameGrows
  <1>4. CASE WriteCode(p, n) = 0 /\ size = 0
    <2>1. WriteDirectory(p, n)
      BY <1>4 DEF SysWrite
    <2>2. losses' = losses
      BY <2>1, OperationKeepsStore
    <2>3. Adds(disk, disk', p, n, Entry(TRUE, GetEmptyCluster(fat), 0), <<GetEmptyCluster(fat)>>)
      BY <1>2, <2>1, <2>2, WriteDirectoryAdds
    <2>4. ~MakesRoot(p, n)
      BY <2>1, ShellAssumption DEF WriteDirectory
    <2>5. Entry(TRUE, GetEmptyCluster(fat), 0).dir = TRUE
      BY DEF Entry
    <2>6. Grows(disk, disk', p, n, TRUE)
      BY <1>2, <2>3, <2>4, <2>5, AddGrows
    <2> QED
      BY <1>1, <1>4, <2>6
  <1>5. CASE WriteCode(p, n) = 0 /\ size # 0
    <2>1. WriteFile(p, n, size, data) /\ size \in Sizes
      BY <1>5 DEF SysWrite
    <2>2. losses' = losses
      BY <2>1, OperationKeepsStore
    <2>3. Adds(disk, disk', p, n, Entry(FALSE, GetEmptyCluster(fat), size), NewChain(NeededClusters(size)))
      BY <1>2, <2>1, <2>2, WriteFileAdds
    <2>5. Entry(FALSE, GetEmptyCluster(fat), size).dir = FALSE
      BY DEF Entry
    <2>6. Grows(disk, disk', p, n, FALSE)
      BY <1>2, <2>3, <2>5, AddGrows
    <2>7. (size = 0) = FALSE
      BY <1>5
    <2> QED
      BY <1>1, <2>6, <2>7
  <1> QED
    BY <1>3, <1>4, <1>5

\* sys_delete removes one entry, or none.
LEMMA DeleteShrinks ==
    ASSUME Served, NEW p \in Clusters, NEW n \in Names, SysDelete(p, n)
    PROVE  /\ Served' /\ Shrinks(disk, disk', p, n)
           /\ DeleteCode(p, n) # 0 => UNCHANGED vars
  <1>1. Served' /\ SystemCall
    BY DeleteIsCall, CallKeepsStore
  <1>2. OwnershipInv /\ WellUsed /\ IsStore(disk) /\ IsStore(disk')
    BY <1>1, NothingMisused, FormattedWhenUsed DEF Served, OwnershipInv
  <1>3. CASE DeleteCode(p, n) # 0
    <2>1. disk' = disk /\ UNCHANGED vars
      BY <1>3 DEF SysDelete, vars
    <2> QED
      BY <1>1, <2>1, SameGrows
  <1>4. CASE DeleteCode(p, n) = 0
    <2>1. Delete(p, n)
      BY <1>4 DEF SysDelete
    <2>2. losses' = losses
      BY <2>1, OperationKeepsStore
    <2>3. Removes(disk, disk', p, n)
      BY <1>2, <2>1, <2>2, DeleteRemoves
    <2> QED
      BY <1>1, <1>2, <1>4, <2>3, RemoveShrinks
  <1> QED
    BY <1>3, <1>4

-----------------------------------------------------------------------------
\* Paths.

\* What a path is made of.
LEMMA PathHas ==
    ASSUME NEW d, NEW w, Path(d, w)
    PROVE  /\ StackOK(w) /\ w \in Seq(Links) /\ Len(w) \in Nat /\ Len(w) > 0 /\ w # <<>>
           /\ \A i \in 1 .. Len(w) : w[i] \in Links /\ w[i].cluster \in Clusters /\ w[i].name \in Names
           /\ On(w) \subseteq Clusters
           /\ Last(w) = w[Len(w)] /\ Last(w).cluster \in On(w) /\ Last(w).cluster \in Clusters
  <1>1. StackOK(w) /\ w \in Seq(Links) /\ Len(w) \in Nat /\ Len(w) > 0
    BY DEF Path, StackOK
  <1>2. \A i \in 1 .. Len(w) : w[i] \in Links
    BY <1>1
  <1>3. \A i \in 1 .. Len(w) : w[i].cluster \in Clusters /\ w[i].name \in Names
    BY <1>2, LinkFields
  <1>4. Last(w) = w[Len(w)] /\ Len(w) \in 1 .. Len(w) /\ w # <<>>
    BY <1>1 DEF Last
  <1> QED
    BY <1>1, <1>2, <1>3, <1>4 DEF On

\* The root alone is a path.
LEMMA RootPath == \A d : Path(d, <<RootLink>>)
  <1> DEFINE r == RootLink
  <1>1. StackOK(<<r>>)
    BY RootLinkOK
  <1>2. Len(<<r>>) = 1
    OBVIOUS
  <1> HIDE DEF r
  <1>3. \A d : Path(d, <<r>>)
    <2>1. 1 .. Len(<<r>>) - 1 = {}
      BY <1>2
    <2> QED
      BY <1>1, <2>1 DEF Path
  <1> QED
    BY <1>3 DEF r

\* Pushing a directory that the top holds leaves a path,
LEMMA PathExtends ==
    ASSUME NEW d, NEW w, Path(d, w), NEW n \in Names, NEW c \in Clusters, Leads(d, Last(w).cluster, n, c)
    PROVE  /\ Path(d, Append(w, Link(n, c))) /\ Last(Append(w, Link(n, c))) = Link(n, c)
           /\ Len(Append(w, Link(n, c))) = Len(w) + 1
           /\ Front(Append(w, Link(n, c))) = w
           /\ \A i \in 1 .. Len(w) : Append(w, Link(n, c))[i] = w[i]
  <1> DEFINE x == Link(n, c)
             v == Append(w, x)
             N == Len(w)
  <1>1. x \in Links /\ x.name = n /\ x.cluster = c
    BY DEF Links, Link
  <1>2. StackOK(w) /\ w \in Seq(Links) /\ N \in Nat /\ N > 0 /\ Last(w) = w[N]
    BY PathHas
  <1> HIDE DEF x
  <1>3. StackOK(v) /\ Len(v) = N + 1 /\ v[N + 1] = x /\ \A i \in 1 .. N : v[i] = w[i]
    BY <1>1, <1>2, AppendOK
  <1>4. v \in Seq(Links)
    BY <1>3 DEF StackOK
  <1> HIDE DEF v, N
  <1>5. \A i \in 1 .. N - 1 : Leads(d, w[i].cluster, w[i + 1].name, w[i + 1].cluster)
    BY DEF Path, N
  <1>6. ASSUME NEW i \in 1 .. N PROVE Leads(d, v[i].cluster, v[i + 1].name, v[i + 1].cluster)
    <2>1. CASE i = N
      BY <1>1, <1>2, <1>3, <2>1
    <2>2. CASE i # N
      <3>1. i \in 1 .. N - 1 /\ i + 1 \in 1 .. N
        BY <1>2, <2>2
      <3> QED
        BY <1>3, <1>5, <3>1
    <2> QED
      BY <2>1, <2>2
  <1>7. (N + 1) - 1 = N
    BY <1>2
  <1>8. Path(d, v)
    BY <1>3, <1>6, <1>7 DEF Path
  <1>9. Last(v) = x
    BY <1>3, <1>4 DEF Last
  <1>10. Front(v) = w
    <2>1. Front(v) \in Seq(Links) /\ Len(Front(v)) = N /\ \A i \in 1 .. N : Front(v)[i] = v[i]
      BY <1>2, <1>3, <1>4, <1>7, FrontIs
    <2>2. \A i \in 1 .. N : Front(v)[i] = w[i]
      BY <1>3, <2>1
    <2>3. \A A : \A a, b \in Seq(A) : Len(a) = Len(b) /\ (\A i \in 1 .. Len(a) : a[i] = b[i]) => a = b
      OBVIOUS
    <2> QED
      BY <1>2, <2>1, <2>2, <2>3 DEF N
  <1> QED
    BY <1>3, <1>8, <1>9, <1>10 DEF v, x, N

\* and so does taking the top away,
LEMMA PathFront ==
    ASSUME NEW d, NEW w, Path(d, w), Len(w) > 1
    PROVE  /\ Path(d, Front(w)) /\ Last(Front(w)) = w[Len(w) - 1] /\ On(Front(w)) \subseteq On(w)
           /\ Leads(d, w[Len(w) - 1].cluster, Last(w).name, Last(w).cluster)
           /\ w[Len(w) - 1].cluster \in Clusters
  <1> DEFINE v == Front(w)
             N == Len(w)
  <1>1. /\ StackOK(w) /\ w \in Seq(Links) /\ N \in Nat /\ Last(w) = w[N]
        /\ \A i \in 1 .. N : w[i].cluster \in Clusters
    BY PathHas
  <1>2. v \in Seq(Links) /\ Len(v) = N - 1 /\ \A i \in 1 .. N - 1 : v[i] = w[i]
    BY <1>1, FrontIs
  <1>3. \A i \in 1 .. N - 1 : Leads(d, w[i].cluster, w[i + 1].name, w[i + 1].cluster)
    BY DEF Path
  <1>4. w[1] = RootLink
    BY DEF Path, StackOK
  <1> HIDE DEF v
  <1>5. N > 1 /\ 1 \in 1 .. N - 1 /\ N - 1 \in 1 .. N /\ N - 1 \in 1 .. N - 1 /\ (N - 1) + 1 = N
    BY <1>1
  <1> HIDE DEF N
  <1>6. StackOK(v)
    BY <1>2, <1>4, <1>5 DEF StackOK
  <1>7. Path(d, v)
    <2>1. \A i \in 1 .. (N - 1) - 1 : i \in 1 .. N - 1 /\ i + 1 \in 1 .. N - 1
      BY <1>1
    <2> QED
      BY <1>2, <1>3, <1>6, <2>1 DEF Path
  <1>8. Last(v) = w[N - 1]
    BY <1>2, <1>5 DEF Last
  <1>9. On(v) \subseteq On(w)
    <2>1. \A i \in 1 .. N - 1 : i \in 1 .. N
      BY <1>1
    <2> QED
      BY <1>2, <2>1 DEF On, N
  <1> QED
    BY <1>1, <1>3, <1>5, <1>7, <1>8, <1>9 DEF v, N

\* which pop does, but for the root.
LEMMA PathPopped ==
    ASSUME NEW d, NEW w, Path(d, w) PROVE Path(d, Popped(w))
  BY PathFront DEF Popped

\* A path is where its names lead.
LEMMA PathIsFollowed ==
    ASSUME NEW d, DiskOK(d), NEW w, Path(d, w)
    PROVE  Follow(d, <<RootLink>>, [i \in 1 .. Len(w) - 1 |-> w[i + 1].name]) = w
  <1> DEFINE N == Len(w)
             path == [i \in 1 .. N - 1 |-> w[i + 1].name]
             g == [i \in 0 .. N - 1 |-> SubSeq(w, 1, i + 1)]
             start == <<RootLink>>
  <1>1. /\ w \in Seq(Links) /\ N \in Nat /\ N > 0
        /\ \A i \in 1 .. N : w[i] \in Links /\ w[i].cluster \in Clusters /\ w[i].name \in Names
    BY PathHas
  <1>2. w[1] = RootLink /\ start \in Seq(Links)
    BY RootLinkOK DEF Path, StackOK
  <1>3. \A i \in 1 .. N - 1 : Leads(d, w[i].cluster, w[i + 1].name, w[i + 1].cluster)
    BY DEF Path
  <1>4. Len(path) = N - 1 /\ Len(path) \in Nat /\ \A i \in 1 .. N - 1 : path[i] = w[i + 1].name
    <2>1. path \in Seq(Names) /\ Len(path) = N - 1
      BY <1>1
    <2> QED
      BY <1>1, <2>1
  <1>5. g[0] = start
    <2>1. SubSeq(w, 1, 1) = <<w[1]>>
      <3>1. \A A : \A v \in Seq(A) : Len(v) > 0 => Len(SubSeq(v, 1, 1)) = 1 /\ SubSeq(v, 1, 1)[1] = v[1]
        OBVIOUS
      <3>2. SubSeq(w, 1, 1) \in Seq(Links)
        BY <1>1
      <3>3. \A A : \A v \in Seq(A) : Len(v) = 1 => v = <<v[1]>>
        OBVIOUS
      <3> QED
        BY <1>1, <3>1, <3>2, <3>3
    <2> QED
      BY <1>1, <1>2, <2>1
  <1>6. ASSUME NEW i \in 1 .. N - 1 PROVE g[i] = PathStep(d, g[i - 1], path[i])
    <2> DEFINE v == SubSeq(w, 1, i)
               n == w[i + 1].name
               c == w[i + 1].cluster
    <2>1. g[i - 1] = v /\ g[i] = SubSeq(w, 1, i + 1)
      BY <1>1
    <2>2. v \in Seq(Links) /\ Len(v) = i /\ v[i] = w[i] /\ v # <<>>
      BY <1>1
    <2>3. SubSeq(w, 1, i + 1) = Append(v, w[i + 1])
      BY <1>1
    <2>4. i + 1 \in 1 .. N /\ i \in 1 .. N
      BY <1>1
    <2>5. w[i + 1] = Link(n, c)
      BY <1>1, <2>4, LinkFields
    <2>6. Last(v) = w[i]
      BY <2>2 DEF Last
    <2>7. n \notin {Up, Here}
      BY <1>1, <2>4, ShellAssumption
    <2>8. Leads(d, w[i].cluster, n, c)
      BY <1>3
    <2>9. path[i] = n
      BY <1>4
    <2> HIDE DEF v, n, c, path, g
    <2>10. PathStep(d, v, n) = Append(v, Link(n, c))
      BY <2>2, <2>6, <2>7, <2>8 DEF PathStep, Leads
    <2> QED
      BY <2>1, <2>3, <2>5, <2>9, <2>10
  <1>7. g[N - 1] = w
    <2>1. SubSeq(w, 1, N) = w /\ (N - 1) + 1 = N /\ N - 1 \in 0 .. N - 1
      BY <1>1
    <2> QED
      BY <2>1
  <1> HIDE DEF g, path, start
  <1>8. \A i \in 0 .. Len(path) : g[i] = Trail(d, start, path)[i]
    <2>1. \A i \in 1 .. Len(path) : g[i] = PathStep(d, g[i - 1], path[i])
      BY <1>4, <1>6
    <2>2. /\ start \in Seq(Links) /\ Len(path) \in Nat /\ g[0] = start
          /\ \A i \in 1 .. Len(path) : g[i] = PathStep(d, g[i - 1], path[i])
      BY <1>2, <1>4, <1>5, <2>1
    <2> QED
      BY <2>2, FollowIs
  <1>9. Follow(d, start, path) = Trail(d, start, path)[Len(path)] /\ Len(path) \in 0 .. Len(path)
    BY <1>2, <1>4, TrailUnfold
  <1>10. Follow(d, start, path) = w
    BY <1>4, <1>7, <1>8, <1>9
  <1> QED
    BY <1>10 DEF path, start, N

-----------------------------------------------------------------------------
\* What the calls do to paths.

\* An entry that is there stays when another comes.
LEMMA LeadsGrows ==
    ASSUME NEW d, NEW e, NEW p, NEW n, NEW isdir, Grows(d, e, p, n, isdir),
           NEW q \in Clusters, NEW m, NEW c, Leads(d, q, m, c)
    PROVE  Leads(e, q, m, c)
  BY DEF Grows, Leads

\* An entry more leaves every path a path.
LEMMA PathGrows ==
    ASSUME NEW d, NEW e, NEW p, NEW n, NEW isdir, Grows(d, e, p, n, isdir), NEW w, Path(d, w)
    PROVE  Path(e, w)
  <1>1. StackOK(w) /\ Len(w) \in Nat /\ \A i \in 1 .. Len(w) : w[i].cluster \in Clusters
    BY PathHas
  <1>2. \A i \in 1 .. Len(w) - 1 : i \in 1 .. Len(w)
    BY <1>1
  <1> QED
    BY <1>1, <1>2, LeadsGrows DEF Path

\* One less does too, unless it led to a directory on it.
LEMMA PathShrinks ==
    ASSUME NEW d, NEW e, NEW p, NEW n, Shrinks(d, e, p, n), NEW w, Path(d, w),
           \A c : Leads(d, p, n, c) /\ (\A m : ~Has(d, c, m)) => c \notin On(w)
    PROVE  Path(e, w)
  <1>1. StackOK(w) /\ Len(w) \in Nat /\ \A i \in 1 .. Len(w) : w[i].cluster \in Clusters
    BY PathHas
  <1>2. ASSUME NEW i \in 1 .. Len(w) - 1
        PROVE  Leads(e, w[i].cluster, w[i + 1].name, w[i + 1].cluster)
    <2> DEFINE q == w[i].cluster
               m == w[i + 1].name
               c == w[i + 1].cluster
    <2>1. Leads(d, q, m, c)
      BY DEF Path
    <2>2. q \in Clusters /\ c \in On(w)
      <3>1. i \in 1 .. Len(w) /\ i + 1 \in 1 .. Len(w)
        BY <1>1
      <3> QED
        BY <1>1, <3>1 DEF On
    <2> HIDE DEF q, m, c
    <2>3. Has(e, q, m)
      <3> SUFFICES ASSUME ~Has(e, q, m) PROVE FALSE
        OBVIOUS
      <3>1. q = p /\ m = n
        BY <2>1, <2>2 DEF Shrinks, Leads
      <3>2. \A k : ~Has(d, c, k)
        BY <2>1, <3>1 DEF Shrinks, Leads
      <3> QED
        BY <2>1, <2>2, <3>1, <3>2
    <2>4. Leads(e, q, m, c)
      BY <2>1, <2>2, <2>3 DEF Shrinks, Leads
    <2> QED
      BY <2>4 DEF q, m, c
  <1> QED
    BY <1>1, <1>2 DEF Path

\* An empty directory that stands in the top of a path is not on it.
LEMMA EmptyIsNotOn ==
    ASSUME NEW d, NEW w, Path(d, w), NEW n, NEW c, Leads(d, Last(w).cluster, n, c), \A m : ~Has(d, c, m)
    PROVE  c \notin On(w)
  <1> SUFFICES ASSUME NEW i \in 1 .. Len(w), w[i].cluster = c PROVE FALSE
    BY DEF On
  <1>1. Len(w) \in Nat /\ Last(w) = w[Len(w)]
    BY PathHas
  <1>2. CASE i = Len(w)
    BY <1>1, <1>2 DEF Leads
  <1>3. CASE i # Len(w)
    <2>1. i \in 1 .. Len(w) - 1
      BY <1>1, <1>3
    <2>2. Leads(d, w[i].cluster, w[i + 1].name, w[i + 1].cluster)
      BY <2>1 DEF Path
    <2> QED
      BY <2>2 DEF Leads
  <1> QED
    BY <1>2, <1>3

\* A directory on a path is there with the one it is in.
LEMMA HolderIsOn ==
    ASSUME NEW d, IsStore(d), NEW w, Path(d, w), NEW p \in Clusters, NEW n, NEW c, Leads(d, p, n, c), c \in On(w)
    PROVE  p \in On(w)
  <1>1. PICK i \in 1 .. Len(w) : w[i].cluster = c
    BY DEF On
  <1>2. Len(w) \in Nat /\ \A j \in 1 .. Len(w) : w[j].cluster \in Clusters
    BY PathHas
  <1>3. c # ROOT_CLUSTER_NUMBER /\ \A q \in Clusters : \A m : Leads(d, q, m, c) => q = p
    BY LedToOnce
  <1>4. w[1].cluster = ROOT_CLUSTER_NUMBER
    BY DEF Path, StackOK, RootLink, Link
  <1>5. i - 1 \in 1 .. Len(w) - 1 /\ i - 1 \in 1 .. Len(w) /\ (i - 1) + 1 = i
    BY <1>1, <1>2, <1>3, <1>4
  <1>6. Leads(d, w[i - 1].cluster, w[i].name, c)
    BY <1>1, <1>5 DEF Path
  <1>7. w[i - 1].cluster = p
    BY <1>2, <1>3, <1>5, <1>6
  <1> QED
    BY <1>5, <1>7 DEF On

-----------------------------------------------------------------------------
\* Trees of directories.

\* What NoFiles says of a directory, it says of those in it.
LEMMA NoFilesFacts ==
    ASSUME NEW d, NEW c, NoFiles(d, c)
    PROVE  /\ c \in Clusters
           /\ \A n \in DOMAIN ReadTable(d, c).entries : EntryOf(d, c, n).dir
           /\ \A n, x : Leads(d, c, n, x) => NoFiles(d, x)
  BY DEF NoFiles, Leads, Has

\* A directory that comes brings no files,
LEMMA NoFilesGrows ==
    ASSUME NEW d, NEW e, NEW p, NEW n, Grows(d, e, p, n, TRUE), NEW c, NoFiles(d, c)
    PROVE  NoFiles(e, c)
  <1>1. PICK S \in SUBSET Clusters :
          /\ c \in S
          /\ \A x \in S : \A m : Has(d, x, m) => EntryOf(d, x, m).dir /\ EntryOf(d, x, m).cluster \in S
    BY DEF NoFiles, Has
  <1> DEFINE new == IF Has(e, p, n) /\ ~Has(d, p, n) THEN {EntryOf(e, p, n).cluster} ELSE {}
             T == S \cup new
  <1>2. T \in SUBSET Clusters /\ c \in T /\ \A x \in new : \A m : ~Has(e, x, m)
    BY <1>1 DEF Grows
  <1>3. ASSUME NEW x \in T, NEW m, Has(e, x, m)
        PROVE  EntryOf(e, x, m).dir /\ EntryOf(e, x, m).cluster \in T
    <2>1. x \in S /\ x \in Clusters
      BY <1>2, <1>3
    <2>2. CASE Has(d, x, m)
      <3>1. EntryOf(e, x, m) = EntryOf(d, x, m)
        BY <2>1, <2>2 DEF Grows
      <3> QED
        BY <1>1, <2>1, <2>2, <3>1
    <2>3. CASE ~Has(d, x, m)
      <3>1. x = p /\ m = n
        BY <1>3, <2>1, <2>3 DEF Grows
      <3>2. EntryOf(e, p, n).dir /\ EntryOf(e, p, n).cluster \in new
        BY <1>3, <2>3, <3>1 DEF Grows
      <3> QED
        BY <3>1, <3>2
    <2> QED
      BY <2>2, <2>3
  <1> HIDE DEF T
  <1> QED
    BY <1>2, <1>3 DEF NoFiles, Has

\* and what goes brings none either.
LEMMA NoFilesShrinks ==
    ASSUME NEW d, NEW e, NEW p, NEW n, Shrinks(d, e, p, n), NEW c, NoFiles(d, c)
    PROVE  NoFiles(e, c)
  <1>1. PICK S \in SUBSET Clusters :
          /\ c \in S
          /\ \A x \in S : \A m : Has(d, x, m) => EntryOf(d, x, m).dir /\ EntryOf(d, x, m).cluster \in S
    BY DEF NoFiles, Has
  <1>2. ASSUME NEW x \in S, NEW m, Has(e, x, m)
        PROVE  EntryOf(e, x, m).dir /\ EntryOf(e, x, m).cluster \in S
    <2>1. Has(d, x, m) /\ EntryOf(e, x, m) = EntryOf(d, x, m)
      BY <1>2 DEF Shrinks
    <2> QED
      BY <1>1, <2>1
  <1> QED
    BY <1>1, <1>2 DEF NoFiles, Has

\* What a path leads to it leads to still when an entry was added.
LEMMA FollowGrows ==
    ASSUME NEW d, DiskOK(d), NEW e, DiskOK(e), NEW p, NEW n, NEW isdir, Grows(d, e, p, n, isdir),
           NEW walk \in Seq(Links), NEW path, Len(path) \in Nat, Follow(d, walk, path) # <<>>
    PROVE  Follow(e, walk, path) = Follow(d, walk, path)
  <1> DEFINE N == Len(path)
             t == Trail(d, walk, path)
             T == {k \in 0 .. N : t[N - k] = <<>>}
  <1>1. /\ t[0] = walk /\ \A i \in 1 .. N : t[i] = PathStep(d, t[i - 1], path[i])
        /\ Follow(d, walk, path) = t[N]
    BY TrailUnfold
  <1>2. \A i \in 0 .. N : t[i] \in Seq(Links)
    BY TrailStacks
  <1> HIDE DEF t
  <1>3. T = {}
    <2> SUFFICES ASSUME T # {} PROVE FALSE
      OBVIOUS
    <2>1. PICK k \in T : \A j \in T : k <= j
      <3>1. T \subseteq Nat
        OBVIOUS
      <3> HIDE DEF T
      <3> QED
        BY <3>1, LeastNat
    <2>2. k # 0 /\ k \in 1 .. N
      BY <1>1
    <2>3. k - 1 \in 0 .. N /\ ~(k <= k - 1) /\ N - (k - 1) \in 1 .. N /\ (N - (k - 1)) - 1 = N - k
      BY <2>2
    <2>4. t[N - (k - 1)] # <<>>
      BY <2>1, <2>3
    <2>5. t[N - k] = <<>>
      BY <2>1
    <2>6. PathStep(d, <<>>, path[N - (k - 1)]) = <<>>
      BY DEF PathStep
    <2> QED
      BY <1>1, <2>3, <2>4, <2>5, <2>6
  <1>4. \A i \in 0 .. N : t[i] # <<>>
    <2> TAKE i \in 0 .. N
    <2>1. N - i \in 0 .. N /\ N - (N - i) = i
      OBVIOUS
    <2> QED
      BY <1>3, <2>1
  <1>5. ASSUME NEW i \in 1 .. N PROVE t[i] = PathStep(e, t[i - 1], path[i])
    <2> DEFINE w == t[i - 1]
               m == path[i]
               q == Last(w).cluster
    <2>1. i - 1 \in 0 .. N /\ i \in 0 .. N
      OBVIOUS
    <2>2. w \in Seq(Links) /\ w # <<>> /\ t[i] = PathStep(d, w, m) /\ t[i] # <<>>
      BY <1>1, <1>2, <1>4, <2>1
    <2>3. q \in Clusters
      <3>1. Last(w) \in Links
        BY <2>2 DEF Last
      <3> QED
        BY <3>1, LinkFields
    <2> HIDE DEF q, m, w
    <2>4. ASSUME m = Here \/ m = Up PROVE t[i] = PathStep(e, w, m)
      <3>1. PathStep(d, w, m) = PathStep(e, w, m)
        BY <2>2, <2>4 DEF PathStep
      <3> QED
        BY <2>2, <3>1
    <2>5. ASSUME ~(m = Here \/ m = Up) PROVE t[i] = PathStep(e, w, m)
      <3>1. Has(d, q, m) /\ EntryOf(d, q, m).dir
        BY <2>2, <2>5 DEF PathStep, q
      <3>2. Has(e, q, m) /\ EntryOf(e, q, m) = EntryOf(d, q, m)
        BY <2>3, <3>1 DEF Grows
      <3> QED
        BY <2>2, <2>5, <3>1, <3>2 DEF PathStep, q
    <2>6. t[i] = PathStep(e, w, m)
      BY <2>4, <2>5
    <2> QED
      BY <2>6 DEF w, m
  <1>6. \A i \in 0 .. N : t[i] = Trail(e, walk, path)[i]
    BY <1>1, <1>5, FollowIs
  <1>7. Follow(e, walk, path) = Trail(e, walk, path)[N] /\ N \in 0 .. N
    BY TrailUnfold
  <1> QED
    BY <1>1, <1>6, <1>7

-----------------------------------------------------------------------------
\* The inductive invariant, of disk d, all the shells' stacks D, the stack w of
\* the shell, the line l it works on and a frame f of its command.

\* The root has no entry with its own name: read_directory would not look it up.
RootFree(d) == \A c \in Clusters : ~Leads(d, ROOT_CLUSTER_NUMBER, RootName, c)

\* A directory that may be removed: no shell is in it or below, and no file is.
Free(D, c) == \A z \in Shells : c \notin On(D[z])
Doomed(d, D, c) == Free(D, c) /\ NoFiles(d, c)
FolderDoomed(d, D, p, n) == p # NoCluster => \A c \in Clusters : Leads(d, p, n, c) => Doomed(d, D, c)

\* The components of a path, and the paths that do not name the root.
Parts == Names \cup {Up, Here}
Rootless(path) == path \in Seq(Parts \ {RootName})

\* The line removes something.
Kills(l) == l.cmd \in {"rm", "mv"}

\* The loop stands where the part of the line's path leads that it has behind it.
Led(d, w, l, f) ==
    /\ Rootless(l.path)
    /\ \E k \in 0 .. Len(l.path) :
         /\ f.rest = SubSeq(l.path, k + 1, Len(l.path))
         /\ Follow(d, w, SubSeq(l.path, 1, k)) = f.walk

\* rm names what may be removed: the one component it has left, or what the whole
\* line names; read_directory opens it only where it is no second root.
RmGood(d, D, w, l, f) ==
    /\ Kills(l)
    /\ f.rest \in Seq(Parts) /\ f.rest # <<>> /\ Last(f.rest) \in Names
    /\ \/ Len(f.rest) = 1 /\ FolderDoomed(d, D, Last(f.walk).cluster, f.rest[1])
       \/ /\ Rootless(f.rest) /\ Led(d, w, l, f)
          /\ FolderDoomed(d, D, Place(d, w, l.path)[1], Place(d, w, l.path)[2])
    /\ f.at = "open" => Len(f.rest) = 1 /\ ~MakesRoot(Last(f.walk).cluster, Head(f.rest))

\* rm is among the children of such a directory, and none of them is a file.
FlushGood(d, D, l, f) ==
    /\ Kills(l)
    /\ Len(f.walk) > 1 /\ f.holder = f.walk[Len(f.walk) - 1].cluster /\ f.name = Last(f.walk).name
    /\ Doomed(d, D, Last(f.walk).cluster)
    /\ \A n \in f.left : f.table.entries[n].dir

\* Directory p holds a directory n.
IsFolderAt(d, p, n) == \E c \in Clusters : Leads(d, p, n, c)

\* The destination does not name the root; mv stands in its working directory, and
\* what it will remove may be removed, and is looked up as what it is.
SourceGood(d, D, w, f) ==
    LET top == Last(w).cluster
        t == ReadTable(d, top)
    IN  /\ Rootless(f.to)
        /\ f.mv => /\ f.walk = w /\ f.rest = <<f.name>>
                   /\ FolderDoomed(d, D, top, f.name)
                   /\ f.name \notin {t.self.name, t.parent.name}
                   /\ f.at = "peek" => f.size = -1
                   /\ f.at = "name" => f.dir = {IsFolderAt(d, top, f.name)}

\* What is left of a table that was read names directories without files.
Clean(d, t) == (\A n \in DOMAIN t.entries : t.entries[n].dir) /\ NoFiles(d, t.self.cluster)

\* mv still has to remove it; what it takes along of a directory is Clean.
DestGood(d, D, w, f) ==
    LET top == Last(w).cluster
    IN  f.mv => /\ FolderDoomed(d, D, top, f.name)
                /\ f.isfile => ~IsFolderAt(d, top, f.name)
                /\ ~f.isfile => Clean(d, f.want)

\* find stands at the top of its stack, and below it is no second root.
ScanGood(f) ==
    f.at = "each" => /\ f.cwd.self = Last(f.walk)
                     /\ \A n \in DOMAIN f.cwd.entries :
                          f.cwd.entries[n].dir => ~MakesRoot(Last(f.walk).cluster, n)

\* What every frame keeps.
Good(d, D, w, l, f) ==
    /\ f.fn \in Loops \cup {"flush", "scan"} => Path(d, f.walk)
    /\ f.fn \in Loops /\ f.at # "peek" => f.cwd.self = Last(f.walk)
    /\ f.fn \in Loops /\ f.at \in {"name", "write", "open"} => f.rest # <<>>
    /\ f.fn \in Loops \ {"rm"} => Rootless(f.rest)
    /\ f.fn = "cd" => l.cmd = "cd" /\ Led(d, w, l, f)
    /\ f.fn \in {"source", "dest"} =>
         f.name # RootName /\ l.cmd \in {"cp", "mv"} /\ (f.mv <=> l.cmd = "mv")
    /\ f.fn = "rm" => RmGood(d, D, w, l, f)
    /\ f.fn = "flush" => FlushGood(d, D, l, f)
    /\ f.fn = "source" => SourceGood(d, D, w, f)
    /\ f.fn = "dest" => DestGood(d, D, w, f)
    /\ f.fn = "copy" => l.cmd \in {"cp", "mv"} /\ (l.cmd = "mv" => Clean(d, f.want))
    /\ f.fn = "scan" => ScanGood(f)

AllGood(d, D, w, l, c) == \A i \in DOMAIN c : Good(d, D, w, l, c[i])

\* Frame a may run while frame b waits for it.
Under(a, b) ==
    /\ a.fn \in Loops => a.fn = "rm" /\ Len(a.rest) = 1
    /\ a.fn \in {"rm", "flush"} =>
         /\ b.fn = "flush"
         /\ On(b.walk) \subseteq On(IF a.fn = "rm" THEN a.walk ELSE Front(a.walk))
    /\ a.fn = "copy" => b.fn = "copy" \/ (b.fn = "dest" /\ ~b.isfile)

Nested(c) == \A i, j \in DOMAIN c : i < j => Under(c[i], c[j])

\* Who removes is alone.
Apart ==
    \A s \in Shells : call[s] # <<>> =>
        /\ Kills(line[s]) => line[s].alone
        /\ line[s].alone => Running = {s}

\* The four together.
PathInv ==
    /\ RootFree(disk)
    /\ \A s \in Shells : /\ Path(disk, dts[s])
                         /\ Nested(call[s])
                         /\ AllGood(disk, dts, dts[s], line[s], call[s])
    /\ Apart

-----------------------------------------------------------------------------
\* What a program reads along a path.

\* No cluster has the number of a zeroed entry.
LEMMA IsNoCluster == \A p \in Clusters : p # NoCluster
  BY Numbers DEF NoCluster, Clusters

\* The disk is a store.
LEMMA StoreServed ==
    ASSUME Served PROVE IsStore(disk) /\ DiskOK(disk)
  BY FormattedWhenUsed DEF Served, IsStore

\* A directory that is read is led to, and it says so.
LEMMA ReadBelow ==
    ASSUME Served, NEW p \in Clusters, NEW n, Reads(p, n), ~MakesRoot(p, n)
    PROVE  LET t == ReadDirectory(p, n)
               c == t.self.cluster
           IN  /\ Known(t) /\ n \in Names /\ c \in Clusters
               /\ t.self = Link(n, c) /\ Leads(disk, p, n, c) /\ t = ReadTable(disk, c)
  <1> DEFINE t == ReadDirectory(p, n)
             c == EntryOf(disk, p, n).cluster
  <1>0. ~(p = ROOT_CLUSTER_NUMBER /\ n = RootName)
    BY DEF MakesRoot
  <1>1. /\ Known(t) /\ <<p, n>> \in EntriesOn(disk) /\ EntryOf(disk, p, n).dir
        /\ t.self = Link(n, c)
    BY <1>0, ReadIsKnown
  <1>2. t = ReadTable(disk, c)
    BY <1>0 DEF ReadDirectory
  <1>3. IsStore(disk)
    BY StoreServed
  <1>4. Leads(disk, p, n, c)
    BY <1>1, <1>3, HasIsEntry DEF Leads
  <1>5. c \in Clusters /\ n \in Names
    BY <1>3, <1>4, LedToOnce
  <1> HIDE DEF t, c
  <1>6. t.self.cluster = c
    BY <1>1 DEF Link
  <1> QED
    BY <1>1, <1>2, <1>4, <1>5, <1>6 DEF t

\* A directory that is there is read.
LEMMA LedIsRead ==
    ASSUME NEW p, NEW n, NEW c, Leads(disk, p, n, c)
    PROVE  Reads(p, n)
  BY DEF Leads, Reads, ReadDirectoryCode

\* peek reads the directory at the top.
LEMMA PeekedTop ==
    ASSUME Served, RootFree(disk), NEW f, Path(disk, f.walk)
    PROVE  LET t == Peeked(f)
               top == Last(f.walk)
           IN  Known(t) /\ t = ReadTable(disk, top.cluster) /\ t.self = top
  <1> DEFINE w == f.walk
             top == Last(w)
             holder == IF Len(w) > 1 THEN w[Len(w) - 1].cluster ELSE top.cluster
  <1>1. Peeked(f) = IF Reads(holder, top.name) THEN ReadDirectory(holder, top.name) ELSE f.cwd
    BY DEF Peeked
  <1>2. /\ Len(w) \in Nat /\ Len(w) > 0 /\ top = w[Len(w)] /\ top.cluster \in Clusters
        /\ w[1] = RootLink /\ top \in Links
    <2>1. Len(w) \in 1 .. Len(w)
      BY PathHas
    <2> QED
      BY <2>1, PathHas DEF Path, StackOK
  <1>3. CASE Len(w) > 1
    <2>1. Leads(disk, holder, top.name, top.cluster) /\ holder \in Clusters
      BY <1>3, PathFront
    <2>2. top = Link(top.name, top.cluster)
      BY <1>2, LinkFields
    <2> HIDE DEF w, top, holder
    <2>3. ~MakesRoot(holder, top.name)
      BY <1>2, <2>1 DEF MakesRoot, RootFree
    <2>4. Reads(holder, top.name)
      BY <2>1, LedIsRead
    <2> DEFINE t == ReadDirectory(holder, top.name)
               c == t.self.cluster
    <2>5. /\ Known(t) /\ c \in Clusters
          /\ t.self = Link(top.name, c) /\ Leads(disk, holder, top.name, c) /\ t = ReadTable(disk, c)
      BY <2>1, <2>3, <2>4, ReadBelow
    <2> HIDE DEF t, c
    <2>6. c = top.cluster
      BY <2>1, <2>5 DEF Leads
    <2>7. Peeked(f) = t
      BY <1>1, <2>4 DEF t
    <2> QED
      BY <2>2, <2>5, <2>6, <2>7 DEF w, top
  <1>4. CASE ~(Len(w) > 1)
    <2> HIDE DEF w, top, holder
    <2>0. Len(w) = 1
      <3>1. Len(w) \in Nat /\ Len(w) > 0
        BY <1>2
      <3>2. \A x \in Nat : x > 0 /\ ~(x > 1) => x = 1
        OBVIOUS
      <3> QED
        BY <1>4, <3>1, <3>2
    <2>1. top = RootLink
      BY <1>2, <2>0
    <2>2. holder = ROOT_CLUSTER_NUMBER /\ top.name = RootName /\ top.cluster = ROOT_CLUSTER_NUMBER
      BY <1>4, <2>1 DEF RootLink, Link, holder
    <2>3. Reads(holder, top.name)
      BY <2>2 DEF Reads, ReadDirectoryCode
    <2>4. Known(ReadDirectory(holder, top.name)) /\ ReadDirectory(holder, top.name).self = RootLink
      BY <1>2, <2>2, <2>3, ReadIsKnown
    <2>5. ReadDirectory(holder, top.name) = ReadTable(disk, top.cluster)
      BY <2>2 DEF ReadDirectory
    <2> QED
      BY <1>1, <2>1, <2>3, <2>4, <2>5 DEF w, top
  <1> QED
    BY <1>3, <1>4

\* A loop enters a directory.
LEMMA EnteredPath ==
    ASSUME Served, NEW w, Path(disk, w), NEW n, Reads(Last(w).cluster, n), ~MakesRoot(Last(w).cluster, n)
    PROVE  LET t == ReadDirectory(Last(w).cluster, n)
           IN  /\ Path(disk, Pushed(w, t)) /\ Last(Pushed(w, t)) = t.self /\ Known(t)
               /\ Len(Pushed(w, t)) = Len(w) + 1 /\ Front(Pushed(w, t)) = w
               /\ Pushed(w, t)[Len(w)] = Last(w)
               /\ n \in {Up, Here} \/ Pushed(w, t) = PathStep(disk, w, n)
               /\ t.self.name = n /\ Leads(disk, Last(w).cluster, n, t.self.cluster)
               /\ t = ReadTable(disk, t.self.cluster) /\ n \in Names
  <1> DEFINE p == Last(w).cluster
             t == ReadDirectory(p, n)
             c == t.self.cluster
  <1>1. p \in Clusters /\ w # <<>> /\ Len(w) \in Nat /\ Len(w) \in 1 .. Len(w) /\ Last(w) = w[Len(w)]
    BY PathHas
  <1>2. /\ Known(t) /\ n \in Names /\ c \in Clusters
        /\ t.self = Link(n, c) /\ Leads(disk, p, n, c) /\ t = ReadTable(disk, c)
    BY <1>1, ReadBelow
  <1> HIDE DEF t, c
  <1>3. Pushed(w, t) = Append(w, Link(n, c)) /\ t.self.name = n
    BY <1>2 DEF Pushed, Link
  <1>4. /\ Path(disk, Append(w, Link(n, c))) /\ Last(Append(w, Link(n, c))) = Link(n, c)
        /\ Len(Append(w, Link(n, c))) = Len(w) + 1
        /\ Front(Append(w, Link(n, c))) = w
        /\ Append(w, Link(n, c))[Len(w)] = w[Len(w)]
    BY <1>1, <1>2, PathExtends
  <1>5. n \notin {Up, Here} => PathStep(disk, w, n) = Append(w, Link(n, c))
    BY <1>1, <1>2 DEF PathStep, Leads
  <1> QED
    BY <1>1, <1>2, <1>3, <1>4, <1>5 DEF t, c

\* Parts of a path.

\* What is behind a loop, and what is before it.
LEMMA PathParts ==
    ASSUME NEW S, NEW q \in Seq(S), NEW k \in 0 .. Len(q)
    PROVE  /\ SubSeq(q, k + 1, Len(q)) \in Seq(S) /\ Len(SubSeq(q, k + 1, Len(q))) = Len(q) - k
           /\ (SubSeq(q, k + 1, Len(q)) = <<>> <=> k = Len(q))
           /\ k < Len(q) => /\ Head(SubSeq(q, k + 1, Len(q))) = q[k + 1]
                            /\ Tail(SubSeq(q, k + 1, Len(q))) = SubSeq(q, k + 2, Len(q))
           /\ SubSeq(q, 1, k) \in Seq(S) /\ Len(SubSeq(q, 1, k)) = k
           /\ k = 0 => SubSeq(q, 1, k) = <<>> /\ SubSeq(q, k + 1, Len(q)) = q
           /\ k = Len(q) => SubSeq(q, 1, k) = q
  OBVIOUS

\* The first component and the others.
LEMMA RestOf ==
    ASSUME NEW S, NEW q \in Seq(S), q # <<>>
    PROVE  /\ Head(q) \in S /\ Head(q) = q[1] /\ Tail(q) \in Seq(S) /\ Len(Tail(q)) = Len(q) - 1
           /\ Len(q) \in Nat /\ Len(q) > 0 /\ (Len(q) = 1 <=> Tail(q) = <<>>)
           /\ Last(q) = q[Len(q)] /\ Last(q) \in S
           /\ Len(q) > 1 => Last(Tail(q)) = Last(q)
           /\ Len(q) = 1 => q = <<Head(q)>> /\ Last(q) = Head(q)
  <1>0. Len(q) \in Nat /\ Len(q) > 0 /\ Len(q) \in 1 .. Len(q)
    OBVIOUS
  <1>4. Head(q) \in S /\ Head(q) = q[1] /\ Tail(q) \in Seq(S) /\ Len(Tail(q)) = Len(q) - 1
    OBVIOUS
  <1>5. Len(q) = 1 <=> Tail(q) = <<>>
    <2>1. \A t \in Seq(S) : Len(t) = 0 <=> t = <<>>
      OBVIOUS
    <2>2. Len(Tail(q)) = 0 <=> Len(q) = 1
      BY <1>0, <1>4
    <2> QED
      BY <1>4, <2>1, <2>2
  <1>1. /\ Head(q) \in S /\ Head(q) = q[1] /\ Tail(q) \in Seq(S) /\ Len(Tail(q)) = Len(q) - 1
        /\ Len(q) \in Nat /\ Len(q) > 0 /\ (Len(q) = 1 <=> Tail(q) = <<>>)
        /\ Last(q) = q[Len(q)] /\ Last(q) \in S
    BY <1>0, <1>4, <1>5 DEF Last
  <1>2. Len(q) > 1 => Last(Tail(q)) = Last(q)
    BY DEF Last
  <1>3. ASSUME Len(q) = 1 PROVE q = <<Head(q)>> /\ Last(q) = Head(q)
    BY <1>1, <1>3
  <1> QED
    BY <1>1, <1>2, <1>3

\* A loop starts Led,
LEMMA LedStart ==
    ASSUME NEW d, DiskOK(d), NEW w \in Seq(Links), NEW l, Rootless(l.path), NEW f, f.rest = l.path, f.walk = w
    PROVE  Led(d, w, l, f)
  <1> DEFINE S == Parts \ {RootName}
             path == l.path
             k == 0
  <1>1. path \in Seq(S)
    BY DEF Rootless
  <1> HIDE DEF S, path
  <1>2. k \in 0 .. Len(path) /\ SubSeq(path, k + 1, Len(path)) = path /\ SubSeq(path, 1, k) = <<>>
    BY <1>1, PathParts
  <1>3. Follow(d, w, SubSeq(path, 1, k)) = w
    BY <1>2, FollowNothing
  <1> HIDE DEF k
  <1> QED
    BY <1>2, <1>3 DEF Led, path

\* stays so with every component,
LEMMA LedStep ==
    ASSUME NEW d, DiskOK(d), NEW w \in Seq(Links), NEW l, NEW f, Led(d, w, l, f), f.rest # <<>>,
           NEW g, g.rest = Tail(f.rest), g.walk = PathStep(d, f.walk, Head(f.rest))
    PROVE  Led(d, w, l, g)
  <1> DEFINE S == Parts \ {RootName}
             path == l.path
  <1>1. path \in Seq(S)
    BY DEF Led, Rootless
  <1>2. PICK k \in 0 .. Len(path) :
          /\ f.rest = SubSeq(path, k + 1, Len(path))
          /\ Follow(d, w, SubSeq(path, 1, k)) = f.walk
    BY DEF Led
  <1> HIDE DEF S, path
  <1>3. k \in Nat /\ k < Len(path) /\ k + 1 \in 0 .. Len(path) /\ k + 1 <= Len(path)
    BY <1>1, <1>2, PathParts
  <1>4. Head(f.rest) = path[k + 1] /\ Tail(f.rest) = SubSeq(path, k + 2, Len(path))
    BY <1>1, <1>2, <1>3, PathParts
  <1>5. Follow(d, w, SubSeq(path, 1, k + 1)) = PathStep(d, Follow(d, w, SubSeq(path, 1, k)), path[k + 1])
    BY <1>1, <1>3, FollowAppend
  <1>6. Follow(d, w, SubSeq(path, 1, k + 1)) = g.walk
    BY <1>2, <1>4, <1>5
  <1>7. g.rest = SubSeq(path, (k + 1) + 1, Len(path))
    BY <1>3, <1>4
  <1> QED
    BY <1>3, <1>6, <1>7 DEF Led, path

\* and is at the end where the whole path leads;
LEMMA LedEnds ==
    ASSUME NEW d, NEW w, NEW l, NEW f, Led(d, w, l, f), f.rest = <<>>
    PROVE  Follow(d, w, l.path) = f.walk
  <1> DEFINE S == Parts \ {RootName}
             path == l.path
  <1>1. path \in Seq(S)
    BY DEF Led, Rootless
  <1>2. PICK k \in 0 .. Len(path) :
          /\ f.rest = SubSeq(path, k + 1, Len(path))
          /\ Follow(d, w, SubSeq(path, 1, k)) = f.walk
    BY DEF Led
  <1> HIDE DEF S, path
  <1>3. SubSeq(path, 1, k) = path
    BY <1>1, <1>2, PathParts
  <1> QED
    BY <1>2, <1>3 DEF path

\* before its last component it is where that is looked for.
LEMMA LedLast ==
    ASSUME NEW d, NEW w, NEW l, NEW f, Led(d, w, l, f), Len(f.rest) = 1, f.walk # <<>>
    PROVE  Place(d, w, l.path) = <<Last(f.walk).cluster, f.rest[1]>>
  <1> DEFINE S == Parts \ {RootName}
             path == l.path
  <1>1. path \in Seq(S)
    BY DEF Led, Rootless
  <1>2. PICK k \in 0 .. Len(path) :
          /\ f.rest = SubSeq(path, k + 1, Len(path))
          /\ Follow(d, w, SubSeq(path, 1, k)) = f.walk
    BY DEF Led
  <1> HIDE DEF S, path
  <1>3. k = Len(path) - 1 /\ Len(path) > 0 /\ path # <<>>
    BY <1>1, <1>2, PathParts
  <1>4. SubSeq(path, 1, k) = Front(path) /\ Last(path) = path[Len(path)]
    BY <1>3 DEF Front, Last
  <1>5. f.rest[1] = path[Len(path)]
    BY <1>1, <1>2, <1>3
  <1> QED
    BY <1>2, <1>4, <1>5 DEF Place, path

\* An entry more leaves it Led.
LEMMA LedGrows ==
    ASSUME NEW d, DiskOK(d), NEW e, DiskOK(e), NEW p, NEW n, NEW isdir, Grows(d, e, p, n, isdir),
           NEW w \in Seq(Links), NEW l, NEW f, Led(d, w, l, f), f.walk # <<>>
    PROVE  Led(e, w, l, f)
  <1> DEFINE S == Parts \ {RootName}
             path == l.path
  <1>1. path \in Seq(S)
    BY DEF Led, Rootless
  <1>2. PICK k \in 0 .. Len(path) :
          /\ f.rest = SubSeq(path, k + 1, Len(path))
          /\ Follow(d, w, SubSeq(path, 1, k)) = f.walk
    BY DEF Led
  <1> HIDE DEF S, path
  <1> DEFINE q == SubSeq(path, 1, k)
  <1>3. Len(q) \in Nat /\ Follow(d, w, q) # <<>>
    BY <1>1, <1>2, PathParts
  <1> HIDE DEF q
  <1>4. Follow(e, w, q) = Follow(d, w, q)
    BY <1>3, FollowGrows
  <1> QED
    BY <1>2, <1>4 DEF Led, path, q

-----------------------------------------------------------------------------
\* What comes is on no path yet.
LEMMA NewNotOn ==
    ASSUME NEW d, NEW w, Path(d, w), NEW c, c # ROOT_CLUSTER_NUMBER,
           \A q \in Clusters : \A m : ~Leads(d, q, m, c)
    PROVE  c \notin On(w)
  <1> SUFFICES ASSUME NEW i \in 1 .. Len(w), w[i].cluster = c PROVE FALSE
    BY DEF On
  <1>1. Len(w) \in Nat /\ \A j \in 1 .. Len(w) : w[j].cluster \in Clusters
    BY PathHas
  <1>2. w[1].cluster = ROOT_CLUSTER_NUMBER
    BY DEF Path, StackOK, RootLink, Link
  <1>3. i - 1 \in 1 .. Len(w) - 1 /\ i - 1 \in 1 .. Len(w) /\ (i - 1) + 1 = i
    BY <1>1, <1>2
  <1>4. Leads(d, w[i - 1].cluster, w[i].name, c)
    BY <1>3 DEF Path
  <1> QED
    BY <1>1, <1>3, <1>4

\* What comes on the disk leaves what may be removed so.
LEMMA FolderDoomedGrows ==
    ASSUME NEW d, NEW e, NEW p, NEW n, NEW isdir \in BOOLEAN, Grows(d, e, p, n, isdir),
           NEW D, \A z \in Shells : Path(d, D[z]),
           NEW q \in Clusters, NEW m, FolderDoomed(d, D, q, m), isdir \/ ~IsFolderAt(d, q, m)
    PROVE  FolderDoomed(e, D, q, m)
  <1> SUFFICES ASSUME NEW c \in Clusters, Leads(e, q, m, c) PROVE Doomed(e, D, c)
    BY DEF FolderDoomed
  <1>1. CASE Has(d, q, m)
    <2>1. Leads(d, q, m, c)
      BY <1>1 DEF Leads, Grows
    <2>2. isdir = TRUE /\ Doomed(d, D, c)
      BY <2>1, IsNoCluster DEF IsFolderAt, FolderDoomed
    <2> QED
      BY <2>2, NoFilesGrows DEF Doomed
  <1>2. CASE ~Has(d, q, m)
    <2>1. q = p /\ m = n /\ Has(e, p, n) /\ ~Has(d, p, n) /\ EntryOf(e, p, n).dir /\ EntryOf(e, p, n).cluster = c
      BY <1>2 DEF Leads, Grows
    <2>2. c # ROOT_CLUSTER_NUMBER /\ (\A x \in Clusters : \A k : ~Leads(d, x, k, c)) /\ \A k : ~Has(e, c, k)
      BY <2>1 DEF Grows
    <2>3. Free(D, c)
      BY <2>2, NewNotOn DEF Free
    <2>4. NoFiles(e, c)
      <3>1. {c} \in SUBSET Clusters /\ c \in {c}
        OBVIOUS
      <3>2. \A x \in {c} : DOMAIN ReadTable(e, x).entries = {}
        BY <2>2 DEF Has
      <3> QED
        BY <3>1, <3>2 DEF NoFiles
    <2> QED
      BY <2>3, <2>4 DEF Doomed
  <1> QED
    BY <1>1, <1>2

\* No call puts the root's name into the root.
LEMMA RootFreeKept ==
    ASSUME NEW d, NEW e, NEW p, NEW n, RootFree(d),
           (\E isdir : Grows(d, e, p, n, isdir)) \/ Shrinks(d, e, p, n)
    PROVE  RootFree(e)
  <1> SUFFICES ASSUME NEW c \in Clusters, Leads(e, ROOT_CLUSTER_NUMBER, RootName, c) PROVE FALSE
    BY DEF RootFree
  <1>0. ~Leads(d, ROOT_CLUSTER_NUMBER, RootName, c) /\ ROOT_CLUSTER_NUMBER \in Clusters
    BY RootIsCluster DEF RootFree
  <1>1. ASSUME NEW isdir, Grows(d, e, p, n, isdir) PROVE FALSE
    BY <1>0, <1>1 DEF Grows, Leads, MakesRoot
  <1>2. ASSUME Shrinks(d, e, p, n) PROVE FALSE
    BY <1>0, <1>2 DEF Shrinks, Leads
  <1> QED
    BY <1>1, <1>2

-----------------------------------------------------------------------------
\* What the calls do to the frames that wait.

\* Those of a command that removes nothing: something may come, and the other
\* shells may go elsewhere.
LEMMA GoodCalm ==
    ASSUME NEW d, DiskOK(d), NEW e, DiskOK(e), NEW p, NEW n, NEW isdir, Grows(d, e, p, n, isdir),
           NEW D, NEW D2, NEW w \in Seq(Links), NEW l, ~Kills(l), NEW f, Good(d, D, w, l, f)
    PROVE  Good(e, D2, w, l, f)
  <1>1. f.fn \in Loops \cup {"flush", "scan"} => Path(e, f.walk)
    BY PathGrows DEF Good
  <1>2. f.fn = "cd" => Led(e, w, l, f)
    <2>1. f.fn = "cd" => Path(d, f.walk) /\ Led(d, w, l, f)
      BY DEF Good, Loops
    <2> QED
      BY <2>1, LedGrows, PathHas
  <1>3. f.fn \in {"source", "dest"} => ~f.mv
    BY DEF Good, Kills
  <1>4. f.fn # "rm" /\ f.fn # "flush" /\ l.cmd # "mv"
    BY DEF Good, Kills, RmGood, FlushGood
  <1>5. f.fn = "source" => SourceGood(e, D2, w, f)
    BY <1>3 DEF Good, SourceGood
  <1>6. f.fn = "dest" => DestGood(e, D2, w, f)
    BY <1>3 DEF Good, DestGood
  <1> QED
    BY <1>1, <1>2, <1>4, <1>5, <1>6 DEF Good

\* A directory that comes leaves a table Clean.
LEMMA CleanGrows ==
    ASSUME NEW d, NEW e, NEW p, NEW n, Grows(d, e, p, n, TRUE), NEW t, Clean(d, t)
    PROVE  Clean(e, t)
  <1>1. NoFiles(d, t.self.cluster)
    BY DEF Clean
  <1>2. NoFiles(e, t.self.cluster)
    BY <1>1, NoFilesGrows
  <1> QED
    BY <1>2 DEF Clean

\* Those of mv that wait for cp_helper: directories come.
LEMMA GoodInCopy ==
    ASSUME NEW d, NEW e, NEW p, NEW n, Grows(d, e, p, n, TRUE),
           NEW D, \A z \in Shells : Path(d, D[z]), NEW w, Path(d, w), NEW l, NEW f, Good(d, D, w, l, f),
           f.fn = "copy" \/ (f.fn = "dest" /\ ~f.isfile)
    PROVE  Good(e, D, w, l, f)
  <1>1. f.fn \in Loops \cup {"flush", "scan"} => Path(e, f.walk)
    BY PathGrows DEF Good
  <1>2. f.fn = "dest" => DestGood(e, D, w, f)
    <2> SUFFICES ASSUME f.fn = "dest", ~f.isfile, f.mv PROVE DestGood(e, D, w, f)
      BY DEF Good, DestGood
    <2> DEFINE top == Last(w).cluster
    <2>1. FolderDoomed(d, D, top, f.name) /\ Clean(d, f.want)
      BY DEF Good, DestGood
    <2>2. top \in Clusters
      BY PathHas
    <2> HIDE DEF top
    <2>3. FolderDoomed(e, D, top, f.name)
      BY <2>1, <2>2, FolderDoomedGrows
    <2>4. Clean(e, f.want)
      BY <2>1, CleanGrows
    <2> QED
      BY <2>3, <2>4 DEF DestGood, top
  <1>3. f.fn = "copy" => l.cmd \in {"cp", "mv"} /\ (l.cmd = "mv" => Clean(e, f.want))
    BY CleanGrows DEF Good
  <1> QED
    BY <1>1, <1>2, <1>3 DEF Good

\* Those of rm that wait: something goes that they are not below.
LEMMA GoodFlush ==
    ASSUME NEW d, NEW e, NEW p, NEW n, Shrinks(d, e, p, n),
           NEW D, NEW w, NEW l, NEW f, Good(d, D, w, l, f), f.fn = "flush",
           \A c : Leads(d, p, n, c) /\ (\A m : ~Has(d, c, m)) => c \notin On(f.walk)
    PROVE  Good(e, D, w, l, f)
  <1>1. Path(e, f.walk)
    BY PathShrinks DEF Good
  <1>2. FlushGood(e, D, l, f)
    BY NoFilesShrinks DEF Good, FlushGood, Doomed
  <1> QED
    BY <1>1, <1>2 DEF Good, Loops

-----------------------------------------------------------------------------
\* The frames that wait, and what may stand on them.

\* The frames of a call stack are those of the one before, moved.
LEMMA Stacked ==
    ASSUME NEW S, NEW c \in Seq(S), c # <<>>
    PROVE  LET t == Tail(c)
           IN  /\ 1 \in DOMAIN c /\ Head(c) = c[1]
               /\ \A i \in DOMAIN t : i \in Nat /\ i > 0 /\ i + 1 \in DOMAIN c /\ t[i] = c[i + 1]
               /\ \A f : \A i \in DOMAIN (<<f>> \o t) :
                    /\ i \in Nat /\ i > 0
                    /\ i = 1 => (<<f>> \o t)[i] = f
                    /\ i # 1 => i - 1 \in DOMAIN t /\ (<<f>> \o t)[i] = t[i - 1]
               /\ \A f, g : \A i \in DOMAIN (<<f, g>> \o t) :
                    /\ i \in Nat /\ i > 0
                    /\ i = 1 => (<<f, g>> \o t)[i] = f
                    /\ i = 2 => (<<f, g>> \o t)[i] = g
                    /\ i \notin {1, 2} => i - 2 \in DOMAIN t /\ (<<f, g>> \o t)[i] = t[i - 2]
  <1> DEFINE t == Tail(c)
  <1>1. /\ t \in Seq(S) /\ Len(t) \in Nat /\ Len(c) = Len(t) + 1
        /\ \A i \in 1 .. Len(t) : t[i] = c[i + 1]
        /\ 1 \in DOMAIN c /\ Head(c) = c[1] /\ DOMAIN c = 1 .. Len(c) /\ DOMAIN t = 1 .. Len(t)
    OBVIOUS
  <1> HIDE DEF t
  <1>2. \A i \in DOMAIN t : i \in Nat /\ i > 0 /\ i + 1 \in DOMAIN c /\ t[i] = c[i + 1]
    BY <1>1
  <1>3. ASSUME NEW u, NEW n \in {1, 2}, NEW T, u \in Seq(T), Len(u) = n
        PROVE  \A i \in DOMAIN (u \o t) :
                 /\ i \in Nat /\ i > 0
                 /\ i <= n => (u \o t)[i] = u[i]
                 /\ ~(i <= n) => i - n \in DOMAIN t /\ (u \o t)[i] = t[i - n]
    <2> DEFINE A == S \cup T
               v == u \o t
    <2>1. u \in Seq(A) /\ t \in Seq(A)
      BY <1>1, <1>3
    <2> HIDE DEF A
    <2>2. /\ v \in Seq(A) /\ Len(v) = Len(u) + Len(t)
          /\ \A i \in 1 .. Len(u) + Len(t) :
               v[i] = IF i <= Len(u) THEN u[i] ELSE t[i - Len(u)]
      BY <2>1, ConcatProperties, Zenon
    <2> HIDE DEF v
    <2>3. DOMAIN v = 1 .. n + Len(t)
      BY <1>3, <2>2
    <2>4. \A i \in 1 .. n + Len(t) : i \in Nat /\ i > 0 /\ (~(i <= n) => i - n \in DOMAIN t)
      BY <1>1
    <2> QED
      BY <1>3, <2>2, <2>3, <2>4 DEF v
  <1>4. ASSUME NEW f, NEW i \in DOMAIN (<<f>> \o t)
        PROVE  /\ i \in Nat /\ i > 0
               /\ i = 1 => (<<f>> \o t)[i] = f
               /\ i # 1 => i - 1 \in DOMAIN t /\ (<<f>> \o t)[i] = t[i - 1]
    <2> DEFINE u == <<f>>
    <2>1. u \in Seq({f}) /\ Len(u) = 1 /\ u[1] = f /\ i \in DOMAIN (u \o t)
      BY <1>4
    <2> HIDE DEF u
    <2> DEFINE v == u \o t
    <2>2. /\ i \in Nat /\ i > 0
          /\ i <= 1 => v[i] = u[i]
          /\ ~(i <= 1) => i - 1 \in DOMAIN t /\ v[i] = t[i - 1]
      BY <1>3, <2>1
    <2> HIDE DEF v
    <2>3. (i = 1 <=> i <= 1)
      BY <2>2
    <2> QED
      BY <2>1, <2>2, <2>3 DEF u, v
  <1>5. ASSUME NEW f, NEW g, NEW i \in DOMAIN (<<f, g>> \o t)
        PROVE  /\ i \in Nat /\ i > 0
               /\ i = 1 => (<<f, g>> \o t)[i] = f
               /\ i = 2 => (<<f, g>> \o t)[i] = g
               /\ i \notin {1, 2} => i - 2 \in DOMAIN t /\ (<<f, g>> \o t)[i] = t[i - 2]
    <2> DEFINE u == <<f, g>>
    <2>1. u \in Seq({f, g}) /\ Len(u) = 2 /\ u[1] = f /\ u[2] = g /\ i \in DOMAIN (u \o t)
      BY <1>5
    <2> HIDE DEF u
    <2> DEFINE v == u \o t
    <2>2. /\ i \in Nat /\ i > 0
          /\ i <= 2 => v[i] = u[i]
          /\ ~(i <= 2) => i - 2 \in DOMAIN t /\ v[i] = t[i - 2]
      BY <1>3, <2>1
    <2> HIDE DEF v
    <2>3. (i \in {1, 2} <=> i <= 2)
      BY <2>2
    <2> QED
      BY <2>1, <2>2, <2>3 DEF u, v
  <1> QED
    BY <1>1, <1>2, <1>4, <1>5 DEF t

\* Frame a may run on the frames of t.
OnTop(a, t) == \A i \in DOMAIN t : Under(a, t[i])

\* A call stack without its first frame, and with one or two put there.
LEMMA FramesPut ==
    ASSUME NEW S, NEW c \in Seq(S), c # <<>>
    PROVE  LET t == Tail(c)
           IN  /\ \A d, D, w, l : AllGood(d, D, w, l, c) =>
                    Good(d, D, w, l, Head(c)) /\ AllGood(d, D, w, l, t)
               /\ Nested(c) => Nested(t) /\ OnTop(Head(c), t)
               /\ \A d, D, w, l, f : Good(d, D, w, l, f) /\ AllGood(d, D, w, l, t) =>
                    AllGood(d, D, w, l, <<f>> \o t)
               /\ \A f : Nested(t) /\ OnTop(f, t) => Nested(<<f>> \o t)
               /\ \A d, D, w, l, f, g :
                    Good(d, D, w, l, f) /\ Good(d, D, w, l, g) /\ AllGood(d, D, w, l, t) =>
                      AllGood(d, D, w, l, <<f, g>> \o t)
               /\ \A f, g : Nested(t) /\ OnTop(f, t) /\ OnTop(g, t) /\ Under(f, g) => Nested(<<f, g>> \o t)
  <1> DEFINE t == Tail(c)
  <1>1. /\ 1 \in DOMAIN c /\ Head(c) = c[1]
        /\ \A i \in DOMAIN t : i \in Nat /\ i > 0 /\ i + 1 \in DOMAIN c /\ t[i] = c[i + 1]
        /\ \A f : \A i \in DOMAIN (<<f>> \o t) :
             /\ i \in Nat /\ i > 0
             /\ i = 1 => (<<f>> \o t)[i] = f
             /\ i # 1 => i - 1 \in DOMAIN t /\ (<<f>> \o t)[i] = t[i - 1]
        /\ \A f, g : \A i \in DOMAIN (<<f, g>> \o t) :
             /\ i \in Nat /\ i > 0
             /\ i = 1 => (<<f, g>> \o t)[i] = f
             /\ i = 2 => (<<f, g>> \o t)[i] = g
             /\ i \notin {1, 2} => i - 2 \in DOMAIN t /\ (<<f, g>> \o t)[i] = t[i - 2]
    BY Stacked
  <1> HIDE DEF t
  <1>2. \A d, D, w, l : AllGood(d, D, w, l, c) =>
          Good(d, D, w, l, Head(c)) /\ AllGood(d, D, w, l, t)
    BY <1>1 DEF AllGood
  <1>3. ASSUME Nested(c) PROVE Nested(t) /\ OnTop(Head(c), t)
    <2>1. OnTop(Head(c), t)
      <3>1. \A i \in DOMAIN t : 1 < i + 1
        BY <1>1
      <3> QED
        BY <1>1, <1>3, <3>1 DEF Nested, OnTop
    <2>2. Nested(t)
      <3>1. \A i, j \in DOMAIN t : i < j => i + 1 < j + 1
        BY <1>1
      <3> QED
        BY <1>1, <1>3, <3>1 DEF Nested
    <2> QED
      BY <2>1, <2>2
  <1>4. \A d, D, w, l, f : Good(d, D, w, l, f) /\ AllGood(d, D, w, l, t) => AllGood(d, D, w, l, <<f>> \o t)
    BY <1>1 DEF AllGood
  <1>5. ASSUME NEW f, Nested(t), OnTop(f, t) PROVE Nested(<<f>> \o t)
    <2> DEFINE v == <<f>> \o t
    <2>1. \A i \in DOMAIN v : /\ i \in Nat /\ i > 0
                              /\ i = 1 => v[i] = f
                              /\ i # 1 => i - 1 \in DOMAIN t /\ v[i] = t[i - 1]
      BY <1>1
    <2> HIDE DEF v
    <2>2. ASSUME NEW i \in DOMAIN v, NEW j \in DOMAIN v, i < j PROVE Under(v[i], v[j])
      <3>1. j # 1 /\ (i # 1 => i - 1 < j - 1)
        BY <2>1, <2>2
      <3> QED
        BY <1>5, <2>1, <2>2, <3>1 DEF Nested, OnTop
    <2> QED
      BY <2>2 DEF Nested, v
  <1>6. \A d, D, w, l, f, g :
          Good(d, D, w, l, f) /\ Good(d, D, w, l, g) /\ AllGood(d, D, w, l, t) =>
            AllGood(d, D, w, l, <<f, g>> \o t)
    <2> TAKE d, D, w, l, f, g
    <2> HAVE Good(d, D, w, l, f) /\ Good(d, D, w, l, g) /\ AllGood(d, D, w, l, t)
    <2> DEFINE v == <<f, g>> \o t
    <2>1. \A i \in DOMAIN v : /\ i = 1 => v[i] = f
                              /\ i = 2 => v[i] = g
                              /\ i \notin {1, 2} => i - 2 \in DOMAIN t /\ v[i] = t[i - 2]
      BY <1>1
    <2> HIDE DEF v
    <2>2. \A i \in DOMAIN v : Good(d, D, w, l, v[i])
      BY <2>1 DEF AllGood
    <2> QED
      BY <2>2 DEF AllGood, v
  <1>7. ASSUME NEW f, NEW g, Nested(t), OnTop(f, t), OnTop(g, t), Under(f, g) PROVE Nested(<<f, g>> \o t)
    <2> DEFINE v == <<f, g>> \o t
    <2>1. \A i \in DOMAIN v : /\ i \in Nat /\ i > 0
                              /\ i = 1 => v[i] = f
                              /\ i = 2 => v[i] = g
                              /\ i \notin {1, 2} => i - 2 \in DOMAIN t /\ v[i] = t[i - 2]
      BY <1>1
    <2> HIDE DEF v
    <2>2. ASSUME NEW i \in DOMAIN v, NEW j \in DOMAIN v, i < j PROVE Under(v[i], v[j])
      <3>1. j # 1 /\ (j = 2 => i = 1) /\ (i \notin {1, 2} => j # 2 /\ i - 2 < j - 2)
        BY <2>1, <2>2
      <3>2. CASE i = 1
        BY <1>7, <2>1, <2>2, <3>1, <3>2 DEF OnTop
      <3>3. CASE i = 2
        BY <1>7, <2>1, <2>2, <3>1, <3>3 DEF OnTop
      <3>4. CASE i \notin {1, 2}
        BY <1>7, <2>1, <2>2, <3>1, <3>4 DEF Nested
      <3> QED
        BY <3>2, <3>3, <3>4
    <2> QED
      BY <2>2 DEF Nested, v
  <1> QED
    BY <1>2, <1>3, <1>4, <1>5, <1>6, <1>7 DEF t

\* Call stacks of no, one and two frames.
LEMMA NothingNested ==
    /\ Nested(<<>>) /\ \A d, D, w, l : AllGood(d, D, w, l, <<>>)
    /\ \A f : Nested(<<f>>) /\ \A d, D, w, l : Good(d, D, w, l, f) => AllGood(d, D, w, l, <<f>>)
    /\ \A f, g : /\ Under(f, g) => Nested(<<f, g>>)
                 /\ \A d, D, w, l :
                      Good(d, D, w, l, f) /\ Good(d, D, w, l, g) => AllGood(d, D, w, l, <<f, g>>)
    /\ \A f : OnTop(f, <<>>)
  <1>1. DOMAIN <<>> = {}
    OBVIOUS
  <1>2. Nested(<<>>) /\ (\A d, D, w, l : AllGood(d, D, w, l, <<>>)) /\ \A f : OnTop(f, <<>>)
    BY <1>1 DEF Nested, AllGood, OnTop
  <1>3. ASSUME NEW f
        PROVE  Nested(<<f>>) /\ \A d, D, w, l : Good(d, D, w, l, f) => AllGood(d, D, w, l, <<f>>)
    <2> DEFINE u == <<f>>
    <2>1. DOMAIN u = {1} /\ u[1] = f
      OBVIOUS
    <2> HIDE DEF u
    <2>2. \A i, j \in DOMAIN u : ~(i < j)
      BY <2>1
    <2>3. Nested(u) /\ \A d, D, w, l : Good(d, D, w, l, f) => AllGood(d, D, w, l, u)
      BY <2>1, <2>2 DEF Nested, AllGood
    <2> QED
      BY <2>3 DEF u
  <1>4. ASSUME NEW f, NEW g
        PROVE  /\ Under(f, g) => Nested(<<f, g>>)
               /\ \A d, D, w, l :
                    Good(d, D, w, l, f) /\ Good(d, D, w, l, g) => AllGood(d, D, w, l, <<f, g>>)
    <2> DEFINE u == <<f, g>>
    <2>1. DOMAIN u = {1, 2} /\ u[1] = f /\ u[2] = g
      OBVIOUS
    <2> HIDE DEF u
    <2>2. \A i, j \in DOMAIN u : i < j => i = 1 /\ j = 2
      BY <2>1
    <2>3. /\ Under(f, g) => Nested(u)
          /\ \A d, D, w, l : Good(d, D, w, l, f) /\ Good(d, D, w, l, g) => AllGood(d, D, w, l, u)
      BY <2>1, <2>2 DEF Nested, AllGood
    <2> QED
      BY <2>3 DEF u
  <1> QED
    BY <1>2, <1>3, <1>4

-----------------------------------------------------------------------------
\* A step of shell s keeps the invariant when it keeps what the others have, what
\* waits below the frame that runs, and puts good frames in its place.

\* What the others have is kept.
Others(s) ==
    /\ RootFree(disk')
    /\ \A z \in Shells : Path(disk', dts[z])
    /\ \A z \in Shells \ {s} : AllGood(disk', dts, dts[z], line[z], call[z])

\* Below the running frame of s too all is well.
Settled(s) == Others(s) /\ AllGood(disk', dts, dts[s], line[s], Tail(call[s]))

\* Frame f may run there.
NowGood(s, f) == Good(disk', dts, dts[s], line[s], f) /\ OnTop(f, Tail(call[s]))

\* The step only changes the frames of s, and perhaps ends its line.
CallIs(s, c) ==
    /\ call' = [call EXCEPT ![s] = c] /\ dts' = dts
    /\ line' = line \/ (c = <<>> /\ line' = [line EXCEPT ![s] = NoLine])

\* Then the invariant is kept.
LEMMA PathsKept ==
    ASSUME CallsInv, PathInv, NEW s \in Shells, call[s] # <<>>, NEW c, CallIs(s, c), Others(s),
           Nested(c), AllGood(disk', dts, dts[s], line[s], c)
    PROVE  PathInv'
  <1>1. /\ call' = [z \in Shells |-> IF z = s THEN c ELSE call[z]] /\ dts' = dts
        /\ c # <<>> => line' = line
        /\ \A z \in Shells : z # s => line'[z] = line[z]
    BY DEF CallsInv, CallIs
  <1>2. ASSUME NEW z \in Shells
        PROVE  /\ Nested(call'[z]) /\ AllGood(disk', dts', dts'[z], line'[z], call'[z])
               /\ call'[z] # <<>> => line'[z] = line[z] /\ call[z] # <<>>
    <2>1. CASE z # s
      BY <1>1, <2>1 DEF Others, PathInv
    <2>2. CASE z = s /\ c # <<>>
      BY <1>1, <2>2
    <2>3. CASE z = s /\ c = <<>>
      BY <1>1, <2>3, NothingNested
    <2> QED
      BY <2>1, <2>2, <2>3
  <1>3. Apart'
    <2> SUFFICES ASSUME NEW z \in Shells, call'[z] # <<>>
                 PROVE  /\ Kills(line'[z]) => line'[z].alone
                        /\ line'[z].alone => Running' = {z}
      BY DEF Apart
    <2>1. line'[z] = line[z] /\ call[z] # <<>>
      BY <1>2
    <2>2. (Kills(line[z]) => line[z].alone) /\ (line[z].alone => Running = {z})
      BY <2>1 DEF PathInv, Apart
    <2>3. Running' \subseteq Running /\ z \in Running'
      BY <1>2 DEF Running
    <2> QED
      BY <2>1, <2>2, <2>3
  <1> QED
    BY <1>1, <1>2, <1>3 DEF PathInv, Others

\* What a shell has at hand.
LEMMA PathsHave ==
    ASSUME CallsInv, PathInv, NEW s \in Shells, call[s] # <<>>
    PROVE  /\ Path(disk, dts[s]) /\ dts[s] \in Seq(Links)
           /\ Good(disk, dts, dts[s], line[s], Head(call[s]))
           /\ AllGood(disk, dts, dts[s], line[s], Tail(call[s]))
           /\ Nested(Tail(call[s])) /\ OnTop(Head(call[s]), Tail(call[s]))
           /\ \E S : call[s] \in Seq(S)
           /\ Len(call[s]) = 1 <=> Tail(call[s]) = <<>>
  <1>1. PICK S : call[s] \in Seq(S)
    BY CallStack DEF FramesOK
  <1>2. Path(disk, dts[s]) /\ Nested(call[s]) /\ AllGood(disk, dts, dts[s], line[s], call[s])
    BY DEF PathInv
  <1> DEFINE c == call[s]
  <1>3. c \in Seq(S) /\ c # <<>>
    BY <1>1
  <1>4. dts[s] \in Seq(Links)
    BY <1>2, PathHas
  <1>5. Len(c) = 1 <=> Tail(c) = <<>>
    BY CallStack, FramesReplaced
  <1>6. Nested(c) /\ AllGood(disk, dts, dts[s], line[s], c)
    BY <1>2
  <1> HIDE DEF c
  <1>7. /\ Good(disk, dts, dts[s], line[s], Head(c))
        /\ AllGood(disk, dts, dts[s], line[s], Tail(c))
        /\ Nested(Tail(c)) /\ OnTop(Head(c), Tail(c))
    BY <1>3, <1>6, FramesPut
  <1> QED
    BY <1>2, <1>3, <1>4, <1>5, <1>7 DEF c

\* To go on is such a step.
LEMMA GoOnIs ==
    ASSUME NEW s \in Shells, NEW c, GoOn(s, c) PROVE CallIs(s, c \o Tail(call[s]))
  BY DEF GoOn, CallIs

\* The ways to go on: with one frame, with two, without, lost.
LEMMA GoodGoOn ==
    ASSUME CallsInv, PathInv, NEW s \in Shells, call[s] # <<>>, Settled(s), NEW f,
           CallIs(s, <<f>> \o Tail(call[s])), NowGood(s, f)
    PROVE  PathInv'
  <1> DEFINE c == call[s]
             u == <<f>> \o Tail(c)
  <1>1. PICK S : c \in Seq(S)
    BY PathsHave
  <1>2. Nested(Tail(c)) /\ c # <<>>
    BY PathsHave
  <1>3. CallIs(s, u)
    OBVIOUS
  <1>4. Good(disk', dts, dts[s], line[s], f) /\ OnTop(f, Tail(c)) /\ AllGood(disk', dts, dts[s], line[s], Tail(c))
    BY DEF NowGood, Settled
  <1> HIDE DEF c
  <1>5. Nested(u) /\ AllGood(disk', dts, dts[s], line[s], u)
    BY <1>1, <1>2, <1>4, FramesPut
  <1> HIDE DEF u
  <1> QED
    BY <1>3, <1>5, PathsKept DEF Settled

LEMMA GoodGoOnTwo ==
    ASSUME CallsInv, PathInv, NEW s \in Shells, call[s] # <<>>, Settled(s), NEW f, NEW g,
           CallIs(s, <<f, g>> \o Tail(call[s])), NowGood(s, f), NowGood(s, g), Under(f, g)
    PROVE  PathInv'
  <1> DEFINE c == call[s]
             u == <<f, g>> \o Tail(c)
  <1>1. PICK S : c \in Seq(S)
    BY PathsHave
  <1>2. Nested(Tail(c)) /\ c # <<>>
    BY PathsHave
  <1>3. CallIs(s, u)
    OBVIOUS
  <1>4. /\ Good(disk', dts, dts[s], line[s], f) /\ OnTop(f, Tail(c))
        /\ Good(disk', dts, dts[s], line[s], g) /\ OnTop(g, Tail(c))
        /\ AllGood(disk', dts, dts[s], line[s], Tail(c))
    BY DEF NowGood, Settled
  <1> HIDE DEF c
  <1>5. Nested(u) /\ AllGood(disk', dts, dts[s], line[s], u)
    BY <1>1, <1>2, <1>4, FramesPut
  <1> HIDE DEF u
  <1> QED
    BY <1>3, <1>5, PathsKept DEF Settled

LEMMA GoodReturn ==
    ASSUME CallsInv, PathInv, NEW s \in Shells, call[s] # <<>>, Settled(s), Return(s)
    PROVE  PathInv'
  <1> DEFINE c == Tail(call[s])
  <1>1. CallIs(s, c)
    BY PathsHave DEF Return, CallIs
  <1>2. Nested(c) /\ AllGood(disk', dts, dts[s], line[s], c)
    BY PathsHave DEF Settled
  <1> HIDE DEF c
  <1> QED
    BY <1>1, <1>2, PathsKept DEF Settled

LEMMA GoodLose ==
    ASSUME CallsInv, PathInv, NEW s \in Shells, call[s] # <<>>, Settled(s), Lose(s)
    PROVE  PathInv'
  <1> DEFINE c == <<Lost>>
  <1>1. CallIs(s, c)
    BY DEF Lose, CallIs
  <1>2. \A d, D, w, l : Good(d, D, w, l, Lost)
    BY DEF Good, Lost, Loops
  <1>3. Nested(c) /\ AllGood(disk', dts, dts[s], line[s], c)
    BY <1>2, NothingNested
  <1> HIDE DEF c
  <1> QED
    BY <1>1, <1>3, PathsKept DEF Settled

\* mv's rm, and a child's.
LEMMA NewRm ==
    ASSUME NEW d, NEW D, NEW w, Path(d, w), NEW v, NEW l, Kills(l), NEW n \in Names,
           FolderDoomed(d, D, Last(w).cluster, n)
    PROVE  Good(d, D, v, l, Loop("rm", <<n>>, w))
  <1> DEFINE f == Loop("rm", <<n>>, w)
             r == <<n>>
  <1>1. f.fn = "rm" /\ f.at = "peek" /\ f.rest = r /\ f.walk = w
    BY DEF Loop
  <1>2. r \in Seq(Parts) /\ r # <<>> /\ Len(r) = 1 /\ r[1] = n /\ Last(r) = n
    <2>1. n \in Parts
      BY DEF Parts
    <2>2. \A S : \A x \in S : <<x>> \in Seq(S) /\ <<x>> # <<>> /\ Len(<<x>>) = 1 /\ <<x>>[1] = x
      OBVIOUS
    <2>3. r \in Seq(Parts) /\ r # <<>> /\ Len(r) = 1 /\ r[1] = n
      BY <2>1, <2>2
    <2> HIDE DEF r
    <2> QED
      BY <2>3 DEF Last
  <1> HIDE DEF f, r
  <1>3. RmGood(d, D, v, l, f)
    BY <1>1, <1>2 DEF RmGood
  <1> QED
    BY <1>1, <1>3 DEF Good, f, Loops

\* cp returned true.
LEMMA GoodSucceed ==
    ASSUME CallsInv, PathInv, NEW s \in Shells, call[s] # <<>>, Settled(s), NEW f, Succeed(s, f),
           Tail(call[s]) = <<>>,
           f.mv => /\ Kills(line[s]) /\ f.name \in Names
                   /\ FolderDoomed(disk', dts, Last(dts[s]).cluster, f.name)
    PROVE  PathInv'
  <1>1. CASE f.mv
    <2> DEFINE g == Loop("rm", <<f.name>>, dts[s])
    <2>1. GoOn(s, <<g>>)
      BY <1>1 DEF Succeed
    <2>2. Path(disk', dts[s])
      BY DEF Settled, Others
    <2>3. Good(disk', dts, dts[s], line[s], g)
      BY <1>1, <2>2, NewRm
    <2> HIDE DEF g
    <2>4. NowGood(s, g)
      BY <2>3, NothingNested DEF NowGood
    <2> QED
      BY <2>1, <2>4, GoOnIs, GoodGoOn
  <1>2. CASE ~f.mv
    BY <1>2, GoodReturn DEF Succeed
  <1> QED
    BY <1>1, <1>2

-----------------------------------------------------------------------------
\* What a step does to the disk settles so.

\* A disk that stays settles nothing otherwise.
LEMMA SettledSame ==
    ASSUME CallsInv, PathInv, NEW s \in Shells, call[s] # <<>>, disk' = disk
    PROVE  Settled(s)
  BY PathsHave DEF Settled, Others, PathInv

\* Who runs beside another removes nothing, and who removes is alone.
LEMMA OthersCalm ==
    ASSUME PathInv, NEW s \in Shells, call[s] # <<>>, NEW z \in Shells, z # s, call[z] # <<>>
    PROVE  ~Kills(line[z]) /\ ~Kills(line[s])
  BY DEF PathInv, Apart, Running

\* An entry more leaves the others as they were.
LEMMA OthersGrow ==
    ASSUME Served, Served', PathInv, NEW s \in Shells, call[s] # <<>>,
           NEW p, NEW n, NEW isdir, Grows(disk, disk', p, n, isdir)
    PROVE  Others(s)
  <1>0. DiskOK(disk) /\ DiskOK(disk')
    BY DEF Served, OwnershipInv, Fat32Inv
  <1>1. RootFree(disk')
    BY RootFreeKept DEF PathInv
  <1>2. \A z \in Shells : Path(disk', dts[z])
    BY PathGrows DEF PathInv
  <1>3. ASSUME NEW z \in Shells \ {s} PROVE AllGood(disk', dts, dts[z], line[z], call[z])
    <2>1. CASE call[z] = <<>>
      BY <2>1, NothingNested
    <2>2. CASE call[z] # <<>>
      <3>1. ~Kills(line[z])
        BY <2>2, OthersCalm
      <3>2. dts[z] \in Seq(Links)
        BY PathHas DEF PathInv
      <3>3. AllGood(disk, dts, dts[z], line[z], call[z])
        BY DEF PathInv
      <3> QED
        BY <1>0, <3>1, <3>2, <3>3, GoodCalm DEF AllGood
    <2> QED
      BY <2>1, <2>2
  <1> QED
    BY <1>1, <1>2, <1>3 DEF Others

\* What waits under a command that removes nothing, under the outermost frame, and
\* under cp_helper, when something comes.
LEMMA SettledCalm ==
    ASSUME Served, Served', CallsInv, PathInv, NEW s \in Shells, call[s] # <<>>, ~Kills(line[s]),
           NEW p, NEW n, NEW isdir, Grows(disk, disk', p, n, isdir)
    PROVE  Settled(s)
  <1>0. DiskOK(disk) /\ DiskOK(disk')
    BY DEF Served, OwnershipInv, Fat32Inv
  <1>1. Others(s)
    BY OthersGrow
  <1>2. AllGood(disk, dts, dts[s], line[s], Tail(call[s])) /\ dts[s] \in Seq(Links)
    BY PathsHave
  <1>3. AllGood(disk', dts, dts[s], line[s], Tail(call[s]))
    BY <1>0, <1>2, GoodCalm DEF AllGood
  <1> QED
    BY <1>1, <1>3 DEF Settled

LEMMA SettledOutermost ==
    ASSUME Served, Served', CallsInv, PathInv, NEW s \in Shells, call[s] # <<>>, Tail(call[s]) = <<>>,
           NEW p, NEW n, NEW isdir, Grows(disk, disk', p, n, isdir)
    PROVE  Settled(s)
  <1>1. Others(s)
    BY OthersGrow
  <1> QED
    BY <1>1, NothingNested DEF Settled

LEMMA SettledCopy ==
    ASSUME Served, Served', CallsInv, PathInv, NEW s \in Shells, call[s] # <<>>,
           Head(call[s]).fn = "copy", NEW p, NEW n, Grows(disk, disk', p, n, TRUE)
    PROVE  Settled(s)
  <1>1. Others(s)
    BY OthersGrow
  <1> DEFINE t == Tail(call[s])
             a == Head(call[s])
  <1>2. AllGood(disk, dts, dts[s], line[s], t) /\ OnTop(a, t) /\ a.fn = "copy" /\ Path(disk, dts[s])
    BY PathsHave
  <1>3. \A z \in Shells : Path(disk, dts[z])
    BY DEF PathInv
  <1> HIDE DEF t, a
  <1>4. ASSUME NEW i \in DOMAIN t PROVE Good(disk', dts, dts[s], line[s], t[i])
    <2> DEFINE f == t[i]
    <2>1. f.fn = "copy" \/ (f.fn = "dest" /\ ~f.isfile)
      BY <1>2 DEF OnTop, Under
    <2>2. Good(disk, dts, dts[s], line[s], f)
      BY <1>2 DEF AllGood
    <2> HIDE DEF f
    <2>3. Good(disk', dts, dts[s], line[s], f)
      BY <1>2, <1>3, <2>1, <2>2, GoodInCopy
    <2> QED
      BY <2>3 DEF f
  <1>5. AllGood(disk', dts, dts[s], line[s], t)
    BY <1>4 DEF AllGood
  <1> QED
    BY <1>1, <1>5 DEF Settled, t

\* rm: nobody is in what goes, nor below it, and what waits is above it.
LEMMA SettledRemoved ==
    ASSUME Served, Served', CallsInv, PathInv, NEW s \in Shells, call[s] # <<>>,
           Head(call[s]).fn \in {"rm", "flush"}, Kills(line[s]),
           NEW p \in Clusters, NEW n, Shrinks(disk, disk', p, n), FolderDoomed(disk, dts, p, n),
           NEW w, Path(disk, w), Last(w).cluster = p,
           On(w) = On(IF Head(call[s]).fn = "rm" THEN Head(call[s]).walk ELSE Front(Head(call[s]).walk))
    PROVE  Settled(s)
  <1>1. RootFree(disk')
    BY RootFreeKept DEF PathInv
  <1>2. \A c : Leads(disk, p, n, c) => Free(dts, c)
    <2>1. \A c : Leads(disk, p, n, c) => c \in Clusters
      BY StoreServed, LedToOnce
    <2> QED
      BY <2>1, IsNoCluster DEF FolderDoomed, Doomed
  <1>3. \A z \in Shells : Path(disk', dts[z])
    <2> TAKE z \in Shells
    <2>1. Path(disk, dts[z]) /\ \A c : Leads(disk, p, n, c) => c \notin On(dts[z])
      BY <1>2 DEF PathInv, Free
    <2> DEFINE v == dts[z]
    <2>2. Path(disk, v) /\ \A c : Leads(disk, p, n, c) /\ (\A m : ~Has(disk, c, m)) => c \notin On(v)
      BY <2>1
    <2> HIDE DEF v
    <2>3. Path(disk', v)
      BY <2>2, PathShrinks
    <2> QED
      BY <2>3 DEF v
  <1>4. ASSUME NEW z \in Shells \ {s} PROVE AllGood(disk', dts, dts[z], line[z], call[z])
    BY OthersCalm, NothingNested
  <1> DEFINE t == Tail(call[s])
             a == Head(call[s])
  <1>5. AllGood(disk, dts, dts[s], line[s], t) /\ OnTop(a, t) /\ a.fn \in {"rm", "flush"}
    BY PathsHave
  <1>6. On(w) = On(IF a.fn = "rm" THEN a.walk ELSE Front(a.walk))
    OBVIOUS
  <1> HIDE DEF t, a
  <1>7. ASSUME NEW i \in DOMAIN t PROVE Good(disk', dts, dts[s], line[s], t[i])
    <2> DEFINE f == t[i]
    <2>1. f.fn = "flush" /\ On(f.walk) \subseteq On(w)
      BY <1>5, <1>6 DEF OnTop, Under
    <2>2. Good(disk, dts, dts[s], line[s], f)
      BY <1>5 DEF AllGood
    <2> HIDE DEF f
    <2>3. \A c : Leads(disk, p, n, c) /\ (\A m : ~Has(disk, c, m)) => c \notin On(f.walk)
      <3>1. \A c : Leads(disk, p, n, c) /\ (\A m : ~Has(disk, c, m)) => c \notin On(w)
        BY EmptyIsNotOn
      <3> QED
        BY <2>1, <3>1
    <2>4. Good(disk', dts, dts[s], line[s], f)
      BY <2>1, <2>2, <2>3, GoodFlush
    <2> QED
      BY <2>4 DEF f
  <1>8. AllGood(disk', dts, dts[s], line[s], t)
    BY <1>7 DEF AllGood
  <1> QED
    BY <1>1, <1>3, <1>4, <1>8 DEF Settled, Others, t

-----------------------------------------------------------------------------
\* The steps of the loops.

\* Only the rm of a child runs on other frames.
LEMMA LoopOutermost ==
    ASSUME CallsInv, PathInv, NEW s \in Shells, call[s] # <<>>, Head(call[s]).fn \in Loops,
           Head(call[s]).fn = "rm" => Len(Head(call[s]).rest) # 1
    PROVE  Tail(call[s]) = <<>>
  <1> DEFINE c == call[s]
  <1>1. PICK S : c \in Seq(S)
    BY PathsHave
  <1>2. OnTop(Head(c), Tail(c)) /\ c # <<>>
    BY PathsHave
  <1> SUFFICES ASSUME Tail(c) # <<>> PROVE FALSE
    OBVIOUS
  <1>3. Head(c).fn \in Loops /\ (Head(c).fn = "rm" => Len(Head(c).rest) # 1)
    OBVIOUS
  <1> DEFINE t == Tail(c)
  <1>4. t \in Seq(S)
    BY <1>1, <1>2
  <1> HIDE DEF t
  <1>5. 1 \in DOMAIN t
    BY <1>4 DEF t
  <1>6. Under(Head(c), t[1])
    BY <1>2, <1>5 DEF OnTop, t
  <1> HIDE DEF c
  <1> QED
    BY <1>3, <1>6 DEF Under

\* What may stand somewhere depends on the function and its path only.
LEMMA OnTopLike ==
    ASSUME NEW f, NEW g, NEW t, OnTop(f, t), g.fn = f.fn,
           f.fn \in Loops => g.rest = f.rest, f.fn \in {"rm", "flush"} => g.walk = f.walk
    PROVE  OnTop(g, t)
  BY DEF OnTop, Under

\* The steps that leave the disk alone.

\* They return, lose their way or go on.
LEMMA JustReturns ==
    ASSUME CallsInv, PathInv, NEW s \in Shells, call[s] # <<>>, UNCHANGED vars, Return(s)
    PROVE  PathInv'
  BY SettledSame, GoodReturn DEF vars

LEMMA JustLoses ==
    ASSUME CallsInv, PathInv, NEW s \in Shells, call[s] # <<>>, UNCHANGED vars, Lose(s)
    PROVE  PathInv'
  BY SettledSame, GoodLose DEF vars

LEMMA JustGoesOn ==
    ASSUME CallsInv, PathInv, NEW s \in Shells, call[s] # <<>>, UNCHANGED vars, NEW g,
           CallIs(s, <<g>> \o Tail(call[s])),
           Good(disk, dts, dts[s], line[s], g), OnTop(g, Tail(call[s]))
    PROVE  PathInv'
  BY SettledSame, GoodGoOn DEF vars, NowGood

\* The part of a path a loop has before it is a sequence of components.
LEMMA RestIsPath ==
    ASSUME NEW d, NEW D, NEW w, NEW l, NEW f, f.fn \in Loops, Good(d, D, w, l, f)
    PROVE  f.rest \in Seq(Parts) /\ (f.fn = "rm" => f.rest # <<>>)
  <1>1. CASE f.fn = "rm"
    BY <1>1 DEF Good, RmGood
  <1>2. CASE f.fn # "rm"
    <2>1. f.rest \in Seq(Parts \ {RootName})
      BY <1>2 DEF Good, Rootless
    <2> QED
      BY <1>2, <2>1
  <1> QED
    BY <1>1, <1>2

\* The loop goes on with the next component.
LEMMA LoopMoves ==
    ASSUME CallsInv, PathInv, NEW s \in Shells, call[s] # <<>>, DiskOK(disk),
           Head(call[s]).fn \in Loops, Head(call[s]).rest # <<>>,
           Len(Head(call[s]).rest) = 1 =>
             Head(call[s]).fn # "rm" /\ ~(Head(call[s]).fn = "source" /\ Head(call[s]).mv),
           NEW g, g.fn = Head(call[s]).fn, g.rest = Tail(Head(call[s]).rest), Path(disk, g.walk),
           g.fn \in {"cd", "rm"} => g.walk = PathStep(disk, Head(call[s]).walk, Head(Head(call[s]).rest)),
           g.at = "peek" \/ (g.at = "into" /\ g.cwd.self = Last(g.walk)),
           g.fn \in {"source", "dest"} => g.name = Head(call[s]).name /\ g.mv = Head(call[s]).mv,
           g.fn = "source" => g.to = Head(call[s]).to,
           g.fn = "dest" => g.isfile = Head(call[s]).isfile /\ g.want = Head(call[s]).want,
           UNCHANGED vars, CallIs(s, <<g>> \o Tail(call[s]))
    PROVE  PathInv'
  <1> DEFINE f == Head(call[s])
             l == line[s]
             w == dts[s]
  <1>1. Good(disk, dts, w, l, f) /\ Path(disk, w) /\ w \in Seq(Links)
    BY PathsHave
  <1>2. OnTop(g, Tail(call[s]))
    <2>1. Tail(call[s]) = <<>>
      BY LoopOutermost
    <2> QED
      BY <2>1, NothingNested
  <1>3. Good(disk, dts, w, l, g)
    <2>0. /\ f.fn \in Loops /\ f.rest # <<>>
          /\ Len(f.rest) = 1 => f.fn # "rm" /\ ~(f.fn = "source" /\ f.mv)
          /\ g.fn = f.fn /\ g.rest = Tail(f.rest) /\ Path(disk, g.walk)
          /\ g.fn \in {"cd", "rm"} => g.walk = PathStep(disk, f.walk, Head(f.rest))
          /\ g.at = "peek" \/ (g.at = "into" /\ g.cwd.self = Last(g.walk))
          /\ g.fn \in {"source", "dest"} => g.name = f.name /\ g.mv = f.mv
          /\ g.fn = "source" => g.to = f.to
          /\ g.fn = "dest" => g.isfile = f.isfile /\ g.want = f.want
      OBVIOUS
    <2> HIDE DEF f, l, w
    <2>1. f.rest \in Seq(Parts)
      BY <1>1, <2>0, RestIsPath
    <2>2. /\ Tail(f.rest) \in Seq(Parts) /\ (Len(f.rest) = 1 <=> Tail(f.rest) = <<>>)
          /\ Len(f.rest) > 1 => Last(Tail(f.rest)) = Last(f.rest)
          /\ Len(f.rest) \in Nat /\ Len(f.rest) > 0
      BY <2>0, <2>1, RestOf
    <2>3. Rootless(f.rest) => Rootless(g.rest)
      <3> DEFINE S == Parts \ {RootName}
      <3> HIDE DEF S
      <3>1. f.rest \in Seq(S) => Tail(f.rest) \in Seq(S)
        BY <2>0
      <3> QED
        BY <2>0, <3>1 DEF Rootless, S
    <2>4. f.fn \in {"cd", "rm"} /\ Led(disk, w, l, f) => Led(disk, w, l, g)
      BY <1>1, <2>0, LedStep
    <2>5. f.fn = "rm" => RmGood(disk, dts, w, l, g)
      <3> SUFFICES ASSUME f.fn = "rm" PROVE RmGood(disk, dts, w, l, g)
        OBVIOUS
      <3>1. /\ Kills(l) /\ Last(f.rest) \in Names /\ Len(f.rest) # 1
            /\ Rootless(f.rest) /\ Led(disk, w, l, f)
            /\ FolderDoomed(disk, dts, Place(disk, w, l.path)[1], Place(disk, w, l.path)[2])
        BY <1>1, <2>0 DEF Good, RmGood
      <3>2. Len(f.rest) > 1
        <4>1. \A x \in Nat : x > 0 /\ x # 1 => x > 1
          OBVIOUS
        <4> QED
          BY <2>2, <3>1, <4>1
      <3> QED
        BY <2>0, <2>2, <2>3, <2>4, <3>1, <3>2 DEF RmGood
    <2>6. f.fn = "source" => SourceGood(disk, dts, w, g)
      <3>1. ASSUME f.fn = "source", f.mv PROVE FALSE
        <4>1. f.rest = <<f.name>>
          BY <1>1, <3>1 DEF Good, SourceGood
        <4>2. Len(f.rest) = 1
          BY <4>1
        <4> QED
          BY <2>0, <3>1, <4>2
      <3> QED
        BY <1>1, <2>0, <3>1 DEF Good, SourceGood
    <2>7. f.fn = "dest" => DestGood(disk, dts, w, g)
      BY <1>1, <2>0 DEF Good, DestGood
    <2>8. f.fn # "flush" /\ f.fn # "copy" /\ f.fn # "scan"
      BY <2>0 DEF Loops
    <2> QED
      BY <1>1, <2>0, <2>3, <2>4, <2>5, <2>6, <2>7, <2>8 DEF Good
  <1> QED
    BY <1>2, <1>3, JustGoesOn

\* The loop stays where it is.
LEMMA LoopHolds ==
    ASSUME CallsInv, PathInv, NEW s \in Shells, call[s] # <<>>,
           Head(call[s]).fn \in Loops \ {"source"},
           NEW g, g.fn = Head(call[s]).fn, g.rest = Head(call[s]).rest, g.walk = Head(call[s]).walk,
           g.at # "peek" => g.cwd.self = Last(g.walk),
           g.at \in {"name", "write", "open"} => g.rest # <<>>,
           g.fn = "rm" /\ g.at = "open" => Len(g.rest) = 1 /\ ~MakesRoot(Last(g.walk).cluster, Head(g.rest)),
           g.fn = "dest" => /\ g.name = Head(call[s]).name /\ g.mv = Head(call[s]).mv
                            /\ g.isfile = Head(call[s]).isfile /\ g.want = Head(call[s]).want
    PROVE  Good(disk, dts, dts[s], line[s], g) /\ OnTop(g, Tail(call[s]))
  <1> DEFINE f == Head(call[s])
             l == line[s]
             w == dts[s]
  <1>1. Good(disk, dts, w, l, f) /\ OnTop(f, Tail(call[s]))
    BY PathsHave
  <1>2. /\ f.fn \in Loops \ {"source"} /\ g.fn = f.fn /\ g.rest = f.rest /\ g.walk = f.walk
        /\ g.at # "peek" => g.cwd.self = Last(g.walk)
        /\ g.at \in {"name", "write", "open"} => g.rest # <<>>
        /\ g.fn = "rm" /\ g.at = "open" => Len(g.rest) = 1 /\ ~MakesRoot(Last(g.walk).cluster, Head(g.rest))
        /\ g.fn = "dest" => g.name = f.name /\ g.mv = f.mv /\ g.isfile = f.isfile /\ g.want = f.want
    OBVIOUS
  <1> HIDE DEF f, l, w
  <1>3. Led(disk, w, l, f) => Led(disk, w, l, g)
    BY <1>2 DEF Led
  <1>4. f.fn = "rm" => RmGood(disk, dts, w, l, g)
    BY <1>1, <1>2, <1>3 DEF Good, RmGood
  <1>5. f.fn = "dest" => DestGood(disk, dts, w, g)
    BY <1>1, <1>2 DEF Good, DestGood
  <1>6. f.fn # "flush" /\ f.fn # "copy" /\ f.fn # "scan" /\ f.fn # "source"
    BY <1>2 DEF Loops
  <1>7. Good(disk, dts, w, l, g)
    BY <1>1, <1>2, <1>3, <1>4, <1>5, <1>6 DEF Good
  <1>8. OnTop(g, Tail(call[s]))
    BY <1>1, <1>2, OnTopLike
  <1> QED
    BY <1>7, <1>8 DEF l, w

-----------------------------------------------------------------------------
\* What a loop has at hand: a path, and the table at its top once it was read.
LEMMA LoopNow ==
    ASSUME Served, CallsInv, PathInv, NEW s \in Shells, NEW fns \in SUBSET Loops, NEW at, In(s, fns, at)
    PROVE  LET f == Head(call[s])
               t == Peeked(f)
           IN  /\ call[s] # <<>> /\ f.fn \in Loops /\ f.fn \in fns /\ f.at = at
               /\ {"fn", "at", "rest", "walk", "cwd"} \subseteq DOMAIN f
               /\ f.fn = "source" => {"name", "to", "mv", "dir", "size"} \subseteq DOMAIN f /\ f.name \in Names
               /\ f.fn = "dest" => {"name", "mv", "dir", "isfile", "size", "data", "want"} \subseteq DOMAIN f
               /\ Good(disk, dts, dts[s], line[s], f) /\ Path(disk, f.walk)
               /\ Known(t) /\ t = ReadTable(disk, Last(f.walk).cluster) /\ t.self = Last(f.walk)
               /\ at # "peek" => /\ f.cwd.self = Last(f.walk)
                                 /\ ClusterNumber(f.cwd) = Last(f.walk).cluster
               /\ f.rest \in Seq(Parts) /\ DiskOK(disk) /\ IsStore(disk)
               /\ at \in {"name", "write", "open"} => Head(f.rest) \in Names /\ f.rest # <<>>
  <1> DEFINE f == Head(call[s])
             t == Peeked(f)
  <1>1. /\ call[s] # <<>> /\ FrameOK(f) /\ f.fn \in Loops /\ f.fn \in fns /\ f.at = at
        /\ {"fn", "at", "rest", "walk", "cwd"} \subseteq DOMAIN f
        /\ Known(f.cwd) \/ (at = "peek" /\ f.cwd = Unread)
        /\ at \in {"name", "write", "open"} => Head(f.rest) \in Names
        /\ f.fn = "source" => SourceFrame(f)
        /\ f.fn = "dest" => DestFrame(f)
    BY LoopHas
  <1>2. Good(disk, dts, dts[s], line[s], f)
    BY <1>1, PathsHave
  <1> HIDE DEF f
  <1>3. Path(disk, f.walk)
    BY <1>1, <1>2 DEF Good
  <1>4. Known(t) /\ t = ReadTable(disk, Last(f.walk).cluster) /\ t.self = Last(f.walk)
    BY <1>3, PeekedTop DEF PathInv
  <1> HIDE DEF t
  <1>5. at # "peek" => f.cwd.self = Last(f.walk) /\ ClusterNumber(f.cwd) = Last(f.walk).cluster
    <2>1. at # "peek" => f.cwd.self = Last(f.walk)
      BY <1>1, <1>2 DEF Good
    <2>2. Known(f.cwd) => ClusterNumber(f.cwd) = f.cwd.self.cluster
      BY KnownFacts
    <2> QED
      BY <1>1, <2>1, <2>2
  <1>6. f.rest \in Seq(Parts)
    BY <1>1, <1>2, RestIsPath
  <1>7. f.fn = "source" => {"name", "to", "mv", "dir", "size"} \subseteq DOMAIN f /\ f.name \in Names
    BY <1>1 DEF SourceFrame
  <1>8. f.fn = "dest" => {"name", "mv", "dir", "isfile", "size", "data", "want"} \subseteq DOMAIN f
    BY <1>1 DEF DestFrame
  <1>9. at \in {"name", "write", "open"} => f.rest # <<>>
    BY <1>1, <1>2 DEF Good
  <1> QED
    BY <1>1, <1>2, <1>3, <1>4, <1>5, <1>6, <1>7, <1>8, <1>9, StoreServed DEF f, t

\* Where an rm's last component is a name, it has none of the others left.
LEMMA LastIsName ==
    ASSUME NEW d, NEW D, NEW w, NEW l, NEW f, Good(d, D, w, l, f), Len(f.rest) = 1, Head(f.rest) \notin Names
    PROVE  f.fn # "rm" /\ (f.fn = "source" => ~f.mv \/ f.name \notin Names)
  <1>1. ASSUME f.fn = "rm" PROVE FALSE
    <2>1. f.rest \in Seq(Parts) /\ f.rest # <<>> /\ Last(f.rest) \in Names
      BY <1>1 DEF Good, RmGood
    <2>2. Last(f.rest) = Head(f.rest)
      BY <2>1, RestOf
    <2> QED
      BY <2>1, <2>2
  <1>2. ASSUME f.fn = "source", f.mv PROVE f.name \notin Names
    <2>1. f.rest = <<f.name>>
      BY <1>2 DEF Good, SourceGood
    <2>2. Head(f.rest) = f.name
      BY <2>1
    <2> QED
      BY <2>2
  <1> QED
    BY <1>1, <1>2

\* The two components that are no names.
LEMMA UpAndHere == Up \notin Names /\ Here \notin Names /\ Up # Here
  BY ShellAssumption DEF Up, Here

\* ".." pops a path, or stays.
LEMMA GoUpPath ==
    ASSUME Served, CallsInv, PathInv, NEW s \in Shells, GoUp(s) PROVE PathInv'
  <1> DEFINE f == Head(call[s])
             w == IF f.fn = "dest" THEN f.walk ELSE Popped(f.walk)
             t == Peeked(f)
             g == [f EXCEPT !.at = "peek", !.rest = Tail(f.rest), !.walk = w, !.cwd = t]
  <1>0. In(s, Loops, "peek")
    BY DEF GoUp
  <1>1. /\ call[s] # <<>> /\ f.fn \in Loops
        /\ {"fn", "at", "rest", "walk", "cwd"} \subseteq DOMAIN f
        /\ f.fn = "source" => {"name", "to", "mv", "dir", "size"} \subseteq DOMAIN f /\ f.name \in Names
        /\ f.fn = "dest" => {"name", "mv", "dir", "isfile", "size", "data", "want"} \subseteq DOMAIN f
        /\ Good(disk, dts, dts[s], line[s], f) /\ Path(disk, f.walk)
        /\ DiskOK(disk)
    BY <1>0, LoopNow
  <1>2. f.rest # <<>> /\ Head(f.rest) = Up /\ UNCHANGED vars
    BY DEF GoUp
  <1>3. [Advanced(f) EXCEPT !.walk = IF f.fn = "dest" THEN @ ELSE Popped(@), !.cwd = t] = g
    BY <1>1 DEF Advanced
  <1>4. Return(s) \/ GoOn(s, <<g>>)
    BY <1>3 DEF GoUp
  <1>5. CASE Return(s)
    BY <1>1, <1>2, <1>5, JustReturns
  <1>6. CASE GoOn(s, <<g>>)
    <2>1. Path(disk, w)
      BY <1>1, PathPopped
    <2>2. f.fn \in {"cd", "rm"} => w = PathStep(disk, f.walk, Head(f.rest))
      BY <1>1, <1>2, UpAndHere, PathHas DEF PathStep, Popped
    <2> HIDE DEF w, t
    <2>3. /\ g.fn = f.fn /\ g.at = "peek" /\ g.rest = Tail(f.rest) /\ g.walk = w
          /\ g.fn \in {"source", "dest"} => g.name = f.name /\ g.mv = f.mv
          /\ g.fn = "source" => g.to = f.to
          /\ g.fn = "dest" => g.isfile = f.isfile /\ g.want = f.want
      BY <1>1
    <2> HIDE DEF g
    <2>4. CallIs(s, <<g>> \o Tail(call[s]))
      BY <1>6, GoOnIs
    <2>5. Len(f.rest) = 1 => f.fn # "rm" /\ ~(f.fn = "source" /\ f.mv)
      BY <1>1, <1>2, UpAndHere, LastIsName
    <2> QED
      BY <1>1, <1>2, <2>1, <2>2, <2>3, <2>4, <2>5, LoopMoves
  <1> QED
    BY <1>4, <1>5, <1>6

\* "." stays.
LEMMA StayPath ==
    ASSUME Served, CallsInv, PathInv, NEW s \in Shells, Stay(s) PROVE PathInv'
  <1> DEFINE f == Head(call[s])
             t == Peeked(f)
             g == [f EXCEPT !.at = "peek", !.rest = Tail(f.rest), !.cwd = t]
  <1>0. In(s, Loops, "peek")
    BY DEF Stay
  <1>1. /\ call[s] # <<>> /\ f.fn \in Loops
        /\ {"fn", "at", "rest", "walk", "cwd"} \subseteq DOMAIN f
        /\ f.fn = "source" => {"name", "to", "mv", "dir", "size"} \subseteq DOMAIN f /\ f.name \in Names
        /\ f.fn = "dest" => {"name", "mv", "dir", "isfile", "size", "data", "want"} \subseteq DOMAIN f
        /\ Good(disk, dts, dts[s], line[s], f) /\ Path(disk, f.walk)
        /\ DiskOK(disk)
    BY <1>0, LoopNow
  <1>2. f.rest # <<>> /\ Head(f.rest) = Here /\ UNCHANGED vars
    BY DEF Stay
  <1>3. [Advanced(f) EXCEPT !.cwd = t] = g
    BY <1>1 DEF Advanced
  <1>4. GoOn(s, <<g>>)
    BY <1>3 DEF Stay
  <1>5. f.walk = PathStep(disk, f.walk, Head(f.rest))
    BY <1>2 DEF PathStep
  <1> HIDE DEF t
  <1>6. /\ g.fn = f.fn /\ g.at = "peek" /\ g.rest = Tail(f.rest) /\ g.walk = f.walk
        /\ g.fn \in {"source", "dest"} => g.name = f.name /\ g.mv = f.mv
        /\ g.fn = "source" => g.to = f.to
        /\ g.fn = "dest" => g.isfile = f.isfile /\ g.want = f.want
    BY <1>1
  <1> HIDE DEF g
  <1>7. CallIs(s, <<g>> \o Tail(call[s]))
    BY <1>4, GoOnIs
  <1>8. Len(f.rest) = 1 => f.fn # "rm" /\ ~(f.fn = "source" /\ f.mv)
    BY <1>1, <1>2, UpAndHere, LastIsName
  <1> QED
    BY <1>1, <1>2, <1>5, <1>6, <1>7, <1>8, LoopMoves

\* A directory that is entered is pushed where it was found.
LEMMA EnterPath ==
    ASSUME Served, CallsInv, PathInv, NEW s \in Shells, Enter(s) PROVE PathInv'
  <1> DEFINE f == Head(call[s])
             p == ClusterNumber(f.cwd)
             n == IF f.fn = "source" THEN f.name ELSE Head(f.rest)
             t == ReadDirectory(p, n)
             a == IF f.fn = "dest" /\ IsLast(f) THEN "into" ELSE "peek"
             w == Pushed(f.walk, t)
             g == [f EXCEPT !.at = a, !.rest = Tail(f.rest), !.walk = w, !.cwd = t]
  <1>0. In(s, Loops, "name")
    BY DEF Enter
  <1>1. /\ call[s] # <<>> /\ f.fn \in Loops
        /\ {"fn", "at", "rest", "walk", "cwd"} \subseteq DOMAIN f
        /\ f.fn = "source" => {"name", "to", "mv", "dir", "size"} \subseteq DOMAIN f /\ f.name \in Names
        /\ f.fn = "dest" => {"name", "mv", "dir", "isfile", "size", "data", "want"} \subseteq DOMAIN f
        /\ Good(disk, dts, dts[s], line[s], f) /\ Path(disk, f.walk)
        /\ p = Last(f.walk).cluster /\ f.rest \in Seq(Parts)
        /\ DiskOK(disk) /\ Head(f.rest) \in Names /\ f.rest # <<>>
    BY <1>0, LoopNow
  <1>2. UNCHANGED vars /\ Enters(f)
    BY DEF Enter
  <1>3. [Advanced(f) EXCEPT !.at = a, !.walk = Pushed(@, t), !.cwd = t] = g
    BY <1>1 DEF Advanced
  <1>4. Return(s) \/ (Reads(p, n) /\ GoOn(s, <<g>>))
    BY <1>3 DEF Enter
  <1>5. CASE Return(s)
    BY <1>1, <1>2, <1>5, JustReturns
  <1>6. ASSUME Reads(p, n), GoOn(s, <<g>>) PROVE PathInv'
    <2>1. n # RootName
      <3>1. CASE f.fn = "source"
        BY <1>1, <3>1 DEF Good
      <3>2. CASE f.fn # "source"
        <4>1. Rootless(f.rest)
          BY <1>1, <1>2, <3>2 DEF Enters, IsLast, Good, RmGood
        <4> DEFINE S == Parts \ {RootName}
        <4>2. f.rest \in Seq(S)
          BY <4>1 DEF Rootless
        <4> HIDE DEF S
        <4>3. Head(f.rest) \in S
          BY <1>1, <4>2
        <4> QED
          BY <3>2, <4>3 DEF S
      <3> QED
        BY <3>1, <3>2
    <2>2. ~MakesRoot(p, n)
      BY <2>1 DEF MakesRoot
    <2> HIDE DEF p
    <2>3. Reads(Last(f.walk).cluster, n) /\ ~MakesRoot(Last(f.walk).cluster, n)
      BY <1>1, <1>6, <2>2
    <2>4. /\ Path(disk, w) /\ Last(w) = t.self
          /\ n \in {Up, Here} \/ w = PathStep(disk, f.walk, n)
          /\ n \in Names
      BY <1>1, <2>3, EnteredPath
    <2>5. f.fn \in {"cd", "rm"} => w = PathStep(disk, f.walk, Head(f.rest))
      BY <2>4, UpAndHere
    <2>6. a # "peek" => a = "into" /\ f.fn = "dest"
      OBVIOUS
    <2> HIDE DEF w, t, n, a
    <2>7. /\ g.fn = f.fn /\ g.at = a /\ g.rest = Tail(f.rest) /\ g.walk = w /\ g.cwd = t
          /\ g.fn \in {"source", "dest"} => g.name = f.name /\ g.mv = f.mv
          /\ g.fn = "source" => g.to = f.to
          /\ g.fn = "dest" => g.isfile = f.isfile /\ g.want = f.want
      BY <1>1
    <2> HIDE DEF g
    <2>8. CallIs(s, <<g>> \o Tail(call[s]))
      BY <1>6, GoOnIs
    <2>9. Len(f.rest) = 1 => f.fn # "rm" /\ ~(f.fn = "source" /\ f.mv)
      BY <1>2 DEF Enters, IsLast
    <2> QED
      BY <1>1, <1>2, <2>4, <2>5, <2>6, <2>7, <2>8, <2>9, LoopMoves
  <1> QED
    BY <1>4, <1>5, <1>6

\* What is no directory ends the command.
LEMMA RefusePath ==
    ASSUME CallsInv, PathInv, NEW s \in Shells, Refuse(s) PROVE PathInv'
  <1>1. call[s] # <<>>
    BY Entered DEF Refuse
  <1> QED
    BY <1>1, JustReturns DEF Refuse

\* The end of the path: cd takes the path it walked along.
LEMMA EndOfPathPath ==
    ASSUME Served, CallsInv, PathInv, NEW s \in Shells, EndOfPath(s) PROVE PathInv'
  <1> DEFINE f == Head(call[s])
  <1>0. In(s, Loops, "peek")
    BY DEF EndOfPath
  <1>1. call[s] # <<>> /\ Path(disk, f.walk) /\ DiskOK(disk)
    BY <1>0, LoopNow
  <1>2. CASE f.fn # "cd"
    <2>1. Return(s) /\ UNCHANGED vars
      BY <1>2 DEF EndOfPath
    <2> QED
      BY <1>1, <2>1, JustReturns
  <1>3. CASE f.fn = "cd"
    <2>1. /\ dts' = [dts EXCEPT ![s] = f.walk] /\ call' = [call EXCEPT ![s] = <<>>]
          /\ line' = [line EXCEPT ![s] = NoLine] /\ disk' = disk
      BY <1>3 DEF EndOfPath, vars
    <2> HIDE DEF f
    <2>2. /\ dts'[s] = f.walk /\ call'[s] = <<>>
          /\ \A z \in Shells : z # s => dts'[z] = dts[z] /\ call'[z] = call[z] /\ line'[z] = line[z]
      BY <2>1 DEF CallsInv
    <2>3. RootFree(disk')
      BY <2>1 DEF PathInv
    <2>4. ASSUME NEW z \in Shells
          PROVE  /\ Path(disk', dts'[z]) /\ Nested(call'[z])
                 /\ AllGood(disk', dts', dts'[z], line'[z], call'[z])
      <3>1. CASE z = s
        BY <1>1, <2>1, <2>2, <3>1, NothingNested
      <3>2. CASE z # s
        <4>1. Path(disk, dts[z]) /\ Nested(call[z]) /\ AllGood(disk, dts, dts[z], line[z], call[z])
          BY DEF PathInv
        <4>2. CASE call[z] = <<>>
          BY <2>1, <2>2, <3>2, <4>1, <4>2, NothingNested
        <4>3. CASE call[z] # <<>>
          <5>1. ~Kills(line[z])
            BY <1>1, <3>2, <4>3, OthersCalm
          <5>2. dts[z] \in Seq(Links)
            BY <4>1, PathHas
          <5>3. Grows(disk, disk, 0, 0, TRUE)
            BY SameGrows
          <5>4. AllGood(disk, dts', dts[z], line[z], call[z])
            BY <1>1, <4>1, <5>1, <5>2, <5>3, GoodCalm DEF AllGood
          <5> QED
            BY <2>1, <2>2, <3>2, <4>1, <5>4
        <4> QED
          BY <4>2, <4>3
      <3> QED
        BY <3>1, <3>2
    <2>5. Apart'
      <3> SUFFICES ASSUME NEW z \in Shells, call'[z] # <<>>
                   PROVE  /\ Kills(line'[z]) => line'[z].alone
                          /\ line'[z].alone => Running' = {z}
        BY DEF Apart
      <3>1. z # s /\ line'[z] = line[z] /\ call[z] # <<>>
        BY <2>2
      <3>2. (Kills(line[z]) => line[z].alone) /\ (line[z].alone => Running = {z})
        BY <3>1 DEF PathInv, Apart
      <3>3. s \in Running
        BY <1>1 DEF Running
      <3> QED
        BY <3>1, <3>2, <3>3
    <2> QED
      BY <2>3, <2>4, <2>5 DEF PathInv
  <1> QED
    BY <1>2, <1>3

\* What mv finds out about its source.
LEMMA ExaminedSource ==
    ASSUME NEW t, NEW d, DiskOK(d), NEW p \in Clusters, t = ReadTable(d, p),
           NEW n, Found(t, n), n \notin {t.self.name, t.parent.name}
    PROVE  EntryIn(t, n).dir = IsFolderAt(d, p, n)
  <1>1. n \in DOMAIN t.entries
    BY DEF Found
  <1>2. t.entries[n] \in [dir: BOOLEAN, cluster: Clusters, size: Sizes \cup {0}]
    <2>1. TableOK(ReadTable(d, p))
      BY ReadTableOK
    <2> QED
      BY <1>1, <2>1 DEF TableOK
  <1>3. Has(d, p, n) /\ EntryOf(d, p, n) = t.entries[n] /\ EntryIn(t, n) = t.entries[n]
    BY <1>1 DEF Has, EntryOf, EntryIn
  <1>4. IsFolderAt(d, p, n) <=> t.entries[n].dir
    BY <1>2, <1>3 DEF IsFolderAt, Leads
  <1>5. IsFolderAt(d, p, n) \in BOOLEAN /\ t.entries[n].dir \in BOOLEAN
    BY <1>2 DEF IsFolderAt
  <1> QED
    BY <1>3, <1>4, <1>5

\* A look at the table changes no stack; mv learns what it is to remove.
LEMMA ExaminePath ==
    ASSUME Served, CallsInv, PathInv, NEW s \in Shells, Examine(s) PROVE PathInv'
  <1> DEFINE f == Head(call[s])
             t == Peeked(f)
             h == [f EXCEPT !.at = "name", !.cwd = t]
             l == line[s]
             w == dts[s]
  <1>0. In(s, Loops, "peek")
    BY DEF Examine
  <1>1. /\ call[s] # <<>> /\ f.fn \in Loops /\ f.at = "peek"
        /\ {"fn", "at", "rest", "walk", "cwd"} \subseteq DOMAIN f
        /\ f.fn = "source" => {"name", "to", "mv", "dir", "size"} \subseteq DOMAIN f /\ f.name \in Names
        /\ f.fn = "dest" => {"name", "mv", "dir", "isfile", "size", "data", "want"} \subseteq DOMAIN f
        /\ Good(disk, dts, w, l, f) /\ Path(disk, f.walk)
        /\ t = ReadTable(disk, Last(f.walk).cluster) /\ t.self = Last(f.walk)
        /\ DiskOK(disk)
    BY <1>0, LoopNow
  <1>2. f.rest # <<>> /\ Head(f.rest) \in Names /\ UNCHANGED vars
    BY DEF Examine
  <1>3. Lose(s) \/ \E g \in Examined(f) : ~(f.fn = "source" /\ g.size = -1) /\ GoOn(s, <<g>>)
    BY DEF Examine
  <1>4. CASE Lose(s)
    BY <1>1, <1>2, <1>4, JustLoses
  <1>5. ASSUME NEW g \in Examined(f), ~(f.fn = "source" /\ g.size = -1), GoOn(s, <<g>>)
        PROVE  PathInv'
    <2>0. /\ h.fn = f.fn /\ h.at = "name" /\ h.rest = f.rest /\ h.walk = f.walk /\ h.cwd = t
          /\ DOMAIN h = DOMAIN f
          /\ f.fn = "source" => h.name = f.name /\ h.mv = f.mv /\ h.to = f.to /\ h.size = f.size
          /\ f.fn = "dest" => h.name = f.name /\ h.mv = f.mv /\ h.isfile = f.isfile /\ h.want = f.want
      BY <1>1
    <2> DEFINE n == Head(f.rest)
               known == Found(h.cwd, n)
               e == EntryIn(h.cwd, n)
               D == IF known THEN {e.dir} ELSE f.dir
               F(d) == IF f.fn = "source"
                         THEN [h EXCEPT !.dir = {d}, !.size = IF known THEN e.size ELSE @]
                         ELSE [h EXCEPT !.dir = {d}]
    <2>1. Examined(f) = IF f.fn \notin {"source", "dest"} THEN {h} ELSE {F(d) : d \in D}
      BY DEF Examined
    <2> HIDE DEF h, t, D, known, e, n
    <2>2. /\ g.fn = f.fn /\ g.at = "name" /\ g.rest = f.rest /\ g.walk = f.walk /\ g.cwd = t
          /\ f.fn = "source" => /\ g.name = f.name /\ g.mv = f.mv /\ g.to = f.to
                                /\ \E d \in D : g.dir = {d}
                                /\ g.size = IF known THEN e.size ELSE f.size
          /\ f.fn = "dest" => g.name = f.name /\ g.mv = f.mv /\ g.isfile = f.isfile /\ g.want = f.want
      <3>1. CASE f.fn \notin {"source", "dest"}
        <4>1. g = h
          BY <1>5, <2>1, <3>1
        <4> QED
          BY <2>0, <3>1, <4>1
      <3>2. CASE f.fn \in {"source", "dest"}
        <4>1. PICK d \in D : g = F(d)
          <5> HIDE DEF F
          <5> QED
            BY <1>5, <2>1, <3>2
        <4>2. CASE f.fn = "source"
          <5>1. g = [h EXCEPT !.dir = {d}, !.size = IF known THEN e.size ELSE h.size]
            BY <1>1, <2>0, <4>1, <4>2
          <5> QED
            BY <1>1, <2>0, <4>2, <5>1
        <4>3. CASE f.fn = "dest"
          <5>1. g = [h EXCEPT !.dir = {d}]
            BY <4>1, <4>3
          <5> QED
            BY <1>1, <2>0, <4>3, <5>1
        <4> QED
          BY <3>2, <4>2, <4>3
      <3> QED
        BY <3>1, <3>2
    <2>3. CallIs(s, <<g>> \o Tail(call[s]))
      BY <1>5, GoOnIs
    <2>4. ASSUME f.fn # "source" PROVE PathInv'
      <3>1. /\ g.cwd.self = Last(g.walk) /\ g.rest # <<>> /\ g.at # "open"
        BY <1>1, <1>2, <2>2
      <3>2. Good(disk, dts, dts[s], line[s], g) /\ OnTop(g, Tail(call[s]))
        BY <1>1, <2>2, <2>4, <3>1, LoopHolds
      <3> QED
        BY <1>1, <1>2, <2>3, <3>2, JustGoesOn
    <2>5. ASSUME f.fn = "source" PROVE PathInv'
      <3>0. SourceGood(disk, dts, w, f)
        BY <1>1, <2>5 DEF Good
      <3>1. ASSUME f.mv PROVE g.dir = {IsFolderAt(disk, Last(w).cluster, f.name)}
        <4>1. /\ f.walk = w /\ f.rest = <<f.name>> /\ f.size = -1
              /\ f.name \notin {t.self.name, t.parent.name}
          BY <1>1, <3>0, <3>1 DEF SourceGood
        <4>2. n = f.name
          BY <4>1 DEF n
        <4>3. known
          BY <1>5, <2>2, <2>5, <4>1
        <4>4. Found(t, f.name) /\ D = {EntryIn(t, f.name).dir}
          BY <2>0, <4>2, <4>3 DEF known, D, e
        <4>5. Last(w).cluster \in Clusters /\ t = ReadTable(disk, Last(w).cluster)
          BY <1>1, <4>1, PathHas
        <4>6. EntryIn(t, f.name).dir = IsFolderAt(disk, Last(w).cluster, f.name)
          <5> DEFINE top == Last(w).cluster
                     m == f.name
          <5>1. /\ top \in Clusters /\ t = ReadTable(disk, top) /\ DiskOK(disk)
                /\ Found(t, m) /\ m \notin {t.self.name, t.parent.name}
            BY <1>1, <4>1, <4>4, <4>5
          <5> HIDE DEF top, m
          <5>2. EntryIn(t, m).dir = IsFolderAt(disk, top, m)
            BY <5>1, ExaminedSource
          <5> QED
            BY <5>2 DEF top, m
        <4> QED
          BY <2>2, <2>5, <4>4, <4>6
      <3>2. SourceGood(disk, dts, w, g)
        BY <1>1, <2>2, <2>5, <3>0, <3>1 DEF SourceGood
      <3>3. g.fn = "source" /\ g.cwd.self = Last(g.walk) /\ g.rest # <<>>
        BY <1>1, <1>2, <2>2, <2>5
      <3> HIDE DEF f, l, w
      <3>4. Good(disk, dts, w, l, g)
        BY <1>1, <2>2, <2>5, <3>2, <3>3 DEF Good, Loops
      <3>5. OnTop(f, Tail(call[s]))
        BY <1>1, PathsHave DEF f
      <3>6. OnTop(g, Tail(call[s]))
        BY <2>2, <2>5, <3>5, OnTopLike
      <3> QED
        BY <1>1, <1>2, <2>3, <3>4, <3>6, JustGoesOn DEF l, w
    <2> QED
      BY <2>4, <2>5
  <1> QED
    BY <1>3, <1>4, <1>5

\* What one of the loops has at hand once it has read a table.
LEMMA LoopNowIn ==
    ASSUME Served, CallsInv, PathInv, NEW s \in Shells, NEW fn \in Loops, NEW at, at # "peek", In(s, {fn}, at)
    PROVE  LET f == Head(call[s])
           IN  /\ call[s] # <<>> /\ f.fn = fn /\ f.at = at
               /\ {"fn", "at", "rest", "walk", "cwd"} \subseteq DOMAIN f
               /\ fn = "source" => {"name", "to", "mv", "dir", "size"} \subseteq DOMAIN f /\ f.name \in Names
               /\ fn = "dest" => {"name", "mv", "dir", "isfile", "size", "data", "want"} \subseteq DOMAIN f
               /\ Good(disk, dts, dts[s], line[s], f) /\ Path(disk, f.walk) /\ DiskOK(disk)
               /\ Last(f.walk).cluster \in Clusters /\ f.cwd.self = Last(f.walk)
               /\ ClusterNumber(f.cwd) = Last(f.walk).cluster
               /\ f.rest \in Seq(Parts)
               /\ at \in {"name", "write", "open"} => Head(f.rest) \in Names /\ f.rest # <<>>
  <1> DEFINE f == Head(call[s])
             fns == {fn}
  <1>1. fns \in SUBSET Loops /\ In(s, fns, at)
    OBVIOUS
  <1> HIDE DEF fns
  <1>4. LET t == Peeked(f)
        IN  /\ call[s] # <<>> /\ f.fn \in Loops /\ f.fn \in fns /\ f.at = at
            /\ {"fn", "at", "rest", "walk", "cwd"} \subseteq DOMAIN f
            /\ f.fn = "source" => {"name", "to", "mv", "dir", "size"} \subseteq DOMAIN f /\ f.name \in Names
            /\ f.fn = "dest" => {"name", "mv", "dir", "isfile", "size", "data", "want"} \subseteq DOMAIN f
            /\ Good(disk, dts, dts[s], line[s], f) /\ Path(disk, f.walk)
            /\ Known(t) /\ t = ReadTable(disk, Last(f.walk).cluster) /\ t.self = Last(f.walk)
            /\ at # "peek" => /\ f.cwd.self = Last(f.walk)
                              /\ ClusterNumber(f.cwd) = Last(f.walk).cluster
            /\ f.rest \in Seq(Parts) /\ DiskOK(disk) /\ IsStore(disk)
            /\ at \in {"name", "write", "open"} => Head(f.rest) \in Names /\ f.rest # <<>>
    BY <1>1, LoopNow
  <1> HIDE DEF f
  <1>2. /\ call[s] # <<>> /\ f.fn \in fns /\ f.at = at
        /\ {"fn", "at", "rest", "walk", "cwd"} \subseteq DOMAIN f
        /\ f.fn = "source" => {"name", "to", "mv", "dir", "size"} \subseteq DOMAIN f /\ f.name \in Names
        /\ f.fn = "dest" => {"name", "mv", "dir", "isfile", "size", "data", "want"} \subseteq DOMAIN f
        /\ Good(disk, dts, dts[s], line[s], f) /\ Path(disk, f.walk) /\ DiskOK(disk)
        /\ f.cwd.self = Last(f.walk) /\ ClusterNumber(f.cwd) = Last(f.walk).cluster
        /\ f.rest \in Seq(Parts)
        /\ at \in {"name", "write", "open"} => Head(f.rest) \in Names /\ f.rest # <<>>
    BY <1>4
  <1>3. f.fn = fn
    BY <1>2 DEF fns
  <1> QED
    BY <1>2, <1>3, PathHas DEF f

\* mkdir and cat.

\* mkdir looks whether the directory is there.
LEMMA LookPath ==
    ASSUME Served, CallsInv, PathInv, NEW s \in Shells, Look(s) PROVE PathInv'
  <1> DEFINE f == Head(call[s])
             g == [f EXCEPT !.at = "write"]
  <1>0. In(s, {"mkdir"}, "name") /\ "mkdir" \in Loops
    BY DEF Look, Loops
  <1>1. /\ call[s] # <<>> /\ f.fn \in {"mkdir"} /\ f.fn \in Loops
        /\ {"fn", "at", "rest", "walk", "cwd"} \subseteq DOMAIN f
        /\ f.cwd.self = Last(f.walk) /\ f.rest # <<>>
    BY <1>0, LoopNowIn
  <1>2. (Return(s) \/ GoOn(s, <<g>>)) /\ UNCHANGED vars
    BY DEF Look
  <1>3. g.fn = f.fn /\ g.at = "write" /\ g.rest = f.rest /\ g.walk = f.walk /\ g.cwd = f.cwd
    BY <1>1
  <1> HIDE DEF g
  <1>4. Good(disk, dts, dts[s], line[s], g) /\ OnTop(g, Tail(call[s]))
    BY <1>1, <1>3, LoopHolds
  <1>5. CASE GoOn(s, <<g>>)
    <2>1. CallIs(s, <<g>> \o Tail(call[s]))
      BY <1>5, GoOnIs
    <2> QED
      BY <1>1, <1>2, <1>4, <2>1, JustGoesOn
  <1> QED
    BY <1>1, <1>2, <1>5, JustReturns

\* mkdir makes a directory nobody is in yet.
LEMMA MakeDirectoryPath ==
    ASSUME Served, CallsInv, PathInv, NEW s \in Shells, MakeDirectory(s) PROVE PathInv'
  <1> DEFINE f == Head(call[s])
             p == ClusterNumber(f.cwd)
             n == Head(f.rest)
  <1>0. In(s, {"mkdir"}, "write") /\ "mkdir" \in Loops
    BY DEF MakeDirectory, Loops
  <1>1. /\ call[s] # <<>> /\ f.fn \in {"mkdir"} /\ f.fn \in Loops
        /\ p = Last(f.walk).cluster /\ Path(disk, f.walk) /\ n \in Names
    BY <1>0, LoopNowIn
  <1>2. SysWrite(p, n, 0, Junk) /\ Return(s)
    BY DEF MakeDirectory
  <1>3. p \in Clusters
    BY <1>1, PathHas
  <1>4. Tail(call[s]) = <<>>
    BY <1>1, LoopOutermost
  <1> HIDE DEF p, n
  <1>5. Served' /\ Grows(disk, disk', p, n, 0 = 0)
    BY <1>1, <1>2, <1>3, WriteGrows
  <1>6. Settled(s)
    BY <1>1, <1>4, <1>5, SettledOutermost
  <1> QED
    BY <1>1, <1>2, <1>6, GoodReturn

\* cat changes nothing.
LEMMA ShowPath ==
    ASSUME Served, CallsInv, PathInv, NEW s \in Shells, Show(s) PROVE PathInv'
  <1> DEFINE f == Head(call[s])
             g == [f EXCEPT !.at = "peek", !.rest = Tail(f.rest)]
  <1>0. In(s, {"cat"}, "name") /\ "cat" \in Loops
    BY DEF Show, Loops
  <1>1. /\ call[s] # <<>> /\ f.fn \in {"cat"} /\ f.fn \in Loops
        /\ {"fn", "at", "rest", "walk", "cwd"} \subseteq DOMAIN f
        /\ Path(disk, f.walk) /\ DiskOK(disk) /\ f.rest # <<>>
    BY <1>0, LoopNowIn
  <1>2. Advanced(f) = g
    BY DEF Advanced
  <1>3. \/ Return(s)
        \/ call' = [call EXCEPT ![s] = <<g>> \o Tail(@)] /\ UNCHANGED <<dts, line>>
    BY <1>2 DEF Show
  <1>4. UNCHANGED vars
    BY DEF Show
  <1>5. g.fn = f.fn /\ g.at = "peek" /\ g.rest = Tail(f.rest) /\ g.walk = f.walk
    BY <1>1
  <1> HIDE DEF g
  <1>6. CASE call' = [call EXCEPT ![s] = <<g>> \o Tail(@)] /\ UNCHANGED <<dts, line>>
    <2>1. CallIs(s, <<g>> \o Tail(call[s]))
      BY <1>6 DEF CallIs
    <2> QED
      BY <1>1, <1>4, <1>5, <2>1, LoopMoves
  <1> QED
    BY <1>1, <1>3, <1>4, <1>6, JustReturns

-----------------------------------------------------------------------------
\* rm.

\* What delete calls not empty is a directory.
LEMMA NotEmptyLeads ==
    ASSUME Served, NEW p \in Clusters, NEW n, DeleteCode(p, n) = 2
    PROVE  \E c \in Clusters : Leads(disk, p, n, c)
  <1> DEFINE x == <<p, n>>
             c == EntryOf(disk, p, n).cluster
  <1>0. IsStore(disk) /\ DiskOK(disk)
    BY StoreServed
  <1>1. Has(disk, p, n) /\ IsDirectory(c)
    BY DEF DeleteCode, NotEmptyDirectory
  <1>2. x \in EntriesOn(disk) /\ ClusterOf(disk, x) = c
    BY <1>0, <1>1, HasIsEntry DEF ClusterOf
  <1>3. c \in Clusters /\ c \in Owned(disk, x)
    BY <1>0, <1>2, OwnedFacts, EntryTypes
  <1>4. c \in Tables(disk) /\ c # ROOT_CLUSTER_NUMBER
    BY <1>0, <1>1, <1>2, <1>3, IsDirectoryKnows DEF IsStore, ChainsApart
  <1> HIDE DEF c
  <1>5. PICK y \in EntriesOn(disk) : EntryOf(disk, y[1], y[2]).dir /\ ClusterOf(disk, y) = c
    BY <1>0, <1>4, DirectoryEntry DEF IsStore
  <1>6. y = x
    <2>1. c \in Owned(disk, y)
      BY <1>0, <1>5, OwnedFacts
    <2> QED
      BY <1>0, <1>2, <1>3, <1>5, <2>1 DEF IsStore, ChainsApart
  <1>7. Leads(disk, p, n, c)
    BY <1>1, <1>5, <1>6 DEF Leads, c
  <1> QED
    BY <1>3, <1>7

\* What rm is about to remove may be removed.
LEMMA RemovedIsDoomed ==
    ASSUME NEW d, NEW D, NEW w, NEW l, NEW f, f.fn = "rm", Good(d, D, w, l, f), Len(f.rest) = 1
    PROVE  Kills(l) /\ FolderDoomed(d, D, Last(f.walk).cluster, Head(f.rest))
  <1>1. Path(d, f.walk) /\ RmGood(d, D, w, l, f)
    BY DEF Good, Loops
  <1>2. Head(f.rest) = f.rest[1]
    BY <1>1, RestOf DEF RmGood
  <1>3. ASSUME Led(d, w, l, f), FolderDoomed(d, D, Place(d, w, l.path)[1], Place(d, w, l.path)[2])
        PROVE  FolderDoomed(d, D, Last(f.walk).cluster, f.rest[1])
    <2>1. f.walk # <<>>
      BY <1>1, PathHas
    <2>2. Place(d, w, l.path) = <<Last(f.walk).cluster, f.rest[1]>>
      BY <1>3, <2>1, LedLast
    <2> QED
      BY <1>3, <2>2
  <1> QED
    BY <1>1, <1>2, <1>3 DEF RmGood

\* rm's delete takes an entry no stack passes.
LEMMA RemoveLastPath ==
    ASSUME Served, CallsInv, PathInv, NEW s \in Shells, RemoveLast(s) PROVE PathInv'
  <1> DEFINE f == Head(call[s])
             p == ClusterNumber(f.cwd)
             n == Head(f.rest)
             g == [f EXCEPT !.at = "open"]
  <1>0. In(s, {"rm"}, "name") /\ "rm" \in Loops
    BY DEF RemoveLast, Loops
  <1>1. /\ call[s] # <<>> /\ f.fn \in {"rm"} /\ f.fn \in Loops
        /\ {"fn", "at", "rest", "walk", "cwd"} \subseteq DOMAIN f
        /\ Good(disk, dts, dts[s], line[s], f)
        /\ f.cwd.self = Last(f.walk) /\ f.rest # <<>>
        /\ p = Last(f.walk).cluster /\ Path(disk, f.walk) /\ n \in Names
    BY <1>0, LoopNowIn
  <1>2. /\ SysDelete(p, n) /\ Len(f.rest) = 1
        /\ IF DeleteCode(p, n) = 2 THEN GoOn(s, <<g>>) ELSE Return(s)
    BY DEF RemoveLast, IsLast
  <1>3. p \in Clusters
    BY <1>1, PathHas
  <1>4. Kills(line[s]) /\ FolderDoomed(disk, dts, p, n)
    BY <1>1, <1>2, RemovedIsDoomed
  <1> HIDE DEF p, n
  <1>5. /\ Served' /\ Shrinks(disk, disk', p, n)
        /\ DeleteCode(p, n) # 0 => UNCHANGED vars
    BY <1>1, <1>2, <1>3, DeleteShrinks
  <1>6. CASE DeleteCode(p, n) = 2
    <2>1. UNCHANGED vars /\ GoOn(s, <<g>>)
      BY <1>2, <1>5, <1>6
    <2>2. ~MakesRoot(p, n)
      BY <1>3, <1>6, NotEmptyLeads DEF MakesRoot, PathInv, RootFree
    <2>3. g.fn = f.fn /\ g.at = "open" /\ g.rest = f.rest /\ g.walk = f.walk /\ g.cwd = f.cwd
      BY <1>1
    <2>4. CallIs(s, <<g>> \o Tail(call[s]))
      BY <2>1, GoOnIs
    <2> HIDE DEF g
    <2>5. Len(g.rest) = 1 /\ ~MakesRoot(Last(g.walk).cluster, Head(g.rest))
      BY <1>1, <1>2, <2>2, <2>3 DEF n
    <2>6. Good(disk, dts, dts[s], line[s], g) /\ OnTop(g, Tail(call[s]))
      BY <1>1, <2>3, <2>5, LoopHolds
    <2> QED
      BY <1>1, <2>1, <2>4, <2>6, JustGoesOn
  <1>7. CASE DeleteCode(p, n) # 2
    <2> DEFINE w == f.walk
    <2>1. /\ Path(disk, w) /\ Last(w).cluster = p
          /\ On(w) = On(IF f.fn = "rm" THEN f.walk ELSE Front(f.walk))
      BY <1>1
    <2> HIDE DEF w
    <2>2. Settled(s)
      BY <1>1, <1>3, <1>4, <1>5, <2>1, SettledRemoved
    <2>3. Return(s)
      BY <1>2, <1>7
    <2> QED
      BY <1>1, <2>2, <2>3, GoodReturn
  <1> QED
    BY <1>6, <1>7

\* The directory it opens may be removed as well.
LEMMA OpenRemovedPath ==
    ASSUME Served, CallsInv, PathInv, NEW s \in Shells, OpenRemoved(s) PROVE PathInv'
  <1> DEFINE f == Head(call[s])
             p == ClusterNumber(f.cwd)
             n == Head(f.rest)
             t == ReadDirectory(p, n)
             g == Flush(f, t)
             v == Pushed(f.walk, t)
  <1>0. In(s, {"rm"}, "open") /\ "rm" \in Loops
    BY DEF OpenRemoved, Loops
  <1>1. /\ call[s] # <<>> /\ f.fn \in {"rm"} /\ f.fn \in Loops /\ f.at = "open"
        /\ Good(disk, dts, dts[s], line[s], f)
        /\ p = Last(f.walk).cluster /\ Path(disk, f.walk)
    BY <1>0, LoopNowIn
  <1>4. Len(f.rest) = 1
    BY <1>1 DEF Good, RmGood
  <1>2. UNCHANGED vars /\ (Return(s) \/ (Reads(p, n) /\ GoOn(s, <<g>>)))
    BY DEF OpenRemoved
  <1>3. ASSUME Reads(p, n), GoOn(s, <<g>>) PROVE PathInv'
    <2>1. RmGood(disk, dts, dts[s], line[s], f) /\ ~MakesRoot(p, n)
      BY <1>1 DEF Good, RmGood
    <2>2. /\ g.fn = "flush" /\ g.walk = v /\ g.holder = p /\ g.name = n /\ g.table = t
          /\ g.left = DOMAIN t.entries
      BY DEF Flush, Pushed
    <2> HIDE DEF g
    <2> DEFINE u == f.walk
    <2>9. Reads(Last(u).cluster, n) /\ ~MakesRoot(Last(u).cluster, n) /\ Path(disk, u)
          /\ t = ReadDirectory(Last(u).cluster, n) /\ v = Pushed(u, t) /\ p = Last(u).cluster
      BY <1>1, <1>3, <2>1
    <2> HIDE DEF u, t, v, p, n
    <2> DEFINE z == ReadDirectory(Last(u).cluster, n)
    <2>13. /\ Path(disk, Pushed(u, z)) /\ Last(Pushed(u, z)) = z.self
           /\ Len(Pushed(u, z)) = Len(u) + 1 /\ Front(Pushed(u, z)) = u
           /\ Pushed(u, z)[Len(u)] = Last(u)
           /\ z.self.name = n /\ Leads(disk, Last(u).cluster, n, z.self.cluster)
           /\ z = ReadTable(disk, z.self.cluster)
      BY <2>9, EnteredPath
    <2> HIDE DEF z
    <2>3. /\ Path(disk, v) /\ Last(v) = t.self
          /\ Len(v) = Len(u) + 1 /\ Front(v) = u /\ v[Len(u)] = Last(u)
          /\ t.self.name = n /\ Leads(disk, p, n, t.self.cluster)
          /\ t = ReadTable(disk, t.self.cluster)
      BY <2>9, <2>13 DEF z
    <2>4. Len(v) > 1 /\ v[Len(v) - 1] = Last(u)
      <3>1. Len(u) \in Nat /\ Len(u) > 0
        BY <2>9, PathHas
      <3>2. \A x, y \in Nat : x > 0 /\ y = x + 1 => y > 1 /\ y - 1 = x
        OBVIOUS
      <3>3. Len(v) \in Nat
        BY <2>3, PathHas
      <3>4. Len(v) > 1 /\ Len(v) - 1 = Len(u)
        BY <2>3, <3>1, <3>2, <3>3
      <3> QED
        BY <2>3, <3>4
    <2>5. Kills(line[s]) /\ Doomed(disk, dts, t.self.cluster)
      <3>1. Kills(line[s]) /\ FolderDoomed(disk, dts, p, n)
        BY <1>1, <1>4, RemovedIsDoomed DEF p, n
      <3>2. p \in Clusters /\ t.self.cluster \in Clusters
        BY <2>3, <2>9, PathHas
      <3> QED
        BY <2>3, <3>1, <3>2, IsNoCluster DEF FolderDoomed
    <2>6. \A m \in DOMAIN t.entries : t.entries[m].dir
      BY <2>3, <2>5, NoFilesFacts DEF Doomed, EntryOf
    <2>7. FlushGood(disk, dts, line[s], g)
      BY <2>2, <2>3, <2>4, <2>5, <2>6, <2>9 DEF FlushGood
    <2>8. Good(disk, dts, dts[s], line[s], g)
      BY <2>2, <2>3, <2>7 DEF Good, Loops
    <2>10. OnTop(f, Tail(call[s]))
      BY <1>1, PathsHave
    <2>11. OnTop(g, Tail(call[s]))
      BY <1>1, <2>2, <2>3, <2>10 DEF OnTop, Under, u, Loops
    <2>12. CallIs(s, <<g>> \o Tail(call[s]))
      BY <1>3, GoOnIs
    <2> QED
      BY <1>1, <1>2, <2>8, <2>11, <2>12, JustGoesOn
  <1> QED
    BY <1>1, <1>2, <1>3, JustReturns

\* The children of a directory that may be removed may be.
LEMMA DoomedBelow ==
    ASSUME NEW d, IsStore(d), NEW D, \A z \in Shells : Path(d, D[z]), NEW p \in Clusters, Doomed(d, D, p), NEW n
    PROVE  FolderDoomed(d, D, p, n)
  <1> SUFFICES ASSUME NEW c \in Clusters, Leads(d, p, n, c) PROVE Doomed(d, D, c)
    BY DEF FolderDoomed
  <1>1. NoFiles(d, c)
    BY NoFilesFacts DEF Doomed
  <1>2. ASSUME NEW z \in Shells PROVE c \notin On(D[z])
    <2> DEFINE w == D[z]
    <2>1. Path(d, w) /\ p \notin On(w)
      BY DEF Doomed, Free
    <2> HIDE DEF w
    <2>2. c \notin On(w)
      BY <2>1, HolderIsOn
    <2> QED
      BY <2>2 DEF w
  <1> QED
    BY <1>1, <1>2 DEF Doomed, Free

\* What rm has at hand among the children.
LEMMA FlushNow ==
    ASSUME CallsInv, PathInv, NEW s \in Shells, In(s, {"flush"}, "each")
    PROVE  LET f == Head(call[s])
           IN  /\ call[s] # <<>> /\ f.fn = "flush" /\ FlushFrame(f) /\ {"fn", "at"} \subseteq DOMAIN f
               /\ f.left \subseteq Names
               /\ FlushGood(disk, dts, line[s], f) /\ Path(disk, f.walk) /\ OnTop(f, Tail(call[s]))
               /\ Path(disk, Front(f.walk)) /\ On(Front(f.walk)) \subseteq On(f.walk)
               /\ Last(Front(f.walk)).cluster = f.holder
               /\ Leads(disk, f.holder, f.name, Last(f.walk).cluster)
  <1> DEFINE f == Head(call[s])
  <1>1. /\ call[s] # <<>> /\ f.fn = "flush" /\ FlushFrame(f) /\ {"fn", "at"} \subseteq DOMAIN f
    BY FlushHas DEF FrameOK
  <1>2. Good(disk, dts, dts[s], line[s], f) /\ OnTop(f, Tail(call[s]))
    BY <1>1, PathsHave
  <1> HIDE DEF f
  <1>3. FlushGood(disk, dts, line[s], f) /\ Path(disk, f.walk)
    BY <1>1, <1>2 DEF Good
  <1>4. f.left \subseteq Names
    BY <1>1, KnownFacts DEF FlushFrame
  <1> DEFINE w == f.walk
  <1>5. Path(disk, w) /\ Len(w) > 1 /\ f.holder = w[Len(w) - 1].cluster /\ f.name = Last(w).name
    BY <1>3 DEF FlushGood
  <1> HIDE DEF w
  <1>6. /\ Path(disk, Front(w)) /\ On(Front(w)) \subseteq On(w) /\ Last(Front(w)) = w[Len(w) - 1]
        /\ Leads(disk, f.holder, f.name, Last(w).cluster)
    BY <1>5, PathFront
  <1> QED
    BY <1>1, <1>2, <1>3, <1>4, <1>5, <1>6 DEF f, w

\* Each child is one rm may remove in turn.
LEMMA FlushChildPath ==
    ASSUME Served, CallsInv, PathInv, NEW s \in Shells, FlushChild(s) PROVE PathInv'
  <1> DEFINE f == Head(call[s])
  <1>1. /\ call[s] # <<>> /\ f.fn = "flush" /\ FlushFrame(f) /\ {"fn", "at"} \subseteq DOMAIN f
        /\ f.left \subseteq Names
        /\ FlushGood(disk, dts, line[s], f) /\ Path(disk, f.walk) /\ OnTop(f, Tail(call[s]))
        /\ On(Front(f.walk)) \subseteq On(f.walk)
    BY FlushNow DEF FlushChild
  <1>2. PICK n \in f.left :
          LET g == [f EXCEPT !.left = @ \ {n}]
          IN  IF f.table.entries[n].dir
                THEN GoOn(s, <<Loop("rm", <<n>>, f.walk), g>>) /\ UNCHANGED vars
                ELSE SysDelete(f.holder, n) /\ GoOn(s, <<g>>)
    BY DEF FlushChild
  <1> DEFINE g == [f EXCEPT !.left = @ \ {n}]
             h == Loop("rm", <<n>>, f.walk)
  <1>3. GoOn(s, <<h, g>>) /\ UNCHANGED vars
    BY <1>1, <1>2 DEF FlushGood
  <1>4. /\ g.fn = "flush" /\ g.walk = f.walk /\ g.holder = f.holder /\ g.name = f.name
        /\ g.table = f.table /\ g.left = f.left \ {n}
    BY <1>1 DEF FlushFrame
  <1>5. CallIs(s, <<h, g>> \o Tail(call[s]))
    BY <1>3, GoOnIs
  <1>6. Kills(line[s]) /\ n \in Names /\ FolderDoomed(disk, dts, Last(f.walk).cluster, n)
    <2>1. IsStore(disk) /\ \A z \in Shells : Path(disk, dts[z])
      BY StoreServed DEF PathInv
    <2>2. Kills(line[s]) /\ Doomed(disk, dts, Last(f.walk).cluster) /\ Last(f.walk).cluster \in Clusters
      BY <1>1, PathHas DEF FlushGood
    <2> QED
      BY <1>1, <2>1, <2>2, DoomedBelow
  <1>7. Good(disk, dts, dts[s], line[s], h)
    BY <1>1, <1>6, NewRm
  <1> HIDE DEF g
  <1>8. Good(disk, dts, dts[s], line[s], g) /\ OnTop(g, Tail(call[s]))
    <2>1. FlushGood(disk, dts, line[s], g)
      BY <1>1, <1>4 DEF FlushGood
    <2>2. Good(disk, dts, dts[s], line[s], g)
      BY <1>1, <1>4, <2>1 DEF Good, Loops
    <2>3. OnTop(g, Tail(call[s]))
      BY <1>1, <1>4, OnTopLike DEF Loops
    <2> QED
      BY <2>2, <2>3
  <1>9. h.fn = "rm" /\ h.walk = f.walk /\ h.rest = <<n>> /\ Len(h.rest) = 1
    BY DEF Loop
  <1> HIDE DEF h
  <1>10. Under(h, g) /\ OnTop(h, Tail(call[s]))
    <2>1. Under(h, g)
      BY <1>4, <1>9 DEF Under
    <2>2. OnTop(h, Tail(call[s]))
      <3> DEFINE t == Tail(call[s])
      <3>1. \A i \in DOMAIN t : Under(f, t[i])
        BY <1>1 DEF OnTop
      <3> HIDE DEF t
      <3>2. \A i \in DOMAIN t : t[i].fn = "flush" /\ On(t[i].walk) \subseteq On(f.walk)
        BY <1>1, <3>1 DEF Under
      <3>3. \A i \in DOMAIN t : Under(h, t[i])
        BY <1>9, <3>2 DEF Under
      <3> QED
        BY <3>3 DEF OnTop, t
    <2> QED
      BY <2>1, <2>2
  <1>11. Settled(s) /\ NowGood(s, h) /\ NowGood(s, g)
    BY <1>1, <1>3, <1>7, <1>8, <1>10, SettledSame DEF vars, NowGood
  <1> QED
    BY <1>1, <1>5, <1>10, <1>11, GoodGoOnTwo

\* The emptied directory goes while no stack passes it.
LEMMA FlushEndPath ==
    ASSUME Served, CallsInv, PathInv, NEW s \in Shells, FlushEnd(s) PROVE PathInv'
  <1> DEFINE f == Head(call[s])
             w == Front(f.walk)
             p == f.holder
             n == f.name
  <1>1. /\ call[s] # <<>> /\ f.fn = "flush" /\ FlushFrame(f)
        /\ FlushGood(disk, dts, line[s], f)
        /\ Path(disk, w) /\ Last(w).cluster = p
        /\ Leads(disk, p, n, Last(f.walk).cluster)
    BY FlushNow DEF FlushEnd
  <1>2. SysDelete(p, n) /\ Return(s)
    BY DEF FlushEnd
  <1>3. p \in Clusters /\ n \in Names
    BY <1>1 DEF FlushFrame
  <1>4. Kills(line[s]) /\ FolderDoomed(disk, dts, p, n)
    BY <1>1 DEF FlushGood, FolderDoomed, Leads
  <1>5. On(w) = On(IF f.fn = "rm" THEN f.walk ELSE Front(f.walk)) /\ f.fn \in {"rm", "flush"}
    BY <1>1
  <1> HIDE DEF p, n, w
  <1>6. Served' /\ Shrinks(disk, disk', p, n)
    BY <1>2, <1>3, DeleteShrinks
  <1>7. Settled(s)
    BY <1>1, <1>3, <1>4, <1>5, <1>6, SettledRemoved
  <1> QED
    BY <1>1, <1>2, <1>7, GoodReturn

-----------------------------------------------------------------------------
\* cp and mv.

\* The table of a directory without a file below it is Clean.
LEMMA CleanTable ==
    ASSUME NEW d, NEW c, NoFiles(d, c), NEW t, t = ReadTable(d, c), t.self.cluster = c
    PROVE  Clean(d, t)
  BY NoFilesFacts DEF Clean, EntryOf

\* A directory that may be removed is read as a Clean table.
LEMMA CleanRead ==
    ASSUME Served, NEW p \in Clusters, NoFiles(disk, p), NEW n, Reads(p, n)
    PROVE  Clean(disk, ReadDirectory(p, n))
  <1> DEFINE t == ReadDirectory(p, n)
  <1>1. CASE MakesRoot(p, n)
    <2>1. t = ReadTable(disk, p) /\ t.self = RootLink
      BY <1>1, ReadIsKnown DEF ReadDirectory, MakesRoot
    <2>2. t.self.cluster = p
      BY <1>1, <2>1 DEF MakesRoot, RootLink, Link
    <2> QED
      BY <2>1, <2>2, CleanTable
  <1>2. CASE ~MakesRoot(p, n)
    <2> DEFINE c == t.self.cluster
    <2>1. Leads(disk, p, n, c) /\ t = ReadTable(disk, c)
      BY <1>2, ReadBelow
    <2>2. t.self.cluster = c
      OBVIOUS
    <2>3. NoFiles(disk, c)
      BY <2>1, NoFilesFacts
    <2> HIDE DEF c, t
    <2>4. Clean(disk, t)
      BY <2>1, <2>2, <2>3, CleanTable
    <2> QED
      BY <2>4 DEF t
  <1> QED
    BY <1>1, <1>2

\* What mv takes along of its source.
LEMMA TakenByMv ==
    ASSUME Served, CallsInv, PathInv, NEW s \in Shells, ReadSource(s), Head(call[s]).mv
    PROVE  LET f == Head(call[s])
               top == Last(dts[s]).cluster
               p == ClusterNumber(f.cwd)
           IN  /\ FolderDoomed(disk, dts, top, f.name)
               /\ f.dir = {FALSE} => ~IsFolderAt(disk, top, f.name)
               /\ f.dir # {FALSE} => Reads(p, f.name) /\ Clean(disk, ReadDirectory(p, f.name))
  <1> DEFINE f == Head(call[s])
             w == dts[s]
             top == Last(w).cluster
             p == ClusterNumber(f.cwd)
             n == f.name
  <1>0. In(s, {"source"}, "name") /\ "source" \in Loops
    BY DEF ReadSource, Loops
  <1>1. /\ call[s] # <<>> /\ f.fn = "source" /\ f.at = "name"
        /\ Good(disk, dts, w, line[s], f) /\ f.name \in Names /\ p = Last(f.walk).cluster
    BY <1>0, LoopNowIn
  <1>2. f.name # RootName /\ SourceGood(disk, dts, w, f) /\ f.mv
    BY <1>1 DEF Good
  <1>3. f.walk = w /\ FolderDoomed(disk, dts, top, n) /\ f.dir = {IsFolderAt(disk, top, n)} /\ p = top
    BY <1>1, <1>2 DEF SourceGood
  <1>4. top \in Clusters
    BY PathHas DEF PathInv
  <1>5. IsFolderAt(disk, top, n) \in BOOLEAN
    BY DEF IsFolderAt
  <1>6. n # RootName
    BY <1>2
  <1> HIDE DEF f, w, top, p, n
  <1>7. f.dir = {FALSE} <=> ~IsFolderAt(disk, top, n)
    BY <1>3, <1>5
  <1>8. ASSUME IsFolderAt(disk, top, n) PROVE Reads(top, n) /\ Clean(disk, ReadDirectory(top, n))
    <2>1. PICK c \in Clusters : Leads(disk, top, n, c)
      BY <1>8 DEF IsFolderAt
    <2>2. Reads(top, n)
      BY <2>1, LedIsRead
    <2>3. ~MakesRoot(top, n)
      BY <1>6 DEF MakesRoot
    <2> DEFINE t == ReadDirectory(top, n)
               x == t.self.cluster
    <2>4. Leads(disk, top, n, x) /\ t = ReadTable(disk, x) /\ x \in Clusters
      BY <1>4, <2>2, <2>3, ReadBelow
    <2>5. t.self.cluster = x
      OBVIOUS
    <2> HIDE DEF t, x
    <2>6. NoFiles(disk, x)
      BY <1>3, <1>4, <2>4, IsNoCluster DEF FolderDoomed, Doomed
    <2>7. Clean(disk, t)
      BY <2>4, <2>5, <2>6, CleanTable
    <2> QED
      BY <2>2, <2>7 DEF t
  <1>9. /\ FolderDoomed(disk, dts, top, n)
        /\ f.dir = {FALSE} => ~IsFolderAt(disk, top, n)
        /\ f.dir # {FALSE} => Reads(p, n) /\ Clean(disk, ReadDirectory(p, n))
    BY <1>3, <1>7, <1>8
  <1> QED
    BY <1>9 DEF f, w, top, p, n

\* What mv goes on with is what it may remove.
LEMMA ReadSourcePath ==
    ASSUME Served, CallsInv, PathInv, NEW s \in Shells, ReadSource(s) PROVE PathInv'
  <1> DEFINE f == Head(call[s])
             w == dts[s]
             p == ClusterNumber(f.cwd)
             size == IF f.name \notin Extended /\ Found(f.cwd, f.name)
                       THEN EntryIn(f.cwd, f.name).size ELSE f.size
             want == IF Reads(p, f.name) THEN ReadDirectory(p, f.name) ELSE f.cwd
             data == Bytes(p, f.name, size)
             g == IF f.dir = {FALSE} THEN Dest(f, w, TRUE, size, data, Unread)
                  ELSE Dest(f, w, FALSE, 0, Junk, want)
             l == line[s]
  <1>0. In(s, {"source"}, "name") /\ "source" \in Loops
    BY DEF ReadSource, Loops
  <1>1. call[s] # <<>> /\ f.fn = "source" /\ Good(disk, dts, w, l, f)
    BY <1>0, LoopNowIn
  <1>2. GoOn(s, <<g>>) /\ UNCHANGED vars
    BY DEF ReadSource
  <1>3. CallIs(s, <<g>> \o Tail(call[s]))
    BY <1>2, GoOnIs
  <1>4. /\ g.fn = "dest" /\ g.at = "peek" /\ g.rest = f.to /\ g.walk = w
        /\ g.name = f.name /\ g.mv = f.mv
        /\ f.dir = {FALSE} => g.isfile
        /\ f.dir # {FALSE} => ~g.isfile /\ g.want = want
    BY DEF Dest
  <1>5. f.mv => /\ FolderDoomed(disk, dts, Last(w).cluster, f.name)
                /\ f.dir = {FALSE} => ~IsFolderAt(disk, Last(w).cluster, f.name)
                /\ f.dir # {FALSE} => Clean(disk, want)
    BY TakenByMv
  <1>6. Tail(call[s]) = <<>>
    BY <1>1, LoopOutermost DEF Loops
  <1>7. Path(disk, w)
    BY DEF PathInv
  <1> HIDE DEF g, want, l, f, w
  <1>8. DestGood(disk, dts, w, g)
    BY <1>4, <1>5 DEF DestGood
  <1>9. /\ Rootless(f.to) /\ f.name # RootName /\ l.cmd \in {"cp", "mv"} /\ (f.mv <=> l.cmd = "mv")
    BY <1>1 DEF Good, SourceGood
  <1>10. Good(disk, dts, w, l, g)
    BY <1>4, <1>7, <1>8, <1>9 DEF Good, Loops
  <1>11. OnTop(g, Tail(call[s]))
    BY <1>6, NothingNested
  <1> QED
    BY <1>1, <1>2, <1>3, <1>10, <1>11, JustGoesOn DEF l, w

\* What cp has at hand on the way to its destination.
LEMMA DestNow ==
    ASSUME Served, CallsInv, PathInv, NEW s \in Shells, NEW at, at # "peek", In(s, {"dest"}, at)
    PROVE  LET f == Head(call[s])
               top == Last(dts[s]).cluster
           IN  /\ call[s] # <<>> /\ Tail(call[s]) = <<>> /\ f.fn = "dest" /\ f.fn \in Loops /\ f.at = at
               /\ {"fn", "at", "rest", "walk", "cwd"} \subseteq DOMAIN f
               /\ {"name", "mv", "dir", "isfile", "size", "data", "want"} \subseteq DOMAIN f
               /\ Good(disk, dts, dts[s], line[s], f) /\ Path(disk, f.walk) /\ f.rest \in Seq(Parts)
               /\ ClusterNumber(f.cwd) \in Clusters /\ f.name \in Names /\ f.size \in Sizes \cup {0}
               /\ at = "name" => Head(f.rest) \in Names
               /\ top \in Clusters /\ DestGood(disk, dts, dts[s], f)
               /\ f.mv => Kills(line[s]) /\ FolderDoomed(disk, dts, top, f.name)
               /\ line[s].cmd \in {"cp", "mv"} /\ (line[s].cmd = "mv" => f.mv)
  <1> DEFINE f == Head(call[s])
             w == dts[s]
             l == line[s]
             fn == "dest"
  <1>0. fn \in Loops /\ In(s, {fn}, at) /\ fn = "dest"
    BY DEF Loops
  <1> HIDE DEF fn
  <1>1. /\ call[s] # <<>> /\ f.fn = fn /\ f.at = at
        /\ {"fn", "at", "rest", "walk", "cwd"} \subseteq DOMAIN f
        /\ fn = "dest" => {"name", "mv", "dir", "isfile", "size", "data", "want"} \subseteq DOMAIN f
        /\ Good(disk, dts, w, l, f) /\ Path(disk, f.walk)
        /\ f.rest \in Seq(Parts)
    BY <1>0, LoopNowIn
  <1>2. /\ ClusterNumber(f.cwd) \in Clusters /\ f.name \in Names /\ f.size \in Sizes \cup {0}
        /\ at = "name" => Head(f.rest) \in Names
    BY DestHas
  <1>3. Tail(call[s]) = <<>>
    BY <1>0, <1>1, LoopOutermost
  <1>4. Last(w).cluster \in Clusters
    BY PathHas DEF PathInv
  <1> HIDE DEF f, l, w
  <1>5. DestGood(disk, dts, w, f) /\ l.cmd \in {"cp", "mv"} /\ (f.mv <=> l.cmd = "mv")
    BY <1>0, <1>1 DEF Good
  <1>6. f.mv => Kills(l) /\ FolderDoomed(disk, dts, Last(w).cluster, f.name)
    BY <1>5 DEF Kills, DestGood
  <1> QED
    BY <1>0, <1>1, <1>2, <1>3, <1>4, <1>5, <1>6 DEF f, l, w

\* A file is written.
LEMMA WrittenSettles ==
    ASSUME Served, CallsInv, PathInv, NEW s \in Shells, call[s] # <<>>, Tail(call[s]) = <<>>,
           Head(call[s]).isfile, DestGood(disk, dts, dts[s], Head(call[s])),
           Last(dts[s]).cluster \in Clusters,
           NEW p \in Clusters, NEW n \in Names, NEW size \in Sizes \cup {0}, NEW data, SysWrite(p, n, size, data)
    PROVE  /\ Settled(s)
           /\ Head(call[s]).mv => FolderDoomed(disk', dts, Last(dts[s]).cluster, Head(call[s]).name)
  <1> DEFINE isdir == (size = 0)
             f == Head(call[s])
             top == Last(dts[s]).cluster
  <1>1. Served' /\ Grows(disk, disk', p, n, isdir) /\ isdir \in BOOLEAN
    BY WriteGrows
  <1> HIDE DEF isdir
  <1>2. Settled(s)
    BY <1>1, SettledOutermost
  <1>3. ASSUME f.mv PROVE FolderDoomed(disk', dts, top, f.name)
    <2> DEFINE m == f.name
    <2>1. FolderDoomed(disk, dts, top, m) /\ ~IsFolderAt(disk, top, m)
      BY <1>3 DEF DestGood
    <2>2. top \in Clusters /\ \A z \in Shells : Path(disk, dts[z])
      BY DEF PathInv
    <2> HIDE DEF top, m, f
    <2>3. FolderDoomed(disk', dts, top, m)
      BY <1>1, <2>1, <2>2, FolderDoomedGrows
    <2> QED
      BY <2>3 DEF m
  <1> QED
    BY <1>2, <1>3

\* A file is written under a new name,
LEMMA WriteUnderPath ==
    ASSUME Served, CallsInv, PathInv, NEW s \in Shells, WriteUnder(s) PROVE PathInv'
  <1> DEFINE f == Head(call[s])
             p == ClusterNumber(f.cwd)
             n == Head(f.rest)
  <1>0. In(s, {"dest"}, "name")
    BY DEF WriteUnder
  <1>1. /\ call[s] # <<>> /\ Tail(call[s]) = <<>>
        /\ p \in Clusters /\ f.name \in Names /\ f.size \in Sizes \cup {0} /\ n \in Names
        /\ Last(dts[s]).cluster \in Clusters /\ DestGood(disk, dts, dts[s], f)
        /\ f.mv => Kills(line[s])
    BY <1>0, DestNow
  <1>2. f.isfile /\ SysWrite(p, n, f.size, f.data) /\ Succeed(s, f)
    BY DEF WriteUnder
  <1>3. Settled(s) /\ (f.mv => FolderDoomed(disk', dts, Last(dts[s]).cluster, f.name))
    BY <1>1, <1>2, WrittenSettles
  <1> QED
    BY <1>1, <1>2, <1>3, GoodSucceed

\* or into a directory; mv's rm comes next.
LEMMA PutFilePath ==
    ASSUME Served, CallsInv, PathInv, NEW s \in Shells, PutFile(s) PROVE PathInv'
  <1> DEFINE f == Head(call[s])
             p == ClusterNumber(f.cwd)
  <1>0. In(s, {"dest"}, "put")
    BY DEF PutFile
  <1>1. /\ call[s] # <<>> /\ Tail(call[s]) = <<>>
        /\ p \in Clusters /\ f.name \in Names /\ f.size \in Sizes \cup {0}
        /\ Last(dts[s]).cluster \in Clusters /\ DestGood(disk, dts, dts[s], f)
        /\ f.mv => Kills(line[s])
    BY <1>0, DestNow
  <1>2. f.isfile /\ SysWrite(p, f.name, f.size, f.data) /\ (Succeed(s, f) \/ Return(s))
    BY DEF PutFile
  <1>3. Settled(s) /\ (f.mv => FolderDoomed(disk', dts, Last(dts[s]).cluster, f.name))
    BY <1>1, <1>2, WrittenSettles
  <1> QED
    BY <1>1, <1>2, <1>3, GoodSucceed, GoodReturn

\* The directory was copied; mv's rm comes next.
LEMMA CopiedPath ==
    ASSUME Served, CallsInv, PathInv, NEW s \in Shells, Copied(s) PROVE PathInv'
  <1> DEFINE f == Head(call[s])
  <1>0. In(s, {"dest"}, "copied")
    BY DEF Copied
  <1>1. /\ call[s] # <<>> /\ Tail(call[s]) = <<>> /\ f.name \in Names
        /\ f.mv => Kills(line[s]) /\ FolderDoomed(disk, dts, Last(dts[s]).cluster, f.name)
    BY <1>0, DestNow
  <1>2. Succeed(s, f) /\ disk' = disk
    BY DEF Copied, vars
  <1>3. Settled(s)
    BY <1>1, <1>2, SettledSame
  <1> QED
    BY <1>1, <1>2, <1>3, GoodSucceed

\* The destination is read once more.
LEMMA PeekIntoPath ==
    ASSUME Served, CallsInv, PathInv, NEW s \in Shells, PeekInto(s) PROVE PathInv'
  <1> DEFINE f == Head(call[s])
             t == Peeked(f)
             g == [f EXCEPT !.at = "put", !.cwd = t]
  <1>0. In(s, {"dest"}, "into")
    BY DEF PeekInto
  <1>1. /\ call[s] # <<>> /\ f.fn = "dest" /\ f.fn \in Loops
        /\ {"fn", "at", "rest", "walk", "cwd"} \subseteq DOMAIN f
        /\ {"name", "mv", "dir", "isfile", "size", "data", "want"} \subseteq DOMAIN f
        /\ Path(disk, f.walk)
    BY <1>0, DestNow
  <1>2. GoOn(s, <<g>>) /\ UNCHANGED vars
    BY DEF PeekInto
  <1>3. CallIs(s, <<g>> \o Tail(call[s]))
    BY <1>2, GoOnIs
  <1>4. t.self = Last(f.walk)
    BY <1>1, PeekedTop DEF PathInv
  <1> HIDE DEF t
  <1>5. /\ g.fn = f.fn /\ g.at = "put" /\ g.rest = f.rest /\ g.walk = f.walk /\ g.cwd = t
        /\ g.name = f.name /\ g.mv = f.mv /\ g.isfile = f.isfile /\ g.want = f.want
    BY <1>1
  <1> HIDE DEF g
  <1>6. Good(disk, dts, dts[s], line[s], g) /\ OnTop(g, Tail(call[s]))
    BY <1>1, <1>4, <1>5, LoopHolds
  <1> QED
    BY <1>1, <1>2, <1>3, <1>6, JustGoesOn

\* cp_helper starts with the table of the source.
LEMMA PutDirectoryPath ==
    ASSUME Served, CallsInv, PathInv, NEW s \in Shells, PutDirectory(s) PROVE PathInv'
  <1> DEFINE f == Head(call[s])
             g == [f EXCEPT !.at = "copied"]
             h == Copy(f.want, ClusterNumber(f.cwd))
  <1>0. In(s, {"dest"}, "put")
    BY DEF PutDirectory
  <1>1. /\ call[s] # <<>> /\ Tail(call[s]) = <<>> /\ f.fn = "dest" /\ f.fn \in Loops /\ f.at = "put"
        /\ {"fn", "at", "rest", "walk", "cwd"} \subseteq DOMAIN f
        /\ {"name", "mv", "dir", "isfile", "size", "data", "want"} \subseteq DOMAIN f
        /\ Good(disk, dts, dts[s], line[s], f) /\ DestGood(disk, dts, dts[s], f)
        /\ line[s].cmd \in {"cp", "mv"} /\ (line[s].cmd = "mv" => f.mv)
    BY <1>0, DestNow
  <1>2. ~f.isfile /\ GoOn(s, <<h, g>>) /\ UNCHANGED vars
    BY DEF PutDirectory
  <1>3. CallIs(s, <<h, g>> \o Tail(call[s]))
    BY <1>2, GoOnIs
  <1>4. /\ g.fn = f.fn /\ g.at = "copied" /\ g.rest = f.rest /\ g.walk = f.walk /\ g.cwd = f.cwd
        /\ g.name = f.name /\ g.mv = f.mv /\ g.isfile = f.isfile /\ g.want = f.want
    BY <1>1
  <1>5. h.fn = "copy" /\ h.want = f.want
    BY DEF Copy
  <1> HIDE DEF g, h
  <1>6. g.cwd.self = Last(g.walk)
    BY <1>1, <1>4 DEF Good
  <1>7. Good(disk, dts, dts[s], line[s], g)
    BY <1>1, <1>4, <1>6, LoopHolds
  <1>8. Good(disk, dts, dts[s], line[s], h)
    BY <1>1, <1>2, <1>5 DEF Good, DestGood, Loops
  <1>9. Under(h, g)
    BY <1>1, <1>2, <1>4, <1>5 DEF Under, Loops
  <1>10. Settled(s) /\ NowGood(s, h) /\ NowGood(s, g)
    BY <1>1, <1>2, <1>7, <1>8, NothingNested, SettledSame DEF vars, NowGood
  <1> QED
    BY <1>1, <1>3, <1>9, <1>10, GoodGoOnTwo

\* cp_helper.

\* What cp_helper has at hand.
LEMMA CopyNow ==
    ASSUME CallsInv, PathInv, NEW s \in Shells, NEW at, In(s, {"copy"}, at)
    PROVE  LET f == Head(call[s])
           IN  /\ call[s] # <<>> /\ f.fn = "copy" /\ f.at = at
               /\ {"fn", "at", "want", "into", "new", "left"} \subseteq DOMAIN f
               /\ Known(f.want) /\ f.into \in Clusters /\ f.want.self.name \in Names
               /\ at = "each" => f.new \in Clusters /\ f.left \subseteq DOMAIN f.want.entries
               /\ line[s].cmd \in {"cp", "mv"} /\ (line[s].cmd = "mv" => Clean(disk, f.want))
               /\ OnTop(f, Tail(call[s]))
  <1> DEFINE f == Head(call[s])
  <1>1. /\ call[s] # <<>> /\ f.fn = "copy" /\ CopyFrame(f) /\ f.at = at
        /\ {"fn", "at"} \subseteq DOMAIN f
    BY CopyHas
  <1>2. Good(disk, dts, dts[s], line[s], f) /\ OnTop(f, Tail(call[s]))
    BY <1>1, PathsHave
  <1>3. Known(f.want) => f.want.self.name \in Names
    BY KnownFacts
  <1> HIDE DEF f
  <1> QED
    BY <1>1, <1>2, <1>3 DEF f, Good, CopyFrame

\* A frame of it goes on.
LEMMA CopyStays ==
    ASSUME NEW d, NEW D, NEW w, NEW l, NEW f, f.fn = "copy", NEW t, OnTop(f, t),
           l.cmd \in {"cp", "mv"}, l.cmd = "mv" => Clean(d, f.want),
           NEW g, g.fn = "copy", g.want = f.want
    PROVE  Good(d, D, w, l, g) /\ OnTop(g, t)
  <1>1. Good(d, D, w, l, g)
    BY DEF Good, Loops
  <1>2. OnTop(g, t)
    BY OnTopLike DEF Loops
  <1> QED
    BY <1>1, <1>2

\* It makes a directory,
LEMMA MakeCopyPath ==
    ASSUME Served, CallsInv, PathInv, NEW s \in Shells, MakeCopy(s) PROVE PathInv'
  <1> DEFINE f == Head(call[s])
             p == f.into
             n == f.want.self.name
             g == [f EXCEPT !.at = "open"]
  <1>1. /\ call[s] # <<>> /\ f.fn = "copy"
        /\ {"fn", "at", "want", "into", "new", "left"} \subseteq DOMAIN f
        /\ p \in Clusters /\ n \in Names
        /\ line[s].cmd \in {"cp", "mv"} /\ (line[s].cmd = "mv" => Clean(disk, f.want))
        /\ OnTop(f, Tail(call[s]))
    BY CopyNow DEF MakeCopy
  <1>2. SysWrite(p, n, 0, Junk) /\ GoOn(s, <<g>>)
    BY DEF MakeCopy
  <1>3. CallIs(s, <<g>> \o Tail(call[s]))
    BY <1>2, GoOnIs
  <1>4. g.fn = "copy" /\ g.want = f.want
    BY <1>1
  <1> HIDE DEF g, p, n
  <1>5. Served' /\ Grows(disk, disk', p, n, 0 = 0)
    BY <1>1, <1>2, WriteGrows
  <1>6. Grows(disk, disk', p, n, TRUE)
    BY <1>5
  <1>7. Settled(s)
    BY <1>1, <1>5, <1>6, SettledCopy
  <1>8. line[s].cmd = "mv" => Clean(disk', f.want)
    <2> DEFINE t == f.want
    <2> HIDE DEF t
    <2>1. Clean(disk, t) => Clean(disk', t)
      BY <1>6, CleanGrows
    <2> QED
      BY <1>1, <2>1 DEF t
  <1>9. NowGood(s, g)
    BY <1>1, <1>4, <1>8, CopyStays DEF NowGood
  <1> QED
    BY <1>1, <1>3, <1>7, <1>9, GoodGoOn

\* opens it,
LEMMA OpenCopyPath ==
    ASSUME Served, CallsInv, PathInv, NEW s \in Shells, OpenCopy(s) PROVE PathInv'
  <1> DEFINE f == Head(call[s])
             n == f.want.self.name
             g == [f EXCEPT !.at = "each", !.new = ClusterNumber(ReadDirectory(f.into, n)),
                            !.left = DOMAIN f.want.entries]
  <1>1. /\ call[s] # <<>> /\ f.fn = "copy"
        /\ {"fn", "at", "want", "into", "new", "left"} \subseteq DOMAIN f
        /\ line[s].cmd \in {"cp", "mv"} /\ (line[s].cmd = "mv" => Clean(disk, f.want))
        /\ OnTop(f, Tail(call[s]))
    BY CopyNow DEF OpenCopy
  <1>2. (Lose(s) \/ GoOn(s, <<g>>)) /\ UNCHANGED vars
    BY DEF OpenCopy
  <1>3. g.fn = "copy" /\ g.want = f.want
    BY <1>1
  <1> HIDE DEF g
  <1>4. Good(disk, dts, dts[s], line[s], g) /\ OnTop(g, Tail(call[s]))
    BY <1>1, <1>3, CopyStays
  <1>5. CASE GoOn(s, <<g>>)
    <2>1. CallIs(s, <<g>> \o Tail(call[s]))
      BY <1>5, GoOnIs
    <2> QED
      BY <1>1, <1>2, <1>4, <2>1, JustGoesOn
  <1> QED
    BY <1>1, <1>2, <1>5, JustLoses

\* ends,
LEMMA CopyEndPath ==
    ASSUME CallsInv, PathInv, NEW s \in Shells, CopyEnd(s) PROVE PathInv'
  <1>1. call[s] # <<>>
    BY CopyNow DEF CopyEnd
  <1> QED
    BY <1>1, JustReturns DEF CopyEnd

\* and goes on with the children.
LEMMA CopyChildPath ==
    ASSUME Served, CallsInv, PathInv, NEW s \in Shells, CopyChild(s) PROVE PathInv'
  <1> DEFINE f == Head(call[s])
             p == ClusterNumber(f.want)
  <1>1. /\ call[s] # <<>> /\ f.fn = "copy"
        /\ {"fn", "at", "want", "into", "new", "left"} \subseteq DOMAIN f
        /\ Known(f.want) /\ f.new \in Clusters /\ f.left \subseteq DOMAIN f.want.entries
        /\ line[s].cmd \in {"cp", "mv"} /\ (line[s].cmd = "mv" => Clean(disk, f.want))
        /\ OnTop(f, Tail(call[s]))
    BY CopyNow DEF CopyChild
  <1>2. PICK n \in f.left :
          LET g == [f EXCEPT !.left = @ \ {n}]
          IN  IF f.want.entries[n].dir
                THEN /\ IF Reads(p, n) THEN GoOn(s, <<Copy(ReadDirectory(p, n), f.new), g>>)
                         ELSE Lose(s)
                     /\ UNCHANGED vars
                ELSE IF n \in Extended THEN Lose(s) /\ UNCHANGED vars
                ELSE SysWrite(f.new, n, EntryIn(f.want, n).size, Junk) /\ GoOn(s, <<g>>)
    BY DEF CopyChild
  <1> DEFINE g == [f EXCEPT !.left = @ \ {n}]
             t == ReadDirectory(p, n)
             h == Copy(t, f.new)
             size == EntryIn(f.want, n).size
  <1>3. \/ Reads(p, n) /\ GoOn(s, <<h, g>>) /\ UNCHANGED vars
        \/ Lose(s) /\ UNCHANGED vars
        \/ ~f.want.entries[n].dir /\ SysWrite(f.new, n, size, Junk) /\ GoOn(s, <<g>>)
    BY <1>2
  <1>4. g.fn = "copy" /\ g.want = f.want
    BY <1>1
  <1>5. n \in Names /\ size \in Sizes \cup {0} /\ p = f.want.self.cluster /\ p \in Clusters
        /\ n \in DOMAIN f.want.entries
    BY <1>1, <1>2, KnownFacts DEF Found
  <1> HIDE DEF g
  <1>6. Good(disk, dts, dts[s], line[s], g) /\ OnTop(g, Tail(call[s]))
    BY <1>1, <1>4, CopyStays
  <1>7. ASSUME Reads(p, n), GoOn(s, <<h, g>>), UNCHANGED vars PROVE PathInv'
    <2>1. CallIs(s, <<h, g>> \o Tail(call[s]))
      BY <1>7, GoOnIs
    <2>2. h.fn = "copy" /\ h.want = t
      BY DEF Copy
    <2> HIDE DEF h
    <2>3. line[s].cmd = "mv" => Clean(disk, h.want)
      <3>1. line[s].cmd = "mv" => NoFiles(disk, p)
        BY <1>1, <1>5 DEF Clean
      <3> HIDE DEF p
      <3> QED
        BY <1>5, <1>7, <2>2, <3>1, CleanRead
    <2>4. Good(disk, dts, dts[s], line[s], h)
      BY <1>1, <2>2, <2>3 DEF Good, Loops
    <2>5. Under(h, g) /\ OnTop(h, Tail(call[s]))
      <3>1. Under(h, g)
        BY <1>4, <2>2 DEF Under, Loops
      <3>2. OnTop(h, Tail(call[s]))
        BY <1>1, <2>2, OnTopLike DEF Loops
      <3> QED
        BY <3>1, <3>2
    <2>6. Settled(s) /\ NowGood(s, h) /\ NowGood(s, g)
      BY <1>1, <1>6, <1>7, <2>4, <2>5, SettledSame DEF vars, NowGood
    <2> QED
      BY <1>1, <2>1, <2>5, <2>6, GoodGoOnTwo
  <1>8. ASSUME ~f.want.entries[n].dir, SysWrite(f.new, n, size, Junk), GoOn(s, <<g>>) PROVE PathInv'
    <2>1. line[s].cmd = "cp" /\ ~Kills(line[s])
      BY <1>1, <1>5, <1>8 DEF Clean, Kills
    <2> DEFINE isdir == (size = 0)
               q == f.new
    <2>2. q \in Clusters /\ SysWrite(q, n, size, Junk)
      BY <1>1, <1>8
    <2> HIDE DEF q, size
    <2>3. Served' /\ Grows(disk, disk', q, n, isdir)
      BY <1>5, <2>2, WriteGrows
    <2> HIDE DEF isdir
    <2>4. Settled(s)
      BY <1>1, <2>1, <2>3, SettledCalm
    <2>5. CallIs(s, <<g>> \o Tail(call[s]))
      BY <1>8, GoOnIs
    <2>6. Good(disk', dts, dts[s], line[s], g)
      BY <1>4, <2>1 DEF Good, Loops
    <2>7. NowGood(s, g)
      BY <1>6, <2>6 DEF NowGood
    <2> QED
      BY <1>1, <2>4, <2>5, <2>7, GoodGoOn
  <1> QED
    BY <1>1, <1>3, <1>7, <1>8, JustLoses

-----------------------------------------------------------------------------
\* find.

\* What find has at hand.
LEMMA ScanNow ==
    ASSUME Served, CallsInv, PathInv, NEW s \in Shells, NEW at, In(s, {"scan"}, at)
    PROVE  LET f == Head(call[s])
               t == Peeked(f)
           IN  /\ call[s] # <<>> /\ f.fn = "scan" /\ f.at = at
               /\ {"fn", "at", "name", "walk", "cwd", "first", "seen"} \subseteq DOMAIN f
               /\ Path(disk, f.walk) /\ (at = "each" => ScanGood(f)) /\ Last(f.walk).cluster \in Clusters
               /\ at # "peek" => Known(f.cwd)
               /\ t = ReadTable(disk, Last(f.walk).cluster) /\ t.self = Last(f.walk)
  <1> DEFINE f == Head(call[s])
             t == Peeked(f)
  <1>1. /\ call[s] # <<>> /\ f.fn = "scan" /\ ScanFrame(f) /\ f.at = at
        /\ {"fn", "at"} \subseteq DOMAIN f
    BY ScanHas
  <1>2. Good(disk, dts, dts[s], line[s], f)
    BY <1>1, PathsHave
  <1> HIDE DEF f
  <1>3. Path(disk, f.walk) /\ ScanGood(f)
    BY <1>1, <1>2 DEF Good
  <1>4. Last(f.walk).cluster \in Clusters
    BY <1>3, PathHas
  <1>5. t = ReadTable(disk, Last(f.walk).cluster) /\ t.self = Last(f.walk)
    BY <1>3, PeekedTop DEF PathInv
  <1> HIDE DEF t
  <1>6. at # "peek" => Known(f.cwd)
    BY <1>1 DEF ScanFrame
  <1>7. {"fn", "at", "name", "walk", "cwd", "first", "seen"} \subseteq DOMAIN f
    BY <1>1 DEF ScanFrame
  <1> QED
    BY <1>1, <1>3, <1>4, <1>5, <1>6, <1>7 DEF f, t

\* It may go on, and be gone on top of.
LEMMA ScanFits ==
    ASSUME NEW d, NEW D, NEW w, NEW l, NEW f, f.fn = "scan", Path(d, f.walk), ScanGood(f), NEW t, NEW b
    PROVE  Good(d, D, w, l, f) /\ OnTop(f, t) /\ Under(f, b)
  <1>1. \A a : Under(f, a)
    BY DEF Under, Loops
  <1>2. OnTop(f, t)
    BY <1>1 DEF OnTop
  <1>3. Good(d, D, w, l, f)
    BY DEF Good, Loops
  <1> QED
    BY <1>1, <1>2, <1>3

\* No table leads back to the root.
LEMMA ScanReads ==
    ASSUME Served, PathInv, NEW f, f.at = "each", Last(f.walk).cluster \in Clusters,
           f.cwd = ReadTable(disk, Last(f.walk).cluster), f.cwd.self = Last(f.walk)
    PROVE  ScanGood(f)
  <1> DEFINE p == Last(f.walk).cluster
  <1>1. ASSUME NEW n \in DOMAIN f.cwd.entries, f.cwd.entries[n].dir, MakesRoot(p, n) PROVE FALSE
    <2> DEFINE c == EntryOf(disk, p, n).cluster
    <2>1. Leads(disk, p, n, c)
      BY <1>1 DEF Leads, Has, EntryOf
    <2> HIDE DEF c
    <2>2. IsStore(disk)
      BY StoreServed
    <2>3. c \in Clusters
      BY <2>1, <2>2, LedToOnce
    <2> QED
      BY <1>1, <2>1, <2>3 DEF MakesRoot, PathInv, RootFree
  <1> QED
    BY <1>1 DEF ScanGood

\* find reads its table,
LEMMA PeekScanPath ==
    ASSUME Served, CallsInv, PathInv, NEW s \in Shells, PeekScan(s) PROVE PathInv'
  <1> DEFINE f == Head(call[s])
             t == Peeked(f)
             g == [f EXCEPT !.at = "each", !.cwd = t, !.first = DOMAIN t.entries]
  <1>1. /\ call[s] # <<>> /\ f.fn = "scan"
        /\ {"fn", "at", "name", "walk", "cwd", "first", "seen"} \subseteq DOMAIN f
        /\ Path(disk, f.walk) /\ Last(f.walk).cluster \in Clusters
        /\ t = ReadTable(disk, Last(f.walk).cluster) /\ t.self = Last(f.walk)
    BY ScanNow DEF PeekScan
  <1>2. (Lose(s) \/ GoOn(s, <<g>>)) /\ UNCHANGED vars
    BY DEF PeekScan
  <1>3. g.fn = "scan" /\ g.at = "each" /\ g.walk = f.walk /\ g.cwd = t
    BY <1>1
  <1> HIDE DEF g
  <1>4. ScanGood(g)
    BY <1>1, <1>3, ScanReads
  <1>5. Good(disk, dts, dts[s], line[s], g) /\ OnTop(g, Tail(call[s]))
    BY <1>1, <1>3, <1>4, ScanFits
  <1>6. CASE GoOn(s, <<g>>)
    <2>1. CallIs(s, <<g>> \o Tail(call[s]))
      BY <1>6, GoOnIs
    <2> QED
      BY <1>1, <1>2, <1>5, <2>1, JustGoesOn
  <1> QED
    BY <1>1, <1>2, <1>6, JustLoses

\* again after a subdirectory,
LEMMA ScanOnPath ==
    ASSUME Served, CallsInv, PathInv, NEW s \in Shells, ScanOn(s) PROVE PathInv'
  <1> DEFINE f == Head(call[s])
             t == Peeked(f)
             g == [f EXCEPT !.at = "each", !.cwd = t]
  <1>1. /\ call[s] # <<>> /\ f.fn = "scan"
        /\ {"fn", "at", "name", "walk", "cwd", "first", "seen"} \subseteq DOMAIN f
        /\ Path(disk, f.walk) /\ Last(f.walk).cluster \in Clusters
        /\ t = ReadTable(disk, Last(f.walk).cluster) /\ t.self = Last(f.walk)
    BY ScanNow DEF ScanOn
  <1>2. GoOn(s, <<g>>) /\ UNCHANGED vars
    BY DEF ScanOn
  <1>3. g.fn = "scan" /\ g.at = "each" /\ g.walk = f.walk /\ g.cwd = t
    BY <1>1
  <1> HIDE DEF g
  <1>4. ScanGood(g)
    BY <1>1, <1>3, ScanReads
  <1>5. Good(disk, dts, dts[s], line[s], g) /\ OnTop(g, Tail(call[s]))
    BY <1>1, <1>3, <1>4, ScanFits
  <1>6. CallIs(s, <<g>> \o Tail(call[s]))
    BY <1>2, GoOnIs
  <1> QED
    BY <1>1, <1>2, <1>5, <1>6, JustGoesOn

\* ends,
LEMMA ScanEndPath ==
    ASSUME Served, CallsInv, PathInv, NEW s \in Shells, ScanEnd(s) PROVE PathInv'
  <1>1. call[s] # <<>>
    BY ScanNow DEF ScanEnd
  <1> QED
    BY <1>1, JustReturns DEF ScanEnd

\* and enters the subdirectories it meets.
LEMMA ScanEntryPath ==
    ASSUME Served, CallsInv, PathInv, NEW s \in Shells, ScanEntry(s) PROVE PathInv'
  <1> DEFINE f == Head(call[s])
             p == ClusterNumber(f.cwd)
  <1>0. In(s, {"scan"}, "each")
    BY DEF ScanEntry
  <1>1. /\ call[s] # <<>> /\ f.fn = "scan" /\ f.at = "each"
        /\ {"fn", "at", "name", "walk", "cwd", "first", "seen"} \subseteq DOMAIN f
        /\ Path(disk, f.walk) /\ ScanGood(f) /\ Known(f.cwd) /\ Last(f.walk).cluster \in Clusters
    BY <1>0, ScanNow
  <1>2. PICK n \in DOMAIN f.cwd.entries \ f.seen :
          LET t == ReadDirectory(p, n)
              g == [f EXCEPT !.seen = @ \cup {n}]
          IN  /\ call' = [call EXCEPT ![s] =
                   IF ~f.cwd.entries[n].dir THEN <<g>> \o Tail(@)
                   ELSE IF Reads(p, n)
                     THEN <<Scan(f.name, Pushed(f.walk, t)), [g EXCEPT !.at = "back", !.cwd = t]>> \o Tail(@)
                     ELSE Tail(@)]
              /\ UNCHANGED <<session, dts, line>>
    BY DEF ScanEntry
  <1> DEFINE t == ReadDirectory(p, n)
             g == [f EXCEPT !.seen = @ \cup {n}]
             b == [g EXCEPT !.at = "back", !.cwd = t]
             h == Scan(f.name, Pushed(f.walk, t))
             r == Tail(call[s])
  <1>3. \/ CallIs(s, <<g>> \o r)
        \/ f.cwd.entries[n].dir /\ Reads(p, n) /\ CallIs(s, <<h, b>> \o r)
        \/ CallIs(s, r)
    BY <1>2 DEF CallIs
  <1>4. /\ g.fn = "scan" /\ g.at = "each" /\ g.walk = f.walk /\ g.cwd = f.cwd
        /\ b.fn = "scan" /\ b.at = "back" /\ b.walk = f.walk
    BY <1>1
  <1>5. h.fn = "scan" /\ h.at = "peek" /\ h.walk = Pushed(f.walk, t)
    BY DEF Scan
  <1>6. UNCHANGED vars /\ disk' = disk
    BY DEF ScanEntry, vars
  <1> HIDE DEF g, b, h
  <1>7. CASE CallIs(s, <<g>> \o r)
    <2>1. ScanGood(g)
      BY <1>1, <1>4 DEF ScanGood
    <2>2. Good(disk, dts, dts[s], line[s], g) /\ OnTop(g, r)
      BY <1>1, <1>4, <2>1, ScanFits
    <2> QED
      BY <1>1, <1>6, <1>7, <2>2, JustGoesOn
  <1>8. ASSUME f.cwd.entries[n].dir, Reads(p, n), CallIs(s, <<h, b>> \o r) PROVE PathInv'
    <2> DEFINE w == f.walk
    <2>1. Path(disk, w) /\ p = Last(w).cluster /\ ~MakesRoot(Last(w).cluster, n) /\ Reads(Last(w).cluster, n)
      BY <1>1, <1>2, <1>8, KnownFacts DEF ScanGood
    <2> DEFINE v == Pushed(w, ReadDirectory(Last(w).cluster, n))
    <2>2. h.walk = v
      BY <1>5, <2>1
    <2> HIDE DEF w
    <2>3. Path(disk, v)
      BY <2>1, EnteredPath
    <2> HIDE DEF v
    <2>4. /\ Good(disk, dts, dts[s], line[s], h) /\ OnTop(h, r) /\ Under(h, b)
          /\ Good(disk, dts, dts[s], line[s], b) /\ OnTop(b, r)
      <3>1. ScanGood(h) /\ ScanGood(b) /\ Path(disk, h.walk) /\ Path(disk, b.walk)
        BY <1>1, <1>4, <1>5, <2>2, <2>3 DEF ScanGood
      <3> QED
        BY <1>4, <1>5, <3>1, ScanFits
    <2>5. Settled(s) /\ NowGood(s, h) /\ NowGood(s, b)
      BY <1>1, <1>6, <2>4, SettledSame DEF NowGood
    <2> QED
      BY <1>1, <1>8, <2>4, <2>5, GoodGoOnTwo
  <1>9. CASE CallIs(s, r)
    <2>1. Settled(s)
      BY <1>1, <1>6, SettledSame
    <2>2. Nested(r) /\ AllGood(disk', dts, dts[s], line[s], r) /\ Others(s)
      BY <1>1, <2>1, PathsHave DEF Settled
    <2> HIDE DEF r
    <2> QED
      BY <1>1, <1>9, <2>2, PathsKept
  <1> QED
    BY <1>3, <1>7, <1>8, <1>9

\* The end of find.
LEMMA FindPath ==
    ASSUME CallsInv, PathInv, NEW s \in Shells, FindRoot(s) \/ FindEnd(s) PROVE PathInv'
  <1> DEFINE f == Head(call[s])
             g == [f EXCEPT !.at = "done"]
  <1>1. /\ call[s] # <<>> /\ FrameOK(f) /\ f.fn = "find"
    BY Entered DEF FindRoot, FindEnd
  <1>2. CASE FindEnd(s)
    BY <1>1, <1>2, JustReturns DEF FindEnd
  <1>3. CASE FindRoot(s)
    <2> DEFINE u == <<g>>
    <2>1. CallIs(s, u) /\ disk' = disk
      BY <1>3 DEF FindRoot, CallIs, vars
    <2>2. g.fn = "find"
      BY <1>1 DEF FrameOK
    <2> HIDE DEF g
    <2>3. Good(disk', dts, dts[s], line[s], g)
      BY <2>2 DEF Good, Loops
    <2>4. Nested(u) /\ AllGood(disk', dts, dts[s], line[s], u)
      BY <2>3, NothingNested
    <2>5. Settled(s)
      BY <1>1, <2>1, SettledSame
    <2> HIDE DEF u
    <2> QED
      BY <1>1, <2>1, <2>4, <2>5, PathsKept DEF Settled
  <1> QED
    BY <1>2, <1>3

-----------------------------------------------------------------------------
\* What is typed.  Folders reaches everything below.

\* The levels Folders is worked out by.
LevelsOfFolders(d, c) ==
    CHOOSE level : level = [i \in 0 .. CLUSTER_MAP_SIZE |->
          IF i = 0 THEN {[path |-> <<>>, at |-> c]}
          ELSE UNION {{x} \cup {[path |-> Append(x.path, n), at |-> EntryOf(d, x.at, n).cluster]
                                  : n \in {m \in DOMAIN ReadTable(d, x.at).entries :
                                            EntryOf(d, x.at, m).dir}} : x \in level[i - 1]}]

\* What Folders is a set of, and what a level adds for each.
PlaceRecords == [path: Seq(Names), at: Clusters]

PlacesUnder(d, x) ==
    {[path |-> Append(x.path, n), at |-> EntryOf(d, x.at, n).cluster]
       : n \in {m \in DOMAIN ReadTable(d, x.at).entries : EntryOf(d, x.at, m).dir}}

\* These are the subdirectories.
LEMMA PlacesUnderOK ==
    ASSUME NEW d, DiskOK(d), NEW x \in PlaceRecords
    PROVE  /\ PlacesUnder(d, x) \subseteq PlaceRecords
           /\ {y.at : y \in PlacesUnder(d, x)} = Subdirectories(d, x.at)
  <1>1. x.path \in Seq(Names) /\ x.at \in Clusters
    BY DEF PlaceRecords
  <1> DEFINE t == ReadTable(d, x.at).entries
  <1>2. \A n \in DOMAIN t : n \in Names /\ t[n].cluster \in Clusters
    BY <1>1, ReadTableOK DEF TableOK
  <1>3. \A n \in DOMAIN t : Append(x.path, n) \in Seq(Names)
    BY <1>1, <1>2
  <1>4. \A n : EntryOf(d, x.at, n) = t[n]
    BY DEF EntryOf
  <1>5. PlacesUnder(d, x) = {[path |-> Append(x.path, n), at |-> t[n].cluster] : n \in {m \in DOMAIN t : t[m].dir}}
    BY <1>4 DEF PlacesUnder
  <1>6. Subdirectories(d, x.at) = {t[n].cluster : n \in {m \in DOMAIN t : t[m].dir}}
    BY DEF Subdirectories
  <1> HIDE DEF t
  <1>7. PlacesUnder(d, x) \subseteq PlaceRecords
    BY <1>2, <1>3, <1>5 DEF PlaceRecords
  <1>8. ASSUME NEW c
        PROVE  (\E y \in PlacesUnder(d, x) : y.at = c) <=> c \in Subdirectories(d, x.at)
    <2>1. ASSUME NEW y \in PlacesUnder(d, x), y.at = c
          PROVE  c \in Subdirectories(d, x.at)
      BY <1>5, <1>6, <2>1
    <2>2. ASSUME c \in Subdirectories(d, x.at)
          PROVE  \E y \in PlacesUnder(d, x) : y.at = c
      <3>1. PICK n \in {m \in DOMAIN t : t[m].dir} : c = t[n].cluster
        BY <1>6, <2>2
      <3>2. [path |-> Append(x.path, n), at |-> t[n].cluster] \in PlacesUnder(d, x)
        BY <1>5
      <3>3. [path |-> Append(x.path, n), at |-> t[n].cluster].at = c
        BY <3>1
      <3> QED
        BY <3>2, <3>3
    <2> QED
      BY <2>1, <2>2
  <1> QED
    BY <1>7, <1>8

\* Folders, level by level.
LEMMA FoldersUnfold ==
    ASSUME NEW d, DiskOK(d), NEW c \in Clusters
    PROVE  LET level == LevelsOfFolders(d, c)
           IN  /\ \A i \in 0 .. CLUSTER_MAP_SIZE : level[i] \in SUBSET PlaceRecords
               /\ level[0] = {[path |-> <<>>, at |-> c]}
               /\ \A i \in 1 .. CLUSTER_MAP_SIZE :
                    level[i] = UNION {{x} \cup PlacesUnder(d, x) : x \in level[i - 1]}
               /\ Folders(d, c) = level[CLUSTER_MAP_SIZE]
  <1> DEFINE N == CLUSTER_MAP_SIZE
             R == PlaceRecords
             first == {[path |-> <<>>, at |-> c]}
             Next1(X) == UNION {{x} \cup PlacesUnder(d, x) : x \in X}
             next == [X \in SUBSET R |-> Next1(X)]
             Body(g, i) == IF i = 0 THEN first ELSE Next1(g[i - 1])
             L == LevelsOfFolders(d, c)
  <1>1. N \in Nat
    BY Numbers
  <1>2. first \in SUBSET R
    <2>1. <<>> \in Seq(Names)
      OBVIOUS
    <2> QED
      BY <2>1 DEF PlaceRecords
  <1>3. next \in [SUBSET R -> SUBSET R]
    BY PlacesUnderOK
  <1>4. \E g \in [0 .. N -> SUBSET R] :
          g = [i \in 0 .. N |-> IF i = 0 THEN first ELSE next[g[i - 1]]]
    <2> HIDE DEF next, first, R
    <2>1. Iterates(SUBSET R, first, next, N) # {}
      BY <1>1, <1>2, <1>3, IterationExists
    <2> QED
      BY <2>1 DEF Iterates
  <1>5. PICK g \in [0 .. N -> SUBSET R] : g = [i \in 0 .. N |-> Body(g, i)]
    <2>1. PICK g \in [0 .. N -> SUBSET R] :
            g = [i \in 0 .. N |-> IF i = 0 THEN first ELSE next[g[i - 1]]]
      BY <1>4
    <2>2. \A i \in 0 .. N : i # 0 => i - 1 \in 0 .. N
      BY <1>1
    <2>3. \A i \in 0 .. N : i # 0 => next[g[i - 1]] = Next1(g[i - 1])
      BY <2>1, <2>2
    <2> HIDE DEF next, first, R, Next1
    <2>4. g = [i \in 0 .. N |-> Body(g, i)]
      BY <2>1, <2>3
    <2> QED
      BY <2>1, <2>4
  <1>6. L = [i \in 0 .. N |-> Body(L, i)]
    <2>1. L = CHOOSE h : h = [i \in 0 .. N |-> Body(h, i)]
      BY DEF LevelsOfFolders, PlacesUnder
    <2> HIDE DEF Body
    <2> QED
      BY <1>5, <2>1
  <1> HIDE DEF L
  <1>7. /\ L[0] = first
        /\ \A i \in 1 .. N : L[i] = Next1(L[i - 1])
    <2>0. \A i \in 0 .. N : L[i] = Body(L, i)
      BY <1>6
    <2>1. 0 \in 0 .. N /\ \A i \in 1 .. N : i \in 0 .. N /\ i # 0
      BY <1>1
    <2> HIDE DEF Next1, first
    <2> QED
      BY <2>0, <2>1
  <1>8. \A i \in 0 .. N : L[i] \in SUBSET R
    <2> DEFINE T == {i \in 0 .. N : ~(L[i] \subseteq R)}
    <2>1. T = {}
      <3> SUFFICES ASSUME T # {} PROVE FALSE
        OBVIOUS
      <3>1. PICK i \in T : \A j \in T : i <= j
        <4>1. T \subseteq Nat
          BY <1>1
        <4> HIDE DEF T
        <4> QED
          BY <4>1, LeastNat
      <3>2. i # 0
        BY <1>2, <1>7
      <3>3. i \in 1 .. N /\ i - 1 \in 0 .. N /\ ~(i <= i - 1)
        BY <1>1, <3>2
      <3>4. L[i - 1] \subseteq R
        BY <3>1, <3>3
      <3>5. L[i] = Next1(L[i - 1])
        BY <1>7, <3>3
      <3>6. L[i] \subseteq R
        BY <3>4, <3>5, PlacesUnderOK
      <3> QED
        BY <3>6
    <2> QED
      BY <2>1
  <1>9. Folders(d, c) = L[N]
    BY DEF Folders, LevelsOfFolders, L
  <1> QED
    BY <1>7, <1>8, <1>9 DEF L

\* The directory itself, and with every directory its subdirectories.
LEMMA FoldersClosed ==
    ASSUME NEW d, DiskOK(d), NEW c \in Clusters
    PROVE  LET inside == {x.at : x \in Folders(d, c)}
           IN  /\ c \in inside /\ inside \subseteq Clusters
               /\ \A y \in inside : Subdirectories(d, y) \subseteq inside
  <1> DEFINE N == CLUSTER_MAP_SIZE
             F == LevelsOfFolders(d, c)
             level == [i \in 0 .. N |-> {x.at : x \in F[i]}]
  <1>1. /\ \A i \in 0 .. N : F[i] \in SUBSET PlaceRecords
        /\ F[0] = {[path |-> <<>>, at |-> c]}
        /\ \A i \in 1 .. N : F[i] = UNION {{x} \cup PlacesUnder(d, x) : x \in F[i - 1]}
        /\ Folders(d, c) = F[N]
    BY FoldersUnfold
  <1>2. N \in Nat /\ 0 \in 0 .. N /\ N \in 0 .. N /\ \A i \in 1 .. N : i \in 0 .. N /\ i - 1 \in 0 .. N
    BY Numbers
  <1> HIDE DEF F
  <1>3. \A i \in 0 .. N : level[i] \in SUBSET Clusters
    BY <1>1 DEF PlaceRecords
  <1>4. ASSUME NEW i \in 1 .. N
        PROVE  level[i] = UNION {{y} \cup Subdirectories(d, y) : y \in level[i - 1]}
    <2>1. level[i] = {x.at : x \in F[i]} /\ level[i - 1] = {x.at : x \in F[i - 1]}
      BY <1>2
    <2>2. F[i] = UNION {{x} \cup PlacesUnder(d, x) : x \in F[i - 1]} /\ F[i - 1] \in SUBSET PlaceRecords
      BY <1>1, <1>2
    <2>3. \A x \in F[i - 1] : \A z : (\E y \in PlacesUnder(d, x) : y.at = z) <=> z \in Subdirectories(d, x.at)
      <3> SUFFICES ASSUME NEW x \in F[i - 1], NEW z
                   PROVE  (\E y \in PlacesUnder(d, x) : y.at = z) <=> z \in Subdirectories(d, x.at)
        OBVIOUS
      <3>1. {y.at : y \in PlacesUnder(d, x)} = Subdirectories(d, x.at)
        BY <2>2, PlacesUnderOK
      <3> QED
        BY <3>1
    <2> DEFINE A == level[i - 1]
               B == level[i]
    <2>4. \A z : z \in B <=> \E x \in F[i - 1] : z = x.at \/ z \in Subdirectories(d, x.at)
      <3>1. \A z : z \in B <=> \E y \in F[i] : z = y.at
        BY <2>1
      <3>2. \A y : y \in F[i] <=> \E x \in F[i - 1] : y = x \/ y \in PlacesUnder(d, x)
        BY <2>2
      <3> HIDE DEF B
      <3> QED
        BY <2>3, <3>1, <3>2
    <2>5. \A z : z \in A <=> \E x \in F[i - 1] : z = x.at
      BY <2>1
    <2> HIDE DEF A, B
    <2>6. B = UNION {{y} \cup Subdirectories(d, y) : y \in A}
      BY <2>4, <2>5
    <2> QED
      BY <2>6 DEF A, B
  <1>5. level[0] = {c} /\ level[N] = {x.at : x \in Folders(d, c)}
    <2>1. level[0] = {x.at : x \in F[0]} /\ level[N] = {x.at : x \in F[N]}
      BY <1>2
    <2>2. {x.at : x \in {[path |-> <<>>, at |-> c]}} = {c}
      OBVIOUS
    <2> QED
      BY <1>1, <2>1, <2>2
  <1> HIDE DEF level
  <1>6. /\ level[0] \subseteq level[N]
        /\ \A x \in level[N] : Subdirectories(d, x) \subseteq level[N]
    BY <1>3, <1>4, LevelsClose
  <1> QED
    BY <1>2, <1>3, <1>5, <1>6

-----------------------------------------------------------------------------
\* A directory without a file below it that no shell stands in.

\* A shape says whether it is a directory's.
LEMMA ShapeIsKind == \A d, t, n : Shape(d, t, n).dir = EntryOf(d, t, n).dir
  BY DEF Shape, Shown

\* The directories in what a line names, as SlipsOf looks at them.
InsideOf(d, e) ==
    IF IsFolder(d, e) THEN {x.at : x \in Folders(d, EntryOf(d, e[1], e[2]).cluster)} ELSE {}

\* There is no file in the tree: none below its directory.
LEMMA TreeWithoutFiles ==
    ASSUME NEW d, DiskOK(d), NEW e, e[1] # NoCluster, NEW c \in Clusters, Leads(d, e[1], e[2], c),
           InsideOf(d, e) # {} => \A x \in TreeAt(d, e) : x.is.dir
    PROVE  /\ NoFiles(d, c)
           /\ c \in InsideOf(d, e)
  <1> DEFINE S == {x.at : x \in Folders(d, c)}
  <1>1. /\ Has(d, e[1], e[2]) /\ EntryOf(d, e[1], e[2]).dir /\ EntryOf(d, e[1], e[2]).cluster = c
        /\ Exists(d, e) /\ IsFolder(d, e)
    BY DEF Leads, Exists, IsFolder
  <1>2. InsideOf(d, e) = S
    BY <1>1 DEF InsideOf
  <1>3. c \in S /\ S \subseteq Clusters /\ \A y \in S : Subdirectories(d, y) \subseteq S
    BY FoldersClosed
  <1>4. Contents(d, c) \subseteq TreeAt(d, e)
    BY <1>1 DEF TreeAt
  <1>5. ASSUME NEW y \in S, NEW n \in DOMAIN ReadTable(d, y).entries
        PROVE  EntryOf(d, y, n).dir /\ EntryOf(d, y, n).cluster \in S
    <2>1. PICK x \in Folders(d, c) : y = x.at
      OBVIOUS
    <2> DEFINE b == [path |-> Append(x.path, n), is |-> Shape(d, x.at, n)]
    <2>2. b \in Contents(d, c)
      <3> DEFINE B(z) == {[path |-> Append(z.path, m), is |-> Shape(d, z.at, m)]
                            : m \in DOMAIN ReadTable(d, z.at).entries}
      <3>1. b \in B(x)
        BY <1>5, <2>1
      <3>2. Contents(d, c) = UNION {B(z) : z \in Folders(d, c)}
        BY DEF Contents
      <3> HIDE DEF B, b
      <3> QED
        BY <3>1, <3>2
    <2>3. b.is = Shape(d, y, n)
      BY <2>1
    <2> HIDE DEF b, S
    <2>4. b.is.dir
      BY <1>2, <1>3, <1>4, <2>2
    <2>5. EntryOf(d, y, n).dir
      BY <2>3, <2>4, ShapeIsKind
    <2>6. EntryOf(d, y, n).cluster \in Subdirectories(d, y)
      BY <1>5, <2>5 DEF Subdirectories, EntryOf
    <2> QED
      BY <1>3, <2>5, <2>6
  <1> HIDE DEF S
  <1>6. NoFiles(d, c)
    BY <1>3, <1>5 DEF NoFiles
  <1> QED
    BY <1>2, <1>3, <1>6

\* It may be removed.
LEMMA UnusedIsDoomed ==
    ASSUME NEW d, DiskOK(d), NEW D, \A z \in Shells : Path(d, D[z]), NEW e,
           \A z \in Shells : \A i \in DOMAIN D[z] : D[z][i].cluster \notin InsideOf(d, e),
           InsideOf(d, e) # {} => \A x \in TreeAt(d, e) : x.is.dir
    PROVE  FolderDoomed(d, D, e[1], e[2])
  <1> SUFFICES ASSUME e[1] # NoCluster, NEW c \in Clusters, Leads(d, e[1], e[2], c)
               PROVE  Doomed(d, D, c)
    BY DEF FolderDoomed
  <1>1. NoFiles(d, c) /\ c \in InsideOf(d, e)
    BY TreeWithoutFiles
  <1>2. Free(D, c)
    <2>1. \A z \in Shells : \A i \in DOMAIN D[z] : D[z][i].cluster # c
      BY <1>1
    <2>2. \A z \in Shells : DOMAIN D[z] = 1 .. Len(D[z])
      BY PathHas
    <2> QED
      BY <2>1, <2>2 DEF Free, On
  <1> QED
    BY <1>1, <1>2 DEF Doomed

\* What a line says that is typed as the commands serve it.
LEMMA TypedWell ==
    ASSUME Slips = {}, NEW s \in Shells, NEW l, SlipsOf(s, l) \subseteq Slips
    PROVE  LET e == Named(s, l)
               here == ReadTable(disk, IF e[1] = NoCluster THEN BOOT_SECTOR ELSE e[1])
           IN  /\ NeedsAlone(s, l) => Running = {}
               /\ \A z \in Running : ~line[z].alone
               /\ l.cmd \in {"rm", "mv"} =>
                    /\ \A z \in Shells : \A i \in DOMAIN dts[z] : dts[z][i].cluster \notin InsideOf(disk, e)
                    /\ InsideOf(disk, e) # {} => \A x \in TreeAt(disk, e) : x.is.dir
               /\ l.cmd \in {"cp", "mv"} =>
                    Len(l.path) <= 1 /\ e[2] \notin {here.self.name, here.parent.name}
               /\ l.cmd # "find" => RootName \notin Range(l.path) \cup Range(l.dest)
  <1> DEFINE e == Named(s, l)
             tree == TreeAt(disk, e)
             inside == InsideOf(disk, e)
             here == ReadTable(disk, IF e[1] = NoCluster THEN BOOT_SECTOR ELSE e[1])
  <1>1. SlipsOf(s, l) = {}
    OBVIOUS
  <1>2. \A slip \in AllSlips : slip \notin SlipsOf(s, l)
    BY <1>1
  <1>3. /\ "overlap" \in AllSlips /\ "remove_used" \in AllSlips /\ "rm_files" \in AllSlips
        /\ "deep_source" \in AllSlips /\ "namesake" \in AllSlips /\ "copy_files" \in AllSlips
        /\ "root_named" \in AllSlips
    BY DEF AllSlips
  <1>4. ~((NeedsAlone(s, l) /\ Running # {}) \/ \E z \in Running : line[z].alone)
    BY <1>2, <1>3 DEF SlipsOf
  <1>5. ~(l.cmd \in {"rm", "mv"} /\ \E z \in Shells : \E i \in DOMAIN dts[z] : dts[z][i].cluster \in inside)
    BY <1>2, <1>3 DEF SlipsOf, InsideOf
  <1>6. ~(l.cmd = "rm" /\ inside # {} /\ \E x \in tree : ~x.is.dir)
    BY <1>2, <1>3 DEF SlipsOf, InsideOf
  <1>7. ~(l.cmd \in {"cp", "mv"} /\ inside # {} /\ \E x \in tree : ~x.is.dir)
    BY <1>2, <1>3 DEF SlipsOf, InsideOf
  <1>8. ~(l.cmd \in {"cp", "mv"} /\ Len(l.path) > 1)
    BY <1>2, <1>3 DEF SlipsOf
  <1>9. ~(l.cmd \in {"cp", "mv"} /\ e[2] \in {here.self.name, here.parent.name})
    BY <1>2, <1>3 DEF SlipsOf
  <1>10. ~(l.cmd # "find" /\ RootName \in Range(l.path) \cup Range(l.dest))
    BY <1>2, <1>3 DEF SlipsOf
  <1> QED
    BY <1>4, <1>5, <1>6, <1>7, <1>8, <1>9, <1>10

-----------------------------------------------------------------------------
\* The frames a command starts with.

\* A path without the root's name.
LEMMA NamesNoRoot ==
    ASSUME NEW path \in Seq(Parts), RootName \notin Range(path)
    PROVE  Rootless(path)
  <1>1. \A i \in DOMAIN path : path[i] \in Parts /\ path[i] # RootName
    BY DEF Range
  <1>2. path \in [1 .. Len(path) -> Parts] /\ Len(path) \in Nat
    OBVIOUS
  <1> HIDE DEF Parts
  <1>3. path \in [1 .. Len(path) -> Parts \ {RootName}]
    BY <1>1, <1>2
  <1> QED
    BY <1>2, <1>3 DEF Rootless

\* cd, mkdir and cat,
LEMMA LoopStarts ==
    ASSUME NEW d, DiskOK(d), NEW D, NEW w, Path(d, w), NEW l, NEW fn \in {"cd", "mkdir", "cat"},
           l.cmd = fn, Rootless(l.path)
    PROVE  Good(d, D, w, l, Loop(fn, l.path, w))
  <1> DEFINE f == Loop(fn, l.path, w)
  <1>1. /\ f.fn = fn /\ f.at = "peek" /\ f.rest = l.path /\ f.walk = w
        /\ fn \notin {"rm", "source", "dest", "flush", "copy", "scan"}
    BY DEF Loop
  <1> HIDE DEF f
  <1>2. w \in Seq(Links)
    BY PathHas
  <1>3. Led(d, w, l, f)
    BY <1>1, <1>2, LedStart
  <1>4. Good(d, D, w, l, f)
    BY <1>1, <1>3 DEF Good
  <1> QED
    BY <1>4 DEF f

\* rm,
LEMMA RmStarts ==
    ASSUME NEW d, DiskOK(d), NEW D, NEW w, Path(d, w), NEW l, l.cmd = "rm", Rootless(l.path), l.path # <<>>,
           Last(l.path) \in Names, FolderDoomed(d, D, Place(d, w, l.path)[1], Place(d, w, l.path)[2])
    PROVE  Good(d, D, w, l, Loop("rm", l.path, w))
  <1> DEFINE f == Loop("rm", l.path, w)
  <1>1. f.fn = "rm" /\ f.at = "peek" /\ f.rest = l.path /\ f.walk = w
    BY DEF Loop
  <1> HIDE DEF f
  <1>2. w \in Seq(Links)
    BY PathHas
  <1>3. Led(d, w, l, f)
    BY <1>1, <1>2, LedStart
  <1>4. f.rest \in Seq(Parts)
    BY <1>1 DEF Rootless
  <1>5. RmGood(d, D, w, l, f)
    BY <1>1, <1>3, <1>4 DEF RmGood, Kills
  <1>6. Good(d, D, w, l, f)
    BY <1>1, <1>5 DEF Good
  <1> QED
    BY <1>6 DEF f

\* cp and mv start well.
LEMMA SourceStarts ==
    ASSUME NEW d, DiskOK(d), NEW D, NEW w, Path(d, w), NEW l, l.cmd \in {"cp", "mv"},
           Rootless(l.path), Rootless(l.dest), Len(l.path) = 1,
           l.cmd = "mv" => FolderDoomed(d, D, Place(d, w, l.path)[1], Place(d, w, l.path)[2]),
           LET t == ReadTable(d, Place(d, w, l.path)[1])
           IN  Place(d, w, l.path)[1] # NoCluster =>
                 Place(d, w, l.path)[2] \notin {t.self.name, t.parent.name}
    PROVE  Good(d, D, w, l, Source(l.path, l.dest, w, l.cmd = "mv"))
  <1> DEFINE f == Source(l.path, l.dest, w, l.cmd = "mv")
             S == Parts \ {RootName}
             top == Last(w).cluster
             q == l.path
  <1>1. /\ f.fn = "source" /\ f.at = "peek" /\ f.rest = q /\ f.walk = w /\ f.name = Head(q)
        /\ f.to = l.dest /\ f.mv = (l.cmd = "mv") /\ f.size = -1
    BY DEF Source, AfterSplit
  <1>2. q \in Seq(S) /\ Len(q) = 1
    BY DEF Rootless
  <1>3. w \in Seq(Links) /\ w # <<>> /\ top \in Clusters
    BY PathHas
  <1> HIDE DEF f
  <1>4. Led(d, w, l, f)
    BY <1>1, <1>3, LedStart
  <1>5. Place(d, w, l.path) = <<Last(f.walk).cluster, f.rest[1]>>
    BY <1>1, <1>2, <1>3, <1>4, LedLast
  <1>6. q # <<>> /\ Head(q) \in S /\ Head(q) = q[1] /\ q = <<Head(q)>>
    <2> HIDE DEF S, q
    <2>1. Len(<<>>) # 1
      OBVIOUS
    <2>2. q # <<>>
      BY <1>2, <2>1, Zenon
    <2> QED
      BY <1>2, <2>2, RestOf
  <1>7. Place(d, w, l.path)[1] = top /\ Place(d, w, l.path)[2] = f.name
    BY <1>1, <1>5, <1>6
  <1>8. top # NoCluster
    BY <1>3, IsNoCluster
  <1>9. SourceGood(d, D, w, f)
    BY <1>1, <1>6, <1>7, <1>8 DEF SourceGood
  <1>10. f.name # RootName
    BY <1>1, <1>6
  <1>11. Good(d, D, w, l, f)
    BY <1>1, <1>9, <1>10 DEF Good
  <1> QED
    BY <1>11 DEF f

\* The frame that runs first.
FirstFrame(l, w) ==
    IF l.cmd \in {"cp", "mv"} THEN Source(l.path, l.dest, w, l.cmd = "mv")
    ELSE IF l.cmd = "find" THEN Scan(Last(l.path), <<RootLink>>)
    ELSE Loop(l.cmd, l.path, w)

\* It is enough that this one does.
LEMMA FirstFramesGood ==
    ASSUME NEW d, NEW D, NEW w, NEW k, NEW l, Good(d, D, w, k, FirstFrame(l, w))
    PROVE  Nested(FirstFrames(l, w)) /\ AllGood(d, D, w, k, FirstFrames(l, w))
  <1>1. CASE l.cmd = "find"
    <2> DEFINE f == Scan(Last(l.path), <<RootLink>>)
               g == [fn |-> "find", at |-> "root", name |-> Last(l.path)]
    <2>1. FirstFrames(l, w) = <<f, g>> /\ FirstFrame(l, w) = f
      BY <1>1 DEF FirstFrames, FirstFrame
    <2>2. f.fn = "scan" /\ g.fn = "find"
      BY DEF Scan
    <2> HIDE DEF f, g
    <2>3. Under(f, g) /\ Good(d, D, w, k, g)
      BY <2>2 DEF Under, Good, Loops
    <2> QED
      BY <2>1, <2>3, NothingNested
  <1>2. CASE l.cmd # "find"
    <2> DEFINE f == FirstFrame(l, w)
    <2>1. FirstFrames(l, w) = <<f>>
      BY <1>2 DEF FirstFrames, FirstFrame
    <2> HIDE DEF f
    <2>2. Good(d, D, w, k, f)
      BY DEF f
    <2> QED
      BY <2>1, <2>2, NothingNested
  <1> QED
    BY <1>1, <1>2

\* A line the commands serve starts a command the invariant allows: nobody else runs
\* one that removes, and nobody stands in what it removes.
LEMMA TypePath ==
    ASSUME Slips = {}, Served, CallsInv, PathInv, session \in Sessions, NEW s \in Shells, Type(s)
    PROVE  PathInv'
  <1>1. PICK l \in session.lines[s] :
          /\ SlipsOf(s, l) \subseteq Slips
          /\ call' = [call EXCEPT ![s] = FirstFrames(l, dts[s])] /\ UNCHANGED <<vars, dts>>
          /\ line' = [line EXCEPT ![s] =
               [cmd |-> l.cmd, path |-> l.path, dest |-> l.dest,
                at |-> Named(s, l), alone |-> NeedsAlone(s, l),
                due |-> IF l.cmd = "find" THEN Matches(disk, Last(l.path)) ELSE {}]]
    BY DEF Type
  <1> DEFINE w == dts[s]
             k == [cmd |-> l.cmd, path |-> l.path, dest |-> l.dest,
                   at |-> Named(s, l), alone |-> NeedsAlone(s, l),
                   due |-> IF l.cmd = "find" THEN Matches(disk, Last(l.path)) ELSE {}]
             e == Named(s, l)
             c == FirstFrames(l, w)
  <1>2. /\ l.cmd \in {"cd", "mkdir", "cat", "rm", "cp", "mv", "find"}
        /\ l.path \in Seq(Parts) /\ l.dest \in Seq(Parts) /\ l.path # <<>>
        /\ l.cmd \in {"rm", "cp", "mv"} => Last(l.path) \in Names
    BY ShellAssumption DEF Parts
  <1>3. /\ k.cmd = l.cmd /\ k.path = l.path /\ k.dest = l.dest /\ k.alone = NeedsAlone(s, l)
        /\ disk' = disk /\ dts' = dts
    BY <1>1 DEF vars
  <1>4. call[s] = <<>>
    BY DEF Type, Running
  <1>5. /\ call' = [call EXCEPT ![s] = c] /\ line' = [line EXCEPT ![s] = k]
    BY <1>1
  <1>6. /\ NeedsAlone(s, l) => Running = {}
        /\ \A z \in Running : ~line[z].alone
        /\ l.cmd \in {"rm", "mv"} =>
             /\ \A z \in Shells : \A i \in DOMAIN dts[z] : dts[z][i].cluster \notin InsideOf(disk, e)
             /\ InsideOf(disk, e) # {} => \A x \in TreeAt(disk, e) : x.is.dir
        /\ LET here == ReadTable(disk, IF e[1] = NoCluster THEN BOOT_SECTOR ELSE e[1])
           IN  l.cmd \in {"cp", "mv"} => Len(l.path) <= 1 /\ e[2] \notin {here.self.name, here.parent.name}
        /\ l.cmd # "find" => RootName \notin Range(l.path) \cup Range(l.dest)
    BY <1>1, TypedWell
  <1>7. Path(disk, w) /\ \A z \in Shells : Path(disk, dts[z])
    BY DEF PathInv
  <1>8. DiskOK(disk) /\ e = Place(disk, w, l.path)
    BY StoreServed DEF Named
  <1>9. l.cmd \in {"rm", "mv"} => FolderDoomed(disk, dts, e[1], e[2])
    <2> HIDE DEF e, w
    <2> QED
      BY <1>6, <1>7, <1>8, UnusedIsDoomed
  <1>10. l.cmd # "find" => Rootless(l.path) /\ Rootless(l.dest)
    BY <1>2, <1>6, NamesNoRoot
  <1>11. Good(disk, dts, w, k, FirstFrame(l, w))
    <2> HIDE DEF k, e, w
    <2>1. CASE l.cmd \in {"cd", "mkdir", "cat"}
      <3> DEFINE fn == l.cmd
      <3>1. FirstFrame(l, w) = Loop(fn, k.path, w) /\ k.cmd = fn /\ fn \in {"cd", "mkdir", "cat"}
        BY <1>3, <2>1 DEF FirstFrame
      <3>2. Rootless(k.path)
        BY <1>3, <1>10, <2>1
      <3> HIDE DEF fn
      <3> QED
        BY <1>7, <1>8, <3>1, <3>2, LoopStarts
    <2>2. CASE l.cmd = "rm"
      <3>1. FirstFrame(l, w) = Loop("rm", k.path, w) /\ k.cmd = "rm"
        BY <1>3, <2>2 DEF FirstFrame
      <3>2. /\ Rootless(k.path) /\ k.path # <<>> /\ Last(k.path) \in Names
            /\ FolderDoomed(disk, dts, Place(disk, w, k.path)[1], Place(disk, w, k.path)[2])
        BY <1>2, <1>3, <1>8, <1>9, <1>10, <2>2
      <3> QED
        BY <1>7, <1>8, <3>1, <3>2, RmStarts
    <2>3. CASE l.cmd \in {"cp", "mv"}
      <3>1. FirstFrame(l, w) = Source(k.path, k.dest, w, k.cmd = "mv") /\ k.cmd \in {"cp", "mv"}
        BY <1>3, <2>3 DEF FirstFrame
      <3>2. Len(k.path) = 1
        <4>1. Len(l.path) \in Nat /\ Len(l.path) # 0
          BY <1>2
        <4>2. Len(l.path) <= 1
          BY <1>6, <2>3
        <4>3. \A x \in Nat : x # 0 /\ x <= 1 => x = 1
          OBVIOUS
        <4>4. Len(l.path) = 1
          BY <4>1, <4>2, <4>3
        <4> QED
          BY <1>3, <4>4
      <3>3. /\ Rootless(k.path) /\ Rootless(k.dest)
            /\ k.cmd = "mv" => FolderDoomed(disk, dts, Place(disk, w, k.path)[1], Place(disk, w, k.path)[2])
        BY <1>3, <1>8, <1>9, <1>10, <2>3
      <3>4. LET t == ReadTable(disk, Place(disk, w, k.path)[1])
            IN  Place(disk, w, k.path)[1] # NoCluster =>
                  Place(disk, w, k.path)[2] \notin {t.self.name, t.parent.name}
        BY <1>3, <1>6, <1>8, <2>3
      <3> QED
        BY <1>7, <1>8, <3>1, <3>2, <3>3, <3>4, SourceStarts
    <2>4. CASE l.cmd = "find"
      <3> DEFINE f == Scan(Last(l.path), <<RootLink>>)
      <3>1. FirstFrame(l, w) = f
        BY <2>4 DEF FirstFrame
      <3>2. f.fn = "scan" /\ f.at = "peek" /\ f.walk = <<RootLink>>
        BY DEF Scan
      <3> HIDE DEF f
      <3>3. ScanGood(f) /\ Path(disk, f.walk)
        BY <3>2, RootPath DEF ScanGood
      <3> QED
        BY <3>1, <3>2, <3>3, ScanFits
    <2> QED
      BY <1>2, <2>1, <2>2, <2>3, <2>4
  <1>12. Nested(c) /\ AllGood(disk, dts, w, k, c)
    <2> HIDE DEF k
    <2> QED
      BY <1>11, FirstFramesGood
  <1>13. /\ DOMAIN call = Shells /\ DOMAIN line = Shells
    BY DEF CallsInv
  <1> HIDE DEF c, k, e
  <1>14. /\ call'[s] = c /\ line'[s] = k
         /\ \A z \in Shells : z # s => call'[z] = call[z] /\ line'[z] = line[z]
    BY <1>5, <1>13
  <1>15. \A z \in Shells : /\ Path(disk', dts'[z]) /\ Nested(call'[z])
                           /\ AllGood(disk', dts', dts'[z], line'[z], call'[z])
    BY <1>3, <1>7, <1>12, <1>14 DEF PathInv
  <1>16. Apart'
    <2>1. ASSUME NEW z \in Shells, call'[z] # <<>>
          PROVE  /\ Kills(line'[z]) => line'[z].alone
                 /\ line'[z].alone => {y \in Shells : call'[y] # <<>>} = {z}
      <3>1. CASE z = s
        <4>1. Kills(k) => k.alone
          BY <1>3 DEF Kills, NeedsAlone
        <4>2. k.alone => \A y \in Shells : y # s => call[y] = <<>>
          BY <1>3, <1>6 DEF Running
        <4> QED
          BY <1>14, <2>1, <3>1, <4>1, <4>2
      <3>2. CASE z # s
        <4>1. call[z] # <<>> /\ z \in Running /\ line'[z] = line[z]
          BY <1>14, <2>1, <3>2 DEF Running
        <4>2. ~line[z].alone /\ (Kills(line[z]) => line[z].alone)
          BY <1>6, <4>1 DEF PathInv, Apart
        <4> QED
          BY <4>1, <4>2
      <3> QED
        BY <3>1, <3>2
    <2> QED
      BY <2>1 DEF Apart, Running
  <1>17. RootFree(disk')
    BY <1>3 DEF PathInv
  <1> QED
    BY <1>15, <1>16, <1>17 DEF PathInv

\* Every shell is in the root, and at the prompt: after the boot,
LEMMA FreshPaths ==
    ASSUME RootFree(disk), dts = AtRoot, call = [s \in Shells |-> <<>>]
    PROVE  PathInv
  <1>1. \A s \in Shells : dts[s] = <<RootLink>> /\ call[s] = <<>>
    BY DEF AtRoot
  <1>2. \A s \in Shells : /\ Path(disk, dts[s]) /\ Nested(call[s])
                          /\ AllGood(disk, dts, dts[s], line[s], call[s])
    BY <1>1, RootPath, NothingNested
  <1> QED
    BY <1>1, <1>2 DEF PathInv, Apart

\* which is how the machine starts,
LEMMA InitPaths == ShellInit => PathInv
  <1> SUFFICES ASSUME ShellInit PROVE PathInv
    OBVIOUS
  <1>1. Subdirectories(disk, ROOT_CLUSTER_NUMBER) = {}
    BY InsertedStore DEF ShellInit
  <1>2. RootFree(disk)
    BY <1>1 DEF RootFree, Leads, Has, EntryOf, Subdirectories
  <1> QED
    BY <1>2, FreshPaths DEF ShellInit

\* and starts again.
LEMMA RestartPath == PathInv /\ Restart => PathInv'
  <1> SUFFICES ASSUME PathInv, Restart PROVE PathInv'
    OBVIOUS
  <1>1. RootFree(disk') /\ dts' = AtRoot /\ call' = [s \in Shells |-> <<>>]
    BY DEF PathInv, Restart
  <1>2. \A s \in Shells : dts'[s] = <<RootLink>> /\ call'[s] = <<>>
    BY <1>1 DEF AtRoot
  <1>3. \A s \in Shells : /\ Path(disk', dts'[s]) /\ Nested(call'[s])
                          /\ AllGood(disk', dts', dts'[s], line'[s], call'[s])
    BY <1>2, RootPath, NothingNested
  <1> QED
    BY <1>1, <1>2, <1>3 DEF PathInv, Apart

\* Every step of a command keeps the invariant.
LEMMA StepPath ==
    ASSUME Served, CallsInv, PathInv, NEW s \in Shells, Step(s) PROVE PathInv'
  <1>1. CASE GoUp(s) \/ Stay(s) \/ Examine(s) \/ Refuse(s) \/ Enter(s) \/ EndOfPath(s)
    BY <1>1, GoUpPath, StayPath, ExaminePath, RefusePath, EnterPath, EndOfPathPath
  <1>2. CASE Look(s) \/ MakeDirectory(s) \/ Show(s)
    BY <1>2, LookPath, MakeDirectoryPath, ShowPath
  <1>3. CASE RemoveLast(s) \/ OpenRemoved(s) \/ FlushChild(s) \/ FlushEnd(s)
    BY <1>3, RemoveLastPath, OpenRemovedPath, FlushChildPath, FlushEndPath
  <1>4. CASE ReadSource(s) \/ WriteUnder(s) \/ PeekInto(s) \/ PutFile(s) \/ PutDirectory(s) \/ Copied(s)
    BY <1>4, ReadSourcePath, WriteUnderPath, PeekIntoPath, PutFilePath, PutDirectoryPath, CopiedPath
  <1>5. CASE MakeCopy(s) \/ OpenCopy(s) \/ CopyChild(s) \/ CopyEnd(s)
    BY <1>5, MakeCopyPath, OpenCopyPath, CopyChildPath, CopyEndPath
  <1>6. CASE PeekScan(s) \/ ScanEntry(s) \/ ScanOn(s) \/ ScanEnd(s) \/ FindRoot(s) \/ FindEnd(s)
    BY <1>6, PeekScanPath, ScanEntryPath, ScanOnPath, ScanEndPath, FindPath
  <1> QED
    BY <1>1, <1>2, <1>3, <1>4, <1>5, <1>6 DEF Step

\* The inductive invariant of what is typed as the commands serve it.
ServedInv == ShellInv /\ PathInv

\* It holds to begin with,
LEMMA InitServedInv == ShellInit => ServedInv
  BY InitShellInv, InitPaths DEF ServedInv

\* and is kept as long as what is typed is served.
LEMMA NextServedInv ==
    ASSUME Slips = {} PROVE ServedInv /\ [ShellNext]_shvars => ServedInv'
  <1> SUFFICES ASSUME ServedInv, [ShellNext]_shvars PROVE ServedInv'
    OBVIOUS
  <1>1. ShellInv /\ Served /\ CallsInv /\ PathInv /\ session \in Sessions
    BY DEF ServedInv, ShellInv
  <1>2. ShellInv'
    BY <1>1, NextShellInv
  <1>3. CASE \E s \in Shells : Type(s)
    BY <1>1, <1>2, <1>3, TypePath DEF ServedInv
  <1>4. CASE \E s \in Shells : Step(s)
    BY <1>1, <1>2, <1>4, StepPath DEF ServedInv
  <1>5. CASE Restart
    BY <1>1, <1>2, <1>5, RestartPath DEF ServedInv
  <1>6. CASE UNCHANGED shvars
    <2>1. disk' = disk /\ dts' = dts /\ call' = call /\ line' = line
      BY <1>6 DEF shvars, vars
    <2>2. PathInv'
      BY <1>1, <2>1 DEF PathInv, Apart, Running
    <2> QED
      BY <1>2, <2>2 DEF ServedInv
  <1> QED
    BY <1>3, <1>4, <1>5, <1>6 DEF ShellNext

\* As long as what is typed is served, every stack is a path on the disk: while shells
\* make, move and remove directories between any two system calls of another, the
\* cluster numbers that other keeps from table to table stay those of the same
\* directories, and peek finds each of them by the name it was pushed with.
THEOREM StacksArePaths == ASSUME Slips = {} PROVE ShellSpec => []StackIsAPath
  <1>1. ServedInv => StackIsAPath
    <2> SUFFICES ASSUME ServedInv, NEW s \in Shells, NEW w \in Stacks(s)
                 PROVE  /\ w[1] = RootLink
                        /\ Follow(disk, <<RootLink>>, [i \in 1 .. Len(w) - 1 |-> w[i + 1].name]) = w
      BY DEF StackIsAPath
    <2>1. DiskOK(disk)
      BY StoreServed DEF ServedInv, ShellInv
    <2>2. Path(disk, w)
      <3>1. Path(disk, dts[s]) /\ AllGood(disk, dts, dts[s], line[s], call[s])
        BY DEF ServedInv, PathInv
      <3>2. CASE w = dts[s]
        BY <3>1, <3>2
      <3>3. CASE w # dts[s]
        <4>1. PICK i \in DOMAIN call[s] :
                call[s][i].fn \in Loops \cup {"flush", "scan"} /\ w = call[s][i].walk
          BY <3>3 DEF Stacks
        <4>2. Good(disk, dts, dts[s], line[s], call[s][i])
          BY <3>1 DEF AllGood
        <4> QED
          BY <4>1, <4>2 DEF Good
      <3> QED
        BY <3>2, <3>3
    <2> QED
      BY <2>1, <2>2, PathIsFollowed DEF Path, StackOK
  <1> QED
    BY <1>1, InitServedInv, NextServedInv, PTL DEF ShellSpec

\* The step CdGoesWhereNamed allows.
CdGoes ==
    \A s \in Shells : dts'[s] # dts[s] =>
      \/ dts' = AtRoot /\ call' = [z \in Shells |-> <<>>]
      \/ s \in Does({"cd"}) /\ dts'[s] = Follow(disk, dts[s], line[s].path)

\* Only the end of a cd moves a shell.
LEMMA StacksStay ==
    ASSUME NEW s, Step(s), ~(EndOfPath(s) /\ Head(call[s]).fn = "cd") PROVE dts' = dts
  <1>1. /\ \A c : GoOn(s, c) => dts' = dts
        /\ Return(s) \/ Lose(s) => dts' = dts
    BY DEF GoOn, Return, Lose
  <1>2. \A f : Succeed(s, f) => dts' = dts
    BY <1>1 DEF Succeed
  <1>3. CASE GoUp(s) \/ Stay(s) \/ Examine(s) \/ Refuse(s) \/ Enter(s) \/ EndOfPath(s)
    BY <1>1, <1>3 DEF GoUp, Stay, Examine, Refuse, Enter, EndOfPath
  <1>4. CASE Look(s) \/ MakeDirectory(s) \/ Show(s)
    BY <1>1, <1>4 DEF Look, MakeDirectory, Show
  <1>5. CASE RemoveLast(s) \/ OpenRemoved(s) \/ FlushChild(s) \/ FlushEnd(s)
    BY <1>1, <1>5 DEF RemoveLast, OpenRemoved, FlushChild, FlushEnd
  <1>6. CASE ReadSource(s) \/ WriteUnder(s) \/ PeekInto(s) \/ PutFile(s) \/ PutDirectory(s) \/ Copied(s)
    BY <1>1, <1>2, <1>6 DEF ReadSource, WriteUnder, PeekInto, PutFile, PutDirectory, Copied
  <1>7. CASE MakeCopy(s) \/ OpenCopy(s) \/ CopyChild(s) \/ CopyEnd(s)
    BY <1>1, <1>7 DEF MakeCopy, OpenCopy, CopyChild, CopyEnd
  <1>8. CASE PeekScan(s) \/ ScanEntry(s) \/ ScanOn(s) \/ ScanEnd(s) \/ FindRoot(s) \/ FindEnd(s)
    BY <1>1, <1>8 DEF PeekScan, ScanEntry, ScanOn, ScanEnd, FindRoot, FindEnd
  <1> QED
    BY <1>3, <1>4, <1>5, <1>6, <1>7, <1>8 DEF Step

\* That end is where the path of the line leads, on the disk of that moment.
LEMMA CdEnds ==
    ASSUME Served, CallsInv, PathInv, NEW s \in Shells, EndOfPath(s), Head(call[s]).fn = "cd"
    PROVE  CdGoes
  <1> DEFINE f == Head(call[s])
  <1>0. In(s, Loops, "peek") /\ f.rest = <<>>
    BY DEF EndOfPath
  <1>1. call[s] # <<>>
    BY <1>0, LoopNow
  <1>2. dts' = [dts EXCEPT ![s] = f.walk] /\ call' = [call EXCEPT ![s] = <<>>]
    BY DEF EndOfPath
  <1>3. Good(disk, dts, dts[s], line[s], f)
    BY <1>1, PathsHave
  <1>4. line[s].cmd = "cd" /\ Led(disk, dts[s], line[s], f)
    BY <1>3 DEF Good
  <1> HIDE DEF f
  <1>5. Follow(disk, dts[s], line[s].path) = f.walk
    BY <1>0, <1>4, LedEnds
  <1>6. dts'[s] = f.walk /\ call'[s] = <<>> /\ \A z \in Shells : z # s => dts'[z] = dts[z]
    BY <1>2 DEF CallsInv
  <1>7. s \in Does({"cd"})
    BY <1>1, <1>4, <1>6 DEF Does
  <1> QED
    BY <1>5, <1>6, <1>7 DEF CdGoes

\* As long as what is typed is served, cd puts a shell where its whole path leads, or
\* leaves it where it was; nothing else moves it but a reboot.
THEOREM CdGoesThere == ASSUME Slips = {} PROVE ShellSpec => CdGoesWhereNamed
  <1>1. ServedInv /\ [ShellNext]_shvars => [CdGoes]_shvars
    <2> SUFFICES ASSUME ServedInv, ShellNext PROVE CdGoes
      OBVIOUS
    <2>1. Served /\ CallsInv /\ PathInv
      BY DEF ServedInv, ShellInv
    <2>2. CASE Restart
      BY <2>2 DEF Restart, CdGoes
    <2>3. ASSUME NEW s \in Shells, Type(s) PROVE CdGoes
      BY <2>3 DEF Type, CdGoes
    <2>4. ASSUME NEW s \in Shells, Step(s) PROVE CdGoes
      <3>1. CASE EndOfPath(s) /\ Head(call[s]).fn = "cd"
        BY <2>1, <3>1, CdEnds
      <3>2. CASE ~(EndOfPath(s) /\ Head(call[s]).fn = "cd")
        BY <2>4, <3>2, StacksStay DEF CdGoes
      <3> QED
        BY <3>1, <3>2
    <2> QED
      BY <2>2, <2>3, <2>4 DEF ShellNext
  <1> QED
    BY <1>1, InitServedInv, NextServedInv, PTL DEF ShellSpec, CdGoesWhereNamed, CdGoes
=============================================================================
