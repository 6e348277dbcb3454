----------------------------- MODULE Fat32Proofs -----------------------------
(***************************************************************************)
(* What holds of the file system for every size of the disk, of the        *)
(* clusters and of the tables, every set of names, sizes and contents, and *)
(* whichever parent clusters programs name.                                *)
(*                                                                         *)
(* First the lemmas about what the operators of Fat32 read off any disk:   *)
(* tables, directories and chains.  Then Fat32Inv, the types of the disk   *)
(* with the agreement of the two FATs, is an invariant whatever happens:   *)
(* full disks, parents that are gone and power losses included.            *)
(*                                                                         *)
(* Then the file system implements FileStore, as long as the disk does not *)
(* fill, the power does not fail inside an operation and nobody makes a    *)
(* directory "root" in the root.  Entries own chains of clusters, and the  *)
(* chains are apart.  Every operation is shown to add one entry with a     *)
(* chain of its own, or to remove one, as a relation between two disks     *)
(* (Adds, Removes); what such a step keeps, and what it shows, is then a   *)
(* matter of sets.                                                         *)
(***************************************************************************)
EXTENDS Fat32, NatLemmas, SequenceTheorems, FiniteSetTheorems, TLAPS

\* What a cluster holds is well formed: a FAT maps every cluster, a table keeps
\* to TableOK.  The tables are finite, without which Cardinality says nothing.
ContentOK(x) ==
    /\ x.kind = "fat" => x.map \in [Clusters -> FatValues]
    /\ x.kind = "table" => TableOK(x) /\ IsFiniteSet(DOMAIN x.entries)

DiskOK(d) == \A c \in Clusters : ContentOK(d[c])

LEMMA Numbers ==
    /\ CLUSTER_MAP_SIZE \in Nat /\ CLUSTER_MAP_SIZE > 3
    /\ CLUSTER_SIZE \in Nat /\ CLUSTER_SIZE > 0
    /\ DIRECTORY_ENTRIES \in Nat /\ DIRECTORY_ENTRIES > 0
    /\ RootName \in Names
    /\ \A size \in Sizes : size \in Nat /\ size > 0
    /\ MaxLosses \in Nat
    /\ {0, 1, 2} \subseteq Clusters
    /\ Clusters \subseteq FatValues
    /\ {EMPTY_ENTRY, END_OF_FILE, CLUSTER_0_VALUE} \subseteq FatValues
  BY Fat32Assumption DEF Fat32Assumption, Clusters, FatValues, EMPTY_ENTRY,
     END_OF_FILE, CLUSTER_0_VALUE

\* get_empty_cluster returns the number of a cluster, never the FAT's.
LEMMA EmptyClusterIsCluster ==
    ASSUME NEW f
    PROVE  GetEmptyCluster(f) \in Clusters /\ GetEmptyCluster(f) # FAT_CLUSTER_NUMBER
  <1>1. CASE EmptyClusters(f) = {}
    BY <1>1, Numbers DEF GetEmptyCluster, FAT_CLUSTER_NUMBER
  <1>2. CASE EmptyClusters(f) # {}
    <2>1. EmptyClusters(f) \subseteq Clusters /\ \A c \in EmptyClusters(f) : c >= 2
      BY DEF EmptyClusters
    <2>2. Clusters \subseteq Nat
      BY Numbers DEF Clusters
    <2>3. \E x \in EmptyClusters(f) : \A y \in EmptyClusters(f) : x <= y
      BY <1>2, <2>1, <2>2, LeastNat
    <2>4. Min(EmptyClusters(f)) \in EmptyClusters(f)
      BY <2>3 DEF Min
    <2> QED
      BY <1>2, <2>1, <2>2, <2>4 DEF GetEmptyCluster, FAT_CLUSTER_NUMBER
  <1> QED
    BY <1>1, <1>2

LEMMA DivPositive ==
    ASSUME NEW s \in Nat, NEW c \in Nat, c > 0, s >= c
    PROVE  s \div c \in Nat /\ s \div c > 0
  OBVIOUS

\* A file takes at least one cluster.
LEMMA FilesNeedClusters ==
    ASSUME NEW size \in Sizes
    PROVE  NeededClusters(size) \in Nat /\ NeededClusters(size) > 0
  <1>1. /\ size + CLUSTER_SIZE - 1 \in Nat
        /\ size + CLUSTER_SIZE - 1 >= CLUSTER_SIZE
        /\ CLUSTER_SIZE \in Nat /\ CLUSTER_SIZE > 0
    BY Numbers
  <1> QED
    BY <1>1, DivPositive DEF NeededClusters

-----------------------------------------------------------------------------
\* What a cluster holds after k of the writes is what it held, or one of them.
LEMMA AfterWrites ==
    ASSUME NEW writes, NEW k \in Nat, NEW c \in Clusters
    PROVE  \/ After(writes, k)[c] = disk[c]
           \/ \E i \in 1 .. k : After(writes, k)[c] = writes[i].put
  <1>1. CASE Written(writes, k, c) = {}
    BY <1>1 DEF After
  <1>2. CASE Written(writes, k, c) # {}
    <2>1. Written(writes, k, c) \subseteq 1 .. k
      BY DEF Written
    <2>2. \E x \in Written(writes, k, c) : \A y \in Written(writes, k, c) : x >= y
      BY <1>2, <2>1, GreatestUpTo
    <2>3. Max(Written(writes, k, c)) \in 1 .. k
      BY <2>1, <2>2 DEF Max
    <2> QED
      BY <1>2, <2>3 DEF After
  <1> QED
    BY <1>1, <1>2

\* Of the writes to one cluster the last stands.
LEMMA LastWriteStands ==
    ASSUME NEW writes, NEW k \in Nat, NEW i \in 1 .. k, writes[i].at \in Clusters,
           \A j \in 1 .. k : j > i => writes[j].at # writes[i].at
    PROVE  After(writes, k)[writes[i].at] = writes[i].put
  <1> DEFINE c == writes[i].at
             T == Written(writes, k, c)
  <1>1. i \in T /\ T \subseteq 1 .. k /\ \A y \in T : i >= y
    BY DEF Written
  <1>2. Max(T) \in T /\ \A y \in T : Max(T) >= y
    BY <1>1 DEF Max
  <1>3. Max(T) = i
    <2>1. Max(T) \in 1 .. k /\ Max(T) >= i /\ i >= Max(T)
      BY <1>1, <1>2, Zenon
    <2>2. \A m \in 1 .. k : m >= i /\ i >= m => m = i
      OBVIOUS
    <2> QED
      BY <2>1, <2>2, Zenon
  <1> QED
    BY <1>1, <1>3 DEF After

LEMMA WritesKeepDiskOK ==
    ASSUME NEW writes, NEW k \in Nat, DiskOK(disk),
           \A i \in 1 .. k : ContentOK(writes[i].put)
    PROVE  DiskOK(After(writes, k))
  BY AfterWrites DEF DiskOK

LEMMA LoadedFatOK ==
    ASSUME NEW d, DiskOK(d)
    PROVE  LoadedFat(d) \in [Clusters -> FatValues]
  <1>1. EmptyFat \in [Clusters -> FatValues]
    BY Numbers DEF EmptyFat
  <1>2. ContentOK(d[FAT_CLUSTER_NUMBER])
    BY Numbers DEF DiskOK, FAT_CLUSTER_NUMBER
  <1> QED
    BY <1>1, <1>2 DEF LoadedFat, ContentOK

LEMMA FatContentOK ==
    ASSUME NEW f \in [Clusters -> FatValues]
    PROVE  ContentOK(FatContent(f))
  BY DEF ContentOK, FatContent

LEMMA ReadTableOK ==
    ASSUME NEW d, NEW p \in Clusters, DiskOK(d)
    PROVE  /\ TableOK(ReadTable(d, p))
           /\ IsFiniteSet(DOMAIN ReadTable(d, p).entries)
  <1>1. CASE d[p].kind = "table"
    BY <1>1 DEF ReadTable, DiskOK, ContentOK
  <1>2. CASE d[p].kind # "table"
    <2>1. ReadTable(d, p) = Table(NoLink, NoLink, NoEntries)
      BY <1>2 DEF ReadTable
    <2>2. DOMAIN NoEntries = {}
      BY DEF NoEntries
    <2>3. IsFiniteSet({}) /\ Cardinality({}) = 0
      BY FS_EmptySet
    <2> QED
      BY <2>1, <2>2, <2>3, Numbers DEF TableOK, Table
  <1> QED
    BY <1>1, <1>2

LEMMA LinkOK ==
    ASSUME NEW n \in Names, NEW c \in Clusters
    PROVE  Link(n, c) \in {NoLink} \cup {Link(m, d) : m \in Names, d \in Clusters}
  OBVIOUS

LEMMA EmptyTableOK ==
    ASSUME NEW self, NEW parent,
           {self, parent} \subseteq {NoLink} \cup {Link(n, c) : n \in Names, c \in Clusters}
    PROVE  ContentOK(Table(self, parent, NoEntries))
  <1>1. DOMAIN NoEntries = {}
    BY DEF NoEntries
  <1>2. IsFiniteSet({}) /\ Cardinality({}) = 0
    BY FS_EmptySet
  <1> QED
    BY <1>1, <1>2, Numbers DEF ContentOK, TableOK, Table

\* add_entry's table holds one entry more, and no more than it has room for.
LEMMA WithEntryOK ==
    ASSUME NEW p \in Clusters, NEW n \in Names, WriteCode(p, n) = 0, DiskOK(disk),
           NEW entry \in [dir: BOOLEAN, cluster: Clusters, size: Sizes \cup {0}]
    PROVE  ContentOK(WithEntry(p, n, entry).put)
  <1> DEFINE t == ReadTable(disk, p)
             D == DOMAIN t.entries
             e == [m \in D \cup {n} |-> IF m = n THEN entry ELSE t.entries[m]]
  <1>1. n \notin D /\ Cardinality(D) < DIRECTORY_ENTRIES
    BY DEF WriteCode, Has, HasRoom
  <1>2. TableOK(t) /\ IsFiniteSet(D)
    BY ReadTableOK
  <1>3. IsFiniteSet(D \cup {n}) /\ Cardinality(D \cup {n}) = Cardinality(D) + 1
    BY <1>1, <1>2, FS_AddElement
  <1>4. Cardinality(D) \in Nat
    BY <1>2, FS_CardinalityType
  <1>5. WithEntry(p, n, entry).put = Table(t.self, t.parent, e)
    BY DEF WithEntry
  <1>6. DOMAIN e = D \cup {n}
    OBVIOUS
  <1>7. \A m \in DOMAIN e : e[m] \in [dir: BOOLEAN, cluster: Clusters, size: Sizes \cup {0}]
    BY <1>2 DEF TableOK
  <1>8. Cardinality(DOMAIN e) <= DIRECTORY_ENTRIES
    BY <1>1, <1>3, <1>4, <1>6, Numbers
  <1>9. DOMAIN e \subseteq Names /\ IsFiniteSet(DOMAIN e)
    BY <1>2, <1>3, <1>6 DEF TableOK
  <1> HIDE DEF e, D
  <1>10. TableOK(Table(t.self, t.parent, e))
    BY <1>2, <1>7, <1>8, <1>9 DEF TableOK, Table
  <1> QED
    BY <1>5, <1>9, <1>10 DEF ContentOK, Table

LEMMA WithoutEntryOK ==
    ASSUME NEW p \in Clusters, NEW n, DiskOK(disk)
    PROVE  ContentOK(WithoutEntry(p, n).put)
  <1> DEFINE t == ReadTable(disk, p)
             D == DOMAIN t.entries
             e == [m \in D \ {n} |-> t.entries[m]]
  <1>1. TableOK(t) /\ IsFiniteSet(D)
    BY ReadTableOK
  <1>2. /\ IsFiniteSet(D \ {n}) /\ Cardinality(D) \in Nat
        /\ Cardinality(D \ {n}) <= Cardinality(D)
    BY <1>1, FS_Subset, FS_CardinalityType
  <1>3. WithoutEntry(p, n).put = Table(t.self, t.parent, e)
    BY DEF WithoutEntry
  <1>4. DOMAIN e = D \ {n}
    OBVIOUS
  <1>5. \A m \in DOMAIN e : e[m] \in [dir: BOOLEAN, cluster: Clusters, size: Sizes \cup {0}]
    BY <1>1 DEF TableOK
  <1>6. Cardinality(D \ {n}) \in Nat
    BY <1>2, FS_CardinalityType
  <1>7. Cardinality(DOMAIN e) <= DIRECTORY_ENTRIES
    BY <1>1, <1>2, <1>4, <1>6, Numbers DEF TableOK
  <1>8. DOMAIN e \subseteq Names /\ IsFiniteSet(DOMAIN e)
    BY <1>1, <1>2, <1>4 DEF TableOK
  <1> HIDE DEF e, D
  <1>9. TableOK(Table(t.self, t.parent, e))
    BY <1>1, <1>5, <1>7, <1>8 DEF TableOK, Table
  <1> QED
    BY <1>3, <1>8, <1>9 DEF ContentOK, Table

-----------------------------------------------------------------------------
\* The loop of write(), whose recursion the least number of turns that would
\* fail stands in for.
LoopBody(turn, needed, i) ==
    IF i = 0 THEN [map |-> fat, cluster |-> GetEmptyCluster(fat)]
    ELSE Turn(turn[i - 1], i = needed)

LEMMA LoopExists ==
    ASSUME NEW needed \in Nat
    PROVE  \A n \in Nat : \E g : g = [i \in 0 .. n |-> LoopBody(g, needed, i)]
  <1> DEFINE T == {n \in Nat : ~\E g : g = [i \in 0 .. n |-> LoopBody(g, needed, i)]}
  <1> SUFFICES ASSUME T # {} PROVE FALSE
    OBVIOUS
  <1>1. PICK n \in T : \A m \in T : n <= m
    <2>1. T \subseteq Nat
      OBVIOUS
    <2> HIDE DEF T
    <2> QED
      BY <2>1, LeastNat
  <1>2. n \in Nat /\ ~\E g : g = [i \in 0 .. n |-> LoopBody(g, needed, i)]
    OBVIOUS
  <1>3. CASE n = 0
    <2> DEFINE g == [i \in 0 .. 0 |-> LoopBody(<<>>, needed, 0)]
    <2>1. g = [i \in 0 .. 0 |-> LoopBody(g, needed, i)]
      BY DEF LoopBody
    <2> QED
      BY <1>2, <1>3, <2>1
  <1>4. CASE n # 0
    <2>1. n - 1 \in Nat /\ ~(n <= n - 1)
      BY <1>2, <1>4
    <2>2. n - 1 \notin T
      BY <1>1, <2>1
    <2>3. PICK g : g = [i \in 0 .. n - 1 |-> LoopBody(g, needed, i)]
      BY <2>1, <2>2
    <2> DEFINE h == [i \in 0 .. n |-> IF i = n THEN LoopBody(g, needed, n) ELSE g[i]]
    <2>4. \A i \in 0 .. n : i # 0 => i - 1 \in 0 .. n - 1
      BY <1>2
    <2>5. \A i \in 0 .. n - 1 : h[i] = g[i]
      BY <1>2
    <2>6. \A i \in 0 .. n : LoopBody(h, needed, i) = LoopBody(g, needed, i)
      <3> HIDE DEF h
      <3> QED
        BY <2>4, <2>5 DEF LoopBody
    <2>7. \A i \in 0 .. n : i # n => i \in 0 .. n - 1
      BY <1>2
    <2>8. \A i \in 0 .. n - 1 : g[i] = LoopBody(g, needed, i)
      BY <2>3
    <2>9. \A i \in 0 .. n : h[i] = LoopBody(h, needed, i)
      BY <2>6, <2>7, <2>8
    <2>10. h = [i \in 0 .. n |-> LoopBody(h, needed, i)]
      BY <2>9
    <2> QED
      BY <1>2, <2>10
  <1> QED
    BY <1>3, <1>4

LEMMA LoopUnfolds ==
    ASSUME NEW needed \in Nat
    PROVE  FileLoop(needed) = [i \in 0 .. needed |-> LoopBody(FileLoop(needed), needed, i)]
  <1>1. PICK g : g = [i \in 0 .. needed |-> LoopBody(g, needed, i)]
    BY LoopExists
  <1>2. FileLoop(needed) = CHOOSE h : h = [i \in 0 .. needed |-> LoopBody(h, needed, i)]
    BY DEF FileLoop, LoopBody
  <1> QED
    BY <1>1, <1>2

\* Every turn leaves a FAT that maps every cluster.
LEMMA LoopOK ==
    ASSUME NEW needed \in Nat, fat \in [Clusters -> FatValues]
    PROVE  \A i \in 0 .. needed : FileLoop(needed)[i].map \in [Clusters -> FatValues]
  <1> DEFINE turn == FileLoop(needed)
             T == {i \in 0 .. needed : turn[i].map \notin [Clusters -> FatValues]}
  <1> SUFFICES ASSUME T # {} PROVE FALSE
    OBVIOUS
  <1>1. PICK i \in T : \A j \in T : i <= j
    <2>1. T \subseteq Nat
      OBVIOUS
    <2> HIDE DEF T
    <2> QED
      BY <2>1, LeastNat
  <1>2. i \in 0 .. needed /\ turn[i].map \notin [Clusters -> FatValues]
    OBVIOUS
  <1>3. turn[i] = LoopBody(turn, needed, i)
    BY <1>2, LoopUnfolds
  <1>4. CASE i = 0
    BY <1>2, <1>3, <1>4 DEF LoopBody
  <1>5. CASE i # 0
    <2>1. i - 1 \in 0 .. needed /\ ~(i <= i - 1)
      BY <1>2, <1>5
    <2>2. turn[i - 1].map \in [Clusters -> FatValues]
      BY <1>1, <2>1
    <2>3. turn[i] = Turn(turn[i - 1], i = needed)
      BY <1>3, <1>5 DEF LoopBody
    <2> DEFINE t == turn[i - 1]
               marked == [t.map EXCEPT ![t.cluster] = END_OF_FILE]
               next == GetEmptyCluster(marked)
    <2>4. marked \in [Clusters -> FatValues]
      BY <2>2, Numbers
    <2>5. next \in FatValues
      BY EmptyClusterIsCluster, Numbers
    <2>6. [marked EXCEPT ![t.cluster] = next] \in [Clusters -> FatValues]
      <3> HIDE DEF marked, next
      <3> QED
        BY <2>4, <2>5
    <2>7. Turn(t, i = needed).map \in {marked, [marked EXCEPT ![t.cluster] = next]}
      BY DEF Turn
    <2> HIDE DEF marked, next
    <2> QED
      BY <1>2, <2>3, <2>4, <2>6, <2>7
  <1> QED
    BY <1>4, <1>5

\* A file's writes: every one of them well formed, the last one the FAT.
LEMMA FileWritesOK ==
    ASSUME NEW needed \in Nat, needed > 0, NEW payload, NEW first,
           fat \in [Clusters -> FatValues], ContentOK(first.put)
    PROVE  LET w == <<first>> \o FileWrites(needed, payload)
           IN  /\ Len(w) \in Nat /\ Len(w) > 0
               /\ \A i \in 1 .. Len(w) : ContentOK(w[i].put)
               /\ w[Len(w)].at = FAT_CLUSTER_NUMBER
               /\ w[Len(w)].put = FatContent(FileLoop(needed)[needed].map)
  <1> DEFINE f == FileWrites(needed, payload)
             w == <<first>> \o f
             S == {first} \cup {f[k] : k \in 1 .. 2 * needed}
  <1>1. DOMAIN f = 1 .. 2 * needed /\ 2 * needed \in Nat
    BY DEF FileWrites
  <1>2. \A k \in 1 .. 2 * needed : ContentOK(f[k].put)
    <2> SUFFICES ASSUME NEW k \in 1 .. 2 * needed PROVE ContentOK(f[k].put)
      OBVIOUS
    <2>1. CASE k % 2 = 1
      BY <2>1 DEF FileWrites, Block, ContentOK
    <2>2. CASE k % 2 # 1
      <3>1. (k + 1) \div 2 \in 0 .. needed
        OBVIOUS
      <3>2. f[k].put = FatContent(FileLoop(needed)[(k + 1) \div 2].map)
        BY <2>2 DEF FileWrites
      <3> QED
        BY <3>1, <3>2, LoopOK, FatContentOK
    <2> QED
      BY <2>1, <2>2
  <1>3. f[2 * needed] = [at |-> FAT_CLUSTER_NUMBER,
                         put |-> FatContent(FileLoop(needed)[needed].map)]
    <2>1. 2 * needed \in 1 .. 2 * needed /\ (2 * needed) % 2 # 1
          /\ (2 * needed + 1) \div 2 = needed
      OBVIOUS
    <2> QED
      BY <2>1 DEF FileWrites
  <1> HIDE DEF f
  <1>4. f \in Seq(S) /\ Len(f) = 2 * needed
    <2>0. f = [k \in 1 .. 2 * needed |-> f[k]]
      BY <1>1 DEF f, FileWrites
    <2>1. f \in [1 .. 2 * needed -> S]
      BY <2>0
    <2> QED
      BY <1>1, <2>1
  <1>5. <<first>> \in Seq(S) /\ Len(<<first>>) = 1
    OBVIOUS
  <1> HIDE DEF S
  <1>6. /\ Len(w) = 1 + 2 * needed
        /\ \A i \in 1 .. 1 + 2 * needed : w[i] = IF i <= 1 THEN <<first>>[i] ELSE f[i - 1]
    <2> DEFINE u == <<first>>
    <2>1. u \in Seq(S) /\ Len(u) = 1
      BY <1>5
    <2> HIDE DEF u
    <2>2. /\ Len(u \o f) = Len(u) + Len(f)
          /\ \A i \in 1 .. Len(u) + Len(f) :
               (u \o f)[i] = IF i <= Len(u) THEN u[i] ELSE f[i - Len(u)]
      BY <1>4, <2>1, ConcatProperties, Zenon
    <2>3. /\ Len(u \o f) = 1 + 2 * needed
          /\ \A i \in 1 .. 1 + 2 * needed : (u \o f)[i] = IF i <= 1 THEN u[i] ELSE f[i - 1]
      BY <1>4, <2>1, <2>2
    <2> QED
      BY <2>3 DEF u
  <1> HIDE DEF w
  <1>7. \A i \in 1 .. Len(w) : ContentOK(w[i].put)
    <2> SUFFICES ASSUME NEW i \in 1 .. 1 + 2 * needed PROVE ContentOK(w[i].put)
      BY <1>6
    <2>1. CASE i = 1
      BY <1>6, <2>1
    <2>2. CASE i # 1
      <3>1. i - 1 \in 1 .. 2 * needed /\ ~(i <= 1)
        BY <2>2
      <3> QED
        BY <1>2, <1>6, <3>1
    <2> QED
      BY <2>1, <2>2
  <1>8. w[Len(w)] = f[2 * needed]
    <2>1. 1 + 2 * needed \in 1 .. 1 + 2 * needed /\ ~(1 + 2 * needed <= 1)
          /\ (1 + 2 * needed) - 1 = 2 * needed
      OBVIOUS
    <2> QED
      BY <1>6, <2>1
  <1>9. Len(w) \in Nat /\ Len(w) > 0
    BY <1>6
  <1> QED
    BY <1>3, <1>7, <1>8, <1>9 DEF w, f

-----------------------------------------------------------------------------
\* Directories: what can be reached from the root.

\* The sets Below is worked out by.
Levels(d, c) ==
    LET level[i \in 0 .. CLUSTER_MAP_SIZE] ==
          IF i = 0 THEN Subdirectories(d, c)
          ELSE UNION {{x} \cup Subdirectories(d, x) : x \in level[i - 1]}
    IN  level

\* The clusters of the directories in a directory's table.
LEMMA SubdirectoriesAreClusters ==
    ASSUME NEW d, DiskOK(d), NEW c \in Clusters
    PROVE  Subdirectories(d, c) \subseteq Clusters
  BY ReadTableOK DEF Subdirectories, TableOK

\* What Subdirectories collects, entry by entry.
LEMMA SubdirectoriesOf ==
    ASSUME NEW d, NEW c, NEW x
    PROVE  x \in Subdirectories(d, c) <=>
             \E n \in DOMAIN ReadTable(d, c).entries :
               ReadTable(d, c).entries[n].dir /\ ReadTable(d, c).entries[n].cluster = x
  BY DEF Subdirectories

\* The recursive function Levels exists and unfolds; its last value is Below.
LEMMA LevelsUnfold ==
    ASSUME NEW d, DiskOK(d), NEW c \in Clusters
    PROVE  /\ \A i \in 0 .. CLUSTER_MAP_SIZE : Levels(d, c)[i] \in SUBSET Clusters
           /\ Levels(d, c)[0] = Subdirectories(d, c)
           /\ \A i \in 1 .. CLUSTER_MAP_SIZE :
                Levels(d, c)[i] = UNION {{x} \cup Subdirectories(d, x) : x \in Levels(d, c)[i - 1]}
           /\ Below(d, c) = Levels(d, c)[CLUSTER_MAP_SIZE]
  <1> DEFINE N == CLUSTER_MAP_SIZE
             Next1(X) == UNION {{x} \cup Subdirectories(d, x) : x \in X}
             next == [X \in SUBSET Clusters |-> Next1(X)]
             Body(g, i) == IF i = 0 THEN Subdirectories(d, c) ELSE Next1(g[i - 1])
  <1>1. N \in Nat
    BY Numbers
  <1>2. Subdirectories(d, c) \in SUBSET Clusters
    BY SubdirectoriesAreClusters
  <1>3. next \in [SUBSET Clusters -> SUBSET Clusters]
    BY SubdirectoriesAreClusters
  <1>4. \E g \in [0 .. N -> SUBSET Clusters] :
          g = [i \in 0 .. N |-> IF i = 0 THEN Subdirectories(d, c) ELSE next[g[i - 1]]]
    <2> HIDE DEF next
    <2>1. Iterates(SUBSET Clusters, Subdirectories(d, c), next, N) # {}
      BY <1>1, <1>2, <1>3, IterationExists
    <2> QED
      BY <2>1 DEF Iterates
  <1>5. \E g \in [0 .. N -> SUBSET Clusters] : g = [i \in 0 .. N |-> Body(g, i)]
    <2>1. PICK g \in [0 .. N -> SUBSET Clusters] :
            g = [i \in 0 .. N |-> IF i = 0 THEN Subdirectories(d, c) ELSE next[g[i - 1]]]
      BY <1>4
    <2>2. \A i \in 0 .. N : i # 0 => i - 1 \in 0 .. N
      BY <1>1
    <2>3. \A i \in 0 .. N : i # 0 => next[g[i - 1]] = Next1(g[i - 1])
      BY <2>1, <2>2
    <2> HIDE DEF next
    <2>4. g = [i \in 0 .. N |-> Body(g, i)]
      BY <2>1, <2>3
    <2> QED
      BY <2>1, <2>4
  <1>6. Levels(d, c) = [i \in 0 .. N |-> Body(Levels(d, c), i)]
    <2>1. Levels(d, c) = CHOOSE g : g = [i \in 0 .. N |-> Body(g, i)]
      BY DEF Levels
    <2> HIDE DEF Body
    <2> QED
      BY <1>5, <2>1
  <1>7. \A i \in 0 .. N : Levels(d, c)[i] = Body(Levels(d, c), i)
    BY <1>6
  <1>8. /\ Levels(d, c)[0] = Subdirectories(d, c)
        /\ \A i \in 1 .. N : Levels(d, c)[i] = Next1(Levels(d, c)[i - 1])
    <2>1. 0 \in 0 .. N /\ \A i \in 1 .. N : i \in 0 .. N /\ i # 0
      BY <1>1
    <2> HIDE DEF Next1
    <2> QED
      BY <1>7, <2>1
  <1>9. \A i \in 0 .. N : Levels(d, c)[i] \in SUBSET Clusters
    <2> DEFINE T == {i \in 0 .. N : ~(Levels(d, c)[i] \subseteq Clusters)}
    <2>1. T = {}
      <3> SUFFICES ASSUME T # {} PROVE FALSE
        OBVIOUS
      <3>1. PICK i \in T : \A j \in T : i <= j
        <4>1. T \subseteq Nat
          BY <1>1
        <4> HIDE DEF T
        <4> QED
          BY <4>1, LeastNat
      <3>2. i # 0
        BY <1>2, <1>8
      <3>3. i \in 1 .. N /\ i - 1 \in 0 .. N /\ ~(i <= i - 1)
        BY <1>1, <3>2
      <3>4. Levels(d, c)[i - 1] \subseteq Clusters
        BY <3>1, <3>3
      <3>5. Levels(d, c)[i] = Next1(Levels(d, c)[i - 1])
        BY <1>8, <3>3
      <3>6. Levels(d, c)[i] \subseteq Clusters
        BY <3>4, <3>5, SubdirectoriesAreClusters
      <3> QED
        BY <3>6
    <2> QED
      BY <2>1
  <1>10. Below(d, c) = Levels(d, c)[N]
    BY DEF Below, Levels
  <1> QED
    BY <1>8, <1>9, <1>10

\* There are as many clusters as CLUSTER_MAP_SIZE says.
LEMMA ClustersFinite == IsFiniteSet(Clusters) /\ Cardinality(Clusters) = CLUSTER_MAP_SIZE
  <1>1. CLUSTER_MAP_SIZE \in Nat /\ CLUSTER_MAP_SIZE > 3 /\ 0 \in Int /\ CLUSTER_MAP_SIZE - 1 \in Int
    BY Numbers
  <1>2. /\ IsFiniteSet(0 .. CLUSTER_MAP_SIZE - 1)
        /\ Cardinality(0 .. CLUSTER_MAP_SIZE - 1) =
             IF 0 > CLUSTER_MAP_SIZE - 1 THEN 0 ELSE (CLUSTER_MAP_SIZE - 1) - 0 + 1
    BY <1>1, FS_Interval
  <1> QED
    BY <1>1, <1>2 DEF Clusters

\* Where each level adds the subdirectories of the one before, the last has grown
\* as far as it can: there are as many levels as clusters.
LEMMA LevelsClose ==
    ASSUME NEW d, DiskOK(d), NEW level,
           \A i \in 0 .. CLUSTER_MAP_SIZE : level[i] \in SUBSET Clusters,
           \A i \in 1 .. CLUSTER_MAP_SIZE :
             level[i] = UNION {{x} \cup Subdirectories(d, x) : x \in level[i - 1]}
    PROVE  /\ level[0] \subseteq level[CLUSTER_MAP_SIZE]
           /\ \A x \in level[CLUSTER_MAP_SIZE] : Subdirectories(d, x) \subseteq level[CLUSTER_MAP_SIZE]
  <1> DEFINE N == CLUSTER_MAP_SIZE
             L(i) == level[i]
             Closed(X) == \A x \in X : Subdirectories(d, x) \subseteq X
             T == {i \in 0 .. N : ~(/\ L(0) \subseteq L(i)
                                    /\ Closed(L(i)) \/ Cardinality(L(i)) >= i)}
  <1>1. /\ \A i \in 0 .. N : L(i) \in SUBSET Clusters
        /\ \A i \in 1 .. N : L(i) = UNION {{x} \cup Subdirectories(d, x) : x \in L(i - 1)}
    OBVIOUS
  <1>2. N \in Nat /\ N > 3
    BY Numbers
  <1> HIDE DEF L
  <1>3. \A i \in 0 .. N : IsFiniteSet(L(i)) /\ Cardinality(L(i)) \in Nat
    BY <1>1, ClustersFinite, FS_Subset, FS_CardinalityType
  <1>4. T = {}
    <2> SUFFICES ASSUME T # {} PROVE FALSE
      OBVIOUS
    <2>1. PICK i \in T : \A j \in T : i <= j
      <3>1. T \subseteq Nat
        BY <1>2
      <3> HIDE DEF T
      <3> QED
        BY <3>1, LeastNat
    <2>2. i # 0
      <3>1. 0 \in 0 .. N
        BY <1>2
      <3>2. Cardinality(L(0)) >= 0 /\ L(0) \subseteq L(0)
        BY <1>1, <1>3, <3>1
      <3> QED
        BY <3>2
    <2>3. i \in 1 .. N /\ i - 1 \in 0 .. N /\ ~(i <= i - 1) /\ i \in 0 .. N
      BY <1>2, <2>2
    <2>4. /\ L(0) \subseteq L(i - 1)
          /\ Closed(L(i - 1)) \/ Cardinality(L(i - 1)) >= i - 1
      BY <2>1, <2>3
    <2>5. L(i) = UNION {{x} \cup Subdirectories(d, x) : x \in L(i - 1)}
      BY <1>1, <2>3
    <2>6. L(i - 1) \subseteq L(i) /\ L(0) \subseteq L(i)
      BY <2>4, <2>5
    <2>7. CASE Closed(L(i - 1))
      <3>1. L(i) = L(i - 1)
        BY <2>5, <2>6, <2>7
      <3> QED
        BY <2>6, <2>7, <3>1
    <2>8. CASE ~Closed(L(i - 1))
      <3>1. L(i) # L(i - 1)
        BY <2>5, <2>8
      <3>2. Cardinality(L(i - 1)) <= Cardinality(L(i)) /\ Cardinality(L(i - 1)) # Cardinality(L(i))
        <4>1. PICK x \in L(i) : x \notin L(i - 1)
          BY <2>6, <3>1
        <4>2. /\ IsFiniteSet(L(i - 1) \cup {x})
              /\ Cardinality(L(i - 1) \cup {x}) = Cardinality(L(i - 1)) + 1
          BY <1>3, <2>3, <4>1, FS_AddElement
        <4>3. L(i - 1) \cup {x} \in SUBSET L(i)
          BY <2>6, <4>1
        <4>4. Cardinality(L(i - 1) \cup {x}) <= Cardinality(L(i))
          BY <1>3, <2>3, <4>3, FS_Subset
        <4> QED
          BY <1>3, <2>3, <4>2, <4>4
      <3>3. Cardinality(L(i)) >= i
        BY <1>3, <2>3, <2>4, <2>8, <3>2
      <3> QED
        BY <2>6, <3>3
    <2> QED
      BY <2>7, <2>8
  <1>5. N \in 0 .. N
    BY <1>2
  <1>6. L(0) \subseteq L(N) /\ (Closed(L(N)) \/ Cardinality(L(N)) >= N)
    BY <1>4, <1>5
  <1>7. ASSUME Cardinality(L(N)) >= N PROVE Closed(L(N))
    <2>1. L(N) = Clusters
      <3> SUFFICES ASSUME NEW x \in Clusters, x \notin L(N) PROVE FALSE
        BY <1>1, <1>5
      <3>1. /\ IsFiniteSet(L(N) \cup {x})
            /\ Cardinality(L(N) \cup {x}) = Cardinality(L(N)) + 1
        BY <1>3, <1>5, FS_AddElement
      <3>2. L(N) \cup {x} \in SUBSET Clusters
        BY <1>1, <1>5
      <3>3. Cardinality(L(N) \cup {x}) <= N
        BY <3>2, ClustersFinite, FS_Subset
      <3> QED
        BY <1>2, <1>3, <1>5, <1>7, <3>1, <3>3
    <2> QED
      BY <2>1, SubdirectoriesAreClusters
  <1> QED
    BY <1>6, <1>7 DEF L

\* A directory's subdirectories, and theirs, and so on, lie below it.
LEMMA BelowClosed ==
    ASSUME NEW d, DiskOK(d), NEW c \in Clusters
    PROVE  /\ Below(d, c) \subseteq Clusters
           /\ Subdirectories(d, c) \subseteq Below(d, c)
           /\ \A x \in Below(d, c) : Subdirectories(d, x) \subseteq Below(d, c)
  <1> DEFINE level == Levels(d, c)
  <1>1. /\ \A i \in 0 .. CLUSTER_MAP_SIZE : level[i] \in SUBSET Clusters
        /\ level[0] = Subdirectories(d, c)
        /\ \A i \in 1 .. CLUSTER_MAP_SIZE :
             level[i] = UNION {{x} \cup Subdirectories(d, x) : x \in level[i - 1]}
        /\ Below(d, c) = level[CLUSTER_MAP_SIZE]
    BY LevelsUnfold
  <1> HIDE DEF level
  <1>2. /\ level[0] \subseteq level[CLUSTER_MAP_SIZE]
        /\ \A x \in level[CLUSTER_MAP_SIZE] : Subdirectories(d, x) \subseteq level[CLUSTER_MAP_SIZE]
    BY <1>1, LevelsClose
  <1>3. CLUSTER_MAP_SIZE \in 0 .. CLUSTER_MAP_SIZE
    BY Numbers
  <1> QED
    BY <1>1, <1>2, <1>3

\* And nothing else does.
LEMMA BelowLeast ==
    ASSUME NEW d, DiskOK(d), NEW c \in Clusters, NEW X,
           Subdirectories(d, c) \subseteq X,
           \A x \in X \cap Clusters : Subdirectories(d, x) \subseteq X
    PROVE  Below(d, c) \subseteq X
  <1> DEFINE N == CLUSTER_MAP_SIZE
             L(i) == Levels(d, c)[i]
             T == {i \in 0 .. N : ~(L(i) \subseteq X)}
  <1>1. /\ \A i \in 0 .. N : L(i) \in SUBSET Clusters
        /\ L(0) = Subdirectories(d, c)
        /\ \A i \in 1 .. N : L(i) = UNION {{x} \cup Subdirectories(d, x) : x \in L(i - 1)}
        /\ Below(d, c) = L(N)
    BY LevelsUnfold
  <1>2. N \in Nat
    BY Numbers
  <1> HIDE DEF L
  <1>3. T = {}
    <2> SUFFICES ASSUME T # {} PROVE FALSE
      OBVIOUS
    <2>1. PICK i \in T : \A j \in T : i <= j
      <3>1. T \subseteq Nat
        BY <1>2
      <3> HIDE DEF T
      <3> QED
        BY <3>1, LeastNat
    <2>2. i # 0
      BY <1>1
    <2>3. i \in 1 .. N /\ i - 1 \in 0 .. N /\ ~(i <= i - 1)
      BY <1>2, <2>2
    <2>4. L(i - 1) \subseteq X /\ L(i - 1) \subseteq Clusters
      BY <1>1, <2>1, <2>3
    <2>5. L(i) = UNION {{x} \cup Subdirectories(d, x) : x \in L(i - 1)}
      BY <1>1, <2>3
    <2>6. L(i) \subseteq X
      BY <2>4, <2>5
    <2> QED
      BY <2>6
  <1>4. N \in 0 .. N
    BY <1>2
  <1> QED
    BY <1>1, <1>3, <1>4

-----------------------------------------------------------------------------
\* The directories: the least set that the root belongs to, and with a directory
\* its subdirectories.

LEMMA RootIsCluster == ROOT_CLUSTER_NUMBER \in Clusters
  BY Numbers DEF ROOT_CLUSTER_NUMBER

\* The root is a directory, and what a directory has an entry for.
LEMMA TablesClosed ==
    ASSUME NEW d, DiskOK(d)
    PROVE  /\ ROOT_CLUSTER_NUMBER \in Tables(d)
           /\ Tables(d) \subseteq Clusters
           /\ \A t \in Tables(d) : Subdirectories(d, t) \subseteq Tables(d)
  BY RootIsCluster, BelowClosed DEF Tables

\* Nothing else is: a set closed like that holds every directory.
LEMMA TablesLeast ==
    ASSUME NEW d, DiskOK(d), NEW X, ROOT_CLUSTER_NUMBER \in X,
           \A x \in X \cap Tables(d) : Subdirectories(d, x) \subseteq X
    PROVE  Tables(d) \subseteq X
  <1> DEFINE Y == X \cap Tables(d)
  <1>1. Subdirectories(d, ROOT_CLUSTER_NUMBER) \subseteq Y
    BY TablesClosed
  <1>2. \A x \in Y \cap Clusters : Subdirectories(d, x) \subseteq Y
    BY TablesClosed
  <1> HIDE DEF Y
  <1>3. Below(d, ROOT_CLUSTER_NUMBER) \subseteq Y
    BY <1>1, <1>2, RootIsCluster, BelowLeast
  <1> QED
    BY <1>3 DEF Tables, Y

\* A directory that is not the root has an entry in a directory.
LEMMA TablesHaveEntries ==
    ASSUME NEW d, DiskOK(d), NEW t \in Tables(d), t # ROOT_CLUSTER_NUMBER
    PROVE  \E s \in Tables(d) : t \in Subdirectories(d, s)
  <1> DEFINE X == {ROOT_CLUSTER_NUMBER} \cup UNION {Subdirectories(d, s) : s \in Tables(d)}
  <1>1. Tables(d) \subseteq X
    <2>1. ROOT_CLUSTER_NUMBER \in X /\ \A x \in X \cap Tables(d) : Subdirectories(d, x) \subseteq X
      OBVIOUS
    <2> HIDE DEF X
    <2> QED
      BY <2>1, TablesLeast
  <1> QED
    BY <1>1

-----------------------------------------------------------------------------
\* Chains.

\* The recursive function Walk, which follows the FAT from a cluster, exists and
\* unfolds.
LEMMA WalkUnfold ==
    ASSUME NEW f \in [Clusters -> FatValues], NEW c \in FatValues
    PROVE  /\ Walk(f, c)[0] = c
           /\ \A i \in 0 .. CLUSTER_MAP_SIZE : Walk(f, c)[i] \in FatValues
           /\ \A i \in 1 .. CLUSTER_MAP_SIZE :
                Walk(f, c)[i] = IF Walk(f, c)[i - 1] \in Clusters THEN f[Walk(f, c)[i - 1]]
                                ELSE Walk(f, c)[i - 1]
  <1> DEFINE N == CLUSTER_MAP_SIZE
             next == [x \in FatValues |-> IF x \in Clusters THEN f[x] ELSE x]
             W == Walk(f, c)
  <1>1. N \in Nat
    BY Numbers
  <1>2. next \in [FatValues -> FatValues]
    OBVIOUS
  <1> HIDE DEF next
  <1>3. PICK g \in [0 .. N -> FatValues] :
          g = [i \in 0 .. N |-> IF i = 0 THEN c ELSE next[g[i - 1]]]
    <2>1. Iterates(FatValues, c, next, N) # {}
      BY <1>1, <1>2, IterationExists
    <2> QED
      BY <2>1 DEF Iterates
  <1>4. W = CHOOSE h : h = [i \in 0 .. N |-> IF i = 0 THEN c ELSE next[h[i - 1]]]
    BY DEF Walk, next
  <1>5. W = [i \in 0 .. N |-> IF i = 0 THEN c ELSE next[W[i - 1]]]
    BY <1>3, <1>4
  <1> HIDE DEF W
  <1>6. W[0] = c /\ \A i \in 1 .. N : W[i] = next[W[i - 1]]
    <2>1. 0 \in 0 .. N /\ \A i \in 1 .. N : i \in 0 .. N /\ i # 0
      BY <1>1
    <2>2. \A i \in 0 .. N : W[i] = IF i = 0 THEN c ELSE next[W[i - 1]]
      BY <1>5
    <2> QED
      BY <2>1, <2>2
  <1> DEFINE T == {i \in 0 .. N : W[i] \notin FatValues}
  <1>7. T = {}
    <2> SUFFICES ASSUME T # {} PROVE FALSE
      OBVIOUS
    <2>1. PICK i \in T : \A j \in T : i <= j
      <3>1. T \subseteq Nat
        BY <1>1
      <3> HIDE DEF T
      <3> QED
        BY <3>1, LeastNat
    <2>2. i # 0
      BY <1>6
    <2>3. i \in 1 .. N /\ i - 1 \in 0 .. N /\ ~(i <= i - 1)
      BY <1>1, <2>2
    <2>4. W[i - 1] \in FatValues
      BY <2>1, <2>3
    <2>5. W[i] \in FatValues
      BY <1>2, <1>6, <2>3, <2>4
    <2> QED
      BY <2>5
  <1>8. \A i \in 0 .. N : W[i] \in FatValues
    BY <1>7
  <1>9. \A i \in 1 .. N : W[i] = IF W[i - 1] \in Clusters THEN f[W[i - 1]] ELSE W[i - 1]
    <2>1. \A i \in 1 .. N : i - 1 \in 0 .. N
      BY <1>1
    <2> QED
      BY <1>6, <1>8, <2>1 DEF next
  <1> QED
    BY <1>6, <1>8, <1>9 DEF W

\* What a chain is: clusters, each the FAT's value for the one before, up to the
\* end mark.
IsPath(f, s) ==
    /\ s \in Seq(Clusters) /\ Len(s) \in 1 .. CLUSTER_MAP_SIZE
    /\ \A i \in 1 .. Len(s) - 1 : f[s[i]] = s[i + 1]
    /\ f[s[Len(s)]] = END_OF_FILE

\* The marks are the number of no cluster.
LEMMA EndIsNoCluster == END_OF_FILE \notin Clusters /\ CLUSTER_0_VALUE \notin Clusters
                        /\ END_OF_FILE \in FatValues /\ CLUSTER_0_VALUE # END_OF_FILE
                        /\ EMPTY_ENTRY # END_OF_FILE
  BY Numbers DEF END_OF_FILE, Clusters, FatValues, CLUSTER_0_VALUE, EMPTY_ENTRY

\* The chain that read and clear_cluster follow, where it ends, is such a path.
LEMMA ChainIsPath ==
    ASSUME NEW f \in [Clusters -> FatValues], NEW c \in Clusters, Ends(f, c)
    PROVE  IsPath(f, Chain(f, c)) /\ Chain(f, c)[1] = c
  <1> DEFINE N == CLUSTER_MAP_SIZE
             W == Walk(f, c)
             E == {i \in 0 .. N : W[i] = END_OF_FILE}
             len == Min(E)
             s == Chain(f, c)
  <1>1. N \in Nat
    BY Numbers
  <1>2. /\ W[0] = c
        /\ \A i \in 0 .. N : W[i] \in FatValues
        /\ \A i \in 1 .. N : W[i] = IF W[i - 1] \in Clusters THEN f[W[i - 1]] ELSE W[i - 1]
    BY WalkUnfold, Numbers
  <1>3. E # {} /\ E \subseteq Nat
    BY <1>1 DEF Ends
  <1>4. s = [i \in 1 .. len |-> W[i - 1]]
    BY DEF Chain
  <1> HIDE DEF W
  <1>5. len \in E /\ \A j \in E : len <= j
    <2> HIDE DEF E
    <2> QED
      BY <1>3, LeastNat DEF Min
  <1> HIDE DEF len, s
  <1>6. len # 0
    BY <1>2, <1>5, EndIsNoCluster
  <1>7. len \in 1 .. N /\ len \in Nat
    BY <1>1, <1>5, <1>6
  <1>8. ASSUME NEW i \in 0 .. len - 1 PROVE W[i] \in Clusters
    <2> DEFINE T == {j \in 0 .. len - 1 : W[j] \notin Clusters}
    <2> SUFFICES ASSUME T # {} PROVE FALSE
      OBVIOUS
    <2>1. \A j \in 0 .. len - 1 : j \in 0 .. N /\ W[j] # END_OF_FILE
      BY <1>1, <1>5, <1>7
    <2>2. PICK j \in T : \A k \in T : j >= k
      <3>1. T \subseteq 0 .. len - 1
        OBVIOUS
      <3> DEFINE U == {k + 1 : k \in T}
      <3>2. U \subseteq 1 .. len /\ U # {}
        BY <1>7
      <3>3. PICK u \in U : \A v \in U : u >= v
        <4> HIDE DEF U
        <4> QED
          BY <1>7, <3>2, GreatestUpTo
      <3>4. PICK k \in T : u = k + 1
        OBVIOUS
      <3>5. \A m \in T : k >= m
        <4> TAKE m \in T
        <4>1. m + 1 \in U /\ m \in 0 .. len - 1 /\ k \in 0 .. len - 1
          BY <3>1
        <4>2. u >= m + 1
          BY <3>3, <4>1
        <4> QED
          BY <3>4, <4>1, <4>2
      <3> QED
        BY <3>5
    \* a walk that left the clusters stays where it is
    <2>3. j \in 0 .. len - 1 /\ W[j] \notin Clusters
      OBVIOUS
    <2>4. j + 1 \in 1 .. N /\ (j + 1) - 1 = j
      BY <1>1, <1>7, <2>3
    <2>5. W[j + 1] = W[j]
      BY <1>2, <2>3, <2>4
    <2>6. CASE j + 1 = len
      BY <1>5, <2>1, <2>3, <2>5, <2>6
    <2>7. CASE j + 1 # len
      <3>1. j + 1 \in 0 .. len - 1 /\ ~(j >= j + 1)
        BY <1>7, <2>3, <2>7
      <3>2. j + 1 \in T
        BY <2>3, <2>5, <3>1
      <3> QED
        BY <2>2, <3>1, <3>2
    <2> QED
      BY <2>6, <2>7
  <1>9. s \in Seq(Clusters) /\ Len(s) = len /\ \A i \in 1 .. len : s[i] = W[i - 1]
    <2>1. \A i \in 1 .. len : i - 1 \in 0 .. len - 1
      BY <1>7
    <2> QED
      BY <1>4, <1>7, <1>8, <2>1
  <1>10. \A i \in 1 .. len : f[s[i]] = W[i]
    <2> TAKE i \in 1 .. len
    <2>1. i - 1 \in 0 .. len - 1 /\ i \in 1 .. N
      BY <1>1, <1>7
    <2> QED
      BY <1>2, <1>8, <1>9, <2>1
  <1>11. \A i \in 1 .. len - 1 : i \in 1 .. len /\ i + 1 \in 1 .. len /\ (i + 1) - 1 = i
    BY <1>7
  <1>12. 1 \in 1 .. len /\ len \in 1 .. len /\ 1 - 1 = 0
    BY <1>7
  <1>13. W[len] = END_OF_FILE
    BY <1>5
  <1> QED
    <2>1. IsPath(f, s)
      <3>1. \A i \in 1 .. len - 1 : f[s[i]] = s[i + 1]
        BY <1>9, <1>10, <1>11
      <3>2. f[s[len]] = END_OF_FILE
        BY <1>10, <1>12, <1>13
      <3> QED
        BY <1>7, <1>9, <3>1, <3>2 DEF IsPath
    <2>2. s[1] = c
      BY <1>2, <1>9, <1>12
    <2> QED
      BY <2>1, <2>2 DEF s

\* And a path is the chain from its first cluster.
LEMMA PathIsChain ==
    ASSUME NEW f \in [Clusters -> FatValues], NEW s, IsPath(f, s)
    PROVE  Ends(f, s[1]) /\ Chain(f, s[1]) = s /\ s[1] \in Clusters
  <1> DEFINE N == CLUSTER_MAP_SIZE
             c == s[1]
             W == Walk(f, c)
             E == {i \in 0 .. N : W[i] = END_OF_FILE}
             n == Len(s)
  <1>1. N \in Nat
    BY Numbers
  <1>2. n \in 1 .. N /\ n \in Nat /\ s \in Seq(Clusters) /\ c \in Clusters
        /\ \A i \in 1 .. n : s[i] \in Clusters
    BY <1>1 DEF IsPath
  <1>3. /\ W[0] = c
        /\ \A i \in 0 .. N : W[i] \in FatValues
        /\ \A i \in 1 .. N : W[i] = IF W[i - 1] \in Clusters THEN f[W[i - 1]] ELSE W[i - 1]
    BY <1>2, WalkUnfold, Numbers
  <1> HIDE DEF W
  <1> DEFINE T == {i \in 1 .. n : W[i - 1] # s[i]}
  <1>4. T = {}
    <2> SUFFICES ASSUME T # {} PROVE FALSE
      OBVIOUS
    <2>1. PICK i \in T : \A j \in T : i <= j
      <3>1. T \subseteq Nat
        BY <1>2
      <3> HIDE DEF T
      <3> QED
        BY <3>1, LeastNat
    <2>2. i # 1
      BY <1>3
    <2>3. /\ i \in 1 .. n /\ i - 1 \in 1 .. n /\ ~(i <= i - 1) /\ i - 1 \in 1 .. n - 1
          /\ i - 1 \in 1 .. N /\ (i - 1) + 1 = i
      BY <1>1, <1>2, <2>2
    <2>4. W[(i - 1) - 1] = s[i - 1]
      BY <2>1, <2>3
    <2>5. W[i - 1] = f[s[i - 1]]
      BY <1>2, <1>3, <2>3, <2>4
    <2>6. f[s[i - 1]] = s[i]
      BY <2>3 DEF IsPath
    <2> QED
      BY <2>5, <2>6
  <1>5. \A i \in 1 .. n : W[i - 1] = s[i]
    BY <1>4
  <1>6. W[n] = END_OF_FILE
    <2>1. W[n - 1] = s[n] /\ n \in 1 .. n
      BY <1>2, <1>5
    <2>2. W[n] = f[s[n]]
      BY <1>2, <1>3, <2>1
    <2> QED
      BY <2>2 DEF IsPath
  <1>7. n \in E
    BY <1>2, <1>6
  <1>8. \A j \in E : n <= j
    <2> SUFFICES ASSUME NEW j \in E, ~(n <= j) PROVE FALSE
      OBVIOUS
    <2>1. j + 1 \in 1 .. n /\ (j + 1) - 1 = j
      BY <1>2
    <2>2. W[j] = s[j + 1] /\ s[j + 1] \in Clusters
      BY <1>2, <1>5, <2>1
    <2> QED
      BY <2>2, EndIsNoCluster
  <1>9. Min(E) = n
    <2>1. \A x \in E : (\A y \in E : x <= y) => x = n
      <3> SUFFICES ASSUME NEW x \in E, x <= n PROVE x = n
        BY <1>7
      <3>1. n <= x /\ x \in 0 .. N
        BY <1>8
      <3> QED
        BY <1>2, <3>1
    <2> HIDE DEF E
    <2> QED
      BY <1>7, <1>8, <2>1 DEF Min
  <1>10. Ends(f, c)
    BY <1>7 DEF Ends, W
  <1>11. Chain(f, c) = [i \in 1 .. n |-> W[i - 1]]
    BY <1>9 DEF Chain, W
  <1>12. Chain(f, c) = [i \in 1 .. n |-> s[i]]
    BY <1>5, <1>11
  <1>13. s = [i \in 1 .. n |-> s[i]]
    BY <1>2
  <1> QED
    BY <1>2, <1>10, <1>12, <1>13

-----------------------------------------------------------------------------
\* The clusters of a new file.

\* As long as there is an empty cluster, get_empty_cluster finds one.
LEMMA EmptyClusterIsEmpty ==
    ASSUME NEW f, EmptyClusters(f) # {}
    PROVE  GetEmptyCluster(f) \in EmptyClusters(f)
  <1>1. EmptyClusters(f) \subseteq Nat
    BY Numbers DEF EmptyClusters, Clusters
  <1>2. \E x \in EmptyClusters(f) : \A y \in EmptyClusters(f) : x <= y
    BY <1>1, LeastNat
  <1> QED
    BY <1>2 DEF GetEmptyCluster, Min

\* The clusters get_empty_cluster chooses from.
LEMMA EmptyClusterFacts ==
    ASSUME NEW f
    PROVE  /\ EmptyClusters(f) \subseteq Clusters
           /\ IsFiniteSet(EmptyClusters(f)) /\ Cardinality(EmptyClusters(f)) \in Nat
           /\ Cardinality(EmptyClusters(f)) <= CLUSTER_MAP_SIZE
           /\ Cardinality(EmptyClusters(f)) > 0 => EmptyClusters(f) # {}
           /\ \A c \in EmptyClusters(f) : f[c] = EMPTY_ENTRY /\ c >= 2 /\ c # EMPTY_ENTRY
  <1>1. EmptyClusters(f) \in SUBSET Clusters
    BY DEF EmptyClusters
  <1>2. /\ IsFiniteSet(EmptyClusters(f)) /\ Cardinality(EmptyClusters(f)) \in Nat
        /\ Cardinality(EmptyClusters(f)) <= CLUSTER_MAP_SIZE
    BY <1>1, ClustersFinite, FS_Subset, FS_CardinalityType
  <1>3. Cardinality(EmptyClusters(f)) > 0 => EmptyClusters(f) # {}
    BY FS_EmptySet
  <1>4. \A c \in EmptyClusters(f) : f[c] = EMPTY_ENTRY /\ c >= 2 /\ c # EMPTY_ENTRY
    BY DEF EmptyClusters, EMPTY_ENTRY
  <1> QED
    BY <1>1, <1>2, <1>3, <1>4

\* The clusters a file of so many clusters gets.
NewChain(needed) == [i \in 1 .. needed |-> FileLoop(needed)[i - 1].cluster]

\* Where enough clusters are empty, the loop of write() links as many as needed,
\* all of them empty before, each one once, into a path that starts with the
\* cluster of the new entry.
LEMMA NewChainIsPath ==
    ASSUME NEW needed \in Nat, needed > 0, fat \in [Clusters -> FatValues],
           needed <= Cardinality(EmptyClusters(fat))
    PROVE  LET s == NewChain(needed)
               f == FileLoop(needed)[needed].map
           IN  /\ IsPath(f, s) /\ Len(s) = needed /\ s[1] = GetEmptyCluster(fat)
               /\ \A i \in 1 .. needed : s[i] \in EmptyClusters(fat)
               /\ \A i, j \in 1 .. needed : i # j => s[i] # s[j]
               /\ \A x \in Clusters : (\A i \in 1 .. needed : x # s[i]) => f[x] = fat[x]
  <1> DEFINE N == CLUSTER_MAP_SIZE
             turn == FileLoop(needed)
             cl(i) == turn[i].cluster
             m(i) == turn[i].map
             marked(i) == [m(i) EXCEPT ![cl(i)] = END_OF_FILE]
             Empty == EmptyClusters(fat)
             Holds(i) ==
               /\ cl(i) \in Empty
               /\ \A j \in 0 .. i - 1 : cl(j) # cl(i)
               /\ \A x \in Clusters : (\A j \in 0 .. i - 1 : x # cl(j)) => m(i)[x] = fat[x]
               /\ \A j \in 0 .. i - 1 : m(i)[cl(j)] = cl(j + 1)
  <1>1. N \in Nat /\ N > 3
    BY Numbers
  <1>2. /\ m(0) = fat /\ cl(0) = GetEmptyCluster(fat)
        /\ \A i \in 1 .. needed : turn[i] = Turn(turn[i - 1], i = needed)
    <2>1. 0 \in 0 .. needed /\ \A i \in 1 .. needed : i \in 0 .. needed /\ i # 0
      OBVIOUS
    <2>2. \A i \in 0 .. needed : turn[i] = LoopBody(turn, needed, i)
      BY LoopUnfolds
    <2> HIDE DEF turn
    <2> QED
      BY <2>1, <2>2 DEF LoopBody
  <1>3. \A i \in 0 .. needed : m(i) \in [Clusters -> FatValues]
    BY LoopOK
  <1>4. /\ Empty \subseteq Clusters /\ IsFiniteSet(Empty)
        /\ Cardinality(Empty) \in Nat /\ Cardinality(Empty) <= N
        /\ \A c \in Empty : fat[c] = EMPTY_ENTRY /\ c >= 2 /\ c # EMPTY_ENTRY
    BY EmptyClusterFacts
  <1> HIDE DEF turn
  <1>5. /\ \A i \in 1 .. needed - 1 : /\ cl(i) = GetEmptyCluster(marked(i - 1))
                                      /\ m(i) = [marked(i - 1) EXCEPT ![cl(i - 1)] = cl(i)]
        /\ m(needed) = marked(needed - 1)
    <2>1. \A i \in 1 .. needed - 1 : i \in 1 .. needed /\ i # needed
      OBVIOUS
    <2>2. needed \in 1 .. needed
      OBVIOUS
    <2>3. /\ \A i \in 1 .. needed - 1 : turn[i] = Turn(turn[i - 1], FALSE)
          /\ turn[needed] = Turn(turn[needed - 1], TRUE)
      <3>1. \A i \in 1 .. needed - 1 : (i = needed) = FALSE
        OBVIOUS
      <3>2. \A i \in 1 .. needed - 1 : turn[i] = Turn(turn[i - 1], FALSE)
        BY <1>2, <2>1, <3>1
      <3>3. (needed = needed) = TRUE
        OBVIOUS
      <3> HIDE DEF cl, m, marked
      <3>4. turn[needed] = Turn(turn[needed - 1], TRUE)
        BY <1>2, <2>2, <3>3
      <3> QED
        BY <3>2, <3>4
    <2>4. ASSUME NEW t
          PROVE  LET mk == [t.map EXCEPT ![t.cluster] = END_OF_FILE]
                 IN  /\ Turn(t, TRUE).map = mk
                     /\ Turn(t, FALSE).cluster = GetEmptyCluster(mk)
                     /\ Turn(t, FALSE).map =
                          [mk EXCEPT ![t.cluster] = GetEmptyCluster(mk)]
      BY DEF Turn
    <2>5. m(needed) = marked(needed - 1)
      BY <2>3, <2>4
    <2>6. ASSUME NEW i \in 1 .. needed - 1
          PROVE  /\ cl(i) = GetEmptyCluster(marked(i - 1))
                 /\ m(i) = [marked(i - 1) EXCEPT ![cl(i - 1)] = cl(i)]
      <3>1. turn[i] = Turn(turn[i - 1], FALSE)
        BY <2>3
      <3> DEFINE t == turn[i - 1]
                 mk == [t.map EXCEPT ![t.cluster] = END_OF_FILE]
      <3>2. /\ turn[i].cluster = GetEmptyCluster(mk)
            /\ turn[i].map = [mk EXCEPT ![t.cluster] = GetEmptyCluster(mk)]
        <4> HIDE DEF t
        <4>1. turn[i] = Turn(t, FALSE)
          BY <3>1 DEF t
        <4> QED
          BY <2>4, <4>1
      <3> QED
        BY <3>2
    <2> QED
      BY <2>5, <2>6
  <1>6. Holds(0)
    <2>1. Empty # {}
      BY EmptyClusterFacts
    <2>2. cl(0) \in Empty
      BY <1>2, <2>1, EmptyClusterIsEmpty
    <2>3. \A j \in 0 .. 0 - 1 : FALSE
      OBVIOUS
    <2> QED
      BY <1>2, <2>2, <2>3
  <1>7. ASSUME NEW i \in 1 .. needed - 1, \A j \in 0 .. i - 1 : Holds(j)
        PROVE  Holds(i)
    <2> DEFINE k == i - 1
               Used == {cl(j) : j \in 0 .. k}
    <2>1. k \in 0 .. needed - 1 /\ k \in 0 .. i - 1 /\ k \in Nat /\ k + 1 = i /\ i \in Nat
          /\ k \in 0 .. needed
      OBVIOUS
    <2>2. Holds(k) /\ m(k) \in [Clusters -> FatValues]
      BY <1>3, <1>7, <2>1
    <2>3. \A j \in 0 .. k : j \in 0 .. i - 1 /\ (j = k \/ j \in 0 .. k - 1)
      OBVIOUS
    <2>4. \A j \in 0 .. k : cl(j) \in Empty
      BY <1>7, <2>3
    <2>5. IsFiniteSet(Used) /\ Cardinality(Used) <= k + 1
      <3>1. IsFiniteSet(0 .. k) /\ Cardinality(0 .. k) = k + 1
        <4>1. 0 \in Int /\ k \in Int /\ ~(0 > k) /\ k - 0 + 1 = k + 1
          BY <2>1
        <4> HIDE DEF k
        <4> QED
          BY <4>1, FS_Interval
      <3> DEFINE g == [j \in 0 .. k |-> cl(j)]
      <3>2. g \in Surjection(0 .. k, Used)
        BY DEF Surjection
      <3> HIDE DEF g, Used, k
      <3>3. IsFiniteSet(Used) /\ Cardinality(Used) <= Cardinality(0 .. k)
        BY <3>1, <3>2, FS_Surjection
      <3> QED
        BY <3>1, <3>3
    <2>6. marked(k) \in [Clusters -> FatValues]
      BY <2>2, EndIsNoCluster
    <2>7. EmptyClusters(marked(k)) = Empty \ Used
      <3>1. ASSUME NEW x \in Clusters, x \notin Used
            PROVE  marked(k)[x] = fat[x]
        <4>1. k \in 0 .. k /\ \A j \in 0 .. k - 1 : j \in 0 .. k
          BY <2>1
        <4>2. x # cl(k) /\ \A j \in 0 .. k - 1 : x # cl(j)
          BY <3>1, <4>1
        <4> QED
          BY <2>2, <3>1, <4>2
      <3>2. ASSUME NEW x \in Used PROVE marked(k)[x] # EMPTY_ENTRY
        <4>1. PICK j \in 0 .. k : x = cl(j)
          OBVIOUS
        <4>2. x \in Clusters /\ cl(k) \in Clusters
          BY <1>4, <2>1, <2>4, <4>1
        <4>3. CASE x = cl(k)
          BY <2>2, <4>2, <4>3, EndIsNoCluster
        <4>4. CASE x # cl(k)
          <5>1. j \in 0 .. k - 1 /\ j + 1 \in 0 .. k
            BY <2>1, <4>1, <4>4
          <5>2. m(k)[x] = cl(j + 1) /\ cl(j + 1) \in Empty
            BY <2>2, <2>4, <4>1, <5>1
          <5> QED
            BY <1>4, <2>2, <4>2, <4>4, <5>2
        <4> QED
          BY <4>3, <4>4
      <3>3. Used \subseteq Empty
        BY <2>4
      <3> HIDE DEF Used, marked
      <3>4. ASSUME NEW x \in Clusters
            PROVE  x \in EmptyClusters(marked(k)) <=> x \in Empty \ Used
        BY <3>1, <3>2 DEF EmptyClusters
      <3> QED
        BY <1>4, <3>4 DEF EmptyClusters
    <2>8. Empty \ Used # {}
      <3> SUFFICES ASSUME Empty \subseteq Used PROVE FALSE
        OBVIOUS
      <3>1. Empty \in SUBSET Used
        OBVIOUS
      <3> HIDE DEF Used
      <3>2. Cardinality(Empty) <= Cardinality(Used) /\ Cardinality(Used) \in Nat
        BY <2>5, <3>1, FS_Subset, FS_CardinalityType
      <3> QED
        BY <1>4, <2>1, <2>5, <3>2
    <2>9. cl(i) \in Empty \ Used
      <3>1. cl(i) = GetEmptyCluster(marked(k))
        BY <1>5
      <3> HIDE DEF Used, marked
      <3> QED
        BY <2>7, <2>8, <3>1, EmptyClusterIsEmpty
    <2>10. m(i) = [marked(k) EXCEPT ![cl(k)] = cl(i)]
      BY <1>5
    <2>11. /\ m(i)[cl(k)] = cl(i)
           /\ \A x \in Clusters : x # cl(k) => m(i)[x] = m(k)[x]
      <3>1. cl(k) \in Clusters
        BY <1>4, <2>2
      <3> QED
        BY <2>2, <2>6, <2>10, <3>1
    <2>12. \A j \in 0 .. i - 1 : cl(j) # cl(i)
      BY <2>9
    <2>13. \A x \in Clusters : (\A j \in 0 .. i - 1 : x # cl(j)) => m(i)[x] = fat[x]
      <3> TAKE x \in Clusters
      <3> HAVE \A j \in 0 .. i - 1 : x # cl(j)
      <3>1. x # cl(k) /\ \A j \in 0 .. k - 1 : x # cl(j)
        BY <2>1
      <3> QED
        BY <2>2, <2>11, <3>1
    <2>14. \A j \in 0 .. i - 1 : m(i)[cl(j)] = cl(j + 1)
      <3> TAKE j \in 0 .. i - 1
      <3>1. CASE j = k
        BY <2>1, <2>11, <3>1
      <3>2. CASE j # k
        <4>1. j \in 0 .. k - 1 /\ j \in 0 .. k
          BY <3>2
        <4>2. cl(j) # cl(k) /\ m(k)[cl(j)] = cl(j + 1) /\ cl(j) \in Clusters
          BY <1>4, <2>2, <2>4, <4>1
        <4> QED
          BY <2>11, <4>2
      <3> QED
        BY <3>1, <3>2
    <2> QED
      BY <2>9, <2>12, <2>13, <2>14
  <1> DEFINE T == {i \in 0 .. needed - 1 : ~Holds(i)}
  <1>8. T = {}
    <2> SUFFICES ASSUME T # {} PROVE FALSE
      OBVIOUS
    <2>1. PICK i \in T : \A j \in T : i <= j
      <3>1. T \subseteq Nat
        OBVIOUS
      <3> HIDE DEF T
      <3> QED
        BY <3>1, LeastNat
    <2> HIDE DEF Holds
    <2>2. i # 0
      BY <1>6
    <2>3. i \in 1 .. needed - 1 /\ \A j \in 0 .. i - 1 : j \in 0 .. needed - 1 /\ ~(i <= j)
      BY <2>2
    <2>4. \A j \in 0 .. i - 1 : Holds(j)
      BY <2>1, <2>3
    <2> QED
      BY <1>7, <2>3, <2>4
  <1>9. \A i \in 0 .. needed - 1 : Holds(i)
    BY <1>8
  <1> DEFINE s == NewChain(needed)
             last == needed - 1
             f == m(needed)
  <1>10. last \in 0 .. needed - 1 /\ last \in Nat /\ last + 1 = needed
    OBVIOUS
  <1>11. \A i \in 1 .. needed : s[i] = cl(i - 1) /\ i - 1 \in 0 .. needed - 1
    BY DEF NewChain, turn
  <1>12. \A i \in 1 .. needed : s[i] \in Empty
    BY <1>9, <1>11
  <1>13. s \in Seq(Clusters) /\ Len(s) = needed /\ needed \in 1 .. N
    <2>1. s = [i \in 1 .. needed |-> s[i]]
      BY DEF NewChain
    <2>2. \A i \in 1 .. needed : s[i] \in Clusters
      BY <1>4, <1>12
    <2> HIDE DEF s
    <2>3. s \in [1 .. needed -> Clusters]
      BY <2>1, <2>2
    <2> QED
      BY <1>1, <1>4, <2>1, <2>3
  <1>14. Holds(last) /\ m(last) \in [Clusters -> FatValues]
    BY <1>3, <1>9, <1>10
  <1>15. f = [m(last) EXCEPT ![cl(last)] = END_OF_FILE] /\ cl(last) \in Clusters
    BY <1>4, <1>5, <1>14
  <1> HIDE DEF s, f, last, m, cl
  <1>16. f[cl(last)] = END_OF_FILE /\ \A x \in Clusters : x # cl(last) => f[x] = m(last)[x]
    BY <1>14, <1>15
  <1>17. \A i, j \in 1 .. needed : i # j => s[i] # s[j]
    <2> SUFFICES ASSUME NEW i \in 1 .. needed, NEW j \in 1 .. needed, i < j
                 PROVE  s[i] # s[j]
      <3>1. \A i, j \in 1 .. needed : i # j => i < j \/ j < i
        OBVIOUS
      <3> QED
        BY <3>1
    <2>1. i - 1 \in 0 .. (j - 1) - 1
      OBVIOUS
    <2> QED
      BY <1>9, <1>11, <2>1
  <1>18. \A i \in 1 .. needed - 1 : f[s[i]] = s[i + 1]
    <2> TAKE i \in 1 .. needed - 1
    <2>1. /\ i \in 1 .. needed /\ i + 1 \in 1 .. needed /\ (i + 1) - 1 = i /\ (i - 1) + 1 = i
          /\ i - 1 \in 0 .. last - 1
      BY <1>10
    <2>2. s[i] = cl(i - 1) /\ s[i + 1] = cl(i) /\ s[i] \in Clusters
      BY <1>4, <1>11, <1>12, <2>1
    <2>3. cl(i - 1) # cl(last) /\ m(last)[cl(i - 1)] = cl(i)
      BY <1>14, <2>1
    <2> QED
      BY <1>16, <2>2, <2>3
  <1>19. f[s[needed]] = END_OF_FILE
    <2>1. needed \in 1 .. needed /\ needed - 1 = last
      BY DEF last
    <2> QED
      BY <1>11, <1>16, <2>1
  <1>20. \A x \in Clusters : (\A i \in 1 .. needed : x # s[i]) => f[x] = fat[x]
    <2> TAKE x \in Clusters
    <2> HAVE \A i \in 1 .. needed : x # s[i]
    <2>1. \A j \in 0 .. last : x # cl(j)
      <3> TAKE j \in 0 .. last
      <3>1. j + 1 \in 1 .. needed /\ (j + 1) - 1 = j
        BY <1>10
      <3> QED
        BY <1>11, <3>1
    <2>2. last \in 0 .. last /\ \A j \in 0 .. last - 1 : j \in 0 .. last
      BY <1>10
    <2> QED
      BY <1>14, <1>16, <2>1, <2>2
  <1>21. s[1] = GetEmptyCluster(fat)
    BY <1>2, <1>11
  <1>22. IsPath(f, s)
    BY <1>13, <1>18, <1>19 DEF IsPath
  <1> QED
    BY <1>12, <1>13, <1>17, <1>20, <1>21, <1>22 DEF s, f, m, turn

-----------------------------------------------------------------------------
\* The inductive invariant: the FAT in memory is well typed because the one read
\* back from disk is, and a table stays within its bounds because it is finite.
Fat32Inv ==
    /\ power \in {"off", "on", "hung"}
    /\ fat \in [Clusters -> FatValues]
    /\ DiskOK(disk)
    /\ losses \in 0 .. MaxLosses
    /\ FatCached

LEMMA EmptyFatOK == EmptyFat \in [Clusters -> FatValues]
  BY Numbers DEF EmptyFat

LEMMA FreshFatOK == FreshFat \in [Clusters -> FatValues]
  <1>1. {END_OF_FILE, CLUSTER_0_VALUE} \subseteq FatValues
    BY Numbers
  <1> QED
    BY <1>1, EmptyFatOK DEF FreshFat

LEMMA InitFat32Inv == Init => Fat32Inv
  <1> SUFFICES ASSUME Init PROVE Fat32Inv
    OBVIOUS
  <1>1. DiskOK(disk)
    BY DEF Init, DiskOK, ContentOK, Blank
  <1>2. losses \in 0 .. MaxLosses
    BY Numbers DEF Init
  <1> QED
    BY <1>1, <1>2, EmptyFatOK DEF Init, Fat32Inv, FatCached

\* An operation that leaves the FAT it writes in the driver state keeps the
\* invariant, whether the power fails in it or not.
LEMMA PerformPreserves ==
    ASSUME Fat32Inv, NEW writes, NEW newFat \in [Clusters -> FatValues], NEW gone,
           NEW n \in Nat, n > 0, Len(writes) = n,
           \A i \in 1 .. n : ContentOK(writes[i].put),
           After(writes, n)[FAT_CLUSTER_NUMBER] = FatContent(newFat),
           Perform(writes, newFat, gone)
    PROVE  Fat32Inv'
  <1>1. CASE /\ \E w \in {writes} : disk' = After(w, Len(w))
             /\ fat' = newFat
             /\ power' = "on"
             /\ UNCHANGED losses
    <2>1. disk' = After(writes, Len(writes))
      BY <1>1
    <2>2. DiskOK(disk')
      BY <2>1, WritesKeepDiskOK DEF Fat32Inv
    <2>3. disk'[FAT_CLUSTER_NUMBER] = FatContent(newFat)
      BY <2>1
    <2>4. LoadedFat(disk') = newFat
      BY <2>3 DEF LoadedFat, FatContent
    <2> QED
      BY <1>1, <2>2, <2>4 DEF Fat32Inv, FatCached
  <1>2. CASE /\ losses < MaxLosses
             /\ \E k \in 1 .. Len(writes) - 1 : disk' = After(writes, k)
             /\ fat' = EmptyFat
             /\ power' = "off"
             /\ losses' = losses + 1
    <2>1. PICK k \in 1 .. Len(writes) - 1 : disk' = After(writes, k)
      BY <1>2
    <2>2. k \in Nat /\ \A i \in 1 .. k : i \in 1 .. Len(writes)
      OBVIOUS
    <2>3. DiskOK(disk')
      BY <2>1, <2>2, WritesKeepDiskOK DEF Fat32Inv
    <2>4. losses' \in 0 .. MaxLosses
      BY <1>2, Numbers DEF Fat32Inv
    <2> QED
      BY <1>2, <2>3, <2>4, EmptyFatOK DEF Fat32Inv, FatCached
  <1> QED
    BY <1>1, <1>2 DEF Perform

LEMMA CreatePreserves == Fat32Inv /\ Create => Fat32Inv'
  <1> SUFFICES ASSUME Fat32Inv, Create PROVE Fat32Inv'
    OBVIOUS
  <1> DEFINE w == <<[at |-> BOOT_SECTOR, put |-> Signature],
                    [at |-> ROOT_CLUSTER_NUMBER, put |-> RootTable],
                    [at |-> FAT_CLUSTER_NUMBER, put |-> FatContent(FreshFat)]>>
  <1>1. ContentOK(Signature)
    BY DEF ContentOK, Signature
  <1>2. ContentOK(RootTable)
    <2>1. RootLink \in {NoLink} \cup {Link(n, c) : n \in Names, c \in Clusters}
      BY Numbers, LinkOK DEF RootLink, ROOT_CLUSTER_NUMBER
    <2> QED
      BY <2>1, EmptyTableOK DEF RootTable
  <1>3. Len(w) = 3 /\ \A i \in 1 .. 3 : ContentOK(w[i].put)
    BY <1>1, <1>2, FreshFatOK, FatContentOK
  <1>4. w[3].at = FAT_CLUSTER_NUMBER /\ w[3].put = FatContent(FreshFat)
    OBVIOUS
  <1>5. Perform(w, FreshFat, {})
    BY DEF Create
  <1> HIDE DEF w
  <1>6. After(w, 3)[FAT_CLUSTER_NUMBER] = FatContent(FreshFat)
    BY <1>4, LastWriteStands, Numbers DEF FAT_CLUSTER_NUMBER
  <1>7. 3 \in Nat /\ 3 > 0
    OBVIOUS
  <1> QED
    BY <1>3, <1>5, <1>6, <1>7, FreshFatOK, PerformPreserves, Zenon

LEMMA LoadPreserves == Fat32Inv /\ Load => Fat32Inv'
  <1> SUFFICES ASSUME Fat32Inv, Load PROVE Fat32Inv'
    OBVIOUS
  <1>1. LoadedFat(disk) \in [Clusters -> FatValues]
    BY LoadedFatOK DEF Fat32Inv
  <1>2. LoadedFat(disk)' = LoadedFat(disk)
    BY DEF Load, LoadedFat, EmptyFat
  <1> QED
    BY <1>1, <1>2 DEF Load, Fat32Inv, FatCached

LEMMA SwitchOffPreserves == Fat32Inv /\ SwitchOff => Fat32Inv'
  BY EmptyFatOK DEF SwitchOff, Fat32Inv, FatCached

LEMMA HangPreserves ==
    ASSUME Fat32Inv, NEW writes, NEW gone, NEW n \in Nat, Len(writes) = n,
           \A i \in 1 .. n : ContentOK(writes[i].put), Hang(writes, gone)
    PROVE  Fat32Inv'
  <1>1. DiskOK(disk')
    BY WritesKeepDiskOK DEF Hang, Fat32Inv
  <1> QED
    BY <1>1, EmptyFatOK DEF Hang, Fat32Inv, FatCached

LEMMA ReadPreserves ==
    ASSUME Fat32Inv, NEW p, NEW n, NEW size, ReadHangs(p, n, size)
    PROVE  Fat32Inv'
  <1>1. Len(<<>>) = 0 /\ Hang(<<>>, {})
    BY DEF ReadHangs
  <1> QED
    <2>1. 0 \in Nat /\ \A i \in 1 .. 0 : ContentOK(<<>>[i].put)
      OBVIOUS
    <2> QED
      BY <1>1, <2>1, HangPreserves, Zenon

LEMMA WriteDirectoryPreserves ==
    ASSUME Fat32Inv, NEW p \in Clusters, NEW n \in Names, WriteDirectory(p, n)
    PROVE  Fat32Inv'
  <1> DEFINE c == IF MakesRoot(p, n) THEN ROOT_CLUSTER_NUMBER ELSE GetEmptyCluster(fat)
             parent == IF MakesRoot(p, n) THEN RootLink ELSE ReadTable(disk, p).self
             newFat == [LoadedFat(disk) EXCEPT ![c] = END_OF_FILE]
             w == <<WithEntry(p, n, Entry(TRUE, c, 0)),
                    [at |-> FAT_CLUSTER_NUMBER, put |-> FatContent(newFat)],
                    [at |-> c, put |-> Table(Link(n, c), parent, NoEntries)]>>
  <1>1. Perform(w, newFat, {}) /\ WriteCode(p, n) = 0
    BY DEF WriteDirectory
  <1>2. c \in Clusters /\ c # FAT_CLUSTER_NUMBER
    BY EmptyClusterIsCluster, Numbers DEF ROOT_CLUSTER_NUMBER, FAT_CLUSTER_NUMBER
  <1>3. newFat \in [Clusters -> FatValues]
    <2>1. LoadedFat(disk) \in [Clusters -> FatValues] /\ END_OF_FILE \in FatValues
      BY LoadedFatOK, Numbers DEF Fat32Inv
    <2> QED
      BY <2>1
  <1>4. ContentOK(WithEntry(p, n, Entry(TRUE, c, 0)).put)
    <2>1. Entry(TRUE, c, 0) \in [dir: BOOLEAN, cluster: Clusters, size: Sizes \cup {0}]
      BY <1>2 DEF Entry
    <2> HIDE DEF c
    <2> QED
      BY <1>1, <2>1, WithEntryOK DEF Fat32Inv
  <1>5. ContentOK(Table(Link(n, c), parent, NoEntries))
    <2> DEFINE Links == {NoLink} \cup {Link(m, d) : m \in Names, d \in Clusters}
    <2>1. Link(n, c) \in Links
      BY <1>2, LinkOK
    <2>2. RootLink \in Links
      BY Numbers, LinkOK DEF RootLink, ROOT_CLUSTER_NUMBER
    <2>3. ReadTable(disk, p).self \in Links
      BY ReadTableOK DEF Fat32Inv, TableOK
    <2>4. {Link(n, c), parent} \subseteq Links
      BY <2>1, <2>2, <2>3
    <2> HIDE DEF c, parent
    <2> QED
      BY <2>4, EmptyTableOK
  <1> HIDE DEF c, parent, newFat
  <1>6. /\ Len(w) = 3
        /\ \A i \in 1 .. 3 : ContentOK(w[i].put)
        /\ w[2].at = FAT_CLUSTER_NUMBER /\ w[2].put = FatContent(newFat)
        /\ w[3].at # FAT_CLUSTER_NUMBER
    <2>1. ContentOK(FatContent(newFat))
      BY <1>3, FatContentOK
    <2>2. Len(w) = 3
      OBVIOUS
    <2>3. /\ w[1].put = WithEntry(p, n, Entry(TRUE, c, 0)).put
          /\ w[2].put = FatContent(newFat) /\ w[2].at = FAT_CLUSTER_NUMBER
          /\ w[3].put = Table(Link(n, c), parent, NoEntries) /\ w[3].at = c
      OBVIOUS
    <2> HIDE DEF w
    <2>4. \A i \in 1 .. 3 : i = 1 \/ i = 2 \/ i = 3
      OBVIOUS
    <2>5. \A i \in 1 .. 3 : ContentOK(w[i].put)
      BY <1>4, <1>5, <2>1, <2>3, <2>4
    <2> QED
      BY <1>2, <2>2, <2>3, <2>5
  <1> HIDE DEF w
  <1>7. After(w, 3)[FAT_CLUSTER_NUMBER] = FatContent(newFat)
    <2>1. \A j \in 1 .. 3 : j > 2 => w[j].at # w[2].at
      BY <1>6
    <2> QED
      BY <1>6, <2>1, LastWriteStands, Numbers DEF FAT_CLUSTER_NUMBER
  <1>8. 3 \in Nat /\ 3 > 0
    OBVIOUS
  <1> QED
    BY <1>1, <1>3, <1>6, <1>7, <1>8, PerformPreserves, Zenon

LEMMA WriteFilePreserves ==
    ASSUME Fat32Inv, NEW p \in Clusters, NEW n \in Names, NEW size \in Sizes, NEW payload,
           WriteFile(p, n, size, payload)
    PROVE  Fat32Inv'
  <1> DEFINE needed == NeededClusters(size)
             first == WithEntry(p, n, Entry(FALSE, GetEmptyCluster(fat), size))
             newFat == FileLoop(needed)[needed].map
             w == <<first>> \o FileWrites(needed, payload)
  <1>1. Perform(w, newFat, {}) /\ WriteCode(p, n) = 0
    BY DEF WriteFile
  <1>2. needed \in Nat /\ needed > 0
    BY FilesNeedClusters
  <1>3. ContentOK(first.put)
    <2>1. Entry(FALSE, GetEmptyCluster(fat), size)
            \in [dir: BOOLEAN, cluster: Clusters, size: Sizes \cup {0}]
      BY EmptyClusterIsCluster DEF Entry
    <2> QED
      BY <1>1, <2>1, WithEntryOK DEF Fat32Inv
  <1> HIDE DEF needed, first
  <1>4. newFat \in [Clusters -> FatValues]
    BY <1>2, LoopOK DEF Fat32Inv
  <1>5. /\ Len(w) \in Nat /\ Len(w) > 0
        /\ \A i \in 1 .. Len(w) : ContentOK(w[i].put)
        /\ w[Len(w)].at = FAT_CLUSTER_NUMBER
        /\ w[Len(w)].put = FatContent(newFat)
    BY <1>2, <1>3, FileWritesOK DEF Fat32Inv
  <1> HIDE DEF w, newFat
  <1>6. After(w, Len(w))[FAT_CLUSTER_NUMBER] = FatContent(newFat)
    <2>1. \A j \in 1 .. Len(w) : ~(j > Len(w))
      BY <1>5
    <2> QED
      BY <1>5, <2>1, LastWriteStands, Numbers DEF FAT_CLUSTER_NUMBER
  <1> QED
    BY <1>1, <1>4, <1>5, <1>6, PerformPreserves, Zenon

LEMMA DeletePreserves ==
    ASSUME Fat32Inv, NEW p \in Clusters, NEW n \in Names, Delete(p, n)
    PROVE  Fat32Inv'
  <1> DEFINE c == EntryOf(disk, p, n).cluster
             gone == {x \in View(disk) : x.in = p /\ x.name = n}
             newFat == ClearCluster(fat, c)
             w == <<WithoutEntry(p, n), [at |-> FAT_CLUSTER_NUMBER, put |-> FatContent(newFat)]>>
             u == <<WithoutEntry(p, n)>>
  <1>1. Perform(w, newFat, gone) \/ Hang(u, gone)
    BY DEF Delete
  <1>2. newFat \in [Clusters -> FatValues]
    BY Numbers DEF ClearCluster, Fat32Inv
  <1>3. ContentOK(WithoutEntry(p, n).put)
    BY WithoutEntryOK DEF Fat32Inv
  <1> HIDE DEF gone, newFat
  <1>4. /\ Len(w) = 2 /\ Len(u) = 1
        /\ \A i \in 1 .. 2 : ContentOK(w[i].put)
        /\ \A i \in 1 .. 1 : ContentOK(u[i].put)
        /\ w[2].at = FAT_CLUSTER_NUMBER /\ w[2].put = FatContent(newFat)
    BY <1>2, <1>3, FatContentOK
  <1> HIDE DEF w, u
  <1>5. After(w, 2)[FAT_CLUSTER_NUMBER] = FatContent(newFat)
    <2>1. \A j \in 1 .. 2 : ~(j > 2)
      OBVIOUS
    <2> QED
      BY <1>4, <2>1, LastWriteStands, Numbers DEF FAT_CLUSTER_NUMBER
  <1>6. CASE Perform(w, newFat, gone)
    <2>1. 2 \in Nat /\ 2 > 0
      OBVIOUS
    <2> QED
      BY <1>2, <1>4, <1>5, <1>6, <2>1, PerformPreserves, Zenon
  <1>7. CASE Hang(u, gone)
    <2>1. 1 \in Nat
      OBVIOUS
    <2> QED
      BY <1>4, <1>7, <2>1, HangPreserves, Zenon
  <1> QED
    BY <1>1, <1>6, <1>7

LEMMA NextFat32Inv == Fat32Inv /\ [Next]_vars => Fat32Inv'
  <1> SUFFICES ASSUME Fat32Inv, [Next]_vars PROVE Fat32Inv'
    OBVIOUS
  <1>1. CASE Create
    BY <1>1, CreatePreserves
  <1>2. CASE Load
    BY <1>2, LoadPreserves
  <1>3. CASE SwitchOff
    BY <1>3, SwitchOffPreserves
  <1>4. ASSUME NEW p \in Clusters, NEW n \in Names, NEW size \in Sizes, ReadHangs(p, n, size)
        PROVE  Fat32Inv'
    BY <1>4, ReadPreserves
  <1>5. ASSUME NEW p \in Clusters, NEW n \in Names, WriteDirectory(p, n) PROVE Fat32Inv'
    BY <1>5, WriteDirectoryPreserves
  <1>6. ASSUME NEW p \in Clusters, NEW n \in Names, NEW size \in Sizes, NEW payload \in Payloads,
               WriteFile(p, n, size, payload)
        PROVE  Fat32Inv'
    BY <1>6, WriteFilePreserves
  <1>7. ASSUME NEW p \in Clusters, NEW n \in Names, Delete(p, n) PROVE Fat32Inv'
    BY <1>7, DeletePreserves
  <1>8. CASE UNCHANGED vars
    BY <1>8 DEF vars, Fat32Inv, FatCached, LoadedFat, EmptyFat, DiskOK
  <1> QED
    BY <1>1, <1>2, <1>3, <1>4, <1>5, <1>6, <1>7, <1>8 DEF Next

\* Every cluster, the FAT on disk and the one in memory, and the tables keep
\* their types: no operation writes a directory with more entries than its table
\* has slots, or a FAT entry that names nothing.
THEOREM Fat32Invariant == Spec => []Fat32Inv
  BY InitFat32Inv, NextFat32Inv, PTL DEF Spec

THEOREM DiskKeepsItsTypes == Spec => []TypeOK
  <1>1. Fat32Inv => TypeOK
    BY LoadedFatOK DEF Fat32Inv, TypeOK, DiskOK, ContentOK
  <1> QED
    BY <1>1, Fat32Invariant, PTL

\* While the machine is up the FAT in memory is the one on disk: a restart loses
\* nothing, whatever operations failed, were cut off or ran over a full disk.
THEOREM FatIsCached == Spec => []FatCached
  <1>1. Fat32Inv => FatCached
    BY DEF Fat32Inv
  <1> QED
    BY <1>1, Fat32Invariant, PTL

-----------------------------------------------------------------------------
\* A disk that is a store.

\* The first cluster of an entry <<table, name>>, and all of them.
ClusterOf(d, x) == EntryOf(d, x[1], x[2]).cluster
Owned(d, x) == Range(Chain(LoadedFat(d), ClusterOf(d, x)))

\* Every chain ends, no two entries share a cluster, and the FAT marks used the
\* root's cluster and theirs, and no other.
ChainsApart(d) ==
    /\ \A x \in EntriesOn(d) : /\ Ends(LoadedFat(d), ClusterOf(d, x))
                               /\ ROOT_CLUSTER_NUMBER \notin Owned(d, x)
    /\ \A x, y \in EntriesOn(d) : x # y => Owned(d, x) \cap Owned(d, y) = {}
    /\ {c \in Clusters : c >= 2 /\ LoadedFat(d)[c] # EMPTY_ENTRY} =
         {ROOT_CLUSTER_NUMBER} \cup UNION {Owned(d, x) : x \in EntriesOn(d)}

\* Every directory's table says which directory it is, and which one holds it.
Linked(d) ==
    /\ ReadTable(d, ROOT_CLUSTER_NUMBER).self = RootLink
    /\ ReadTable(d, ROOT_CLUSTER_NUMBER).parent = RootLink
    /\ \A x \in EntriesOn(d) :
         EntryOf(d, x[1], x[2]).dir =>
           /\ ReadTable(d, ClusterOf(d, x)).self = Link(x[2], ClusterOf(d, x))
           /\ ReadTable(d, ClusterOf(d, x)).parent = ReadTable(d, x[1]).self

\* Every other cluster reads as an empty table: what is left of a directory that
\* was removed, a file's text, the FAT.  is_directory, read and delete read any
\* cluster that a program names as a table.
StaleEmpty(d) == \A c \in Clusters \ Tables(d) : DOMAIN ReadTable(d, c).entries = {}

\* The first two entries of the FAT are what create_fat32 made them.
Reserved(d) == LoadedFat(d)[0] = CLUSTER_0_VALUE /\ LoadedFat(d)[1] = END_OF_FILE

\* A disk that is a store of files.
IsStore(d) == DiskOK(d) /\ ChainsApart(d) /\ Linked(d) /\ StaleEmpty(d) /\ Reserved(d)

\* Entries as pairs.
LEMMA EntriesFact ==
    ASSUME NEW d, NEW t, NEW n
    PROVE  <<t, n>> \in EntriesOn(d) <=> t \in Tables(d) /\ n \in DOMAIN ReadTable(d, t).entries
  BY DEF EntriesOn

\* An entry is in a table that is there.
LEMMA EntryPairs ==
    ASSUME NEW d, NEW x \in EntriesOn(d)
    PROVE  /\ x = <<x[1], x[2]>>
           /\ x[1] \in Tables(d)
           /\ x[2] \in DOMAIN ReadTable(d, x[1]).entries
  <1>1. PICK t \in Tables(d) : x \in {<<t, n>> : n \in DOMAIN ReadTable(d, t).entries}
    BY DEF EntriesOn
  <1>2. PICK n \in DOMAIN ReadTable(d, t).entries : x = <<t, n>>
    BY <1>1
  <1> QED
    BY <1>1, <1>2

\* What a disk shows, entry by entry.
LEMMA ViewFact ==
    ASSUME NEW d, NEW v
    PROVE  v \in View(d) <=> \E x \in EntriesOn(d) : v = Shown(d, x[1], x[2])
  <1>1. ASSUME v \in View(d) PROVE \E x \in EntriesOn(d) : v = Shown(d, x[1], x[2])
    <2>1. PICK t \in Tables(d) : v \in {Shown(d, t, n) : n \in DOMAIN ReadTable(d, t).entries}
      BY <1>1 DEF View
    <2>2. PICK n \in DOMAIN ReadTable(d, t).entries : v = Shown(d, t, n)
      BY <2>1
    <2>3. <<t, n>> \in EntriesOn(d) /\ <<t, n>>[1] = t /\ <<t, n>>[2] = n
      BY EntriesFact
    <2> QED
      BY <2>2, <2>3
  <1>2. ASSUME NEW x \in EntriesOn(d), v = Shown(d, x[1], x[2]) PROVE v \in View(d)
    <2>1. x[1] \in Tables(d) /\ x[2] \in DOMAIN ReadTable(d, x[1]).entries
      BY EntryPairs
    <2> QED
      BY <1>2, <2>1 DEF View
  <1> QED
    BY <1>1, <1>2

\* What is shown of an entry.
LEMMA ShownFields ==
    ASSUME NEW d, NEW t, NEW n
    PROVE  /\ Shown(d, t, n).in = t /\ Shown(d, t, n).name = n
           /\ Shown(d, t, n).dir = EntryOf(d, t, n).dir
           /\ EntryOf(d, t, n).dir => Shown(d, t, n).id = EntryOf(d, t, n).cluster
           /\ Shown(d, t, n).size = EntryOf(d, t, n).size
  BY DEF Shown

\* What an entry says, on a disk that is well formed.
LEMMA EntryTypes ==
    ASSUME NEW d, DiskOK(d), NEW x \in EntriesOn(d)
    PROVE  /\ EntryOf(d, x[1], x[2]) \in [dir: BOOLEAN, cluster: Clusters, size: Sizes \cup {0}]
           /\ ClusterOf(d, x) \in Clusters
           /\ x[1] \in Clusters /\ x[2] \in Names
  <1>1. x[1] \in Tables(d) /\ x[2] \in DOMAIN ReadTable(d, x[1]).entries
    BY EntryPairs
  <1>2. x[1] \in Clusters
    BY <1>1, TablesClosed
  <1>3. TableOK(ReadTable(d, x[1]))
    BY <1>2, ReadTableOK
  <1> QED
    BY <1>1, <1>2, <1>3 DEF TableOK, EntryOf, ClusterOf

\* The chain of an entry, as the path it is.
LEMMA OwnedPath ==
    ASSUME NEW d, DiskOK(d), NEW x \in EntriesOn(d), Ends(LoadedFat(d), ClusterOf(d, x))
    PROVE  LET s == Chain(LoadedFat(d), ClusterOf(d, x))
           IN  /\ IsPath(LoadedFat(d), s) /\ s[1] = ClusterOf(d, x)
               /\ Owned(d, x) = {s[i] : i \in 1 .. Len(s)}
               /\ Owned(d, x) \subseteq Clusters
               /\ ClusterOf(d, x) \in Owned(d, x)
  <1> DEFINE s == Chain(LoadedFat(d), ClusterOf(d, x))
  <1>1. IsPath(LoadedFat(d), s) /\ s[1] = ClusterOf(d, x)
    BY LoadedFatOK, EntryTypes, ChainIsPath
  <1>2. Owned(d, x) = Range(s)
    BY DEF Owned
  <1> HIDE DEF s
  <1>3. s \in Seq(Clusters) /\ Len(s) \in Nat /\ Len(s) > 0 /\ DOMAIN s = 1 .. Len(s)
    BY <1>1 DEF IsPath
  <1>4. Range(s) = {s[i] : i \in 1 .. Len(s)}
    BY <1>3 DEF Range
  <1>5. 1 \in 1 .. Len(s) /\ \A i \in 1 .. Len(s) : s[i] \in Clusters
    BY <1>3
  <1> QED
    BY <1>1, <1>2, <1>4, <1>5 DEF s

\* The clusters of an entry are used, and none is reserved.
LEMMA OwnedFacts ==
    ASSUME NEW d, IsStore(d), NEW x \in EntriesOn(d)
    PROVE  /\ Owned(d, x) \subseteq Clusters
           /\ ClusterOf(d, x) \in Owned(d, x)
           /\ \A y \in Owned(d, x) : y >= 2 /\ y # 2 /\ y \notin {0, 1} /\ LoadedFat(d)[y] # EMPTY_ENTRY
  <1>1. Owned(d, x) \subseteq Clusters /\ ClusterOf(d, x) \in Owned(d, x)
    BY OwnedPath DEF IsStore, ChainsApart
  <1>2. Owned(d, x) \subseteq {c \in Clusters : c >= 2 /\ LoadedFat(d)[c] # EMPTY_ENTRY}
    BY DEF IsStore, ChainsApart
  <1>3. 2 \notin Owned(d, x)
    BY DEF IsStore, ChainsApart, ROOT_CLUSTER_NUMBER
  <1>4. \A y \in Clusters : y >= 2 => y \notin {0, 1}
    BY Numbers DEF Clusters
  <1> QED
    BY <1>1, <1>2, <1>3, <1>4

\* A subdirectory is the cluster of an entry marked as a directory.
LEMMA SubdirectoryIsEntry ==
    ASSUME NEW d, NEW s \in Tables(d), NEW c
    PROVE  c \in Subdirectories(d, s) <=>
             \E x \in EntriesOn(d) : x[1] = s /\ EntryOf(d, s, x[2]).dir /\ ClusterOf(d, x) = c
  <1>1. ASSUME c \in Subdirectories(d, s)
        PROVE  \E x \in EntriesOn(d) : x[1] = s /\ EntryOf(d, s, x[2]).dir /\ ClusterOf(d, x) = c
    <2>1. PICK n \in DOMAIN ReadTable(d, s).entries :
            ReadTable(d, s).entries[n].dir /\ ReadTable(d, s).entries[n].cluster = c
      BY <1>1, SubdirectoriesOf
    <2> DEFINE x == <<s, n>>
    <2>2. x \in EntriesOn(d) /\ x[1] = s /\ x[2] = n
      BY EntriesFact
    <2>3. EntryOf(d, s, x[2]).dir /\ ClusterOf(d, x) = c
      BY <2>1, <2>2 DEF EntryOf, ClusterOf
    <2> HIDE DEF x
    <2> QED
      BY <2>2, <2>3
  <1>2. ASSUME NEW x \in EntriesOn(d), x[1] = s, EntryOf(d, s, x[2]).dir, ClusterOf(d, x) = c
        PROVE  c \in Subdirectories(d, s)
    <2>1. x[2] \in DOMAIN ReadTable(d, s).entries
      BY <1>2, EntryPairs
    <2> QED
      BY <1>2, <2>1, SubdirectoriesOf DEF EntryOf, ClusterOf
  <1> QED
    BY <1>1, <1>2

\* A directory is the root, or has an entry and a cluster of its own.
LEMMA DirectoryEntry ==
    ASSUME NEW d, DiskOK(d), NEW t \in Tables(d), t # ROOT_CLUSTER_NUMBER
    PROVE  \E x \in EntriesOn(d) : EntryOf(d, x[1], x[2]).dir /\ ClusterOf(d, x) = t
  <1>1. PICK s \in Tables(d) : t \in Subdirectories(d, s)
    BY TablesHaveEntries
  <1> QED
    BY <1>1, SubdirectoryIsEntry

\* The cluster of such an entry is a directory.
LEMMA DirectoryEntryIsTable ==
    ASSUME NEW d, DiskOK(d), NEW x \in EntriesOn(d), EntryOf(d, x[1], x[2]).dir
    PROVE  ClusterOf(d, x) \in Tables(d)
  <1>1. x[1] \in Tables(d)
    BY EntryPairs
  <1>2. ClusterOf(d, x) \in Subdirectories(d, x[1])
    BY <1>1, SubdirectoryIsEntry
  <1> QED
    BY <1>1, <1>2, TablesClosed

\* A directory is a used cluster with a table, which names itself and a parent
\* that is a directory.
LEMMA TableFacts ==
    ASSUME NEW d, IsStore(d), NEW t \in Tables(d)
    PROVE  /\ t \in Clusters /\ t >= 2 /\ t \notin {0, 1}
           /\ LoadedFat(d)[t] # EMPTY_ENTRY
           /\ d[t].kind = "table"
           /\ ReadTable(d, t).self.cluster = t
           /\ ReadTable(d, t).parent.cluster \in Tables(d)
  <1>1. RootLink.cluster = ROOT_CLUSTER_NUMBER /\ ROOT_CLUSTER_NUMBER = 2
    BY DEF RootLink, Link, ROOT_CLUSTER_NUMBER
  <1>2. t \in Clusters
    BY TablesClosed DEF IsStore
  <1>3. ASSUME ReadTable(d, t).self.cluster = t PROVE d[t].kind = "table"
    <2>1. NoLink.cluster # t
      BY <1>2, Numbers DEF NoLink, Link, NoCluster, Clusters
    <2> QED
      BY <1>3, <2>1 DEF ReadTable, Table
  <1>4. CASE t = ROOT_CLUSTER_NUMBER
    <2>1. ReadTable(d, t).self.cluster = t /\ ReadTable(d, t).parent.cluster \in Tables(d)
      BY <1>1, <1>4 DEF IsStore, Linked
    <2>2. t \in {c \in Clusters : c >= 2 /\ LoadedFat(d)[c] # EMPTY_ENTRY}
      BY <1>4 DEF IsStore, ChainsApart
    <2> QED
      BY <1>1, <1>2, <1>3, <1>4, <2>1, <2>2
  <1>5. CASE t # ROOT_CLUSTER_NUMBER
    <2>1. PICK x \in EntriesOn(d) : EntryOf(d, x[1], x[2]).dir /\ ClusterOf(d, x) = t
      BY <1>5, DirectoryEntry DEF IsStore
    <2>2. /\ ReadTable(d, t).self = Link(x[2], t)
          /\ ReadTable(d, t).parent = ReadTable(d, x[1]).self
      BY <2>1 DEF IsStore, Linked
    <2>3. x[1] \in Tables(d)
      BY EntryPairs
    <2>4. ReadTable(d, x[1]).self.cluster = x[1]
      <3>1. CASE x[1] = ROOT_CLUSTER_NUMBER
        <4>1. ReadTable(d, ROOT_CLUSTER_NUMBER).self = RootLink
          BY DEF IsStore, Linked
        <4> QED
          BY <1>1, <3>1, <4>1
      <3>2. CASE x[1] # ROOT_CLUSTER_NUMBER
        <4>1. PICK y \in EntriesOn(d) : EntryOf(d, y[1], y[2]).dir /\ ClusterOf(d, y) = x[1]
          BY <2>3, <3>2, DirectoryEntry DEF IsStore
        <4>2. ReadTable(d, ClusterOf(d, y)).self = Link(y[2], ClusterOf(d, y))
          BY <4>1 DEF IsStore, Linked
        <4> QED
          BY <4>1, <4>2 DEF Link
      <3> QED
        BY <3>1, <3>2
    <2>5. t \in Owned(d, x)
      BY <2>1, OwnedFacts
    <2> QED
      BY <1>2, <1>3, <2>2, <2>3, <2>4, <2>5, OwnedFacts DEF Link
  <1> QED
    BY <1>4, <1>5

\* is_directory knows the directories, and nothing else.
LEMMA IsDirectoryKnows ==
    ASSUME IsStore(disk), NEW c
    PROVE  IsDirectory(c) <=> c \in Tables(disk)
  <1>1. \A t \in Tables(disk) : /\ ReadTable(disk, t).self.cluster = t
                                /\ ReadTable(disk, t).parent.cluster \in Tables(disk)
                                /\ Subdirectories(disk, t) \subseteq Tables(disk)
    BY TableFacts, TablesClosed DEF IsStore
  <1> QED
    BY <1>1 DEF IsDirectory

\* Only directories have entries.
LEMMA HasMeansTable ==
    ASSUME NEW d, IsStore(d), NEW p \in Clusters, NEW n \in DOMAIN ReadTable(d, p).entries
    PROVE  p \in Tables(d) /\ <<p, n>> \in EntriesOn(d)
  BY EntriesFact DEF IsStore, StaleEmpty

\* An entry whose chain and, if it is a file, whose blocks a step leaves alone
\* shows what it showed.
LEMMA ShownUnchanged ==
    ASSUME NEW d, NEW e, DiskOK(d), DiskOK(e),
           NEW x \in EntriesOn(d), Ends(LoadedFat(d), ClusterOf(d, x)),
           EntryOf(e, x[1], x[2]) = EntryOf(d, x[1], x[2]),
           \A y \in Owned(d, x) : LoadedFat(e)[y] = LoadedFat(d)[y],
           ~EntryOf(d, x[1], x[2]).dir => \A y \in Owned(d, x) : e[y] = d[y]
    PROVE  /\ ClusterOf(e, x) = ClusterOf(d, x)
           /\ Ends(LoadedFat(e), ClusterOf(e, x))
           /\ Owned(e, x) = Owned(d, x)
           /\ Shown(e, x[1], x[2]) = Shown(d, x[1], x[2])
  <1> DEFINE s == Chain(LoadedFat(d), ClusterOf(d, x))
             c == ClusterOf(d, x)
  <1>1. ClusterOf(e, x) = c
    BY DEF ClusterOf
  <1>2. /\ IsPath(LoadedFat(d), s) /\ s[1] = c
        /\ Owned(d, x) = {s[i] : i \in 1 .. Len(s)}
    BY OwnedPath
  <1>3. LoadedFat(e) \in [Clusters -> FatValues]
    BY LoadedFatOK
  <1>4. IsPath(LoadedFat(e), s)
    <2> HIDE DEF s
    <2>1. \A i \in 1 .. Len(s) : LoadedFat(e)[s[i]] = LoadedFat(d)[s[i]]
      BY <1>2
    <2>2. Len(s) \in 1 .. Len(s) /\ \A i \in 1 .. Len(s) - 1 : i \in 1 .. Len(s)
      BY <1>2 DEF IsPath
    <2> QED
      BY <1>2, <2>1, <2>2 DEF IsPath
  <1>5. Ends(LoadedFat(e), c) /\ Chain(LoadedFat(e), c) = s
    <2> HIDE DEF s, c
    <2> QED
      BY <1>2, <1>3, <1>4, PathIsChain
  <1>6. Owned(e, x) = Owned(d, x)
    BY <1>1, <1>5 DEF Owned
  <1>7. Shown(e, x[1], x[2]) = Shown(d, x[1], x[2])
    <2> DEFINE D == EntryOf(d, x[1], x[2]).dir
    <2>1. DOMAIN s = 1 .. Len(s)
      BY <1>2 DEF IsPath
    <2>2. ~D => [i \in DOMAIN s |-> e[s[i]]] = [i \in DOMAIN s |-> d[s[i]]]
      <3> HIDE DEF s
      <3> QED
        BY <1>2, <2>1
    <2>3. EntryOf(d, x[1], x[2]).cluster = c
      BY DEF ClusterOf
    <2>4. Ends(LoadedFat(d), c) /\ Chain(LoadedFat(d), c) = s
      OBVIOUS
    <2> HIDE DEF s, c
    <2> QED
      BY <1>5, <2>2, <2>3, <2>4 DEF Shown
  <1> QED
    BY <1>1, <1>5, <1>6, <1>7

-----------------------------------------------------------------------------
\* A step that adds an entry.

\* The step from disk d to disk e adds the entry n to directory p, with the clusters
\* s: they were empty, the FAT links them, they and the FAT are written, the table of
\* p gets the entry, and a new directory gets an empty table.
Adds(d, e, p, n, entry, s) ==
    LET K == {s[i] : i \in 1 .. Len(s)}
        D == DOMAIN ReadTable(d, p).entries
    IN  /\ p \in Tables(d) /\ n \notin D
        /\ entry.dir \in BOOLEAN /\ entry.cluster = s[1]
        /\ IsPath(LoadedFat(e), s)
        /\ \A y \in K : y >= 2 /\ LoadedFat(d)[y] = EMPTY_ENTRY
        /\ \A y \in Clusters \ K : LoadedFat(e)[y] = LoadedFat(d)[y]
        /\ ReadTable(e, p).self = ReadTable(d, p).self
        /\ ReadTable(e, p).parent = ReadTable(d, p).parent
        /\ DOMAIN ReadTable(e, p).entries = D \cup {n}
        /\ \A m \in D : EntryOf(e, p, m) = EntryOf(d, p, m)
        /\ EntryOf(e, p, n) = entry
        /\ \A y \in Clusters \ ({p, FAT_CLUSTER_NUMBER} \cup K) : e[y] = d[y]
        /\ \A y \in {FAT_CLUSTER_NUMBER} \cup K : DOMAIN ReadTable(e, y).entries = {}
        /\ entry.dir => /\ ReadTable(e, s[1]).self = Link(n, s[1])
                        /\ ReadTable(e, s[1]).parent = ReadTable(d, p).self

\* What a step that adds an entry leaves alone.
LEMMA AddKeeps ==
    ASSUME NEW d, NEW e, NEW p, NEW n, NEW entry, NEW s,
           IsStore(d), DiskOK(e), Adds(d, e, p, n, entry, s)
    PROVE  LET K == {s[i] : i \in 1 .. Len(s)}
               new == <<p, n>>
           IN  /\ K \subseteq Clusters /\ s[1] \in K
               /\ \A y \in K : y \notin Tables(d) /\ y \notin {0, 1, 2}
               /\ \A t \in Tables(d) : /\ ReadTable(e, t).self = ReadTable(d, t).self
                                       /\ ReadTable(e, t).parent = ReadTable(d, t).parent
               /\ new \notin EntriesOn(d)
               /\ Tables(e) = Tables(d) \cup (IF entry.dir THEN {s[1]} ELSE {})
               /\ EntriesOn(e) = EntriesOn(d) \cup {new}
               /\ \A x \in EntriesOn(d) : EntryOf(e, x[1], x[2]) = EntryOf(d, x[1], x[2])
  <1> DEFINE K == {s[i] : i \in 1 .. Len(s)}
             D == DOMAIN ReadTable(d, p).entries
             New == IF entry.dir THEN {s[1]} ELSE {}
             new == <<p, n>>
  <1>1. /\ p \in Tables(d) /\ n \notin D
        /\ IsPath(LoadedFat(e), s) /\ entry.cluster = s[1]
        /\ \A y \in K : y >= 2 /\ LoadedFat(d)[y] = EMPTY_ENTRY
        /\ ReadTable(e, p).self = ReadTable(d, p).self
        /\ ReadTable(e, p).parent = ReadTable(d, p).parent
        /\ DOMAIN ReadTable(e, p).entries = D \cup {n}
        /\ \A m \in D : EntryOf(e, p, m) = EntryOf(d, p, m)
        /\ EntryOf(e, p, n) = entry
        /\ \A y \in Clusters \ ({p, FAT_CLUSTER_NUMBER} \cup K) : e[y] = d[y]
        /\ \A y \in K : DOMAIN ReadTable(e, y).entries = {}
    BY DEF Adds
  <1>2. K \subseteq Clusters /\ s[1] \in K
    BY <1>1 DEF IsPath
  <1>3. \A y \in K : y \notin Tables(d) /\ y \notin {0, 1, 2}
    <2>1. \A y \in K : y \notin Tables(d)
      BY <1>1, TableFacts
    <2>2. 2 \in Tables(d)
      BY TablesClosed DEF IsStore, ROOT_CLUSTER_NUMBER
    <2> HIDE DEF K
    <2> QED
      BY <1>1, <1>2, <2>1, <2>2
  <1> HIDE DEF K
  <1>4. \A t \in Tables(d) : t # p => ReadTable(e, t) = ReadTable(d, t)
    <2>1. \A t \in Tables(d) : t \in Clusters /\ t # FAT_CLUSTER_NUMBER /\ t \notin K
      BY <1>3, TableFacts DEF FAT_CLUSTER_NUMBER
    <2> QED
      BY <1>1, <2>1 DEF ReadTable
  <1>5. \A t \in Tables(d) : /\ ReadTable(e, t).self = ReadTable(d, t).self
                             /\ ReadTable(e, t).parent = ReadTable(d, t).parent
    BY <1>1, <1>4
  <1>6. \A t \in Tables(d) : t # p => Subdirectories(e, t) = Subdirectories(d, t)
    BY <1>4 DEF Subdirectories
  <1>7. Subdirectories(e, p) = Subdirectories(d, p) \cup New
    <2>1. \A m \in D : ReadTable(e, p).entries[m] = ReadTable(d, p).entries[m]
      BY <1>1 DEF EntryOf
    <2>2. ReadTable(e, p).entries[n] = entry
      BY <1>1 DEF EntryOf
    <2>3. ASSUME NEW x PROVE x \in Subdirectories(e, p) <=> x \in Subdirectories(d, p) \cup New
      BY <1>1, <2>1, <2>2, SubdirectoriesOf
    <2> QED
      BY <2>3
  <1>8. \A y \in K : Subdirectories(e, y) = {}
    BY <1>1, SubdirectoriesOf
  <1>9. Tables(e) \subseteq Tables(d) \cup New
    <2> DEFINE X == Tables(d) \cup New
    <2>1. ROOT_CLUSTER_NUMBER \in X /\ New \subseteq K
      BY <1>2, TablesClosed DEF IsStore
    <2>2. \A x \in X : Subdirectories(e, x) \subseteq X
      BY <1>6, <1>7, <1>8, <2>1, TablesClosed DEF IsStore
    <2> HIDE DEF X
    <2>3. Tables(e) \subseteq X
      BY <2>1, <2>2, TablesLeast
    <2> QED
      BY <2>3 DEF X
  <1>10. Tables(d) \cup New \subseteq Tables(e)
    <2>1. ROOT_CLUSTER_NUMBER \in Tables(e) /\ \A x \in Tables(e) : Subdirectories(e, x) \subseteq Tables(e)
      BY TablesClosed
    <2>2. \A x \in Tables(e) \cap Tables(d) : Subdirectories(d, x) \subseteq Tables(e)
      BY <1>6, <1>7, <2>1
    <2>3. Tables(d) \subseteq Tables(e)
      BY <2>1, <2>2, TablesLeast DEF IsStore
    <2> QED
      BY <1>1, <1>7, <2>1, <2>3
  <1>11. Tables(e) = Tables(d) \cup New
    BY <1>9, <1>10
  <1>12. new \notin EntriesOn(d)
    BY <1>1, EntriesFact
  <1>13. ASSUME NEW t, NEW m
         PROVE  <<t, m>> \in EntriesOn(e) <=> <<t, m>> \in EntriesOn(d) \/ (t = p /\ m = n)
    <2>1. CASE t = p
      BY <1>1, <1>11, <2>1, EntriesFact
    <2>2. CASE t # p /\ t \in Tables(d)
      BY <1>4, <1>11, <2>2, EntriesFact
    <2>3. CASE t # p /\ t \notin Tables(d)
      <3>1. t \in New => DOMAIN ReadTable(e, t).entries = {}
        BY <1>1, <1>2
      <3> QED
        BY <1>11, <2>3, <3>1, EntriesFact
    <2> QED
      BY <2>1, <2>2, <2>3
  <1>14. EntriesOn(e) = EntriesOn(d) \cup {new}
    <2>1. ASSUME NEW x \in EntriesOn(e) PROVE x \in EntriesOn(d) \cup {new}
      <3>1. x = <<x[1], x[2]>>
        BY EntryPairs
      <3>2. <<x[1], x[2]>> \in EntriesOn(d) \/ (x[1] = p /\ x[2] = n)
        BY <1>13, <3>1
      <3> QED
        BY <3>1, <3>2
    <2>2. ASSUME NEW x \in EntriesOn(d) PROVE x \in EntriesOn(e)
      <3>1. x = <<x[1], x[2]>>
        BY EntryPairs
      <3>2. <<x[1], x[2]>> \in EntriesOn(e)
        BY <1>13, <3>1
      <3> QED
        BY <3>1, <3>2
    <2>3. new \in EntriesOn(e)
      BY <1>13
    <2> QED
      BY <2>1, <2>2, <2>3
  <1>15. ASSUME NEW x \in EntriesOn(d)
         PROVE  EntryOf(e, x[1], x[2]) = EntryOf(d, x[1], x[2])
    <2>1. x[1] \in Tables(d) /\ x[2] \in DOMAIN ReadTable(d, x[1]).entries
      BY EntryPairs
    <2>2. CASE x[1] = p
      BY <1>1, <2>1, <2>2
    <2>3. CASE x[1] # p
      BY <1>4, <2>1, <2>3 DEF EntryOf
    <2> QED
      BY <2>2, <2>3
  <1> QED
    BY <1>2, <1>3, <1>5, <1>11, <1>12, <1>14, <1>15 DEF K

\* No file's block is a directory's table.
LEMMA FilesAreNotTables ==
    ASSUME NEW d, IsStore(d), NEW t \in Tables(d), NEW x \in EntriesOn(d), t \in Owned(d, x)
    PROVE  EntryOf(d, x[1], x[2]).dir /\ ClusterOf(d, x) = t
  <1>1. t # ROOT_CLUSTER_NUMBER
    BY DEF IsStore, ChainsApart
  <1>2. PICK y \in EntriesOn(d) : EntryOf(d, y[1], y[2]).dir /\ ClusterOf(d, y) = t
    BY <1>1, DirectoryEntry DEF IsStore
  <1>3. t \in Owned(d, y)
    BY <1>2, OwnedFacts
  <1>4. x = y
    BY <1>3 DEF IsStore, ChainsApart
  <1> QED
    BY <1>2, <1>4

\* The entries there were show what they showed.
LEMMA AddKeepsShown ==
    ASSUME NEW d, NEW e, NEW p, NEW n, NEW entry, NEW s,
           IsStore(d), DiskOK(e), Adds(d, e, p, n, entry, s), NEW x \in EntriesOn(d)
    PROVE  /\ ClusterOf(e, x) = ClusterOf(d, x)
           /\ Ends(LoadedFat(e), ClusterOf(e, x))
           /\ Owned(e, x) = Owned(d, x)
           /\ Owned(d, x) \cap {s[i] : i \in 1 .. Len(s)} = {}
           /\ Shown(e, x[1], x[2]) = Shown(d, x[1], x[2])
  <1> DEFINE K == {s[i] : i \in 1 .. Len(s)}
  <1>1. /\ p \in Tables(d)
        /\ \A y \in K : y >= 2 /\ LoadedFat(d)[y] = EMPTY_ENTRY
        /\ \A y \in Clusters \ K : LoadedFat(e)[y] = LoadedFat(d)[y]
        /\ \A y \in Clusters \ ({p, FAT_CLUSTER_NUMBER} \cup K) : e[y] = d[y]
    BY DEF Adds
  <1>2. EntryOf(e, x[1], x[2]) = EntryOf(d, x[1], x[2])
    BY AddKeeps
  <1> HIDE DEF K
  <1>3. /\ Owned(d, x) \subseteq Clusters
        /\ \A y \in Owned(d, x) : LoadedFat(d)[y] # EMPTY_ENTRY /\ y \notin {0, 1}
    BY OwnedFacts
  <1>4. Owned(d, x) \cap K = {}
    BY <1>1, <1>3
  <1>5. \A y \in Owned(d, x) : LoadedFat(e)[y] = LoadedFat(d)[y]
    BY <1>1, <1>3, <1>4
  <1>6. ~EntryOf(d, x[1], x[2]).dir => \A y \in Owned(d, x) : e[y] = d[y]
    <2> SUFFICES ASSUME ~EntryOf(d, x[1], x[2]).dir, NEW y \in Owned(d, x) PROVE e[y] = d[y]
      OBVIOUS
    <2>1. y # p
      BY <1>1, FilesAreNotTables
    <2>2. y # FAT_CLUSTER_NUMBER
      BY <1>3 DEF FAT_CLUSTER_NUMBER
    <2> QED
      BY <1>1, <1>3, <1>4, <2>1, <2>2
  <1>7. Ends(LoadedFat(d), ClusterOf(d, x))
    BY DEF IsStore, ChainsApart
  <1>8. /\ ClusterOf(e, x) = ClusterOf(d, x)
        /\ Ends(LoadedFat(e), ClusterOf(e, x))
        /\ Owned(e, x) = Owned(d, x)
        /\ Shown(e, x[1], x[2]) = Shown(d, x[1], x[2])
    BY <1>2, <1>5, <1>6, <1>7, ShownUnchanged DEF IsStore
  <1> QED
    BY <1>4, <1>8 DEF K

\* And the new one its chain.
LEMMA AddedChain ==
    ASSUME NEW d, NEW e, NEW p, NEW n, NEW entry, NEW s,
           IsStore(d), DiskOK(e), Adds(d, e, p, n, entry, s)
    PROVE  /\ ClusterOf(e, <<p, n>>) = s[1]
           /\ Ends(LoadedFat(e), s[1])
           /\ Chain(LoadedFat(e), s[1]) = s
           /\ Owned(e, <<p, n>>) = {s[i] : i \in 1 .. Len(s)}
  <1>1. IsPath(LoadedFat(e), s) /\ entry.cluster = s[1] /\ EntryOf(e, p, n) = entry
    BY DEF Adds
  <1>2. DOMAIN s = 1 .. Len(s)
    BY <1>1 DEF IsPath
  <1>3. ClusterOf(e, <<p, n>>) = s[1]
    BY <1>1 DEF ClusterOf
  <1>4. Ends(LoadedFat(e), s[1]) /\ Chain(LoadedFat(e), s[1]) = s
    BY <1>1, LoadedFatOK, PathIsChain
  <1> QED
    BY <1>2, <1>3, <1>4 DEF Owned, Range

\* After adding an entry the disk is a store.
LEMMA AddIsStore ==
    ASSUME NEW d, NEW e, NEW p, NEW n, NEW entry, NEW s,
           IsStore(d), DiskOK(e), Adds(d, e, p, n, entry, s)
    PROVE  IsStore(e)
  <1> DEFINE K == {s[i] : i \in 1 .. Len(s)}
             new == <<p, n>>
             New == IF entry.dir THEN {s[1]} ELSE {}
  <1>1. /\ p \in Tables(d)
        /\ IsPath(LoadedFat(e), s) /\ entry.cluster = s[1]
        /\ \A y \in K : y >= 2 /\ LoadedFat(d)[y] = EMPTY_ENTRY
        /\ \A y \in Clusters \ K : LoadedFat(e)[y] = LoadedFat(d)[y]
        /\ EntryOf(e, p, n) = entry
        /\ \A y \in Clusters \ ({p, FAT_CLUSTER_NUMBER} \cup K) : e[y] = d[y]
        /\ \A y \in {FAT_CLUSTER_NUMBER} \cup K : DOMAIN ReadTable(e, y).entries = {}
        /\ entry.dir => /\ ReadTable(e, s[1]).self = Link(n, s[1])
                        /\ ReadTable(e, s[1]).parent = ReadTable(d, p).self
    BY DEF Adds
  <1>2. /\ K \subseteq Clusters /\ s[1] \in K
        /\ \A y \in K : y \notin Tables(d) /\ y \notin {0, 1, 2}
        /\ \A t \in Tables(d) : /\ ReadTable(e, t).self = ReadTable(d, t).self
                                /\ ReadTable(e, t).parent = ReadTable(d, t).parent
        /\ new \notin EntriesOn(d)
        /\ Tables(e) = Tables(d) \cup New
        /\ EntriesOn(e) = EntriesOn(d) \cup {new}
        /\ \A x \in EntriesOn(d) : EntryOf(e, x[1], x[2]) = EntryOf(d, x[1], x[2])
    BY AddKeeps
  <1>3. /\ \A x \in EntriesOn(d) :
             /\ ClusterOf(e, x) = ClusterOf(d, x)
             /\ Ends(LoadedFat(e), ClusterOf(e, x))
             /\ Owned(e, x) = Owned(d, x)
             /\ Owned(d, x) \cap K = {}
             /\ Shown(e, x[1], x[2]) = Shown(d, x[1], x[2])
        /\ ClusterOf(e, new) = s[1]
        /\ Ends(LoadedFat(e), s[1])
        /\ Chain(LoadedFat(e), s[1]) = s
        /\ Owned(e, new) = K
    BY AddKeepsShown, AddedChain
  <1>4. \A y \in K : LoadedFat(e)[y] # EMPTY_ENTRY
    <2> SUFFICES ASSUME NEW i \in 1 .. Len(s) PROVE LoadedFat(e)[s[i]] # EMPTY_ENTRY
      OBVIOUS
    <2>1. CASE i = Len(s)
      BY <1>1, <2>1, EndIsNoCluster DEF IsPath
    <2>2. CASE i # Len(s)
      <3>1. i \in 1 .. Len(s) - 1 /\ i + 1 \in 1 .. Len(s)
        BY <1>1, <2>2 DEF IsPath
      <3>2. LoadedFat(e)[s[i]] = s[i + 1] /\ s[i + 1] \in K
        BY <1>1, <3>1 DEF IsPath
      <3> QED
        BY <1>2, <3>2 DEF EMPTY_ENTRY
    <2> QED
      BY <2>1, <2>2
  <1> HIDE DEF K
  <1>5. ChainsApart(e)
    <2>1. /\ \A x \in EntriesOn(d) : /\ Ends(LoadedFat(d), ClusterOf(d, x))
                                     /\ ROOT_CLUSTER_NUMBER \notin Owned(d, x)
          /\ \A x, y \in EntriesOn(d) : x # y => Owned(d, x) \cap Owned(d, y) = {}
          /\ {c \in Clusters : c >= 2 /\ LoadedFat(d)[c] # EMPTY_ENTRY} =
               {ROOT_CLUSTER_NUMBER} \cup UNION {Owned(d, x) : x \in EntriesOn(d)}
      BY DEF IsStore, ChainsApart
    <2>2. \A x \in EntriesOn(e) : /\ Ends(LoadedFat(e), ClusterOf(e, x))
                                  /\ ROOT_CLUSTER_NUMBER \notin Owned(e, x)
      BY <1>2, <1>3, <2>1 DEF ROOT_CLUSTER_NUMBER
    <2>3. \A x, y \in EntriesOn(e) : x # y => Owned(e, x) \cap Owned(e, y) = {}
      BY <1>2, <1>3, <2>1
    <2>4. UNION {Owned(e, x) : x \in EntriesOn(e)} = K \cup UNION {Owned(d, x) : x \in EntriesOn(d)}
      <3> HIDE DEF new
      <3> QED
        BY <1>2, <1>3
    <2>5. \A c \in Clusters : (c >= 2 /\ LoadedFat(e)[c] # EMPTY_ENTRY) <=>
                                c \in K \/ (c >= 2 /\ LoadedFat(d)[c] # EMPTY_ENTRY)
      BY <1>1, <1>4
    <2>6. {c \in Clusters : c >= 2 /\ LoadedFat(e)[c] # EMPTY_ENTRY} =
            K \cup {c \in Clusters : c >= 2 /\ LoadedFat(d)[c] # EMPTY_ENTRY}
      BY <1>2, <2>5
    <2>7. {c \in Clusters : c >= 2 /\ LoadedFat(e)[c] # EMPTY_ENTRY} =
               {ROOT_CLUSTER_NUMBER} \cup UNION {Owned(e, x) : x \in EntriesOn(e)}
      BY <2>1, <2>4, <2>6
    <2> QED
      BY <2>2, <2>3, <2>7 DEF ChainsApart
  <1>6. Linked(e)
    <2>1. /\ ReadTable(e, ROOT_CLUSTER_NUMBER).self = RootLink
          /\ ReadTable(e, ROOT_CLUSTER_NUMBER).parent = RootLink
      BY <1>2, TablesClosed DEF IsStore, Linked
    <2>2. ASSUME NEW x \in EntriesOn(d), EntryOf(e, x[1], x[2]).dir
          PROVE  /\ ReadTable(e, ClusterOf(e, x)).self = Link(x[2], ClusterOf(e, x))
                 /\ ReadTable(e, ClusterOf(e, x)).parent = ReadTable(e, x[1]).self
      <3>1. EntryOf(d, x[1], x[2]).dir /\ ClusterOf(e, x) = ClusterOf(d, x)
        BY <1>2, <1>3, <2>2
      <3>2. ClusterOf(d, x) \in Tables(d) /\ x[1] \in Tables(d)
        BY <3>1, DirectoryEntryIsTable, EntryPairs DEF IsStore
      <3>3. /\ ReadTable(d, ClusterOf(d, x)).self = Link(x[2], ClusterOf(d, x))
            /\ ReadTable(d, ClusterOf(d, x)).parent = ReadTable(d, x[1]).self
        BY <3>1 DEF IsStore, Linked
      <3> QED
        BY <1>2, <3>1, <3>2, <3>3
    <2>3. ASSUME EntryOf(e, p, n).dir
          PROVE  /\ ReadTable(e, ClusterOf(e, new)).self = Link(n, ClusterOf(e, new))
                 /\ ReadTable(e, ClusterOf(e, new)).parent = ReadTable(e, p).self
      BY <1>1, <1>2, <1>3, <2>3
    <2>4. new[1] = p /\ new[2] = n
      OBVIOUS
    <2> HIDE DEF new
    <2> QED
      BY <1>2, <2>1, <2>2, <2>3, <2>4 DEF Linked
  <1>7. StaleEmpty(e)
    <2> SUFFICES ASSUME NEW c \in Clusters \ Tables(e) PROVE DOMAIN ReadTable(e, c).entries = {}
      BY DEF StaleEmpty
    <2>1. CASE c \in {FAT_CLUSTER_NUMBER} \cup K
      BY <1>1, <2>1
    <2>2. CASE c \notin {FAT_CLUSTER_NUMBER} \cup K
      <3>1. c # p /\ c \notin Tables(d)
        BY <1>1, <1>2
      <3>2. e[c] = d[c]
        BY <1>1, <2>2, <3>1
      <3> QED
        BY <3>1, <3>2 DEF IsStore, StaleEmpty, ReadTable
    <2> QED
      BY <2>1, <2>2
  <1>8. Reserved(e)
    BY <1>1, <1>2, Numbers DEF IsStore, Reserved
  <1> QED
    BY <1>5, <1>6, <1>7, <1>8 DEF IsStore

\* It shows one entry more, under a name that was free; a new directory is none of
\* those that were there, a new file shows what its clusters hold.
LEMMA AddedToView ==
    ASSUME NEW d, NEW e, NEW p, NEW n, NEW entry, NEW s,
           IsStore(d), DiskOK(e), Adds(d, e, p, n, entry, s)
    PROVE  /\ View(e) = View(d) \cup {Shown(e, p, n)}
           /\ Shown(e, p, n) \notin View(d)
           /\ \A v \in View(d) : v.in = p => v.name # n
           /\ Shown(e, p, n).in = p /\ Shown(e, p, n).name = n
           /\ Shown(e, p, n).dir = entry.dir
           /\ entry.dir => Shown(e, p, n).id = s[1] /\ s[1] \notin Tables(d)
           /\ Shown(e, p, n).size = entry.size
           /\ ~entry.dir => Shown(e, p, n).data = [i \in 1 .. Len(s) |-> e[s[i]]]
  <1> DEFINE new == <<p, n>>
             v == Shown(e, p, n)
             K == {s[i] : i \in 1 .. Len(s)}
  <1>1. /\ EntriesOn(e) = EntriesOn(d) \cup {new} /\ new \notin EntriesOn(d)
    BY AddKeeps
  <1>2. /\ \A x \in EntriesOn(d) :
             /\ ClusterOf(e, x) = ClusterOf(d, x)
             /\ Ends(LoadedFat(e), ClusterOf(e, x))
             /\ Owned(e, x) = Owned(d, x)
             /\ Owned(d, x) \cap K = {}
             /\ Shown(e, x[1], x[2]) = Shown(d, x[1], x[2])
        /\ ClusterOf(e, new) = s[1]
        /\ Ends(LoadedFat(e), s[1])
        /\ Chain(LoadedFat(e), s[1]) = s
        /\ Owned(e, new) = K
    BY AddKeepsShown, AddedChain
  <1>3. EntryOf(e, p, n) = entry /\ DOMAIN s = 1 .. Len(s) /\ entry.cluster = s[1]
    BY DEF Adds, IsPath
  <1>4. new[1] = p /\ new[2] = n
    OBVIOUS
  <1>5. \A w \in View(d) : w.in = p => w.name # n
    <2> SUFFICES ASSUME NEW w \in View(d), w.in = p, w.name = n PROVE FALSE
      OBVIOUS
    <2>1. PICK x \in EntriesOn(d) : w = Shown(d, x[1], x[2])
      BY ViewFact
    <2>2. x[1] = p /\ x[2] = n /\ x = <<x[1], x[2]>>
      BY <2>1, ShownFields, EntryPairs
    <2> QED
      BY <1>1, <2>2
  <1>6. /\ v.in = p /\ v.name = n /\ v.dir = entry.dir
        /\ entry.dir => v.id = s[1]
        /\ v.size = entry.size
    BY <1>3, ShownFields
  <1>7. ~entry.dir => v.data = [i \in 1 .. Len(s) |-> e[s[i]]]
    BY <1>2, <1>3 DEF Shown
  <1>8. v \notin View(d)
    BY <1>5, <1>6
  <1>0. s[1] \notin Tables(d)
    <2>1. 1 \in 1 .. Len(s)
      BY DEF Adds, IsPath
    <2>2. LoadedFat(d)[s[1]] = EMPTY_ENTRY
      BY <2>1 DEF Adds
    <2> QED
      BY <2>2, TableFacts
  <1>9. View(e) = View(d) \cup {v}
    <2> HIDE DEF new
    <2>1. ASSUME NEW w PROVE w \in View(e) <=> w \in View(d) \/ w = v
      <3>1. w \in View(e) <=> \E x \in EntriesOn(e) : w = Shown(e, x[1], x[2])
        BY ViewFact
      <3>2. w \in View(d) <=> \E x \in EntriesOn(d) : w = Shown(d, x[1], x[2])
        BY ViewFact
      <3>3. v = Shown(e, new[1], new[2])
        BY <1>4
      <3> HIDE DEF v
      <3> QED
        BY <1>1, <1>2, <3>1, <3>2, <3>3
    <2> QED
      BY <2>1
  <1> QED
    BY <1>0, <1>5, <1>6, <1>7, <1>8, <1>9

-----------------------------------------------------------------------------
\* A step that removes one.

\* The step from disk d to disk e removes the entry n of directory p, an empty
\* directory's or a file's, and frees its chain.
Removes(d, e, p, n) ==
    LET D == DOMAIN ReadTable(d, p).entries
        gone == EntryOf(d, p, n)
        K == Owned(d, <<p, n>>)
    IN  /\ p \in Tables(d) /\ n \in D
        /\ gone.dir => DOMAIN ReadTable(d, gone.cluster).entries = {}
        /\ \A y \in Clusters :
             LoadedFat(e)[y] = IF y \in K THEN EMPTY_ENTRY ELSE LoadedFat(d)[y]
        /\ ReadTable(e, p).self = ReadTable(d, p).self
        /\ ReadTable(e, p).parent = ReadTable(d, p).parent
        /\ DOMAIN ReadTable(e, p).entries = D \ {n}
        /\ \A m \in D \ {n} : EntryOf(e, p, m) = EntryOf(d, p, m)
        /\ \A y \in Clusters \ {p, FAT_CLUSTER_NUMBER} : e[y] = d[y]
        /\ DOMAIN ReadTable(e, FAT_CLUSTER_NUMBER).entries = {}

\* What a step that removes an entry leaves alone.
LEMMA RemoveKeeps ==
    ASSUME NEW d, NEW e, NEW p, NEW n, IsStore(d), DiskOK(e), Removes(d, e, p, n)
    PROVE  LET old == <<p, n>>
               gone == EntryOf(d, p, n)
           IN  /\ old \in EntriesOn(d)
               /\ \A t \in Tables(d) : /\ ReadTable(e, t).self = ReadTable(d, t).self
                                       /\ ReadTable(e, t).parent = ReadTable(d, t).parent
               /\ Tables(e) = Tables(d) \ (IF gone.dir THEN {gone.cluster} ELSE {})
               /\ EntriesOn(e) = EntriesOn(d) \ {old}
               /\ \A x \in EntriesOn(d) : x # old =>
                    EntryOf(e, x[1], x[2]) = EntryOf(d, x[1], x[2])
  <1> DEFINE D == DOMAIN ReadTable(d, p).entries
             old == <<p, n>>
             gone == EntryOf(d, p, n)
             c == gone.cluster
             Old == IF gone.dir THEN {c} ELSE {}
  <1>1. /\ p \in Tables(d) /\ n \in D
        /\ gone.dir => DOMAIN ReadTable(d, c).entries = {}
        /\ ReadTable(e, p).self = ReadTable(d, p).self
        /\ ReadTable(e, p).parent = ReadTable(d, p).parent
        /\ DOMAIN ReadTable(e, p).entries = D \ {n}
        /\ \A m \in D \ {n} : EntryOf(e, p, m) = EntryOf(d, p, m)
        /\ \A y \in Clusters \ {p, FAT_CLUSTER_NUMBER} : e[y] = d[y]
    BY DEF Removes
  <1>2. old \in EntriesOn(d)
    BY <1>1, EntriesFact
  <1>3. old[1] = p /\ old[2] = n /\ ClusterOf(d, old) = c
    BY DEF ClusterOf
  <1>4. \A t \in Tables(d) : t # p => ReadTable(e, t) = ReadTable(d, t)
    <2>1. \A t \in Tables(d) : t \in Clusters /\ t # FAT_CLUSTER_NUMBER
      BY TableFacts DEF FAT_CLUSTER_NUMBER
    <2> QED
      BY <1>1, <2>1 DEF ReadTable
  <1>5. \A t \in Tables(d) : /\ ReadTable(e, t).self = ReadTable(d, t).self
                             /\ ReadTable(e, t).parent = ReadTable(d, t).parent
    BY <1>1, <1>4
  <1>6. gone.dir => c \in Tables(d) /\ c # ROOT_CLUSTER_NUMBER /\ c # p
    <2>1. c \in Owned(d, old)
      BY <1>2, <1>3, OwnedFacts
    <2>2. c # ROOT_CLUSTER_NUMBER
      BY <1>2, <2>1 DEF IsStore, ChainsApart
    <2>3. gone.dir => c \in Tables(d)
      BY <1>2, <1>3, DirectoryEntryIsTable DEF IsStore
    <2>4. gone.dir => c # p
      BY <1>1
    <2> QED
      BY <2>2, <2>3, <2>4
  \* Nothing else leads to the directory that goes.
  <1>7. ASSUME NEW x \in EntriesOn(d), x # old, gone.dir PROVE ClusterOf(d, x) # c
    <2>1. c \in Owned(d, old) /\ ClusterOf(d, x) \in Owned(d, x)
      BY <1>2, <1>3, OwnedFacts
    <2>2. Owned(d, x) \cap Owned(d, old) = {}
      BY <1>2, <1>7 DEF IsStore, ChainsApart
    <2> QED
      BY <2>1, <2>2
  <1> HIDE DEF old
  <1>8. \A t \in Tables(d) : t # p => Subdirectories(e, t) = Subdirectories(d, t)
    BY <1>4 DEF Subdirectories
  <1>9. \A t \in Tables(d) : t # p => Subdirectories(d, t) \cap Old = {}
    <2> SUFFICES ASSUME NEW t \in Tables(d), t # p, gone.dir, c \in Subdirectories(d, t) PROVE FALSE
      OBVIOUS
    <2>1. PICK x \in EntriesOn(d) : x[1] = t /\ ClusterOf(d, x) = c
      BY SubdirectoryIsEntry
    <2> QED
      BY <1>3, <1>7, <2>1
  <1>10. Subdirectories(e, p) \subseteq Subdirectories(d, p)
         /\ Subdirectories(d, p) \subseteq Subdirectories(e, p) \cup Old
    <2>1. \A m \in D \ {n} : ReadTable(e, p).entries[m] = ReadTable(d, p).entries[m]
      BY <1>1 DEF EntryOf
    <2>2. ReadTable(d, p).entries[n] = gone
      BY DEF EntryOf
    <2> HIDE DEF D, gone
    <2>3. ASSUME NEW x PROVE /\ x \in Subdirectories(e, p) => x \in Subdirectories(d, p)
                             /\ x \in Subdirectories(d, p) => x \in Subdirectories(e, p) \cup Old
      <3>1. ASSUME x \in Subdirectories(e, p) PROVE x \in Subdirectories(d, p)
        <4>1. PICK m \in DOMAIN ReadTable(e, p).entries :
                ReadTable(e, p).entries[m].dir /\ ReadTable(e, p).entries[m].cluster = x
          BY <3>1, SubdirectoriesOf
        <4>2. m \in D /\ ReadTable(d, p).entries[m].dir /\ ReadTable(d, p).entries[m].cluster = x
          BY <1>1, <2>1, <4>1
        <4> QED
          BY <4>2, SubdirectoriesOf DEF D
      <3>2. ASSUME x \in Subdirectories(d, p) PROVE x \in Subdirectories(e, p) \cup Old
        <4>1. PICK m \in D :
                ReadTable(d, p).entries[m].dir /\ ReadTable(d, p).entries[m].cluster = x
          BY <3>2, SubdirectoriesOf DEF D
        <4>2. CASE m = n
          BY <2>2, <4>1, <4>2
        <4>3. CASE m # n
          <5>1. /\ m \in DOMAIN ReadTable(e, p).entries
                /\ ReadTable(e, p).entries[m].dir /\ ReadTable(e, p).entries[m].cluster = x
            BY <1>1, <2>1, <4>1, <4>3
          <5> QED
            BY <5>1, SubdirectoriesOf
        <4> QED
          BY <4>2, <4>3
      <3> QED
        BY <3>1, <3>2
    <2> QED
      BY <2>3
  <1>11. Subdirectories(e, p) \cap Old = {}
    <2> SUFFICES ASSUME gone.dir, c \in Subdirectories(e, p) PROVE FALSE
      OBVIOUS
    <2>1. PICK m \in DOMAIN ReadTable(e, p).entries : ReadTable(e, p).entries[m].cluster = c
      BY SubdirectoriesOf
    <2>2. m \in D \ {n} /\ EntryOf(d, p, m).cluster = c
      BY <1>1, <2>1 DEF EntryOf
    <2> DEFINE x == <<p, m>>
    <2>3. x \in EntriesOn(d)
      BY <1>1, <2>2, EntriesFact
    <2>4. x # old /\ ClusterOf(d, x) = c
      BY <2>2 DEF old, ClusterOf
    <2> QED
      BY <1>7, <2>3, <2>4
  <1> HIDE DEF D, gone, c
  <1>12. Tables(e) \subseteq Tables(d) \ Old
    <2> DEFINE X == Tables(d) \ Old
    <2>1. ROOT_CLUSTER_NUMBER \in X
      BY <1>6, TablesClosed DEF IsStore
    <2>2. \A x \in X : Subdirectories(e, x) \subseteq X
      BY <1>8, <1>9, <1>10, <1>11, TablesClosed DEF IsStore
    <2> HIDE DEF X
    <2>3. Tables(e) \subseteq X
      BY <2>1, <2>2, TablesLeast
    <2> QED
      BY <2>3 DEF X
  <1>13. Tables(d) \subseteq Tables(e) \cup Old
    <2> DEFINE X == Tables(e) \cup Old
    <2>1. ROOT_CLUSTER_NUMBER \in X /\ \A x \in Tables(e) : Subdirectories(e, x) \subseteq X
      BY TablesClosed
    <2>2. \A x \in Old : Subdirectories(d, x) = {}
      BY <1>1, SubdirectoriesOf
    <2>3. \A x \in X \cap Tables(d) : Subdirectories(d, x) \subseteq X
      BY <1>8, <1>10, <2>1, <2>2
    <2> HIDE DEF X
    <2>4. Tables(d) \subseteq X
      BY <2>1, <2>3, TablesLeast DEF IsStore
    <2> QED
      BY <2>4 DEF X
  <1>14. Tables(e) = Tables(d) \ Old
    BY <1>12, <1>13
  <1>15. ASSUME NEW t, NEW m
         PROVE  <<t, m>> \in EntriesOn(e) <=> <<t, m>> \in EntriesOn(d) /\ ~(t = p /\ m = n)
    <2>1. CASE t = p
      <3>1. p \in Tables(e)
        BY <1>1, <1>6, <1>14
      <3> QED
        BY <1>1, <2>1, <3>1, EntriesFact DEF D
    <2>2. CASE t # p /\ t \in Tables(d)
      <3>1. t \in Old => DOMAIN ReadTable(d, t).entries = {}
        BY <1>1
      <3> QED
        BY <1>4, <1>14, <2>2, <3>1, EntriesFact
    <2>3. CASE t \notin Tables(d)
      BY <1>14, <2>3, EntriesFact
    <2> QED
      BY <2>1, <2>2, <2>3
  <1>16. EntriesOn(e) = EntriesOn(d) \ {old}
    <2>1. ASSUME NEW x \in EntriesOn(e) PROVE x \in EntriesOn(d) \ {old}
      <3>1. x = <<x[1], x[2]>>
        BY EntryPairs
      <3>2. <<x[1], x[2]>> \in EntriesOn(d) /\ ~(x[1] = p /\ x[2] = n)
        BY <1>15, <3>1
      <3> QED
        BY <1>3, <3>1, <3>2
    <2>2. ASSUME NEW x \in EntriesOn(d), x # old PROVE x \in EntriesOn(e)
      <3>1. x = <<x[1], x[2]>>
        BY EntryPairs
      <3>2. ~(x[1] = p /\ x[2] = n)
        BY <2>2, <3>1 DEF old
      <3>3. <<x[1], x[2]>> \in EntriesOn(e)
        BY <1>15, <3>1, <3>2
      <3> QED
        BY <3>1, <3>3
    <2> QED
      BY <2>1, <2>2
  <1>17. ASSUME NEW x \in EntriesOn(d), x # old
         PROVE  EntryOf(e, x[1], x[2]) = EntryOf(d, x[1], x[2])
    <2>1. x[1] \in Tables(d) /\ x[2] \in DOMAIN ReadTable(d, x[1]).entries /\ x = <<x[1], x[2]>>
      BY EntryPairs
    <2>2. CASE x[1] = p
      <3>1. x[2] \in D \ {n}
        BY <1>17, <2>1, <2>2 DEF old, D
      <3> QED
        BY <1>1, <2>2, <3>1
    <2>3. CASE x[1] # p
      BY <1>4, <2>1, <2>3 DEF EntryOf
    <2> QED
      BY <2>2, <2>3
  <1> QED
    BY <1>2, <1>5, <1>14, <1>16, <1>17 DEF old, gone, c

\* The other entries show what they showed.
LEMMA RemoveKeepsShown ==
    ASSUME NEW d, NEW e, NEW p, NEW n, IsStore(d), DiskOK(e), Removes(d, e, p, n),
           NEW x \in EntriesOn(d), x # <<p, n>>
    PROVE  /\ ClusterOf(e, x) = ClusterOf(d, x)
           /\ Ends(LoadedFat(e), ClusterOf(e, x))
           /\ Owned(e, x) = Owned(d, x)
           /\ Owned(d, x) \cap Owned(d, <<p, n>>) = {}
           /\ Shown(e, x[1], x[2]) = Shown(d, x[1], x[2])
  <1> DEFINE old == <<p, n>>
             K == Owned(d, old)
  <1>1. /\ p \in Tables(d)
        /\ \A y \in Clusters :
             LoadedFat(e)[y] = IF y \in K THEN EMPTY_ENTRY ELSE LoadedFat(d)[y]
        /\ \A y \in Clusters \ {p, FAT_CLUSTER_NUMBER} : e[y] = d[y]
    BY DEF Removes
  <1>2. EntryOf(e, x[1], x[2]) = EntryOf(d, x[1], x[2]) /\ old \in EntriesOn(d)
    BY RemoveKeeps
  <1> HIDE DEF old
  <1>3. Owned(d, x) \subseteq Clusters /\ \A y \in Owned(d, x) : y \notin {0, 1}
    BY OwnedFacts
  <1>4. Owned(d, x) \cap K = {}
    BY <1>2 DEF IsStore, ChainsApart, old
  <1>5. \A y \in Owned(d, x) : LoadedFat(e)[y] = LoadedFat(d)[y]
    BY <1>1, <1>3, <1>4
  <1>6. ~EntryOf(d, x[1], x[2]).dir => \A y \in Owned(d, x) : e[y] = d[y]
    <2> SUFFICES ASSUME ~EntryOf(d, x[1], x[2]).dir, NEW y \in Owned(d, x) PROVE e[y] = d[y]
      OBVIOUS
    <2>1. y # p
      BY <1>1, FilesAreNotTables
    <2>2. y # FAT_CLUSTER_NUMBER
      BY <1>3 DEF FAT_CLUSTER_NUMBER
    <2> QED
      BY <1>1, <1>3, <2>1, <2>2
  <1>7. Ends(LoadedFat(d), ClusterOf(d, x))
    BY DEF IsStore, ChainsApart
  <1>8. /\ ClusterOf(e, x) = ClusterOf(d, x)
        /\ Ends(LoadedFat(e), ClusterOf(e, x))
        /\ Owned(e, x) = Owned(d, x)
        /\ Shown(e, x[1], x[2]) = Shown(d, x[1], x[2])
    BY <1>2, <1>5, <1>6, <1>7, ShownUnchanged DEF IsStore
  <1> QED
    BY <1>4, <1>8 DEF old

\* After removing an entry the disk is a store.  The table of a directory that goes
\* stays in its cluster: it is empty.
LEMMA RemoveIsStore ==
    ASSUME NEW d, NEW e, NEW p, NEW n, IsStore(d), DiskOK(e), Removes(d, e, p, n)
    PROVE  IsStore(e)
  <1> DEFINE old == <<p, n>>
             gone == EntryOf(d, p, n)
             Old == IF gone.dir THEN {gone.cluster} ELSE {}
             K == Owned(d, old)
  <1>1. /\ p \in Tables(d)
        /\ gone.dir => DOMAIN ReadTable(d, gone.cluster).entries = {}
        /\ \A y \in Clusters :
             LoadedFat(e)[y] = IF y \in K THEN EMPTY_ENTRY ELSE LoadedFat(d)[y]
        /\ \A y \in Clusters \ {p, FAT_CLUSTER_NUMBER} : e[y] = d[y]
        /\ DOMAIN ReadTable(e, FAT_CLUSTER_NUMBER).entries = {}
    BY DEF Removes
  <1>2. /\ old \in EntriesOn(d)
        /\ \A t \in Tables(d) : /\ ReadTable(e, t).self = ReadTable(d, t).self
                                /\ ReadTable(e, t).parent = ReadTable(d, t).parent
        /\ Tables(e) = Tables(d) \ Old
        /\ EntriesOn(e) = EntriesOn(d) \ {old}
        /\ \A x \in EntriesOn(d) : x # old =>
             EntryOf(e, x[1], x[2]) = EntryOf(d, x[1], x[2])
    BY RemoveKeeps
  <1>3. \A x \in EntriesOn(d) : x # old =>
          /\ ClusterOf(e, x) = ClusterOf(d, x)
          /\ Ends(LoadedFat(e), ClusterOf(e, x))
          /\ Owned(e, x) = Owned(d, x)
          /\ Owned(d, x) \cap K = {}
    BY RemoveKeepsShown
  <1>4. gone.cluster \in K
    <2>1. ClusterOf(d, old) = gone.cluster
      BY DEF ClusterOf
    <2> QED
      BY <1>2, <2>1, OwnedFacts
  <1> HIDE DEF old, gone
  <1>5. ChainsApart(e)
    <2>1. /\ \A x \in EntriesOn(d) : /\ Ends(LoadedFat(d), ClusterOf(d, x))
                                     /\ ROOT_CLUSTER_NUMBER \notin Owned(d, x)
          /\ \A x, y \in EntriesOn(d) : x # y => Owned(d, x) \cap Owned(d, y) = {}
          /\ {c \in Clusters : c >= 2 /\ LoadedFat(d)[c] # EMPTY_ENTRY} =
               {ROOT_CLUSTER_NUMBER} \cup UNION {Owned(d, x) : x \in EntriesOn(d)}
      BY DEF IsStore, ChainsApart
    <2>2. \A x \in EntriesOn(e) : /\ Ends(LoadedFat(e), ClusterOf(e, x))
                                  /\ ROOT_CLUSTER_NUMBER \notin Owned(e, x)
      BY <1>2, <1>3, <2>1
    <2>3. \A x, y \in EntriesOn(e) : x # y => Owned(e, x) \cap Owned(e, y) = {}
      BY <1>2, <1>3, <2>1
    <2>4. UNION {Owned(e, x) : x \in EntriesOn(e)} =
            (UNION {Owned(d, x) : x \in EntriesOn(d)}) \ K
      <3>1. ASSUME NEW y, y \in UNION {Owned(e, x) : x \in EntriesOn(e)}
            PROVE  y \in (UNION {Owned(d, x) : x \in EntriesOn(d)}) \ K
        <4>1. PICK x \in EntriesOn(e) : y \in Owned(e, x)
          BY <3>1
        <4> QED
          BY <1>2, <1>3, <4>1
      <3>2. ASSUME NEW y, y \in (UNION {Owned(d, x) : x \in EntriesOn(d)}) \ K
            PROVE  y \in UNION {Owned(e, x) : x \in EntriesOn(e)}
        <4>1. PICK x \in EntriesOn(d) : y \in Owned(d, x)
          BY <3>2
        <4>2. x # old
          BY <3>2, <4>1
        <4> QED
          BY <1>2, <1>3, <4>1, <4>2
      <3> QED
        BY <3>1, <3>2
    <2>5. {c \in Clusters : c >= 2 /\ LoadedFat(e)[c] # EMPTY_ENTRY} =
            {c \in Clusters : c >= 2 /\ LoadedFat(d)[c] # EMPTY_ENTRY} \ K
      <3> HIDE DEF K
      <3>1. \A c \in Clusters : (c >= 2 /\ LoadedFat(e)[c] # EMPTY_ENTRY) <=>
                                  c \notin K /\ (c >= 2 /\ LoadedFat(d)[c] # EMPTY_ENTRY)
        BY <1>1
      <3> QED
        BY <3>1
    <2>6. ROOT_CLUSTER_NUMBER \notin K
      BY <1>2, <2>1
    <2>7. {c \in Clusters : c >= 2 /\ LoadedFat(e)[c] # EMPTY_ENTRY} =
               {ROOT_CLUSTER_NUMBER} \cup UNION {Owned(e, x) : x \in EntriesOn(e)}
      <3> HIDE DEF K
      <3> QED
        BY <2>1, <2>4, <2>5, <2>6
    <2> QED
      BY <2>2, <2>3, <2>7 DEF ChainsApart
  <1>6. Linked(e)
    <2>1. /\ ReadTable(e, ROOT_CLUSTER_NUMBER).self = RootLink
          /\ ReadTable(e, ROOT_CLUSTER_NUMBER).parent = RootLink
      BY <1>2, TablesClosed DEF IsStore, Linked
    <2>2. ASSUME NEW x \in EntriesOn(e), EntryOf(e, x[1], x[2]).dir
          PROVE  /\ ReadTable(e, ClusterOf(e, x)).self = Link(x[2], ClusterOf(e, x))
                 /\ ReadTable(e, ClusterOf(e, x)).parent = ReadTable(e, x[1]).self
      <3>1. /\ x \in EntriesOn(d)
            /\ EntryOf(d, x[1], x[2]).dir /\ ClusterOf(e, x) = ClusterOf(d, x)
        BY <1>2, <1>3, <2>2
      <3>2. ClusterOf(d, x) \in Tables(d) /\ x[1] \in Tables(d)
        BY <3>1, DirectoryEntryIsTable, EntryPairs DEF IsStore
      <3>3. /\ ReadTable(d, ClusterOf(d, x)).self = Link(x[2], ClusterOf(d, x))
            /\ ReadTable(d, ClusterOf(d, x)).parent = ReadTable(d, x[1]).self
        BY <3>1 DEF IsStore, Linked
      <3> QED
        BY <1>2, <3>1, <3>2, <3>3
    <2> QED
      BY <2>1, <2>2 DEF Linked
  <1>7. StaleEmpty(e)
    <2> SUFFICES ASSUME NEW c \in Clusters \ Tables(e) PROVE DOMAIN ReadTable(e, c).entries = {}
      BY DEF StaleEmpty
    <2>1. CASE c = FAT_CLUSTER_NUMBER
      BY <1>1, <2>1
    <2>2. CASE c # FAT_CLUSTER_NUMBER
      <3>1. c \notin Tables(d) \/ c \in Old
        BY <1>2
      <3>2. DOMAIN ReadTable(d, c).entries = {}
        BY <1>1, <3>1 DEF IsStore, StaleEmpty
      <3>3. c # p
        <4>1. n \in DOMAIN ReadTable(d, p).entries
          BY DEF Removes
        <4> QED
          BY <3>2, <4>1
      <3>4. e[c] = d[c]
        BY <1>1, <2>2, <3>3
      <3> QED
        BY <3>2, <3>4 DEF ReadTable
    <2> QED
      BY <2>1, <2>2
  <1>8. Reserved(e)
    <2>1. 0 \notin K /\ 1 \notin K
      BY <1>2, OwnedFacts DEF old
    <2> QED
      BY <1>1, <2>1, Numbers DEF IsStore, Reserved
  <1> QED
    BY <1>5, <1>6, <1>7, <1>8 DEF IsStore

\* It shows one entry less, and none that lay in a directory that goes.
LEMMA RemovedFromView ==
    ASSUME NEW d, NEW e, NEW p, NEW n, IsStore(d), DiskOK(e), Removes(d, e, p, n)
    PROVE  /\ View(e) = View(d) \ {Shown(d, p, n)}
           /\ Shown(d, p, n) \in View(d)
           /\ Shown(d, p, n).dir => \A v \in View(d) : v.in # Shown(d, p, n).id
  <1> DEFINE old == <<p, n>>
             w == Shown(d, p, n)
             gone == EntryOf(d, p, n)
  <1>1. old \in EntriesOn(d) /\ EntriesOn(e) = EntriesOn(d) \ {old}
    BY RemoveKeeps
  <1>2. \A x \in EntriesOn(d) : x # old =>
          /\ ClusterOf(e, x) = ClusterOf(d, x)
          /\ Ends(LoadedFat(e), ClusterOf(e, x))
          /\ Owned(e, x) = Owned(d, x)
          /\ Owned(d, x) \cap Owned(d, old) = {}
          /\ Shown(e, x[1], x[2]) = Shown(d, x[1], x[2])
    BY RemoveKeepsShown
  <1>3. old[1] = p /\ old[2] = n
    OBVIOUS
  <1>4. w \in View(d)
    BY <1>1, <1>3, ViewFact
  <1>5. ASSUME NEW x \in EntriesOn(d), Shown(d, x[1], x[2]) = w PROVE x = old
    <2>1. x[1] = p /\ x[2] = n /\ x = <<x[1], x[2]>>
      BY <1>5, ShownFields, EntryPairs
    <2> QED
      BY <2>1
  <1> HIDE DEF old
  <1>6. View(e) = View(d) \ {w}
    <2>1. ASSUME NEW v PROVE v \in View(e) <=> v \in View(d) /\ v # w
      <3>1. v \in View(e) <=> \E x \in EntriesOn(e) : v = Shown(e, x[1], x[2])
        BY ViewFact
      <3>2. v \in View(d) <=> \E x \in EntriesOn(d) : v = Shown(d, x[1], x[2])
        BY ViewFact
      <3>3. w = Shown(d, old[1], old[2])
        BY <1>3
      <3> HIDE DEF w
      <3> QED
        BY <1>1, <1>2, <1>5, <3>1, <3>2, <3>3
    <2> QED
      BY <2>1
  <1>7. ASSUME w.dir, NEW v \in View(d) PROVE v.in # w.id
    <2>1. PICK x \in EntriesOn(d) : v = Shown(d, x[1], x[2])
      BY ViewFact
    <2>2. v.in = x[1] /\ x[2] \in DOMAIN ReadTable(d, x[1]).entries
      BY <2>1, ShownFields, EntryPairs
    <2>3. gone.dir /\ w.id = gone.cluster
      BY <1>7, ShownFields
    <2>4. DOMAIN ReadTable(d, gone.cluster).entries = {}
      BY <2>3 DEF Removes
    <2> QED
      BY <2>2, <2>3, <2>4
  <1> QED
    BY <1>4, <1>6, <1>7

-----------------------------------------------------------------------------
\* What the operations write, read back.

\* A cluster that is not written keeps what it holds.
LEMMA Unwritten ==
    ASSUME NEW writes, NEW k \in Nat, NEW c \in Clusters, \A i \in 1 .. k : writes[i].at # c
    PROVE  After(writes, k)[c] = disk[c]
  <1>1. Written(writes, k, c) = {}
    BY DEF Written
  <1> QED
    BY <1>1 DEF After

\* add_entry's table, read back.
LEMMA WithEntryReads ==
    ASSUME NEW p, NEW n, NEW entry, disk'[p] = WithEntry(p, n, entry).put
    PROVE  /\ ReadTable(disk', p).self = ReadTable(disk, p).self
           /\ ReadTable(disk', p).parent = ReadTable(disk, p).parent
           /\ DOMAIN ReadTable(disk', p).entries = DOMAIN ReadTable(disk, p).entries \cup {n}
           /\ \A m \in DOMAIN ReadTable(disk, p).entries :
                m # n => EntryOf(disk', p, m) = EntryOf(disk, p, m)
           /\ EntryOf(disk', p, n) = entry
  <1> DEFINE t == ReadTable(disk, p)
             D == DOMAIN t.entries
             f == [m \in D \cup {n} |-> IF m = n THEN entry ELSE t.entries[m]]
  <1>1. disk'[p] = Table(t.self, t.parent, f)
    BY DEF WithEntry
  <1>2. /\ DOMAIN f = D \cup {n} /\ f[n] = entry
        /\ \A m \in D : m # n => f[m] = t.entries[m]
    OBVIOUS
  <1> HIDE DEF f, t
  <1>3. ReadTable(disk', p) = disk'[p]
    BY <1>1 DEF ReadTable, Table
  <1>4. ReadTable(disk', p).self = t.self /\ ReadTable(disk', p).parent = t.parent
        /\ ReadTable(disk', p).entries = f
    BY <1>1, <1>3 DEF Table
  <1> QED
    BY <1>2, <1>4 DEF EntryOf, t

\* remove_entry's table, read back.
LEMMA WithoutEntryReads ==
    ASSUME NEW p, NEW n, disk'[p] = WithoutEntry(p, n).put
    PROVE  /\ ReadTable(disk', p).self = ReadTable(disk, p).self
           /\ ReadTable(disk', p).parent = ReadTable(disk, p).parent
           /\ DOMAIN ReadTable(disk', p).entries = DOMAIN ReadTable(disk, p).entries \ {n}
           /\ \A m \in DOMAIN ReadTable(disk, p).entries \ {n} :
                EntryOf(disk', p, m) = EntryOf(disk, p, m)
  <1> DEFINE t == ReadTable(disk, p)
             D == DOMAIN t.entries
             f == [m \in D \ {n} |-> t.entries[m]]
  <1>1. disk'[p] = Table(t.self, t.parent, f)
    BY DEF WithoutEntry
  <1>2. DOMAIN f = D \ {n} /\ \A m \in D \ {n} : f[m] = t.entries[m]
    OBVIOUS
  <1> HIDE DEF f, t
  <1>3. ReadTable(disk', p) = disk'[p]
    BY <1>1 DEF ReadTable, Table
  <1>4. ReadTable(disk', p).self = t.self /\ ReadTable(disk', p).parent = t.parent
        /\ ReadTable(disk', p).entries = f
    BY <1>1, <1>3 DEF Table
  <1> QED
    BY <1>2, <1>4 DEF EntryOf, t

\* A cluster that holds no table, and a new table, have no entries.
LEMMA NoEntriesRead ==
    ASSUME NEW e, NEW c
    PROVE  /\ e[c].kind # "table" => DOMAIN ReadTable(e, c).entries = {}
           /\ \A self, parent :
                e[c] = Table(self, parent, NoEntries) =>
                  /\ ReadTable(e, c).self = self /\ ReadTable(e, c).parent = parent
                  /\ DOMAIN ReadTable(e, c).entries = {}
  <1>1. DOMAIN NoEntries = {}
    BY DEF NoEntries
  <1> QED
    BY <1>1 DEF ReadTable, Table

\* A disk without an entry in its root.
LEMMA NoEntriesShown ==
    ASSUME NEW d, DiskOK(d), DOMAIN ReadTable(d, ROOT_CLUSTER_NUMBER).entries = {}
    PROVE  Tables(d) = {ROOT_CLUSTER_NUMBER} /\ EntriesOn(d) = {} /\ View(d) = {}
  <1>1. Subdirectories(d, ROOT_CLUSTER_NUMBER) = {}
    BY SubdirectoriesOf
  <1>2. Tables(d) = {ROOT_CLUSTER_NUMBER}
    <2>1. Tables(d) \subseteq {ROOT_CLUSTER_NUMBER}
      BY <1>1, TablesLeast
    <2> QED
      BY <2>1, TablesClosed
  <1>3. \A x \in EntriesOn(d) : FALSE
    BY <1>2, EntryPairs
  <1>4. \A v \in View(d) : FALSE
    BY <1>3, ViewFact
  <1> QED
    BY <1>2, <1>3, <1>4

\* The disk create_fat32 leaves.
LEMMA FreshIsStore ==
    ASSUME NEW d, DiskOK(d), d[ROOT_CLUSTER_NUMBER] = RootTable,
           d[FAT_CLUSTER_NUMBER] = FatContent(FreshFat),
           \A c \in Clusters \ {ROOT_CLUSTER_NUMBER} : DOMAIN ReadTable(d, c).entries = {}
    PROVE  IsStore(d) /\ View(d) = {}
  <1>1. /\ ReadTable(d, ROOT_CLUSTER_NUMBER).self = RootLink
        /\ ReadTable(d, ROOT_CLUSTER_NUMBER).parent = RootLink
        /\ DOMAIN ReadTable(d, ROOT_CLUSTER_NUMBER).entries = {}
    BY NoEntriesRead DEF RootTable
  <1>2. Tables(d) = {ROOT_CLUSTER_NUMBER} /\ EntriesOn(d) = {} /\ View(d) = {}
    BY <1>1, NoEntriesShown
  <1>3. LoadedFat(d) = FreshFat
    BY DEF LoadedFat, FatContent
  <1>4. \A c \in Clusters : c >= 2 => (FreshFat[c] # EMPTY_ENTRY <=> c = ROOT_CLUSTER_NUMBER)
    <2>1. END_OF_FILE # EMPTY_ENTRY
      BY EndIsNoCluster
    <2>2. EmptyFat = [c \in Clusters |-> EMPTY_ENTRY]
      BY DEF EmptyFat
    <2>3. \A c \in Clusters : c >= 2 => c # 0 /\ c # 1
      BY Numbers DEF Clusters
    <2>4. \A c \in Clusters : c >= 2 => FreshFat[c] = IF c = ROOT_CLUSTER_NUMBER THEN END_OF_FILE ELSE EMPTY_ENTRY
      BY <2>2, <2>3 DEF FreshFat, ROOT_CLUSTER_NUMBER
    <2> QED
      BY <2>1, <2>4
  <1>5. ChainsApart(d)
    <2>1. {c \in Clusters : c >= 2 /\ LoadedFat(d)[c] # EMPTY_ENTRY} = {ROOT_CLUSTER_NUMBER}
      BY <1>3, <1>4, RootIsCluster DEF ROOT_CLUSTER_NUMBER
    <2> QED
      BY <1>2, <2>1 DEF ChainsApart
  <1>6. Reserved(d)
    BY <1>3, Numbers DEF Reserved, FreshFat, EmptyFat, ROOT_CLUSTER_NUMBER
  <1> QED
    BY <1>1, <1>2, <1>5, <1>6 DEF IsStore, Linked, StaleEmpty

-----------------------------------------------------------------------------
\* Each operation is one of these steps.

\* The invariant: a formatted disk is a store, whether the machine is on or off.
OwnershipInv ==
    /\ Fat32Inv
    /\ power # "hung"
    /\ IF disk[BOOT_SECTOR] = Signature THEN IsStore(disk)
       ELSE power = "off" /\ disk = [c \in Clusters |-> Blank]

\* What programs and the disk must do, and what the power must do besides.
WellUsed == "disk_full" \notin Misuse /\ "make_root" \notin Misuse
Undisturbed == Misuse \subseteq {"any_parent"}

\* A step forgets, or the power fails in it.
LEMMA StepForgets ==
    ASSUME [Next]_vars
    PROVE  \/ losses' = losses /\ settled' \subseteq settled
           \/ /\ "power_loss" \in Misuse /\ losses < MaxLosses /\ losses' = losses + 1
              /\ settled' \subseteq View(disk)
  <1> DEFINE Goal == \/ losses' = losses /\ settled' \subseteq settled
                     \/ /\ "power_loss" \in Misuse /\ losses < MaxLosses /\ losses' = losses + 1
                        /\ settled' \subseteq View(disk)
  <1> SUFFICES Goal
    OBVIOUS
  <1>1. ASSUME NEW w, NEW f, NEW gone, Perform(w, f, gone) PROVE Goal
    BY <1>1 DEF Perform
  <1>2. ASSUME NEW w, NEW gone, Hang(w, gone) PROVE Goal
    BY <1>2 DEF Hang
  <1>3. ASSUME losses' = losses, settled' = settled PROVE Goal
    BY <1>3
  <1> HIDE DEF Goal
  <1>4. CASE Create
    BY <1>1, <1>4 DEF Create
  <1>5. CASE Load \/ SwitchOff \/ UNCHANGED vars
    BY <1>3, <1>5 DEF Load, SwitchOff, vars
  <1>6. CASE Next
    <2>1. CASE Create \/ Load \/ SwitchOff
      BY <1>4, <1>5, <2>1
    <2>2. CASE \E p \in Clusters, n \in Names, size \in Sizes :
                 p \in Parents /\ ReadHangs(p, n, size)
      BY <1>2, <2>2 DEF ReadHangs
    <2>3. CASE \E p \in Clusters, n \in Names : p \in Parents /\ WriteDirectory(p, n)
      BY <1>1, <2>3 DEF WriteDirectory
    <2>4. CASE \E p \in Clusters, n \in Names, size \in Sizes, payload \in Payloads :
                 p \in Parents /\ WriteFile(p, n, size, payload)
      BY <1>1, <2>4 DEF WriteFile
    <2>5. CASE \E p \in Clusters, n \in Names : p \in Parents /\ Delete(p, n)
      <3>1. PICK p \in Clusters, n \in Names : Delete(p, n)
        BY <2>5
      <3> QED
        BY <1>1, <1>2, <3>1 DEF Delete
    <2> QED
      BY <1>6, <2>1, <2>2, <2>3, <2>4, <2>5 DEF Next
  <1> QED
    BY <1>5, <1>6

\* Without a power loss losses are not counted.
LEMMA Uninterrupted ==
    ASSUME Undisturbed, [Next]_vars PROVE WellUsed /\ losses' = losses
  <1>1. WellUsed /\ "power_loss" \notin Misuse
    BY DEF Undisturbed, WellUsed
  <1> QED
    BY <1>1, StepForgets

\* Without a power loss every write of an operation reaches the disk.
LEMMA PerformsAll ==
    ASSUME OwnershipInv, losses' = losses, NEW w, NEW f, NEW gone, Perform(w, f, gone)
    PROVE  disk' = After(w, Len(w)) /\ power' = "on" /\ settled' = settled \ gone
  <1>1. losses \in Nat
    BY Numbers DEF OwnershipInv, Fat32Inv
  <1>2. losses' # losses + 1
    BY <1>1
  <1> QED
    BY <1>2 DEF Perform

\* Formatting: three writes, in the order of create_fat32.
LEMMA CreateStore ==
    ASSUME WellUsed, losses' = losses, OwnershipInv, Create
    PROVE  /\ disk'[BOOT_SECTOR] = Signature /\ power' = "on"
           /\ View(disk) = {}
           /\ IsStore(disk') /\ View(disk') = {}
  <1> DEFINE w == <<[at |-> BOOT_SECTOR, put |-> Signature],
                    [at |-> ROOT_CLUSTER_NUMBER, put |-> RootTable],
                    [at |-> FAT_CLUSTER_NUMBER, put |-> FatContent(FreshFat)]>>
  <1>1. disk = [c \in Clusters |-> Blank] /\ DiskOK(disk)
    BY DEF Create, OwnershipInv, Fat32Inv
  <1>2. Fat32Inv'
    BY CreatePreserves DEF OwnershipInv
  <1>3. Perform(w, FreshFat, {}) /\ Len(w) = 3
    BY DEF Create
  <1>4. /\ w[1].at = 0 /\ w[1].put = Signature
        /\ w[2].at = 2 /\ w[2].put = RootTable
        /\ w[3].at = 1 /\ w[3].put = FatContent(FreshFat)
    BY DEF BOOT_SECTOR, ROOT_CLUSTER_NUMBER, FAT_CLUSTER_NUMBER
  <1> HIDE DEF w
  <1>5. disk' = After(w, 3) /\ power' = "on"
    BY <1>3, PerformsAll
  <1>6. \A i \in 1 .. 3 : i = 1 \/ i = 2 \/ i = 3
    OBVIOUS
  <1>7. {0, 1, 2} \subseteq Clusters
    BY Numbers
  <1>8. disk'[0] = Signature
    <2>1. \A j \in 1 .. 3 : j > 1 => w[j].at # w[1].at
      BY <1>4, <1>6
    <2> QED
      BY <1>4, <1>5, <1>7, <2>1, LastWriteStands
  <1>9. disk'[2] = RootTable
    <2>1. \A j \in 1 .. 3 : j > 2 => w[j].at # w[2].at
      BY <1>4, <1>6
    <2> QED
      BY <1>4, <1>5, <1>7, <2>1, LastWriteStands
  <1>10. disk'[1] = FatContent(FreshFat)
    <2>1. \A j \in 1 .. 3 : j > 3 => w[j].at # w[3].at
      OBVIOUS
    <2> QED
      BY <1>4, <1>5, <1>7, <2>1, LastWriteStands
  <1>11. \A c \in Clusters \ {0, 1, 2} : disk'[c] = Blank
    <2> TAKE c \in Clusters \ {0, 1, 2}
    <2>1. \A i \in 1 .. 3 : w[i].at # c
      BY <1>4, <1>6
    <2> QED
      BY <1>1, <1>5, <2>1, Unwritten
  <1>12. \A c \in Clusters \ {ROOT_CLUSTER_NUMBER} : DOMAIN ReadTable(disk', c).entries = {}
    <2> TAKE c \in Clusters \ {ROOT_CLUSTER_NUMBER}
    <2>1. disk'[c].kind # "table"
      BY <1>8, <1>10, <1>11 DEF ROOT_CLUSTER_NUMBER, Signature, FatContent, Blank
    <2> QED
      BY <2>1, NoEntriesRead
  <1>13. View(disk) = {}
    <2>1. disk[ROOT_CLUSTER_NUMBER].kind # "table"
      BY <1>1, RootIsCluster DEF Blank
    <2> QED
      BY <1>1, <2>1, NoEntriesRead, NoEntriesShown
  <1>14. DiskOK(disk')
    BY <1>2 DEF Fat32Inv
  <1> QED
    BY <1>5, <1>8, <1>9, <1>10, <1>12, <1>13, <1>14, FreshIsStore
       DEF BOOT_SECTOR, ROOT_CLUSTER_NUMBER, FAT_CLUSTER_NUMBER

\* What WriteCode and Affordable let a write rely on.
LEMMA WriteRelies ==
    ASSUME WellUsed, OwnershipInv, power = "on", NEW p, NEW n, WriteCode(p, n) = 0,
           NEW clusters \in Nat, clusters > 0, Affordable(clusters)
    PROVE  /\ IsStore(disk) /\ fat = LoadedFat(disk) /\ fat \in [Clusters -> FatValues]
           /\ p \in Tables(disk) /\ n \notin DOMAIN ReadTable(disk, p).entries
           /\ clusters <= Cardinality(EmptyClusters(fat))
           /\ EmptyClusters(fat) # {}
  <1>1. IsStore(disk) /\ fat = LoadedFat(disk) /\ fat \in [Clusters -> FatValues]
    BY DEF OwnershipInv, Fat32Inv, FatCached
  <1>2. IsDirectory(p) /\ n \notin DOMAIN ReadTable(disk, p).entries
    BY DEF WriteCode, Has
  <1>3. p \in Tables(disk)
    BY <1>1, <1>2, IsDirectoryKnows
  <1>4. clusters <= Cardinality(EmptyClusters(fat))
    BY DEF Affordable, WellUsed
  <1>5. EmptyClusters(fat) # {}
    BY <1>4, EmptyClusterFacts
  <1> QED
    BY <1>1, <1>2, <1>3, <1>4, <1>5

\* mkdir, the branch of write() for buffer_size 0, adds an entry with one cluster:
\* its writes are the parent's table, the FAT and the new table.
LEMMA WriteDirectoryAdds ==
    ASSUME WellUsed, losses' = losses, OwnershipInv, NEW p \in Clusters, NEW n \in Names, WriteDirectory(p, n)
    PROVE  LET c == GetEmptyCluster(fat)
           IN  /\ IsStore(disk) /\ power' = "on" /\ disk'[BOOT_SECTOR] = disk[BOOT_SECTOR]
               /\ Adds(disk, disk', p, n, Entry(TRUE, c, 0), <<c>>)
  <1> DEFINE c == GetEmptyCluster(fat)
             entry == Entry(TRUE, c, 0)
             parent == ReadTable(disk, p).self
             newFat == [LoadedFat(disk) EXCEPT ![c] = END_OF_FILE]
             w == <<WithEntry(p, n, entry),
                    [at |-> FAT_CLUSTER_NUMBER, put |-> FatContent(newFat)],
                    [at |-> c, put |-> Table(Link(n, c), parent, NoEntries)]>>
  <1>1. Perform(w, newFat, {}) /\ Len(w) = 3
    BY DEF WriteDirectory, WellUsed
  <1>2. power = "on" /\ WriteCode(p, n) = 0 /\ Affordable(1)
    BY DEF WriteDirectory
  <1>3. /\ IsStore(disk) /\ fat = LoadedFat(disk) /\ fat \in [Clusters -> FatValues]
        /\ p \in Tables(disk) /\ n \notin DOMAIN ReadTable(disk, p).entries
        /\ EmptyClusters(fat) # {}
    BY <1>2, WriteRelies
  <1>4. c \in Clusters /\ fat[c] = EMPTY_ENTRY /\ c >= 2 /\ c \notin {0, 1}
    <2>1. c \in EmptyClusters(fat)
      BY <1>3, EmptyClusterIsEmpty
    <2> QED
      BY <2>1, EmptyClusterFacts
  <1>5. p \in Clusters /\ p \notin {0, 1} /\ p # c
    BY <1>3, <1>4, TableFacts
  <1>6. w[1].at = p /\ w[1].put = WithEntry(p, n, entry).put
    BY DEF WithEntry
  <1>7. /\ w[2].at = 1 /\ w[2].put = FatContent(newFat)
        /\ w[3].at = c /\ w[3].put = Table(Link(n, c), parent, NoEntries)
    BY DEF FAT_CLUSTER_NUMBER
  <1> HIDE DEF w, newFat, parent, c, entry
  <1>8. disk' = After(w, 3) /\ power' = "on"
    BY <1>1, PerformsAll
  <1>9. \A i \in 1 .. 3 : i = 1 \/ i = 2 \/ i = 3
    OBVIOUS
  <1>10. disk'[p] = WithEntry(p, n, entry).put
    <2>1. \A j \in 1 .. 3 : j > 1 => w[j].at # w[1].at
      BY <1>5, <1>6, <1>7, <1>9
    <2> QED
      BY <1>5, <1>6, <1>8, <2>1, LastWriteStands
  <1>11. disk'[1] = FatContent(newFat)
    <2>1. \A j \in 1 .. 3 : j > 2 => w[j].at # w[2].at
      BY <1>4, <1>7, <1>9
    <2> QED
      BY <1>7, <1>8, <2>1, LastWriteStands, Numbers
  <1>12. disk'[c] = Table(Link(n, c), parent, NoEntries)
    <2>1. \A j \in 1 .. 3 : j > 3 => w[j].at # w[3].at
      OBVIOUS
    <2> QED
      BY <1>4, <1>7, <1>8, <2>1, LastWriteStands
  <1>13. \A y \in Clusters \ {p, 1, c} : disk'[y] = disk[y]
    <2> TAKE y \in Clusters \ {p, 1, c}
    <2>1. \A i \in 1 .. 3 : w[i].at # y
      BY <1>6, <1>7, <1>9
    <2> QED
      BY <1>8, <2>1, Unwritten
  <1>14. LoadedFat(disk') = newFat
    BY <1>11 DEF LoadedFat, FatContent, FAT_CLUSTER_NUMBER
  <1>15. /\ newFat[c] = END_OF_FILE
         /\ \A y \in Clusters \ {c} : newFat[y] = LoadedFat(disk)[y]
    BY <1>3, <1>4 DEF newFat
  <1> DEFINE s == <<c>>
  <1>16. /\ s \in Seq(Clusters) /\ Len(s) = 1 /\ s[1] = c
         /\ {s[i] : i \in 1 .. Len(s)} = {c}
    BY <1>4
  <1>17. IsPath(newFat, s)
    <2> HIDE DEF s
    <2>1. 1 \in 1 .. CLUSTER_MAP_SIZE /\ 1 .. 1 - 1 = {}
      BY Numbers
    <2> QED
      BY <1>15, <1>16, <2>1 DEF IsPath
  <1>18. entry.dir = TRUE /\ entry.cluster = c
    BY DEF entry, Entry
  <1>19. /\ DOMAIN ReadTable(disk', 1).entries = {}
         /\ DOMAIN ReadTable(disk', c).entries = {}
         /\ ReadTable(disk', c).self = Link(n, c)
         /\ ReadTable(disk', c).parent = ReadTable(disk, p).self
    <2>1. disk'[1].kind # "table"
      BY <1>11 DEF FatContent
    <2> QED
      BY <1>12, <2>1, NoEntriesRead DEF parent
  <1>20. /\ ReadTable(disk', p).self = ReadTable(disk, p).self
         /\ ReadTable(disk', p).parent = ReadTable(disk, p).parent
         /\ DOMAIN ReadTable(disk', p).entries = DOMAIN ReadTable(disk, p).entries \cup {n}
         /\ \A m \in DOMAIN ReadTable(disk, p).entries :
              EntryOf(disk', p, m) = EntryOf(disk, p, m)
         /\ EntryOf(disk', p, n) = entry
    <2>1. /\ ReadTable(disk', p).self = ReadTable(disk, p).self
          /\ ReadTable(disk', p).parent = ReadTable(disk, p).parent
          /\ DOMAIN ReadTable(disk', p).entries = DOMAIN ReadTable(disk, p).entries \cup {n}
          /\ \A m \in DOMAIN ReadTable(disk, p).entries :
               m # n => EntryOf(disk', p, m) = EntryOf(disk, p, m)
          /\ EntryOf(disk', p, n) = entry
      BY ONLY <1>10, WithEntryReads
    <2> QED
      BY ONLY <1>3, <2>1
  <1> HIDE DEF s
  <1>21. Adds(disk, disk', p, n, entry, s)
    <2> DEFINE K == {s[i] : i \in 1 .. Len(s)}
    <2>1. K = {c}
      BY <1>16
    <2>2. \A y \in K : y >= 2 /\ LoadedFat(disk)[y] = EMPTY_ENTRY
      BY <1>3, <1>4, <2>1
    <2>3. \A y \in Clusters \ K : LoadedFat(disk')[y] = LoadedFat(disk)[y]
      BY <1>14, <1>15, <2>1
    <2>4. \A y \in Clusters \ ({p, FAT_CLUSTER_NUMBER} \cup K) : disk'[y] = disk[y]
      BY <1>13, <2>1 DEF FAT_CLUSTER_NUMBER
    <2>5. \A y \in {FAT_CLUSTER_NUMBER} \cup K : DOMAIN ReadTable(disk', y).entries = {}
      BY <1>19, <2>1 DEF FAT_CLUSTER_NUMBER
    <2>6. IsPath(LoadedFat(disk'), s) /\ entry.cluster = s[1] /\ entry.dir \in BOOLEAN
      BY <1>14, <1>16, <1>17, <1>18
    <2>7. /\ ReadTable(disk', s[1]).self = Link(n, s[1])
          /\ ReadTable(disk', s[1]).parent = ReadTable(disk, p).self
      BY <1>16, <1>19
    <2> HIDE DEF K
    <2> QED
      BY <1>3, <1>20, <2>2, <2>3, <2>4, <2>5, <2>6, <2>7 DEF Adds, K
  <1>22. disk'[BOOT_SECTOR] = disk[BOOT_SECTOR]
    BY <1>4, <1>5, <1>13, Numbers DEF BOOT_SECTOR
  <1> QED
    BY <1>3, <1>8, <1>21, <1>22 DEF s, c, entry

\* delete() removes an entry: its writes are the parent's table and the FAT.
LEMMA DeleteRemoves ==
    ASSUME WellUsed, losses' = losses, OwnershipInv, NEW p \in Clusters, NEW n \in Names, Delete(p, n)
    PROVE  /\ IsStore(disk) /\ power' = "on" /\ disk'[BOOT_SECTOR] = disk[BOOT_SECTOR]
           /\ Removes(disk, disk', p, n)
  <1> DEFINE old == <<p, n>>
             gone == EntryOf(disk, p, n)
             c == gone.cluster
             newFat == ClearCluster(fat, c)
             w == <<WithoutEntry(p, n), [at |-> FAT_CLUSTER_NUMBER, put |-> FatContent(newFat)]>>
  <1>1. IsStore(disk) /\ fat = LoadedFat(disk) /\ fat \in [Clusters -> FatValues] /\ power = "on"
    BY DEF Delete, OwnershipInv, Fat32Inv, FatCached
  <1>2. n \in DOMAIN ReadTable(disk, p).entries /\ ~NotEmptyDirectory(c)
    BY DEF Delete, DeleteCode, Has
  <1>3. p \in Tables(disk) /\ old \in EntriesOn(disk)
    BY <1>1, <1>2, HasMeansTable
  <1>4. old[1] = p /\ old[2] = n /\ ClusterOf(disk, old) = c
    BY DEF ClusterOf
  <1>5. Ends(fat, c)
    BY <1>1, <1>3, <1>4 DEF IsStore, ChainsApart
  <1>6. \E g : Perform(w, newFat, g)
    BY <1>5 DEF Delete
  <1>7. gone.dir => DOMAIN ReadTable(disk, c).entries = {}
    <2> SUFFICES ASSUME gone.dir PROVE DOMAIN ReadTable(disk, c).entries = {}
      OBVIOUS
    <2>1. c \in Tables(disk)
      BY <1>1, <1>3, <1>4, DirectoryEntryIsTable DEF IsStore
    <2>2. IsDirectory(c)
      BY <1>1, <2>1, IsDirectoryKnows
    <2> QED
      BY <1>2, <2>2 DEF NotEmptyDirectory
  <1>8. Owned(disk, old) = Range(Chain(fat, c))
    BY <1>1, <1>4 DEF Owned
  <1>9. Len(w) = 2 /\ w[1].at = p /\ w[1].put = WithoutEntry(p, n).put
    BY DEF WithoutEntry
  <1>10. w[2].at = 1 /\ w[2].put = FatContent(newFat)
    BY DEF FAT_CLUSTER_NUMBER
  <1>11. p \in Clusters /\ p \notin {0, 1}
    BY <1>1, <1>3, TableFacts
  <1>12. \A y \in Clusters : newFat[y] = IF y \in Owned(disk, old) THEN EMPTY_ENTRY ELSE LoadedFat(disk)[y]
    BY <1>1, <1>8 DEF ClearCluster
  <1> HIDE DEF w, newFat, c, gone, old
  <1>13. disk' = After(w, 2) /\ power' = "on"
    BY <1>6, <1>9, PerformsAll
  <1>14. \A i \in 1 .. 2 : i = 1 \/ i = 2
    OBVIOUS
  <1>15. disk'[p] = WithoutEntry(p, n).put
    <2>1. \A j \in 1 .. 2 : j > 1 => w[j].at # w[1].at
      BY <1>9, <1>10, <1>11, <1>14
    <2> QED
      BY <1>9, <1>11, <1>13, <2>1, LastWriteStands
  <1>16. disk'[1] = FatContent(newFat)
    <2>1. \A j \in 1 .. 2 : j > 2 => w[j].at # w[2].at
      OBVIOUS
    <2> QED
      BY <1>10, <1>13, <2>1, LastWriteStands, Numbers
  <1>17. \A y \in Clusters \ {p, FAT_CLUSTER_NUMBER} : disk'[y] = disk[y]
    <2> TAKE y \in Clusters \ {p, FAT_CLUSTER_NUMBER}
    <2>1. \A i \in 1 .. 2 : w[i].at # y
      BY <1>9, <1>10, <1>14 DEF FAT_CLUSTER_NUMBER
    <2> QED
      BY <1>13, <2>1, Unwritten
  <1>18. LoadedFat(disk') = newFat
    BY <1>16 DEF LoadedFat, FatContent, FAT_CLUSTER_NUMBER
  <1>19. DOMAIN ReadTable(disk', FAT_CLUSTER_NUMBER).entries = {}
    BY <1>16, NoEntriesRead DEF FatContent, FAT_CLUSTER_NUMBER
  <1>20. /\ ReadTable(disk', p).self = ReadTable(disk, p).self
         /\ ReadTable(disk', p).parent = ReadTable(disk, p).parent
         /\ DOMAIN ReadTable(disk', p).entries = DOMAIN ReadTable(disk, p).entries \ {n}
         /\ \A m \in DOMAIN ReadTable(disk, p).entries \ {n} :
              EntryOf(disk', p, m) = EntryOf(disk, p, m)
    BY ONLY <1>15, WithoutEntryReads
  <1>21. Removes(disk, disk', p, n)
    <2>1. \A y \in Clusters :
            LoadedFat(disk')[y] = IF y \in Owned(disk, old) THEN EMPTY_ENTRY ELSE LoadedFat(disk)[y]
      BY <1>12, <1>18
    <2> QED
      BY <1>2, <1>3, <1>7, <1>17, <1>19, <1>20, <2>1 DEF Removes, old, gone, c
  <1>22. disk'[BOOT_SECTOR] = disk[BOOT_SECTOR]
    BY <1>11, <1>17, Numbers DEF BOOT_SECTOR, FAT_CLUSTER_NUMBER
  <1> QED
    BY <1>1, <1>13, <1>21, <1>22

\* The writes of a file: the parent's table; then in turn i the i-th cluster of
\* the chain and the FAT.
LEMMA FileWritesSequence ==
    ASSUME NEW needed \in Nat, needed > 0, NEW payload, NEW first
    PROVE  LET w == <<first>> \o FileWrites(needed, payload)
           IN  /\ Len(w) = 2 * needed + 1
               /\ w[1] = first
               /\ \A i \in 1 .. needed :
                    /\ w[2 * i].at = NewChain(needed)[i]
                    /\ w[2 * i].put = Block(payload, i)
                    /\ w[2 * i + 1].at = FAT_CLUSTER_NUMBER
                    /\ w[2 * i + 1].put = FatContent(FileLoop(needed)[i].map)
  <1> DEFINE f == FileWrites(needed, payload)
             w == <<first>> \o f
             S == {first} \cup {f[k] : k \in 1 .. 2 * needed}
  <1>1. /\ f = [k \in 1 .. 2 * needed |-> f[k]] /\ 2 * needed \in Nat
        /\ \A k \in 1 .. 2 * needed :
             f[k] = IF k % 2 = 1
                      THEN [at |-> FileLoop(needed)[(k + 1) \div 2 - 1].cluster,
                            put |-> Block(payload, (k + 1) \div 2)]
                      ELSE [at |-> FAT_CLUSTER_NUMBER,
                            put |-> FatContent(FileLoop(needed)[(k + 1) \div 2].map)]
    BY DEF FileWrites
  <1> HIDE DEF f
  <1>2. f \in Seq(S) /\ Len(f) = 2 * needed
    <2>1. f \in [1 .. 2 * needed -> S]
      BY <1>1
    <2> QED
      BY <1>1, <2>1
  <1>3. <<first>> \in Seq(S) /\ Len(<<first>>) = 1
    OBVIOUS
  <1> HIDE DEF S
  <1>4. /\ Len(w) = 2 * needed + 1
        /\ \A i \in 1 .. 2 * needed + 1 : w[i] = IF i <= 1 THEN <<first>>[i] ELSE f[i - 1]
    <2> DEFINE u == <<first>>
    <2>1. u \in Seq(S) /\ Len(u) = 1
      BY <1>3
    <2> HIDE DEF u
    <2>2. /\ Len(u \o f) = Len(u) + Len(f)
          /\ \A i \in 1 .. Len(u) + Len(f) :
               (u \o f)[i] = IF i <= Len(u) THEN u[i] ELSE f[i - Len(u)]
      BY <1>2, <2>1, ConcatProperties, Zenon
    <2>3. Len(u) + Len(f) = 2 * needed + 1
      BY <1>1, <1>2, <2>1
    <2> QED
      BY <2>1, <2>2, <2>3 DEF u
  <1>5. w[1] = first
    <2>1. 1 \in 1 .. 2 * needed + 1 /\ 1 <= 1
      OBVIOUS
    <2> HIDE DEF w
    <2> QED
      BY <1>4, <2>1
  <1> HIDE DEF w
  <1>6. ASSUME NEW i \in 1 .. needed
        PROVE  /\ w[2 * i].at = NewChain(needed)[i]
               /\ w[2 * i].put = Block(payload, i)
               /\ w[2 * i + 1].at = FAT_CLUSTER_NUMBER
               /\ w[2 * i + 1].put = FatContent(FileLoop(needed)[i].map)
    <2> DEFINE k == 2 * i - 1
               l == 2 * i
    <2>1. /\ 2 * i \in 1 .. 2 * needed + 1 /\ ~(2 * i <= 1) /\ 2 * i - 1 = k
          /\ 2 * i + 1 \in 1 .. 2 * needed + 1 /\ ~(2 * i + 1 <= 1) /\ (2 * i + 1) - 1 = l
      OBVIOUS
    <2>2. /\ k \in 1 .. 2 * needed /\ k % 2 = 1 /\ (k + 1) \div 2 = i
          /\ l \in 1 .. 2 * needed /\ l % 2 # 1 /\ (l + 1) \div 2 = i
      OBVIOUS
    <2> HIDE DEF k, l
    <2>3. w[2 * i] = f[k] /\ w[2 * i + 1] = f[l]
      BY <1>4, <2>1
    <2>4. f[k] = [at |-> FileLoop(needed)[i - 1].cluster, put |-> Block(payload, i)]
      BY <1>1, <2>2
    <2>5. f[l] = [at |-> FAT_CLUSTER_NUMBER, put |-> FatContent(FileLoop(needed)[i].map)]
      BY <1>1, <2>2
    <2>6. NewChain(needed)[i] = FileLoop(needed)[i - 1].cluster
      BY DEF NewChain
    <2> QED
      BY <2>3, <2>4, <2>5, <2>6
  <1> QED
    BY <1>4, <1>5, <1>6 DEF w, f

\* The writes of a file are the first one, those of the clusters and those of the FAT.
LEMMA OddOrEven ==
    ASSUME NEW needed \in Nat, NEW j \in 1 .. 2 * needed + 1
    PROVE  j = 1 \/ \E i \in 1 .. needed : j = 2 * i \/ j = 2 * i + 1
  <1>1. CASE j % 2 = 0
    <2>1. j \div 2 \in 1 .. needed /\ j = 2 * (j \div 2)
      BY <1>1
    <2> QED
      BY <2>1
  <1>2. CASE j % 2 # 0 /\ j # 1
    <2>1. j \div 2 \in 1 .. needed /\ j = 2 * (j \div 2) + 1
      BY <1>2
    <2> QED
      BY <2>1
  <1> QED
    BY <1>1, <1>2

\* write() of a file adds an entry with the clusters it needs, each holding its part
\* of the file.
LEMMA WriteFileAdds ==
    ASSUME WellUsed, losses' = losses, OwnershipInv, NEW p \in Clusters, NEW n \in Names, NEW size \in Sizes,
           NEW payload, WriteFile(p, n, size, payload)
    PROVE  LET needed == NeededClusters(size)
               s == NewChain(needed)
           IN  /\ IsStore(disk) /\ power' = "on" /\ disk'[BOOT_SECTOR] = disk[BOOT_SECTOR]
               /\ Adds(disk, disk', p, n, Entry(FALSE, GetEmptyCluster(fat), size), s)
               /\ Len(s) = needed
               /\ \A i \in 1 .. needed : disk'[s[i]] = Block(payload, i)
  <1> DEFINE needed == NeededClusters(size)
             s == NewChain(needed)
             entry == Entry(FALSE, GetEmptyCluster(fat), size)
             first == WithEntry(p, n, entry)
             newFat == FileLoop(needed)[needed].map
             w == <<first>> \o FileWrites(needed, payload)
             last == 2 * needed + 1
             K == {s[i] : i \in 1 .. Len(s)}
  <1>1. needed \in Nat /\ needed > 0
    BY FilesNeedClusters
  <1>2. /\ Perform(w, newFat, {})
        /\ power = "on" /\ WriteCode(p, n) = 0 /\ Affordable(needed)
    BY DEF WriteFile
  <1>3. entry.dir = FALSE /\ entry.cluster = GetEmptyCluster(fat)
    BY DEF Entry
  <1>4. first.at = p
    BY DEF WithEntry
  <1> HIDE DEF entry, needed
  <1>5. /\ IsStore(disk) /\ fat = LoadedFat(disk) /\ fat \in [Clusters -> FatValues]
        /\ p \in Tables(disk) /\ n \notin DOMAIN ReadTable(disk, p).entries
        /\ needed <= Cardinality(EmptyClusters(fat))
    BY <1>1, <1>2, WriteRelies
  <1>6. /\ IsPath(newFat, s) /\ Len(s) = needed /\ s[1] = GetEmptyCluster(fat)
        /\ \A i \in 1 .. needed : s[i] \in EmptyClusters(fat)
        /\ \A i, j \in 1 .. needed : i # j => s[i] # s[j]
        /\ \A x \in Clusters : (\A i \in 1 .. needed : x # s[i]) => newFat[x] = fat[x]
    BY <1>1, <1>5, NewChainIsPath
  <1>7. /\ Len(w) = last
        /\ w[1] = first
        /\ \A i \in 1 .. needed :
             /\ w[2 * i].at = s[i]
             /\ w[2 * i].put = Block(payload, i)
             /\ w[2 * i + 1].at = FAT_CLUSTER_NUMBER
             /\ w[2 * i + 1].put = FatContent(FileLoop(needed)[i].map)
    BY <1>1, FileWritesSequence
  <1>8. \A j \in 1 .. last : j = 1 \/ \E i \in 1 .. needed : j = 2 * i \/ j = 2 * i + 1
    BY <1>1, OddOrEven
  <1>9. w[last].at = FAT_CLUSTER_NUMBER /\ w[last].put = FatContent(newFat)
    <2>1. needed \in 1 .. needed
      BY <1>1
    <2> QED
      BY <1>7, <2>1
  <1> HIDE DEF s, w, newFat, first
  <1>10. disk' = After(w, last) /\ power' = "on" /\ last \in Nat /\ 1 \in 1 .. last /\ last \in 1 .. last
    <2>1. disk' = After(w, Len(w)) /\ power' = "on"
      BY <1>2, PerformsAll
    <2> QED
      BY <1>1, <1>7, <2>1
  <1>11. \A i \in 1 .. needed : /\ s[i] \in Clusters /\ s[i] >= 2 /\ s[i] \notin {0, 1}
                                /\ fat[s[i]] = EMPTY_ENTRY
    BY <1>6, EmptyClusterFacts
  <1>12. p \in Clusters /\ p \notin {0, 1} /\ fat[p] # EMPTY_ENTRY
    BY <1>5, TableFacts
  <1>13. K = {s[i] : i \in 1 .. needed}
    BY <1>6
  <1> HIDE DEF K, last
  <1>14. disk'[p] = WithEntry(p, n, entry).put
    <2>1. \A j \in 1 .. last : j > 1 => w[j].at # w[1].at
      <3> TAKE j \in 1 .. last
      <3> HAVE j > 1
      <3>1. PICK i \in 1 .. needed : j = 2 * i \/ j = 2 * i + 1
        BY <1>8
      <3>2. w[j].at \in {s[i], FAT_CLUSTER_NUMBER}
        BY <1>7, <3>1
      <3> QED
        BY <1>4, <1>7, <1>11, <1>12, <3>2 DEF FAT_CLUSTER_NUMBER
    <2>2. w[1].at = p /\ w[1].put = WithEntry(p, n, entry).put
      BY <1>4, <1>7 DEF first
    <2> QED
      BY <1>10, <1>12, <2>1, <2>2, LastWriteStands
  <1>15. disk'[FAT_CLUSTER_NUMBER] = FatContent(newFat)
    <2>1. \A j \in 1 .. last : j > last => w[j].at # w[last].at
      BY <1>10
    <2>2. w[last].at = FAT_CLUSTER_NUMBER /\ w[last].put = FatContent(newFat) /\ FAT_CLUSTER_NUMBER \in Clusters
      BY <1>9, Numbers DEF FAT_CLUSTER_NUMBER
    <2> QED
      BY <1>10, <2>1, <2>2, LastWriteStands
  <1>16. \A i \in 1 .. needed : disk'[s[i]] = Block(payload, i)
    <2> TAKE i \in 1 .. needed
    <2>1. 2 * i \in 1 .. last
      BY <1>1 DEF last
    <2>2. w[2 * i].at = s[i] /\ w[2 * i].put = Block(payload, i)
      BY <1>7
    <2>3. \A j \in 1 .. last : j > 2 * i => w[j].at # w[2 * i].at
      <3> TAKE j \in 1 .. last
      <3> HAVE j > 2 * i
      <3>1. PICK k \in 1 .. needed : j = 2 * k \/ j = 2 * k + 1
        BY <1>8
      <3>2. CASE j = 2 * k
        <4>1. w[j].at = s[k] /\ k # i
          BY <1>7, <3>2
        <4> QED
          BY <1>6, <2>2, <4>1
      <3>3. CASE j = 2 * k + 1
        <4>1. w[j].at = FAT_CLUSTER_NUMBER
          BY <1>7, <3>3
        <4> QED
          BY <1>11, <2>2, <4>1 DEF FAT_CLUSTER_NUMBER
      <3> QED
        BY <3>1, <3>2, <3>3
    <2>4. After(w, last)[w[2 * i].at] = w[2 * i].put
      BY <1>10, <1>11, <2>1, <2>2, <2>3, LastWriteStands
    <2> QED
      BY <1>10, <2>2, <2>4
  <1>17. \A y \in Clusters \ ({p, FAT_CLUSTER_NUMBER} \cup K) : disk'[y] = disk[y]
    <2> TAKE y \in Clusters \ ({p, FAT_CLUSTER_NUMBER} \cup K)
    <2>1. \A j \in 1 .. last : w[j].at # y
      <3> TAKE j \in 1 .. last
      <3>1. CASE j = 1
        BY <1>4, <1>7, <3>1
      <3>2. CASE j # 1
        <4>1. PICK i \in 1 .. needed : j = 2 * i \/ j = 2 * i + 1
          BY <1>8, <3>2
        <4>2. w[j].at \in {s[i], FAT_CLUSTER_NUMBER}
          BY <1>7, <4>1
        <4> QED
          BY <1>13, <4>2
      <3> QED
        BY <3>1, <3>2
    <2> QED
      BY <1>10, <2>1, Unwritten
  <1>18. LoadedFat(disk') = newFat
    BY <1>15 DEF LoadedFat, FatContent
  <1>19. \A y \in {FAT_CLUSTER_NUMBER} \cup K : DOMAIN ReadTable(disk', y).entries = {}
    <2>1. \A y \in {FAT_CLUSTER_NUMBER} \cup K : disk'[y].kind # "table"
      <3>1. disk'[FAT_CLUSTER_NUMBER].kind # "table"
        BY <1>15 DEF FatContent
      <3>2. \A i \in 1 .. needed : disk'[s[i]].kind # "table"
        <4> TAKE i \in 1 .. needed
        <4>1. Block(payload, i).kind # "table"
          BY DEF Block
        <4> QED
          BY <1>16, <4>1
      <3> QED
        BY <1>13, <3>1, <3>2
    <2> QED
      BY <2>1, NoEntriesRead
  <1>20. /\ ReadTable(disk', p).self = ReadTable(disk, p).self
         /\ ReadTable(disk', p).parent = ReadTable(disk, p).parent
         /\ DOMAIN ReadTable(disk', p).entries = DOMAIN ReadTable(disk, p).entries \cup {n}
         /\ \A m \in DOMAIN ReadTable(disk, p).entries :
              EntryOf(disk', p, m) = EntryOf(disk, p, m)
         /\ EntryOf(disk', p, n) = entry
    <2>1. /\ ReadTable(disk', p).self = ReadTable(disk, p).self
          /\ ReadTable(disk', p).parent = ReadTable(disk, p).parent
          /\ DOMAIN ReadTable(disk', p).entries = DOMAIN ReadTable(disk, p).entries \cup {n}
          /\ \A m \in DOMAIN ReadTable(disk, p).entries :
               m # n => EntryOf(disk', p, m) = EntryOf(disk, p, m)
          /\ EntryOf(disk', p, n) = entry
      BY <1>14, WithEntryReads
    <2> QED
      BY <1>5, <2>1
  <1>21. Adds(disk, disk', p, n, entry, s)
    <2>1. \A y \in K : y >= 2 /\ LoadedFat(disk)[y] = EMPTY_ENTRY
      BY <1>5, <1>11, <1>13
    <2>2. \A y \in Clusters \ K : LoadedFat(disk')[y] = LoadedFat(disk)[y]
      BY <1>5, <1>6, <1>13, <1>18
    <2>3. IsPath(LoadedFat(disk'), s) /\ entry.cluster = s[1] /\ entry.dir \in BOOLEAN /\ ~entry.dir
      BY <1>3, <1>6, <1>18
    <2> QED
      BY <1>5, <1>17, <1>19, <1>20, <2>1, <2>2, <2>3 DEF Adds, K
  <1>22. disk'[BOOT_SECTOR] = disk[BOOT_SECTOR]
    <2>1. 0 \in Clusters \ ({p, FAT_CLUSTER_NUMBER} \cup K)
      BY <1>11, <1>12, <1>13, Numbers DEF FAT_CLUSTER_NUMBER
    <2> QED
      BY <1>17, <2>1 DEF BOOT_SECTOR
  <1> QED
    BY <1>5, <1>6, <1>10, <1>16, <1>21, <1>22 DEF s, entry, needed

-----------------------------------------------------------------------------
\* The invariant.

\* A blank disk, and the machine off.
LEMMA InitOwnership == Init => OwnershipInv
  <1> SUFFICES ASSUME Init PROVE OwnershipInv
    OBVIOUS
  <1>1. disk[BOOT_SECTOR] # Signature
    BY Numbers DEF Init, Blank, Signature, BOOT_SECTOR
  <1> QED
    BY <1>1, InitFat32Inv DEF Init, OwnershipInv

\* Only directories have entries, and every chain ends: read returns.
LEMMA ReadReturns ==
    ASSUME OwnershipInv, NEW p \in Clusters, NEW n, NEW size
    PROVE  ~ReadHangs(p, n, size)
  <1> SUFFICES ASSUME ReadHangs(p, n, size) PROVE FALSE
    OBVIOUS
  <1>1. IsStore(disk) /\ fat = LoadedFat(disk)
    BY DEF ReadHangs, OwnershipInv, Fat32Inv, FatCached
  <1>2. n \in DOMAIN ReadTable(disk, p).entries
    BY DEF ReadHangs, ReadCode, Has
  <1> DEFINE x == <<p, n>>
  <1>3. x \in EntriesOn(disk)
    BY <1>1, <1>2, HasMeansTable
  <1>4. ClusterOf(disk, x) = EntryOf(disk, p, n).cluster
    BY DEF ClusterOf
  <1> HIDE DEF x
  <1>5. Ends(fat, EntryOf(disk, p, n).cluster)
    BY <1>1, <1>3, <1>4 DEF IsStore, ChainsApart
  <1> QED
    BY <1>5 DEF ReadHangs

\* The three ways the file system changes: nothing shown changes, one entry
\* is added, one is removed.
LEMMA StoreSteps ==
    ASSUME WellUsed, losses' = losses, OwnershipInv, [Next]_vars
    PROVE  \/ /\ power' # "hung" /\ View(disk') = View(disk)
              /\ \/ disk' = disk /\ (power' = power \/ power' = "off")
                 \/ disk'[BOOT_SECTOR] = Signature /\ IsStore(disk')
           \/ \E p \in Clusters, n \in Names : WriteDirectory(p, n)
           \/ \E p \in Clusters, n \in Names, size \in Sizes, payload \in Payloads :
                WriteFile(p, n, size, payload)
           \/ \E p \in Clusters, n \in Names : Delete(p, n)
  <1>1. CASE Create
    BY <1>1, CreateStore
  <1>2. CASE Load
    BY <1>2 DEF Load, OwnershipInv
  <1>3. CASE SwitchOff
    BY <1>3 DEF SwitchOff
  <1>4. CASE UNCHANGED vars
    BY <1>4 DEF vars, OwnershipInv
  <1> QED
    BY <1>1, <1>2, <1>3, <1>4, ReadReturns DEF Next

\* Programs run on a formatted disk.
LEMMA FormattedWhenUsed ==
    ASSUME OwnershipInv, power = "on" PROVE disk[BOOT_SECTOR] = Signature /\ IsStore(disk)
  BY DEF OwnershipInv

\* Every step keeps the invariant.
LEMMA NextOwnership ==
    ASSUME WellUsed, losses' = losses, OwnershipInv, [Next]_vars PROVE OwnershipInv'
  <1>1. Fat32Inv'
    BY NextFat32Inv DEF OwnershipInv
  <1>2. DiskOK(disk')
    BY <1>1 DEF Fat32Inv
  <1>3. CASE /\ power' # "hung"
             /\ disk' = disk /\ (power' = power \/ power' = "off")
    BY <1>1, <1>3 DEF OwnershipInv
  <1>4. ASSUME power' # "hung", disk'[BOOT_SECTOR] = Signature, IsStore(disk') PROVE OwnershipInv'
    BY <1>1, <1>4 DEF OwnershipInv
  <1>5. ASSUME NEW p \in Clusters, NEW n \in Names, WriteDirectory(p, n) PROVE OwnershipInv'
    <2>1. power = "on"
      BY <1>5 DEF WriteDirectory
    <2> QED
      BY <1>2, <1>4, <1>5, <2>1, FormattedWhenUsed, WriteDirectoryAdds, AddIsStore
  <1>6. ASSUME NEW p \in Clusters, NEW n \in Names, NEW size \in Sizes, NEW payload \in Payloads,
               WriteFile(p, n, size, payload)
        PROVE  OwnershipInv'
    <2>1. power = "on"
      BY <1>6 DEF WriteFile
    <2> QED
      BY <1>2, <1>4, <1>6, <2>1, FormattedWhenUsed, WriteFileAdds, AddIsStore
  <1>7. ASSUME NEW p \in Clusters, NEW n \in Names, Delete(p, n) PROVE OwnershipInv'
    <2>1. power = "on"
      BY <1>7 DEF Delete
    <2> QED
      BY <1>2, <1>4, <1>7, <2>1, FormattedWhenUsed, DeleteRemoves, RemoveIsStore
  <1> QED
    BY <1>3, <1>4, <1>5, <1>6, <1>7, StoreSteps

\* The invariant holds for every disk and every mix of operations: as long as the disk
\* does not fill and the power does not fail inside an operation, write() and
\* delete() (fat32.c) keep the FAT and the tables telling the same story.
THEOREM OwnershipInvariant == Undisturbed /\ Spec => []OwnershipInv
  <1>1. CASE Undisturbed
    <2>1. Init => OwnershipInv
      BY InitOwnership
    <2>2. OwnershipInv /\ [Next]_vars => OwnershipInv'
      BY <1>1, Uninterrupted, NextOwnership
    <2> QED
      BY <2>1, <2>2, PTL DEF Spec
  <1>2. CASE ~Undisturbed
    BY <1>2
  <1> QED
    BY <1>1, <1>2

\* A disk nobody formatted shows nothing.
LEMMA Unformatted ==
    ASSUME OwnershipInv, disk[BOOT_SECTOR] # Signature
    PROVE  /\ DiskOK(disk) /\ Tables(disk) = {ROOT_CLUSTER_NUMBER}
           /\ EntriesOn(disk) = {} /\ View(disk) = {}
           /\ Subdirectories(disk, ROOT_CLUSTER_NUMBER) = {}
  <1>1. DiskOK(disk) /\ disk[ROOT_CLUSTER_NUMBER].kind # "table"
    BY RootIsCluster DEF OwnershipInv, Fat32Inv, Blank
  <1>2. DOMAIN ReadTable(disk, ROOT_CLUSTER_NUMBER).entries = {}
    BY <1>1, NoEntriesRead
  <1> QED
    BY <1>1, <1>2, NoEntriesShown, SubdirectoriesOf

\* The properties that the runs check, from the invariant.
LEMMA StoreOwnsOnce == OwnershipInv => ClustersOwnedOnce
  <1> SUFFICES ASSUME OwnershipInv, power = "on" PROVE ClustersOwnedOnce
    BY DEF ClustersOwnedOnce
  <1>1. IsStore(disk) /\ fat = LoadedFat(disk)
    BY FormattedWhenUsed DEF OwnershipInv, Fat32Inv, FatCached
  <1>2. \A x \in EntriesOn(disk) : ClustersOf(x) = Owned(disk, x)
    BY <1>1 DEF ClustersOf, Owned, ClusterOf
  <1>3. UNION {ClustersOf(x) : x \in EntriesOn(disk)} = UNION {Owned(disk, x) : x \in EntriesOn(disk)}
    BY <1>2
  <1> QED
    BY <1>1, <1>2, <1>3 DEF IsStore, ChainsApart, ClustersOwnedOnce, ClusterOf

LEMMA StoreLinksParents == OwnershipInv => ParentLinks
  <1> SUFFICES ASSUME OwnershipInv PROVE ParentLinks
    OBVIOUS
  <1>1. CASE disk[BOOT_SECTOR] = Signature
    <2>1. Linked(disk)
      BY <1>1 DEF OwnershipInv, IsStore
    <2> QED
      BY <2>1 DEF Linked, ParentLinks, ClusterOf
  <1>2. CASE disk[BOOT_SECTOR] # Signature
    BY <1>2, Unformatted DEF ParentLinks
  <1> QED
    BY <1>1, <1>2

LEMMA StoreReads == OwnershipInv => EverythingReads
  <1> SUFFICES ASSUME OwnershipInv PROVE EverythingReads
    OBVIOUS
  <1>1. ASSUME power = "on", NEW v \in View(disk)
        PROVE  IF v.dir THEN ReadDirectoryCode(v.in, v.name) = 0
                        ELSE ReadCode(v.in, v.name, v.size) = 0
    <2>1. IsStore(disk)
      BY <1>1, FormattedWhenUsed
    <2>2. PICK x \in EntriesOn(disk) : v = Shown(disk, x[1], x[2])
      BY ViewFact
    <2> DEFINE e == EntryOf(disk, x[1], x[2])
    <2>3. v.in = x[1] /\ v.name = x[2] /\ v.dir = e.dir /\ v.size = e.size
      BY <2>2, ShownFields
    <2>4. Has(disk, x[1], x[2])
      BY EntryPairs DEF Has
    <2>5. e \in [dir: BOOLEAN, cluster: Clusters, size: Sizes \cup {0}]
      BY <2>1, EntryTypes DEF IsStore
    <2>6. e.cluster # 0
      BY <2>1, OwnedFacts DEF ClusterOf
    <2>7. e.size \in Nat /\ ~(e.size < e.size)
      BY <2>5, Numbers
    <2>8. CASE v.dir
      BY <2>3, <2>4, <2>8 DEF ReadDirectoryCode
    <2>9. CASE ~v.dir
      BY <2>3, <2>4, <2>6, <2>7, <2>9 DEF ReadCode
    <2> QED
      BY <2>8, <2>9
  <1> QED
    BY <1>1 DEF EverythingReads, OwnershipInv

\* No cluster has two owners, and none is lost: the FAT marks used exactly the root
\* and the clusters of the entries, after every mix of mkdir, write and delete.
THEOREM ClustersAreOwnedOnce == Undisturbed /\ Spec => []ClustersOwnedOnce
  BY OwnershipInvariant, StoreOwnsOnce, PTL

\* cd .. goes to the directory that holds this one: the first two entries of every
\* table, which write() makes, keep naming the directory and its parent
\* (fat32.h:149-150), whatever is made and deleted around them.
THEOREM LinksLeadToParents == Undisturbed /\ Spec => []ParentLinks
  BY OwnershipInvariant, StoreLinksParents, PTL

\* read() and read_directory() succeed on every entry the disk shows, and never
\* follow a chain without an end.
THEOREM EverythingIsReadable == Undisturbed /\ Spec => []EverythingReads
  BY OwnershipInvariant, StoreReads, PTL

-----------------------------------------------------------------------------
\* The refinement of FileStore.

\* The directories FileStore knows are the ones the disk has.
LEMMA StoreDirectories ==
    ASSUME IsStore(disk) PROVE Store!Directories = Tables(disk)
  <1>1. ASSUME NEW t \in Tables(disk) PROVE t \in Store!Directories
    <2>1. CASE t = ROOT_CLUSTER_NUMBER
      BY <2>1 DEF Store!Directories
    <2>2. CASE t # ROOT_CLUSTER_NUMBER
      <3>1. PICK x \in EntriesOn(disk) : EntryOf(disk, x[1], x[2]).dir /\ ClusterOf(disk, x) = t
        BY <2>2, DirectoryEntry DEF IsStore
      <3> DEFINE v == Shown(disk, x[1], x[2])
      <3>2. v \in View(disk) /\ v.dir /\ v.id = t
        BY <3>1, ViewFact, ShownFields DEF ClusterOf
      <3> HIDE DEF v
      <3> QED
        BY <3>2 DEF Store!Directories
    <2> QED
      BY <2>1, <2>2
  <1>2. ASSUME NEW v \in View(disk), v.dir PROVE v.id \in Tables(disk)
    <2>1. PICK x \in EntriesOn(disk) : v = Shown(disk, x[1], x[2])
      BY ViewFact
    <2>2. EntryOf(disk, x[1], x[2]).dir /\ v.id = ClusterOf(disk, x)
      BY <1>2, <2>1, ShownFields DEF ClusterOf
    <2> QED
      BY <2>2, DirectoryEntryIsTable DEF IsStore
  <1>3. ROOT_CLUSTER_NUMBER \in Tables(disk)
    BY TablesClosed DEF IsStore
  <1> QED
    BY <1>1, <1>2, <1>3 DEF Store!Directories

\* Before formatting the store is empty.
LEMMA InitStore == Init => Store!Init
  <1> SUFFICES ASSUME Init PROVE View(disk) = {}
    BY DEF Store!Init
  <1>1. OwnershipInv /\ disk[BOOT_SECTOR] # Signature
    BY InitOwnership, Numbers DEF Init, Blank, Signature, BOOT_SECTOR
  <1> QED
    BY <1>1, Unformatted

\* A new entry that holds a payload of some size is a file to FileStore.
LEMMA StoreFile ==
    ASSUME NEW v, NEW size \in Sizes, NEW payload \in Payloads,
           ~v.dir, v.size = size,
           v.data = [i \in 1 .. NeededClusters(size) |-> Block(payload, i)], Store!Add(v)
    PROVE  Store!WriteFile(v)
  <1> DEFINE file(s, b) ==
               [size |-> s, data |-> [i \in 1 .. NeededClusters(s) |-> Block(b, i)]]
  <1>1. [size |-> v.size, data |-> v.data] = file(size, payload)
    OBVIOUS
  <1> HIDE DEF file
  <1>2. [size |-> v.size, data |-> v.data] \in {file(s, b) : s \in Sizes, b \in Payloads}
    BY <1>1
  <1> QED
    BY <1>2 DEF file, Store!WriteFile

\* Steps: mkdir is FileStore's MakeDirectory, a write of a file its WriteFile, a
\* delete its Delete; everything else leaves what the disk shows alone.
LEMMA NextStore ==
    ASSUME WellUsed, losses' = losses, OwnershipInv, [Next]_vars PROVE [Store!Next]_(View(disk))
  <1>1. Fat32Inv'
    BY NextFat32Inv DEF OwnershipInv
  <1>2. DiskOK(disk')
    BY <1>1 DEF Fat32Inv
  <1>3. CASE View(disk') = View(disk)
    BY <1>3
  <1>4. ASSUME NEW p \in Clusters, NEW n \in Names, WriteDirectory(p, n) PROVE Store!Next
    <2> DEFINE c == GetEmptyCluster(fat)
               entry == Entry(TRUE, c, 0)
               s == <<c>>
               v == Shown(disk', p, n)
    <2>1. IsStore(disk) /\ Adds(disk, disk', p, n, entry, s)
      BY <1>4, WriteDirectoryAdds
    <2>2. entry.dir = TRUE
      BY DEF Entry
    <2> HIDE DEF entry, s
    <2>3. /\ View(disk') = View(disk) \cup {v} /\ v \notin View(disk)
          /\ \A x \in View(disk) : x.in = p => x.name # n
          /\ v.in = p /\ v.name = n /\ v.dir = entry.dir
          /\ entry.dir => v.id = s[1] /\ s[1] \notin Tables(disk)
          /\ v.size = entry.size
          /\ ~entry.dir => v.data = [i \in 1 .. Len(s) |-> disk'[s[i]]]
      BY <1>2, <2>1, AddedToView
    <2>4. Store!Directories = Tables(disk) /\ p \in Tables(disk)
      BY <2>1, StoreDirectories DEF Adds
    <2> HIDE DEF v
    <2>5. Store!MakeDirectory(v)
      BY <2>2, <2>3, <2>4 DEF Store!MakeDirectory, Store!Add
    <2> QED
      BY <2>3, <2>5 DEF Store!Next
  <1>5. ASSUME NEW p \in Clusters, NEW n \in Names, NEW size \in Sizes, NEW payload \in Payloads,
               WriteFile(p, n, size, payload)
        PROVE  Store!Next
    <2> DEFINE needed == NeededClusters(size)
               entry == Entry(FALSE, GetEmptyCluster(fat), size)
               s == NewChain(needed)
               v == Shown(disk', p, n)
    <2>1. /\ IsStore(disk) /\ Adds(disk, disk', p, n, entry, s)
          /\ Len(s) = needed
          /\ \A i \in 1 .. needed : disk'[s[i]] = Block(payload, i)
      BY <1>5, WriteFileAdds
    <2>2. entry.dir = FALSE /\ entry.size = size
      BY DEF Entry
    <2> HIDE DEF entry, s
    <2>3. /\ View(disk') = View(disk) \cup {v} /\ v \notin View(disk)
          /\ \A x \in View(disk) : x.in = p => x.name # n
          /\ v.in = p /\ v.name = n /\ v.dir = entry.dir /\ v.size = entry.size
          /\ ~entry.dir => v.data = [i \in 1 .. Len(s) |-> disk'[s[i]]]
      BY <1>2, <2>1, AddedToView
    <2>4. Store!Directories = Tables(disk) /\ p \in Tables(disk)
      BY <2>1, StoreDirectories DEF Adds
    <2> HIDE DEF v
    <2>5. v.data = [i \in 1 .. NeededClusters(size) |-> Block(payload, i)]
      BY <2>1, <2>2, <2>3
    <2>6. Store!Add(v)
      BY <2>3, <2>4 DEF Store!Add
    <2>7. Store!WriteFile(v)
      BY <2>2, <2>3, <2>5, <2>6, StoreFile
    <2> QED
      BY <2>3, <2>7 DEF Store!Next
  <1>6. ASSUME NEW p \in Clusters, NEW n \in Names, Delete(p, n) PROVE Store!Next
    <2> DEFINE v == Shown(disk, p, n)
    <2>1. IsStore(disk) /\ Removes(disk, disk', p, n)
      BY <1>6, DeleteRemoves
    <2>2. /\ View(disk') = View(disk) \ {v} /\ v \in View(disk)
          /\ v.dir => \A x \in View(disk) : x.in # v.id
      BY <1>2, <2>1, RemovedFromView
    <2> HIDE DEF v
    <2>3. Store!Delete(v)
      BY <2>2 DEF Store!Delete
    <2> QED
      BY <2>2, <2>3 DEF Store!Next
  <1> QED
    BY <1>3, <1>4, <1>5, <1>6, StoreSteps

\* fat32.h:20 on entries 0 and 1: no operation changes what create_fat32 put there,
\* as long as the disk does not fill and the power holds.
THEOREM ReservedEntriesKept == Undisturbed /\ Spec => []ReservedEntries
  <1>1. CASE Undisturbed
    <2>1. OwnershipInv => ReservedEntries
      BY DEF OwnershipInv, Fat32Inv, FatCached, IsStore, Reserved, ReservedEntries
    <2>2. Spec => []OwnershipInv
      BY <1>1, OwnershipInvariant
    <2> QED
      BY <2>1, <2>2, PTL
  <1>2. CASE ~Undisturbed
    BY <1>2
  <1> QED
    BY <1>1, <1>2

\* The disk shows a FileStore: every operation of fat32.c adds or removes one entry
\* of the tree or does nothing to it, and no other entry and no byte of another file
\* changes, however operations that succeed and fail follow one another.
THEOREM FileSystemIsAStore == Undisturbed /\ Spec => ImplementsStore
  <1>1. CASE Undisturbed
    <2>1. Init => Store!Init
      BY InitStore
    <2>2. OwnershipInv /\ [Next]_vars => [Store!Next]_(View(disk))
      BY <1>1, Uninterrupted, NextStore
    <2>3. Spec => []OwnershipInv
      BY <1>1, OwnershipInvariant
    <2> QED
      BY <2>1, <2>2, <2>3, PTL DEF Spec, ImplementsStore, Store!Spec
  <1>2. CASE ~Undisturbed
    BY <1>2
  <1> QED
    BY <1>1, <1>2

\* So what FileStoreProofs says of every store holds of the disk: no name twice in a
\* directory, no cluster the table of two directories, and no entry outlives the
\* directory it is in.
Tree == INSTANCE FileStoreProofs
        WITH Root <- ROOT_CLUSTER_NUMBER,
             Files <- {[size |-> s, data |-> [i \in 1 .. NeededClusters(s) |-> Block(b, i)]]
                         : s \in Sizes, b \in Payloads},
             entries <- View(disk)

THEOREM DiskIsATree == Undisturbed /\ Spec => []Tree!StoreInv
  <1>1. Store!Init => Tree!Init
    BY DEF Store!Init, Tree!Init
  <1>2. [Store!Next]_(View(disk)) => [Tree!Next]_(View(disk))
    <2>1. ASSUME NEW e, Store!WriteFile(e) PROVE Tree!WriteFile(e)
      BY <2>1 DEF Store!WriteFile, Store!Add, Store!Directories,
                  Tree!WriteFile, Tree!Add, Tree!Directories
    <2>2. ASSUME NEW e, Store!MakeDirectory(e) PROVE Tree!MakeDirectory(e)
      BY <2>2 DEF Store!MakeDirectory, Store!Add, Store!Directories,
                  Tree!MakeDirectory, Tree!Add, Tree!Directories
    <2>3. ASSUME NEW e, Store!Delete(e) PROVE Tree!Delete(e)
      BY <2>3 DEF Store!Delete, Tree!Delete
    <2> QED
      BY <2>1, <2>2, <2>3 DEF Store!Next, Tree!Next
  <1>3. Store!Spec => Tree!Spec
    BY <1>1, <1>2, PTL DEF Store!Spec, Tree!Spec
  <1> QED
    BY <1>3, FileSystemIsAStore, Tree!StoreIsATree, PTL DEF ImplementsStore

-----------------------------------------------------------------------------
\* What a power loss inside one operation cannot do, whatever is done before and
\* after it: what was on the disk when the power failed is read back unchanged
\* until somebody deletes it, and no lookup recurses for ever.
\*
\* The disk is no store after the loss: it may hold an entry without a chain, a
\* chain without an entry, or a directory's table that is still what its cluster
\* held before.  So the entries that were there then are tracked instead: they
\* are safe when nothing else, readable or not, leads into their chains (Safe),
\* and every write of every operation that follows spares them (Harmless, Spares).


-----------------------------------------------------------------------------
\* Entries that are safe, and steps that spare them.

\* The directories the entries S lead to, and the clusters in use by them.
KeptTables(d, S) ==
    {ROOT_CLUSTER_NUMBER} \cup {ClusterOf(d, x) : x \in {y \in S : EntryOf(d, y[1], y[2]).dir}}
Kept(d, S) == {ROOT_CLUSTER_NUMBER} \cup UNION {Owned(d, x) : x \in S}

\* The entries S are safe on disk d: they lead to each other from the root, their
\* chains are apart and used, and nothing else on the disk leads into them, neither
\* the FAT nor any entry that can be read anywhere.
Safe(d, S) ==
    /\ DiskOK(d) /\ d[BOOT_SECTOR] = Signature
    /\ S \subseteq EntriesOn(d)
    /\ \A x \in S : /\ x[1] \in KeptTables(d, S)
                    /\ Ends(LoadedFat(d), ClusterOf(d, x))
                    /\ ROOT_CLUSTER_NUMBER \notin Owned(d, x)
    /\ \A x, y \in S : x # y => Owned(d, x) \cap Owned(d, y) = {}
    /\ \A y \in Kept(d, S) : y >= 2 /\ LoadedFat(d)[y] # EMPTY_ENTRY
    /\ \A y \in Clusters \ Kept(d, S) : LoadedFat(d)[y] \notin Kept(d, S)
    /\ \A c \in Clusters : \A n \in DOMAIN ReadTable(d, c).entries :
         <<c, n>> \notin S => EntryOf(d, c, n).cluster \notin Kept(d, S) \cup {0, 1}

\* On a store every entry is safe.
LEMMA StoreIsSafe ==
    ASSUME NEW d, IsStore(d), d[BOOT_SECTOR] = Signature
    PROVE  Safe(d, EntriesOn(d))
  <1> DEFINE S == EntriesOn(d)
             R == Kept(d, S)
  <1>1. /\ \A x \in S : /\ Ends(LoadedFat(d), ClusterOf(d, x))
                        /\ ROOT_CLUSTER_NUMBER \notin Owned(d, x)
        /\ \A x, y \in S : x # y => Owned(d, x) \cap Owned(d, y) = {}
        /\ {c \in Clusters : c >= 2 /\ LoadedFat(d)[c] # EMPTY_ENTRY} = R
    BY DEF IsStore, ChainsApart, Kept
  <1>2. \A x \in S : x[1] \in KeptTables(d, S)
    <2> TAKE x \in S
    <2>1. x[1] \in Tables(d)
      BY EntryPairs
    <2>2. CASE x[1] = ROOT_CLUSTER_NUMBER
      BY <2>2 DEF KeptTables
    <2>3. CASE x[1] # ROOT_CLUSTER_NUMBER
      <3>1. PICK y \in S : EntryOf(d, y[1], y[2]).dir /\ ClusterOf(d, y) = x[1]
        BY <2>1, <2>3, DirectoryEntry DEF IsStore
      <3> QED
        BY <3>1 DEF KeptTables
    <2> QED
      BY <2>2, <2>3
  <1>3. 0 \notin R /\ 1 \notin R
    BY <1>1
  <1>4. \A y \in Clusters \ R : LoadedFat(d)[y] \notin R
    <2> TAKE y \in Clusters \ R
    <2>1. CASE y >= 2
      BY <1>1, <1>3, <2>1 DEF EMPTY_ENTRY
    <2>2. CASE ~(y >= 2)
      <3>1. y = 0 \/ y = 1
        BY <2>2, Numbers DEF Clusters
      <3>2. LoadedFat(d)[y] \notin Clusters
        BY <3>1, EndIsNoCluster DEF IsStore, Reserved
      <3> QED
        BY <1>1, <3>2
    <2> QED
      BY <2>1, <2>2
  <1>5. \A c \in Clusters : \A n \in DOMAIN ReadTable(d, c).entries : <<c, n>> \in S
    BY HasMeansTable
  <1> QED
    BY <1>1, <1>2, <1>4, <1>5 DEF Safe, IsStore

\* Fewer entries are safe as well, while they lead to each other.
LEMMA FewerAreSafe ==
    ASSUME NEW d, NEW S, Safe(d, S), NEW Q, Q \subseteq S,
           \A x \in Q : x[1] \in KeptTables(d, Q)
    PROVE  Safe(d, Q)
  <1>1. /\ S \subseteq EntriesOn(d) /\ DiskOK(d) /\ d[BOOT_SECTOR] = Signature
        /\ \A x \in S : /\ x[1] \in KeptTables(d, S)
                        /\ Ends(LoadedFat(d), ClusterOf(d, x))
                        /\ ROOT_CLUSTER_NUMBER \notin Owned(d, x)
        /\ \A x, y \in S : x # y => Owned(d, x) \cap Owned(d, y) = {}
        /\ \A y \in Kept(d, S) : y >= 2 /\ LoadedFat(d)[y] # EMPTY_ENTRY
        /\ \A y \in Clusters \ Kept(d, S) : LoadedFat(d)[y] \notin Kept(d, S)
        /\ \A c \in Clusters : \A n \in DOMAIN ReadTable(d, c).entries :
             <<c, n>> \notin S => EntryOf(d, c, n).cluster \notin Kept(d, S) \cup {0, 1}
    BY DEF Safe
  <1>2. Kept(d, Q) \subseteq Kept(d, S)
    BY DEF Kept
  <1>3. \A x \in S \ Q : Owned(d, x) \cap Kept(d, Q) = {}
    BY <1>1 DEF Kept
  <1>4. \A y \in Clusters \ Kept(d, Q) : LoadedFat(d)[y] \notin Kept(d, Q)
    <2> TAKE y \in Clusters \ Kept(d, Q)
    <2>1. CASE y \notin Kept(d, S)
      BY <1>1, <1>2, <2>1
    <2>2. CASE y \in Kept(d, S)
      <3>1. PICK x \in S : y \in Owned(d, x) /\ x \notin Q
        BY <2>2 DEF Kept
      <3>2. LoadedFat(d)[y] \in Owned(d, x) \cup {END_OF_FILE}
        <4> DEFINE s == Chain(LoadedFat(d), ClusterOf(d, x))
        <4>1. IsPath(LoadedFat(d), s) /\ Owned(d, x) = {s[i] : i \in 1 .. Len(s)}
          BY <1>1, <3>1, OwnedPath
        <4> HIDE DEF s
        <4>2. PICK i \in 1 .. Len(s) : y = s[i]
          BY <3>1, <4>1
        <4>3. CASE i = Len(s)
          BY <4>1, <4>2, <4>3 DEF IsPath
        <4>4. CASE i # Len(s)
          <5>1. i \in 1 .. Len(s) - 1 /\ i + 1 \in 1 .. Len(s)
            BY <4>1, <4>4 DEF IsPath
          <5> QED
            BY <4>1, <4>2, <5>1 DEF IsPath
        <4> QED
          BY <4>3, <4>4
      <3>3. END_OF_FILE \notin Kept(d, Q)
        BY <1>1, <1>2 DEF END_OF_FILE
      <3> QED
        BY <1>3, <3>1, <3>2, <3>3
    <2> QED
      BY <2>1, <2>2
  <1>5. ASSUME NEW c \in Clusters, NEW n \in DOMAIN ReadTable(d, c).entries, <<c, n>> \notin Q
        PROVE  EntryOf(d, c, n).cluster \notin Kept(d, Q) \cup {0, 1}
    <2>1. CASE <<c, n>> \notin S
      BY <1>1, <1>2, <2>1
    <2>2. CASE <<c, n>> \in S
      <3> DEFINE x == <<c, n>>
      <3>1. EntryOf(d, c, n).cluster = ClusterOf(d, x)
        BY DEF ClusterOf
      <3>2. ClusterOf(d, x) \in Owned(d, x)
        BY <1>1, <2>2, OwnedPath
      <3>3. ClusterOf(d, x) \in Kept(d, S)
        BY <2>2, <3>2 DEF Kept
      <3> HIDE DEF x
      <3>4. ClusterOf(d, x) \notin {0, 1}
        BY <1>1, <3>3
      <3> QED
        BY <1>3, <1>5, <2>2, <3>1, <3>2, <3>4 DEF x
    <2> QED
      BY <2>1, <2>2
  <1> QED
    BY <1>1, <1>2, <1>4, <1>5 DEF Safe

\* The step from disk d to disk e spares the entries S: it keeps the entries, their
\* chains and the blocks of the files among them, and leads nothing into them.
Spares(d, e, S) ==
    /\ e[BOOT_SECTOR] = d[BOOT_SECTOR]
    /\ \A x \in S : /\ x[2] \in DOMAIN ReadTable(e, x[1]).entries
                    /\ EntryOf(e, x[1], x[2]) = EntryOf(d, x[1], x[2])
                    /\ ~EntryOf(d, x[1], x[2]).dir => \A y \in Owned(d, x) : e[y] = d[y]
    /\ \A y \in Kept(d, S) : LoadedFat(e)[y] = LoadedFat(d)[y]
    /\ \A y \in Clusters \ Kept(d, S) : LoadedFat(e)[y] \notin Kept(d, S)
    /\ \A c \in Clusters : \A n \in DOMAIN ReadTable(e, c).entries :
         \/ n \in DOMAIN ReadTable(d, c).entries /\ EntryOf(e, c, n) = EntryOf(d, c, n)
         \/ EntryOf(e, c, n).cluster \notin Kept(d, S) \cup {0, 1}

\* Entries that a step spares show what they showed, and are safe after it.
LEMMA SparedStaySafe ==
    ASSUME NEW d, NEW e, NEW S, Safe(d, S), DiskOK(e), Spares(d, e, S)
    PROVE  /\ Safe(e, S)
           /\ \A x \in S : Shown(e, x[1], x[2]) = Shown(d, x[1], x[2])
  <1>1. /\ S \subseteq EntriesOn(d) /\ DiskOK(d) /\ d[BOOT_SECTOR] = Signature
        /\ \A x \in S : /\ x[1] \in KeptTables(d, S)
                        /\ Ends(LoadedFat(d), ClusterOf(d, x))
                        /\ ROOT_CLUSTER_NUMBER \notin Owned(d, x)
        /\ \A x, y \in S : x # y => Owned(d, x) \cap Owned(d, y) = {}
        /\ \A y \in Kept(d, S) : y >= 2 /\ LoadedFat(d)[y] # EMPTY_ENTRY
        /\ \A c \in Clusters : \A n \in DOMAIN ReadTable(d, c).entries :
             <<c, n>> \notin S => EntryOf(d, c, n).cluster \notin Kept(d, S) \cup {0, 1}
    BY DEF Safe
  <1>2. /\ e[BOOT_SECTOR] = d[BOOT_SECTOR]
        /\ \A x \in S : /\ x[2] \in DOMAIN ReadTable(e, x[1]).entries
                        /\ EntryOf(e, x[1], x[2]) = EntryOf(d, x[1], x[2])
                        /\ ~EntryOf(d, x[1], x[2]).dir => \A y \in Owned(d, x) : e[y] = d[y]
        /\ \A y \in Kept(d, S) : LoadedFat(e)[y] = LoadedFat(d)[y]
        /\ \A y \in Clusters \ Kept(d, S) : LoadedFat(e)[y] \notin Kept(d, S)
        /\ \A c \in Clusters : \A n \in DOMAIN ReadTable(e, c).entries :
             \/ n \in DOMAIN ReadTable(d, c).entries /\ EntryOf(e, c, n) = EntryOf(d, c, n)
             \/ EntryOf(e, c, n).cluster \notin Kept(d, S) \cup {0, 1}
    BY DEF Spares
  <1>3. \A x \in S : Owned(d, x) \subseteq Kept(d, S)
    BY DEF Kept
  <1>4. \A x \in S : /\ ClusterOf(e, x) = ClusterOf(d, x)
                     /\ Ends(LoadedFat(e), ClusterOf(e, x))
                     /\ Owned(e, x) = Owned(d, x)
                     /\ Shown(e, x[1], x[2]) = Shown(d, x[1], x[2])
    <2> TAKE x \in S
    <2>1. x \in EntriesOn(d) /\ Ends(LoadedFat(d), ClusterOf(d, x))
      BY <1>1
    <2>2. /\ EntryOf(e, x[1], x[2]) = EntryOf(d, x[1], x[2])
          /\ \A y \in Owned(d, x) : LoadedFat(e)[y] = LoadedFat(d)[y]
          /\ ~EntryOf(d, x[1], x[2]).dir => \A y \in Owned(d, x) : e[y] = d[y]
      BY <1>2, <1>3
    <2> QED
      BY <1>1, <2>1, <2>2, ShownUnchanged
  <1>5. Kept(e, S) = Kept(d, S)
    BY <1>4 DEF Kept
  <1>6. KeptTables(e, S) = KeptTables(d, S)
    BY <1>2, <1>4 DEF KeptTables
  <1>7. KeptTables(d, S) \subseteq Kept(d, S) \cap Clusters
    <2>1. \A x \in S : ClusterOf(d, x) \in Owned(d, x) /\ ClusterOf(d, x) \in Clusters
      BY <1>1, OwnedPath, EntryTypes
    <2> QED
      BY <2>1, RootIsCluster DEF KeptTables, Kept
  <1>8. \A x \in S : x = <<x[1], x[2]>> /\ x[1] \in Tables(d)
    BY <1>1, EntryPairs
  <1>9. KeptTables(d, S) \cap Tables(d) \subseteq Tables(e)
    <2> DEFINE X == {c \in Clusters : c \in KeptTables(d, S) => c \in Tables(e)}
    <2>1. ROOT_CLUSTER_NUMBER \in X
      BY TablesClosed, RootIsCluster
    <2>2. ASSUME NEW t \in X \cap Tables(d), NEW c \in Subdirectories(d, t)
          PROVE  c \in X
      <3>1. t \in Clusters /\ c \in Clusters
        BY <1>1, TablesClosed
      <3>2. SUFFICES ASSUME c \in KeptTables(d, S) PROVE c \in Tables(e)
        BY <3>1
      <3>3. PICK n \in DOMAIN ReadTable(d, t).entries :
              ReadTable(d, t).entries[n].dir /\ ReadTable(d, t).entries[n].cluster = c
        BY SubdirectoriesOf
      <3> DEFINE x == <<t, n>>
      <3>4. EntryOf(d, t, n).dir /\ EntryOf(d, t, n).cluster = c /\ x[1] = t /\ x[2] = n
        BY <3>3 DEF EntryOf
      <3>5. x \in S
        BY <1>1, <1>7, <3>1, <3>2, <3>4
      <3> HIDE DEF x
      <3>6. t \in Tables(e)
        BY <1>1, <3>4, <3>5
      <3>7. n \in DOMAIN ReadTable(e, t).entries /\ EntryOf(e, t, n) = EntryOf(d, t, n)
        BY <1>2, <3>4, <3>5
      <3>8. c \in Subdirectories(e, t)
        BY <3>4, <3>7, SubdirectoriesOf DEF EntryOf
      <3> QED
        BY <3>6, <3>8, TablesClosed
    <2> HIDE DEF X
    <2>3. Tables(d) \subseteq X
      BY <1>1, <2>1, <2>2, TablesLeast
    <2> QED
      BY <2>3 DEF X
  <1>10. S \subseteq EntriesOn(e)
    <2> SUFFICES ASSUME NEW x \in S PROVE x \in EntriesOn(e)
      OBVIOUS
    <2>1. x[1] \in Tables(e) /\ x[2] \in DOMAIN ReadTable(e, x[1]).entries
      BY <1>1, <1>2, <1>8, <1>9
    <2>2. <<x[1], x[2]>> \in EntriesOn(e)
      BY <2>1, EntriesFact
    <2> QED
      BY <1>8, <2>2
  <1>11. ASSUME NEW c \in Clusters, NEW n \in DOMAIN ReadTable(e, c).entries, <<c, n>> \notin S
         PROVE  EntryOf(e, c, n).cluster \notin Kept(e, S) \cup {0, 1}
    BY <1>1, <1>2, <1>5, <1>11
  <1>12. \A y \in Kept(e, S) : y >= 2 /\ LoadedFat(e)[y] # EMPTY_ENTRY
    BY <1>1, <1>2, <1>5
  <1> QED
    BY <1>1, <1>2, <1>4, <1>5, <1>6, <1>10, <1>11, <1>12 DEF Safe

\* A directory is one the safe entries lead to, or lies apart from them.
LEMMA SafeTables ==
    ASSUME NEW d, NEW S, Safe(d, S), NEW t \in Tables(d)
    PROVE  /\ t \in Clusters /\ t \notin {0, 1}
           /\ \A x \in S : ~EntryOf(d, x[1], x[2]).dir => t \notin Owned(d, x)
  <1>1. /\ S \subseteq EntriesOn(d) /\ DiskOK(d)
        /\ \A x \in S : /\ Ends(LoadedFat(d), ClusterOf(d, x))
                        /\ ROOT_CLUSTER_NUMBER \notin Owned(d, x)
        /\ \A x, y \in S : x # y => Owned(d, x) \cap Owned(d, y) = {}
        /\ \A y \in Kept(d, S) : y >= 2
        /\ \A c \in Clusters : \A n \in DOMAIN ReadTable(d, c).entries :
             <<c, n>> \notin S => EntryOf(d, c, n).cluster \notin Kept(d, S) \cup {0, 1}
    BY DEF Safe
  <1>2. t \in Clusters
    BY <1>1, TablesClosed
  <1>3. CASE t = ROOT_CLUSTER_NUMBER
    BY <1>1, <1>2, <1>3 DEF ROOT_CLUSTER_NUMBER
  <1>4. CASE t # ROOT_CLUSTER_NUMBER
    <2>1. PICK y \in EntriesOn(d) : EntryOf(d, y[1], y[2]).dir /\ ClusterOf(d, y) = t
      BY <1>1, <1>4, DirectoryEntry
    <2>2. y = <<y[1], y[2]>> /\ y[2] \in DOMAIN ReadTable(d, y[1]).entries /\ y[1] \in Clusters
      BY <1>1, EntryPairs, EntryTypes
    <2>3. EntryOf(d, y[1], y[2]).cluster = t
      BY <2>1 DEF ClusterOf
    <2>4. CASE y \in S
      <3>1. t \in Owned(d, y)
        BY <1>1, <2>1, <2>4, OwnedPath
      <3>2. t \in Kept(d, S)
        BY <2>4, <3>1 DEF Kept
      <3>3. t \notin {0, 1}
        BY <1>1, <3>2
      <3> QED
        BY <1>1, <1>2, <2>1, <2>4, <3>1, <3>3
    <2>5. CASE y \notin S
      <3>1. t \notin Kept(d, S) \cup {0, 1}
        BY <1>1, <2>2, <2>3, <2>5
      <3> QED
        BY <1>2, <3>1 DEF Kept
    <2> QED
      BY <2>4, <2>5
  <1> QED
    BY <1>3, <1>4

\* A FAT that keeps the clusters K as LoadedFat has them, and leads nothing into them.
Avoids(f, K) ==
    /\ \A y \in K : f[y] = LoadedFat(disk)[y]
    /\ \A y \in Clusters \ K : f[y] \notin K

\* A write that spares the entries S: of the FAT, of a cluster that is none of theirs
\* and holds no entry then, of a directory's table with one entry more, or with one
\* entry less that is none of them.
Harmless(w, S) ==
    \/ /\ w.at = FAT_CLUSTER_NUMBER
       /\ \E f : w.put = FatContent(f) /\ Avoids(f, Kept(disk, S))
    \/ /\ w.at \in Clusters \ (Kept(disk, S) \cup {0, 1})
       /\ w.put.kind = "table" => w.put.entries = NoEntries
    \/ \E n, entry : /\ w.at \in Tables(disk)
                     /\ w.put = WithEntry(w.at, n, entry).put
                     /\ n \notin DOMAIN ReadTable(disk, w.at).entries
                     /\ entry.cluster \notin Kept(disk, S) \cup {0, 1}
    \/ \E n : /\ w.at \in Tables(disk)
              /\ w.put = WithoutEntry(w.at, n).put
              /\ <<w.at, n>> \notin S

\* A cluster holds what it held, or what one of the writes put there.
LEMMA AfterAt ==
    ASSUME NEW writes, NEW k \in Nat, NEW c \in Clusters
    PROVE  \/ After(writes, k)[c] = disk[c]
           \/ \E i \in 1 .. k : writes[i].at = c /\ After(writes, k)[c] = writes[i].put
  <1>1. CASE Written(writes, k, c) = {}
    BY <1>1 DEF After
  <1>2. CASE Written(writes, k, c) # {}
    <2> DEFINE W == Written(writes, k, c)
    <2>1. W \subseteq 1 .. k /\ \A i \in W : writes[i].at = c
      BY DEF Written
    <2>2. Max(W) \in W
      <3> HIDE DEF W
      <3>1. \E x \in W : \A y \in W : x >= y
        BY <1>2, <2>1, GreatestUpTo DEF W
      <3> QED
        BY <3>1 DEF Max
    <2>3. After(writes, k)[c] = writes[Max(W)].put
      BY <1>2 DEF After
    <2> HIDE DEF W
    <2> QED
      BY <2>1, <2>2, <2>3
  <1> QED
    BY <1>1, <1>2

\* A disk after writes that are harmless is one that spares the entries.
LEMMA HarmlessSpare ==
    ASSUME NEW S, Safe(disk, S), NEW w, NEW k \in Nat, disk' = After(w, k),
           \A i \in 1 .. k : Harmless(w[i], S)
    PROVE  Spares(disk, disk', S)
  <1> DEFINE K == Kept(disk, S)
             Old(c) == disk'[c] = disk[c]
             Fat(c) == /\ c = 1
                       /\ \E f : disk'[c] = FatContent(f) /\ Avoids(f, K)
             Free(c) == /\ c \notin K \cup {0, 1}
                        /\ disk'[c].kind = "table" => disk'[c].entries = NoEntries
             More(c) == /\ c \in Tables(disk)
                        /\ \E n, entry : /\ disk'[c] = WithEntry(c, n, entry).put
                                         /\ n \notin DOMAIN ReadTable(disk, c).entries
                                         /\ entry.cluster \notin K \cup {0, 1}
             Less(c) == /\ c \in Tables(disk)
                        /\ \E n : disk'[c] = WithoutEntry(c, n).put /\ <<c, n>> \notin S
  <1>1. /\ S \subseteq EntriesOn(disk) /\ DiskOK(disk)
        /\ \A x \in S : /\ x[1] \in KeptTables(disk, S)
                        /\ Ends(LoadedFat(disk), ClusterOf(disk, x))
        /\ \A y \in K : y >= 2
        /\ \A y \in Clusters \ K : LoadedFat(disk)[y] \notin K
    BY DEF Safe
  <1>2. \A x \in S : /\ x = <<x[1], x[2]>> /\ x[1] \in Tables(disk) /\ x[1] \in Clusters
                     /\ x[2] \in DOMAIN ReadTable(disk, x[1]).entries
                     /\ Owned(disk, x) \subseteq Clusters /\ Owned(disk, x) \subseteq K
                     /\ ClusterOf(disk, x) \in K
    <2> TAKE x \in S
    <2>1. x \in EntriesOn(disk)
      BY <1>1
    <2>2. Owned(disk, x) \subseteq Clusters /\ ClusterOf(disk, x) \in Owned(disk, x)
      BY <1>1, <2>1, OwnedPath
    <2>3. Owned(disk, x) \subseteq K
      BY DEF Kept
    <2> QED
      BY <1>1, <2>1, <2>2, <2>3, EntryPairs, EntryTypes
  <1>3. KeptTables(disk, S) \subseteq K
    BY <1>2 DEF KeptTables, Kept
  <1>4. \A t \in Tables(disk) :
          /\ t \in Clusters /\ t \notin {0, 1}
          /\ \A x \in S : ~EntryOf(disk, x[1], x[2]).dir => t \notin Owned(disk, x)
    BY SafeTables
  <1>5. ASSUME NEW c \in Clusters PROVE Old(c) \/ Fat(c) \/ Free(c) \/ More(c) \/ Less(c)
    <2>1. CASE After(w, k)[c] = disk[c]
      BY <2>1
    <2>2. ASSUME NEW i \in 1 .. k, w[i].at = c, After(w, k)[c] = w[i].put
          PROVE  Fat(c) \/ Free(c) \/ More(c) \/ Less(c)
      <3>1. disk'[c] = w[i].put /\ Harmless(w[i], S)
        BY <2>2
      <3> HIDE DEF K
      <3> QED
        BY <2>2, <3>1 DEF Harmless, FAT_CLUSTER_NUMBER, K
    <2> QED
      BY <2>1, <2>2, AfterAt
  <1>6. 0 \notin K /\ 1 \notin K /\ 0 \in Clusters /\ 1 \in Clusters
    BY <1>1, Numbers
  <1> HIDE DEF K
  <1>7. disk'[BOOT_SECTOR] = disk[BOOT_SECTOR]
    BY <1>4, <1>5, <1>6 DEF BOOT_SECTOR
  <1>8. ASSUME NEW x \in S
        PROVE  /\ x[2] \in DOMAIN ReadTable(disk', x[1]).entries
               /\ EntryOf(disk', x[1], x[2]) = EntryOf(disk, x[1], x[2])
               /\ ~EntryOf(disk, x[1], x[2]).dir => \A y \in Owned(disk, x) : disk'[y] = disk[y]
    <2> DEFINE c == x[1]
               m == x[2]
    <2>1. /\ c \in Clusters /\ c \in K /\ c \notin {0, 1} /\ x = <<c, m>>
          /\ m \in DOMAIN ReadTable(disk, c).entries
      BY <1>1, <1>2, <1>3, <1>6
    <2> HIDE DEF c, m
    <2>2. m \in DOMAIN ReadTable(disk', c).entries /\ EntryOf(disk', c, m) = EntryOf(disk, c, m)
      <3>1. CASE Old(c)
        BY <2>1, <3>1 DEF ReadTable, EntryOf
      <3>2. ASSUME NEW n, NEW entry, disk'[c] = WithEntry(c, n, entry).put,
                   n \notin DOMAIN ReadTable(disk, c).entries
            PROVE  m \in DOMAIN ReadTable(disk', c).entries /\ EntryOf(disk', c, m) = EntryOf(disk, c, m)
        BY <2>1, <3>2, WithEntryReads
      <3>3. ASSUME NEW n, disk'[c] = WithoutEntry(c, n).put, <<c, n>> \notin S
            PROVE  m \in DOMAIN ReadTable(disk', c).entries /\ EntryOf(disk', c, m) = EntryOf(disk, c, m)
        <4>1. m # n
          BY <2>1, <3>3
        <4> QED
          BY <2>1, <3>3, <4>1, WithoutEntryReads
      <3> QED
        BY <1>5, <2>1, <3>1, <3>2, <3>3
    <2>3. ASSUME ~EntryOf(disk, x[1], x[2]).dir, NEW y \in Owned(disk, x) PROVE disk'[y] = disk[y]
      <3>1. y \in Clusters /\ y \in K /\ y \notin Tables(disk)
        BY <1>2, <1>4, <2>3
      <3> QED
        BY <1>5, <1>6, <3>1
    <2> QED
      BY <2>2, <2>3 DEF c, m
  <1>9. Avoids(LoadedFat(disk'), K)
    <2>1. CASE Old(1)
      <3>1. LoadedFat(disk') = LoadedFat(disk)
        BY <2>1 DEF LoadedFat, FAT_CLUSTER_NUMBER
      <3> QED
        BY <1>1, <3>1 DEF Avoids
    <2>2. CASE Fat(1)
      <3>1. PICK f : disk'[1] = FatContent(f) /\ Avoids(f, K)
        BY <2>2
      <3>2. LoadedFat(disk') = f
        BY <3>1 DEF LoadedFat, FAT_CLUSTER_NUMBER, FatContent
      <3> QED
        BY <3>1, <3>2
    <2> QED
      BY <1>4, <1>5, <1>6, <2>1, <2>2
  <1>10. ASSUME NEW c \in Clusters, NEW m \in DOMAIN ReadTable(disk', c).entries
         PROVE  \/ m \in DOMAIN ReadTable(disk, c).entries /\ EntryOf(disk', c, m) = EntryOf(disk, c, m)
                \/ EntryOf(disk', c, m).cluster \notin K \cup {0, 1}
    <2>1. CASE Old(c)
      BY <2>1 DEF ReadTable, EntryOf
    <2>2. CASE Fat(c)
      <3>1. disk'[c].kind # "table"
        BY <2>2 DEF FatContent
      <3> QED
        BY <3>1, NoEntriesRead
    <2>3. CASE Free(c)
      <3>1. DOMAIN NoEntries = {}
        BY DEF NoEntries
      <3>2. CASE disk'[c].kind = "table"
        BY <2>3, <3>1, <3>2 DEF ReadTable
      <3>3. CASE disk'[c].kind # "table"
        BY <3>3, NoEntriesRead
      <3> QED
        BY <3>2, <3>3
    <2>4. ASSUME NEW n, NEW entry, disk'[c] = WithEntry(c, n, entry).put,
                 n \notin DOMAIN ReadTable(disk, c).entries, entry.cluster \notin K \cup {0, 1}
          PROVE  \/ m \in DOMAIN ReadTable(disk, c).entries /\ EntryOf(disk', c, m) = EntryOf(disk, c, m)
                 \/ EntryOf(disk', c, m).cluster \notin K \cup {0, 1}
      <3>1. /\ DOMAIN ReadTable(disk', c).entries = DOMAIN ReadTable(disk, c).entries \cup {n}
            /\ \A l \in DOMAIN ReadTable(disk, c).entries :
                 l # n => EntryOf(disk', c, l) = EntryOf(disk, c, l)
            /\ EntryOf(disk', c, n) = entry
        BY <2>4, WithEntryReads
      <3> QED
        BY <2>4, <3>1
    <2>5. ASSUME NEW n, disk'[c] = WithoutEntry(c, n).put
          PROVE  m \in DOMAIN ReadTable(disk, c).entries /\ EntryOf(disk', c, m) = EntryOf(disk, c, m)
      <3>1. /\ DOMAIN ReadTable(disk', c).entries = DOMAIN ReadTable(disk, c).entries \ {n}
            /\ \A l \in DOMAIN ReadTable(disk, c).entries \ {n} :
                 EntryOf(disk', c, l) = EntryOf(disk, c, l)
        BY <2>5, WithoutEntryReads
      <3> QED
        BY <3>1
    <2> QED
      BY <1>5, <2>1, <2>2, <2>3, <2>4, <2>5
  <1> QED
    BY <1>7, <1>8, <1>9, <1>10 DEF Spares, Avoids, K

-----------------------------------------------------------------------------
\* The operations spare what they do not remove.

\* What an operation does to the history: it forgets what the caller asked to be
\* removed, and when the power fails in it, it first notes what is there.
Forgets(gone) ==
    \/ losses' = losses /\ settled' = settled \ gone
    \/ losses' = losses + 1 /\ losses < MaxLosses /\ settled' = View(disk) \ gone

\* An operation makes its writes, up to the last or up to one before it.
LEMMA PerformWrites ==
    ASSUME NEW w, NEW f, NEW gone, Perform(w, f, gone), Len(w) \in Nat, Len(w) > 0
    PROVE  Forgets(gone) /\ \E k \in 1 .. Len(w) : disk' = After(w, k)
  <1>1. CASE /\ \E v \in {w} : disk' = After(v, Len(v))
             /\ settled' = settled \ gone
             /\ UNCHANGED losses
    <2>1. Len(w) \in 1 .. Len(w) /\ disk' = After(w, Len(w))
      BY <1>1
    <2> QED
      BY <1>1, <2>1 DEF Forgets
  <1>2. CASE /\ losses < MaxLosses
             /\ \E k \in 1 .. Len(w) - 1 : disk' = After(w, k)
             /\ settled' = View(disk) \ gone
             /\ losses' = losses + 1
    <2>1. PICK k \in 1 .. Len(w) - 1 : disk' = After(w, k)
      BY <1>2
    <2>2. k \in 1 .. Len(w)
      OBVIOUS
    <2> QED
      BY <1>2, <2>1, <2>2 DEF Forgets
  <1> QED
    BY <1>1, <1>2 DEF Perform

\* A hung handler has made all of them.
LEMMA HangWrites ==
    ASSUME NEW w, NEW gone, Hang(w, gone)
    PROVE  Forgets(gone) /\ disk' = After(w, Len(w))
  BY DEF Hang, Forgets

\* What a write that passes its checks relies on: an empty cluster is no safe entry's.
LEMMA WriteRoom ==
    ASSUME WellUsed, Fat32Inv, NEW S, Safe(disk, S), power = "on", NEW p, NEW n,
           WriteCode(p, n) = 0, NEW clusters \in Nat, clusters > 0, Affordable(clusters)
    PROVE  /\ fat = LoadedFat(disk) /\ fat \in [Clusters -> FatValues]
           /\ n \notin DOMAIN ReadTable(disk, p).entries
           /\ clusters <= Cardinality(EmptyClusters(fat))
           /\ GetEmptyCluster(fat) \in EmptyClusters(fat)
           /\ \A c \in EmptyClusters(fat) : c \in Clusters \ (Kept(disk, S) \cup {0, 1})
  <1>1. fat = LoadedFat(disk) /\ fat \in [Clusters -> FatValues]
    BY DEF Fat32Inv, FatCached
  <1>2. n \notin DOMAIN ReadTable(disk, p).entries
    BY DEF WriteCode, Has
  <1>3. clusters <= Cardinality(EmptyClusters(fat))
    BY DEF Affordable, WellUsed
  <1>4. GetEmptyCluster(fat) \in EmptyClusters(fat)
    BY <1>3, EmptyClusterFacts, EmptyClusterIsEmpty
  <1>5. \A c \in EmptyClusters(fat) : c \in Clusters /\ c >= 2 /\ fat[c] = EMPTY_ENTRY
    BY EmptyClusterFacts
  <1>6. \A y \in Kept(disk, S) : LoadedFat(disk)[y] # EMPTY_ENTRY
    BY DEF Safe
  <1> QED
    BY <1>1, <1>2, <1>3, <1>4, <1>5, <1>6

\* mkdir: whatever it writes, it spares the safe entries.
LEMMA WriteDirectorySpares ==
    ASSUME WellUsed, Fat32Inv, NEW S, Safe(disk, S), NEW p \in Tables(disk), NEW n \in Names,
           WriteDirectory(p, n)
    PROVE  Forgets({}) /\ Spares(disk, disk', S)
  <1> DEFINE c == GetEmptyCluster(fat)
             entry == Entry(TRUE, c, 0)
             newFat == [LoadedFat(disk) EXCEPT ![c] = END_OF_FILE]
             table == Table(Link(n, c), ReadTable(disk, p).self, NoEntries)
             w == <<WithEntry(p, n, entry),
                    [at |-> FAT_CLUSTER_NUMBER, put |-> FatContent(newFat)],
                    [at |-> c, put |-> table]>>
             K == Kept(disk, S)
  <1>1. Perform(w, newFat, {}) /\ power = "on" /\ WriteCode(p, n) = 0 /\ Affordable(1)
    BY DEF WriteDirectory, WellUsed
  <1>2. /\ fat = LoadedFat(disk) /\ fat \in [Clusters -> FatValues]
        /\ n \notin DOMAIN ReadTable(disk, p).entries
        /\ c \in Clusters \ (K \cup {0, 1})
    BY <1>1, WriteRoom
  <1>3. w[1].at = p /\ w[1].put = WithEntry(p, n, entry).put /\ Len(w) = 3
    BY DEF WithEntry
  <1>4. /\ w[2].at = FAT_CLUSTER_NUMBER /\ w[2].put = FatContent(newFat)
        /\ w[3].at = c /\ w[3].put = table
    OBVIOUS
  <1>5. entry.cluster = c
    BY DEF Entry
  <1>6. table.entries = NoEntries
    BY DEF Table
  <1>7. Avoids(newFat, K)
    <2>1. END_OF_FILE \notin K
      BY DEF Safe, END_OF_FILE
    <2>2. \A y \in Clusters \ K : LoadedFat(disk)[y] \notin K
      BY DEF Safe
    <2>3. newFat[c] = END_OF_FILE /\ \A y \in Clusters \ {c} : newFat[y] = LoadedFat(disk)[y]
      BY <1>2
    <2>4. \A y \in K : newFat[y] = LoadedFat(disk)[y]
      BY <1>2
    <2> HIDE DEF newFat, c
    <2> QED
      BY <2>1, <2>2, <2>3, <2>4 DEF Avoids
  <1> HIDE DEF w, newFat, table, entry, c
  <1>8. Forgets({}) /\ \E k \in 1 .. Len(w) : disk' = After(w, k)
    <2>1. Len(w) \in Nat /\ Len(w) > 0
      BY <1>3
    <2> QED
      BY <1>1, <2>1, PerformWrites
  <1>13. PICK k \in 1 .. 3 : disk' = After(w, k)
    BY <1>3, <1>8
  <1>9. Harmless(w[1], S)
    BY <1>2, <1>3, <1>5 DEF Harmless
  <1>10. Harmless(w[2], S)
    BY <1>4, <1>7 DEF Harmless
  <1>11. Harmless(w[3], S)
    BY <1>2, <1>4, <1>6 DEF Harmless
  <1>12. \A i \in 1 .. k : Harmless(w[i], S)
    <2>1. \A i \in 1 .. k : i = 1 \/ i = 2 \/ i = 3
      OBVIOUS
    <2> QED
      BY <1>9, <1>10, <1>11, <2>1
  <1> QED
    BY <1>8, <1>12, <1>13, HarmlessSpare

\* Every turn of the loop over a file's clusters leaves a FAT that keeps clear of the
\* clusters K.
LEMMA LoopAvoids ==
    ASSUME NEW needed \in Nat, fat \in [Clusters -> FatValues], fat = LoadedFat(disk),
           NEW K, K \subseteq Clusters, K # {}, 0 \notin K,
           \A y \in K : fat[y] # EMPTY_ENTRY,
           \A y \in Clusters \ K : fat[y] \notin K
    PROVE  \A i \in 0 .. needed : Avoids(FileLoop(needed)[i].map, K)
  <1> DEFINE turn == FileLoop(needed)
             Holds(i) == Avoids(turn[i].map, K) /\ turn[i].cluster \notin K
             T == {i \in 0 .. needed : ~Holds(i)}
  <1>1. ASSUME NEW f, \A y \in K : f[y] # EMPTY_ENTRY PROVE GetEmptyCluster(f) \notin K
    <2>1. CASE EmptyClusters(f) = {}
      BY <2>1 DEF GetEmptyCluster
    <2>2. CASE EmptyClusters(f) # {}
      <3>1. f[GetEmptyCluster(f)] = EMPTY_ENTRY
        BY <2>2, EmptyClusterIsEmpty, EmptyClusterFacts
      <3> QED
        BY <1>1, <3>1
    <2> QED
      BY <2>1, <2>2
  <1>2. \A i \in 0 .. needed : /\ turn[i] = LoopBody(turn, needed, i)
                               /\ turn[i].map \in [Clusters -> FatValues]
    BY LoopUnfolds, LoopOK
  <1> SUFFICES ASSUME T # {} PROVE FALSE
    OBVIOUS
  <1>3. PICK i \in T : \A j \in T : i <= j
    <2>1. T \subseteq Nat
      OBVIOUS
    <2> HIDE DEF T
    <2> QED
      BY <2>1, LeastNat
  <1>4. i \in 0 .. needed /\ ~Holds(i)
    OBVIOUS
  <1> HIDE DEF turn
  <1>5. CASE i = 0
    <2>1. turn[i].map = fat /\ turn[i].cluster = GetEmptyCluster(fat)
      BY <1>2, <1>4, <1>5 DEF LoopBody
    <2>2. Holds(i)
      BY <1>1, <2>1 DEF Avoids
    <2> QED
      BY <1>4, <2>2
  <1>6. CASE i # 0
    <2> DEFINE t == turn[i - 1]
               marked == [t.map EXCEPT ![t.cluster] = END_OF_FILE]
               next == GetEmptyCluster(marked)
    <2>1. i - 1 \in 0 .. needed /\ ~(i <= i - 1)
      BY <1>4, <1>6
    <2>2. Holds(i - 1) /\ t.map \in [Clusters -> FatValues]
      BY <1>2, <1>3, <2>1
    <2>3. turn[i] = Turn(t, i = needed)
      BY <1>2, <1>4, <1>6 DEF LoopBody
    <2>4. END_OF_FILE \notin K
      BY EndIsNoCluster
    <2>5. Avoids(marked, K) /\ marked \in [Clusters -> FatValues]
      <3> HIDE DEF t
      <3> QED
        BY <2>2, <2>4, Numbers DEF Avoids, t
    <2>6. next \notin K
      <3>1. \A y \in K : marked[y] # EMPTY_ENTRY
        BY <2>5 DEF Avoids
      <3> HIDE DEF marked
      <3> QED
        BY <1>1, <3>1
    <2>7. Avoids([marked EXCEPT ![t.cluster] = next], K)
      <3> HIDE DEF next, marked, t
      <3> QED
        BY <2>2, <2>5, <2>6 DEF Avoids, t
    <2>8. CASE i = needed
      <3>1. turn[i].map = marked /\ turn[i].cluster = t.cluster
        BY <2>3, <2>8 DEF Turn
      <3> QED
        BY <1>4, <2>2, <2>5, <3>1
    <2>9. CASE i # needed
      <3>1. turn[i].map = [marked EXCEPT ![t.cluster] = next] /\ turn[i].cluster = next
        BY <2>3, <2>9 DEF Turn
      <3> HIDE DEF next, marked
      <3> QED
        BY <1>4, <2>6, <2>7, <3>1
    <2> QED
      BY <2>8, <2>9
  <1> QED
    BY <1>5, <1>6

\* write() of a file spares the safe entries, however many of its writes are made.
LEMMA WriteFileSpares ==
    ASSUME WellUsed, Fat32Inv, NEW S, Safe(disk, S), NEW p \in Tables(disk), NEW n \in Names,
           NEW size \in Sizes, NEW payload, WriteFile(p, n, size, payload)
    PROVE  Forgets({}) /\ Spares(disk, disk', S)
  <1> DEFINE needed == NeededClusters(size)
             entry == Entry(FALSE, GetEmptyCluster(fat), size)
             first == WithEntry(p, n, entry)
             newFat == FileLoop(needed)[needed].map
             w == <<first>> \o FileWrites(needed, payload)
             s == NewChain(needed)
             K == Kept(disk, S)
  <1>1. needed \in Nat /\ needed > 0
    BY FilesNeedClusters
  <1>2. Perform(w, newFat, {}) /\ power = "on" /\ WriteCode(p, n) = 0 /\ Affordable(needed)
    BY DEF WriteFile
  <1>3. first.at = p /\ first.put = WithEntry(p, n, entry).put
    BY DEF WithEntry
  <1>4. entry.cluster = GetEmptyCluster(fat)
    BY DEF Entry
  <1> HIDE DEF needed, entry, first
  <1>5. /\ fat = LoadedFat(disk) /\ fat \in [Clusters -> FatValues]
        /\ n \notin DOMAIN ReadTable(disk, p).entries
        /\ needed <= Cardinality(EmptyClusters(fat))
        /\ GetEmptyCluster(fat) \in EmptyClusters(fat)
        /\ \A c \in EmptyClusters(fat) : c \in Clusters \ (K \cup {0, 1})
    BY <1>1, <1>2, WriteRoom
  <1>6. \A i \in 1 .. needed : s[i] \in EmptyClusters(fat)
    BY <1>1, <1>5, NewChainIsPath
  <1>7. /\ Len(w) = 2 * needed + 1
        /\ w[1] = first
        /\ \A i \in 1 .. needed :
             /\ w[2 * i].at = s[i]
             /\ w[2 * i].put = Block(payload, i)
             /\ w[2 * i + 1].at = FAT_CLUSTER_NUMBER
             /\ w[2 * i + 1].put = FatContent(FileLoop(needed)[i].map)
    BY <1>1, FileWritesSequence
  <1>8. \A i \in 1 .. needed : Avoids(FileLoop(needed)[i].map, K)
    <2>1. /\ \A y \in K : y >= 2 /\ fat[y] # EMPTY_ENTRY
          /\ \A y \in Clusters \ K : fat[y] \notin K
      BY <1>5 DEF Safe
    <2>2. K \subseteq Clusters /\ K # {}
      <3>1. \A x \in S : Owned(disk, x) \subseteq Clusters
        BY OwnedPath DEF Safe
      <3> QED
        BY <3>1, RootIsCluster DEF Kept
    <2>3. 0 \notin K
      BY <2>1
    <2> HIDE DEF K
    <2>4. \A i \in 0 .. needed : Avoids(FileLoop(needed)[i].map, K)
      BY <1>1, <1>5, <2>1, <2>2, <2>3, LoopAvoids
    <2> QED
      BY <1>1, <2>4
  <1> HIDE DEF w, s, newFat
  <1>9. Harmless(w[1], S)
    BY <1>3, <1>4, <1>5, <1>7 DEF Harmless, first
  <1>10. ASSUME NEW i \in 1 .. needed PROVE Harmless(w[2 * i], S) /\ Harmless(w[2 * i + 1], S)
    <2>1. w[2 * i].put.kind # "table"
      <3>1. Block(payload, i).kind = "data"
        BY DEF Block
      <3> QED
        BY <1>7, <3>1
    <2>2. w[2 * i].at \in Clusters \ (K \cup {0, 1})
      BY <1>5, <1>6, <1>7
    <2>3. Harmless(w[2 * i], S)
      BY <2>1, <2>2 DEF Harmless
    <2>4. Harmless(w[2 * i + 1], S)
      BY <1>7, <1>8 DEF Harmless
    <2> QED
      BY <2>3, <2>4
  <1>11. Forgets({}) /\ \E k \in 1 .. Len(w) : disk' = After(w, k)
    <2>1. Len(w) \in Nat /\ Len(w) > 0
      BY <1>1, <1>7
    <2> QED
      BY <1>2, <2>1, PerformWrites
  <1>12. PICK k \in 1 .. Len(w) : disk' = After(w, k)
    BY <1>11
  <1>13. \A j \in 1 .. k : Harmless(w[j], S)
    <2> TAKE j \in 1 .. k
    <2>1. j \in 1 .. 2 * needed + 1
      BY <1>1, <1>7
    <2>2. j = 1 \/ \E i \in 1 .. needed : j = 2 * i \/ j = 2 * i + 1
      BY <1>1, <2>1, OddOrEven
    <2> QED
      BY <1>9, <1>10, <2>2
  <1>14. k \in Nat
    BY <1>1, <1>7
  <1> QED
    BY <1>11, <1>12, <1>13, <1>14, HarmlessSpare

\* A chain that starts outside clusters the FAT does not lead into stays outside.
LEMMA PathAvoids ==
    ASSUME NEW f, NEW s, IsPath(f, s), NEW K, s[1] \notin K,
           \A y \in Clusters \ K : f[y] \notin K
    PROVE  \A i \in 1 .. Len(s) : s[i] \notin K
  <1> DEFINE T == {i \in 1 .. Len(s) : s[i] \in K}
  <1> SUFFICES ASSUME T # {} PROVE FALSE
    OBVIOUS
  <1>1. PICK i \in T : \A j \in T : i <= j
    <2>1. T \subseteq Nat
      OBVIOUS
    <2> HIDE DEF T
    <2> QED
      BY <2>1, LeastNat
  <1>2. i \in 1 .. Len(s) /\ s[i] \in K /\ i # 1
    OBVIOUS
  <1>3. i - 1 \in 1 .. Len(s) - 1 /\ i - 1 \in 1 .. Len(s) /\ ~(i <= i - 1) /\ i - 1 + 1 = i
    BY <1>2 DEF IsPath
  <1>4. s[i - 1] \in Clusters \ K
    BY <1>1, <1>3 DEF IsPath
  <1>5. f[s[i - 1]] = s[i]
    BY <1>3 DEF IsPath
  <1> QED
    BY <1>2, <1>4, <1>5

\* delete() spares every safe entry but the one it removes, whether it returns, hangs
\* or is cut off.
LEMMA DeleteSpares ==
    ASSUME Fat32Inv, NEW S, Safe(disk, S), NEW p \in Tables(disk), NEW n \in Names, Delete(p, n)
    PROVE  /\ Forgets({v \in View(disk) : v.in = p /\ v.name = n})
           /\ Safe(disk, S \ {<<p, n>>}) /\ Spares(disk, disk', S \ {<<p, n>>})
  <1> DEFINE old == <<p, n>>
             Q == S \ {old}
             c == EntryOf(disk, p, n).cluster
             gone == {v \in View(disk) : v.in = p /\ v.name = n}
             newFat == ClearCluster(fat, c)
             first == WithoutEntry(p, n)
             w == <<first, [at |-> FAT_CLUSTER_NUMBER, put |-> FatContent(newFat)]>>
             K == Kept(disk, Q)
  <1>1. /\ fat = LoadedFat(disk) /\ fat \in [Clusters -> FatValues] /\ DiskOK(disk)
        /\ power = "on" /\ DeleteCode(p, n) = 0
    BY DEF Delete, Fat32Inv, FatCached
  <1>2. n \in DOMAIN ReadTable(disk, p).entries /\ ~NotEmptyDirectory(c)
    BY <1>1 DEF DeleteCode, Has
  <1>3. old \in EntriesOn(disk) /\ old[1] = p /\ old[2] = n /\ ClusterOf(disk, old) = c
    BY <1>2, EntriesFact DEF ClusterOf
  <1>4. p \in Clusters /\ c \in Clusters
    BY <1>1, <1>3, EntryTypes
  <1>5. EntryOf(disk, p, n).dir => DOMAIN ReadTable(disk, c).entries = {}
    <2> SUFFICES ASSUME EntryOf(disk, p, n).dir PROVE DOMAIN ReadTable(disk, c).entries = {}
      OBVIOUS
    <2>1. c \in Subdirectories(disk, p)
      BY <1>2, SubdirectoriesOf DEF EntryOf
    <2>2. IsDirectory(c)
      BY <2>1 DEF IsDirectory
    <2> QED
      BY <1>2, <2>2 DEF NotEmptyDirectory
  <1> HIDE DEF old, c
  <1>6. Safe(disk, Q)
    <2>1. S \subseteq EntriesOn(disk) /\ \A x \in S : x[1] \in KeptTables(disk, S)
      BY DEF Safe
    <2>2. ASSUME NEW x \in Q PROVE x[1] \in KeptTables(disk, Q)
      <3>1. CASE x[1] = ROOT_CLUSTER_NUMBER
        BY <3>1 DEF KeptTables
      <3>2. CASE x[1] # ROOT_CLUSTER_NUMBER
        <4>1. PICK y \in S : EntryOf(disk, y[1], y[2]).dir /\ ClusterOf(disk, y) = x[1]
          BY <2>1, <3>2 DEF KeptTables
        <4>2. x[2] \in DOMAIN ReadTable(disk, x[1]).entries
          BY <2>1, EntryPairs
        <4>3. y # old
          BY <1>3, <1>5, <4>1, <4>2
        <4> QED
          BY <4>1, <4>3 DEF KeptTables
      <3> QED
        BY <3>1, <3>2
    <2> HIDE DEF Q
    <2>3. Q \subseteq S
      BY DEF Q
    <2> QED
      BY <2>2, <2>3, FewerAreSafe
  <1>7. /\ old \notin Q
        /\ \A y \in K : y >= 2
        /\ \A y \in Clusters \ K : fat[y] \notin K
    BY <1>1, <1>6 DEF Safe
  <1>8. c \notin K
    <2>1. EntryOf(disk, p, n).cluster \notin K
      BY <1>2, <1>4, <1>6, <1>7 DEF Safe, old
    <2> QED
      BY <2>1 DEF c
  <1>9. first.at = p /\ first.put = WithoutEntry(p, n).put
    BY DEF WithoutEntry
  <1> HIDE DEF K, Q, first
  <1>10. \A v : v.at = p /\ v.put = WithoutEntry(p, n).put => Harmless(v, Q)
    BY <1>7 DEF Harmless, old
  <1>11. CASE Ends(fat, c)
    <2>1. Perform(w, newFat, gone)
      BY <1>11 DEF Delete, first, c
    <2>2. Len(w) = 2 /\ w[1] = first /\ w[2].at = FAT_CLUSTER_NUMBER /\ w[2].put = FatContent(newFat)
      OBVIOUS
    <2>3. Avoids(newFat, K)
      <3> DEFINE s == Chain(fat, c)
      <3>1. IsPath(fat, s) /\ s[1] = c
        BY <1>1, <1>4, <1>11, ChainIsPath
      <3>2. newFat = [x \in Clusters |-> IF x \in Range(s) THEN EMPTY_ENTRY ELSE fat[x]]
        BY DEF ClearCluster
      <3> HIDE DEF s, newFat
      <3>3. \A i \in 1 .. Len(s) : s[i] \notin K
        BY <1>7, <1>8, <3>1, PathAvoids
      <3>4. \A y \in Range(s) : y \notin K
        <4>1. DOMAIN s = 1 .. Len(s)
          BY <3>1 DEF IsPath
        <4> QED
          BY <3>3, <4>1 DEF Range
      <3>5. EMPTY_ENTRY \notin K
        BY <1>7 DEF EMPTY_ENTRY
      <3>6. K \subseteq Clusters
        <4>1. \A x \in Q : Owned(disk, x) \subseteq Clusters
          BY <1>6, OwnedPath DEF Safe
        <4> QED
          BY <4>1, RootIsCluster DEF K, Kept
      <3> QED
        BY <1>1, <1>7, <3>2, <3>4, <3>5, <3>6 DEF Avoids
    <2> HIDE DEF w, newFat, gone
    <2>4. Harmless(w[1], Q)
      BY <1>9, <1>10, <2>2
    <2>5. Harmless(w[2], Q)
      BY <2>2, <2>3 DEF Harmless, K
    <2>6. Forgets(gone) /\ \E k \in 1 .. Len(w) : disk' = After(w, k)
      <3>1. Len(w) \in Nat /\ Len(w) > 0
        BY <2>2
      <3> QED
        BY <2>1, <3>1, PerformWrites
    <2>7. PICK k \in 1 .. 2 : disk' = After(w, k)
      BY <2>2, <2>6
    <2>8. \A i \in 1 .. k : Harmless(w[i], Q)
      <3>1. \A i \in 1 .. k : i = 1 \/ i = 2
        OBVIOUS
      <3> QED
        BY <2>4, <2>5, <3>1
    <2>9. Spares(disk, disk', Q)
      BY <1>6, <2>7, <2>8, HarmlessSpare
    <2> QED
      BY <1>6, <2>6, <2>9 DEF gone, Q, old
  <1>12. CASE ~Ends(fat, c)
    <2> DEFINE u == <<first>>
    <2>1. Hang(u, gone)
      BY <1>12 DEF Delete, first, c
    <2>2. Len(u) = 1 /\ u[1] = first
      OBVIOUS
    <2> HIDE DEF u, gone
    <2>3. Forgets(gone) /\ disk' = After(u, 1)
      BY <2>1, <2>2, HangWrites
    <2>4. \A i \in 1 .. 1 : Harmless(u[i], Q)
      BY <1>9, <1>10, <2>2
    <2>5. Spares(disk, disk', Q)
      BY <1>6, <2>3, <2>4, HarmlessSpare
    <2> QED
      BY <1>6, <2>3, <2>5 DEF gone, Q, old
  <1> QED
    BY <1>11, <1>12

-----------------------------------------------------------------------------
\* What is settled stays as it was.

\* The entries settled shows are safe: what the power loss left behind is apart from
\* them.
Guarded(d, V) ==
    V = {} \/ \E S : Safe(d, S) /\ \A v \in V : \E x \in S : v = Shown(d, x[1], x[2])

\* A step that spares what it does not remove keeps what is settled.
LEMMA SparedStayGuarded ==
    ASSUME NEW S, NEW V, NEW Q, \A v \in V : \E x \in S : v = Shown(disk, x[1], x[2]),
           Q \subseteq S, Safe(disk, Q), DiskOK(disk'), Spares(disk, disk', Q),
           settled' \subseteq V, \A x \in S \ Q : Shown(disk, x[1], x[2]) \notin settled'
    PROVE  Guarded(disk', settled')
  <1>1. /\ Safe(disk', Q)
        /\ \A x \in Q : Shown(disk', x[1], x[2]) = Shown(disk, x[1], x[2])
    BY SparedStaySafe DEF Safe
  <1>2. \A v \in settled' : \E x \in Q : v = Shown(disk', x[1], x[2])
    BY <1>1
  <1> QED
    BY <1>1, <1>2 DEF Guarded

\* What is settled survives a step in which the power fails, and every later one.
LEMMA StepGuards ==
    ASSUME Misuse \subseteq {"power_loss"}, Fat32Inv, [Next]_vars,
           NEW S, Safe(disk, S), NEW V, \A v \in V : \E x \in S : v = Shown(disk, x[1], x[2]),
           losses' = losses => V = settled,
           losses' # losses => V = View(disk)
    PROVE  Guarded(disk', settled')
  <1>1. WellUsed /\ "any_parent" \notin Misuse /\ Parents = Tables(disk)
    BY DEF WellUsed, Parents
  <1>2. DiskOK(disk') /\ DiskOK(disk) /\ losses \in Nat
    BY NextFat32Inv, Numbers DEF Fat32Inv
  <1>3. ASSUME NEW gone, Forgets(gone) PROVE settled' = V \ gone
    BY <1>2, <1>3 DEF Forgets
  <1>4. ASSUME Forgets({}), Spares(disk, disk', S) PROVE Guarded(disk', settled')
    <2>1. settled' = V
      BY <1>3, <1>4
    <2> QED
      BY <1>2, <1>4, <2>1, SparedStayGuarded
  <1>5. ASSUME disk' = disk, losses' = losses, settled' \subseteq settled PROVE Guarded(disk', settled')
    BY <1>5 DEF Guarded
  <1>6. CASE Create
    <2>1. disk[BOOT_SECTOR] # Signature
      BY <1>6 DEF Create
    <2> QED
      BY <2>1 DEF Safe
  <1>7. CASE Load \/ SwitchOff \/ UNCHANGED vars
    BY <1>5, <1>7 DEF Load, SwitchOff, vars
  <1>8. ASSUME NEW p, NEW n, NEW size, ReadHangs(p, n, size) PROVE Guarded(disk', settled')
    <2>1. Hang(<<>>, {})
      BY <1>8 DEF ReadHangs
    <2>2. disk' = After(<<>>, 0) /\ Forgets({}) /\ losses' = losses /\ settled' = settled
      BY <2>1, HangWrites DEF Hang
    <2>3. Spares(disk, disk', S)
      <3>1. \A i \in 1 .. 0 : Harmless(<<>>[i], S)
        OBVIOUS
      <3> QED
        BY <2>2, <3>1, HarmlessSpare
    <2> QED
      BY <1>4, <2>2, <2>3
  <1>9. ASSUME NEW p \in Clusters, NEW n \in Names, p \in Parents, WriteDirectory(p, n)
        PROVE  Guarded(disk', settled')
    <2>1. p \in Tables(disk)
      BY <1>1, <1>9
    <2> QED
      BY <1>1, <1>4, <1>9, <2>1, WriteDirectorySpares
  <1>10. ASSUME NEW p \in Clusters, NEW n \in Names, NEW size \in Sizes, NEW payload \in Payloads,
                p \in Parents, WriteFile(p, n, size, payload)
         PROVE  Guarded(disk', settled')
    <2>1. p \in Tables(disk)
      BY <1>1, <1>10
    <2> QED
      BY <1>1, <1>4, <1>10, <2>1, WriteFileSpares
  <1>11. ASSUME NEW p \in Clusters, NEW n \in Names, p \in Parents, Delete(p, n)
         PROVE  Guarded(disk', settled')
    <2> DEFINE old == <<p, n>>
               Q == S \ {old}
               gone == {v \in View(disk) : v.in = p /\ v.name = n}
    <2>1. p \in Tables(disk)
      BY <1>1, <1>11
    <2>2. Forgets(gone) /\ Safe(disk, Q) /\ Spares(disk, disk', Q)
      BY <1>11, <2>1, DeleteSpares
    <2>3. settled' = V \ gone
      <3> HIDE DEF gone
      <3> QED
        BY <1>3, <2>2
    <2>4. ASSUME NEW x \in S \ Q PROVE Shown(disk, x[1], x[2]) \notin settled'
      <3>1. x = old /\ x \in EntriesOn(disk) /\ x[1] = p /\ x[2] = n
        BY DEF Safe
      <3>2. Shown(disk, p, n) \in View(disk)
        BY <3>1, ViewFact
      <3>3. Shown(disk, p, n).in = p /\ Shown(disk, p, n).name = n
        BY ShownFields
      <3>4. Shown(disk, p, n) \in gone
        BY <3>2, <3>3
      <3> HIDE DEF gone
      <3> QED
        BY <2>3, <3>1, <3>4
    <2> HIDE DEF gone
    <2>5. Q \subseteq S /\ settled' \subseteq V
      BY <2>3
    <2> HIDE DEF Q
    <2>6. \A x \in S \ Q : Shown(disk, x[1], x[2]) \notin settled'
      BY <2>4
    <2>7. Safe(disk, Q) /\ DiskOK(disk') /\ Spares(disk, disk', Q)
      BY <1>2, <2>2
    <2> QED
      BY <2>5, <2>6, <2>7, SparedStayGuarded
  <1>12. CASE Next
    <2>1. CASE Create \/ Load \/ SwitchOff
      BY <1>6, <1>7, <2>1
    <2>2. CASE \E p \in Clusters, n \in Names, size \in Sizes :
                 p \in Parents /\ ReadHangs(p, n, size)
      BY <1>8, <2>2
    <2>3. CASE \E p \in Clusters, n \in Names : p \in Parents /\ WriteDirectory(p, n)
      BY <1>9, <2>3
    <2>4. CASE \E p \in Clusters, n \in Names, size \in Sizes, payload \in Payloads :
                 p \in Parents /\ WriteFile(p, n, size, payload)
      BY <1>10, <2>4
    <2>5. CASE \E p \in Clusters, n \in Names : p \in Parents /\ Delete(p, n)
      BY <1>11, <2>5
    <2> QED
      BY <1>12, <2>1, <2>2, <2>3, <2>4, <2>5 DEF Next
  <1> QED
    BY <1>7, <1>12

\* Programs name directories that are there, the disk does not fill, and the power
\* fails inside one operation at most.
OneLoss == Misuse \subseteq {"power_loss"} /\ MaxLosses <= 1

\* The invariant: before the power fails the disk is a store and nothing is settled;
\* after it, what is settled is safe.
LossInv ==
    /\ Fat32Inv
    /\ losses = 0 => OwnershipInv /\ settled = {}
    /\ Guarded(disk, settled)

\* Nothing is settled and the disk is blank.
LEMMA InitLoss == Init => LossInv
  <1> SUFFICES ASSUME Init PROVE LossInv
    OBVIOUS
  <1> QED
    BY InitFat32Inv, InitOwnership DEF Init, LossInv, Guarded

\* A step of a store is one of OwnershipInv's; the step the power fails in leaves the
\* entries of that store guarded, and so do all the steps after it.
LEMMA NextLoss ==
    ASSUME OneLoss, LossInv, [Next]_vars PROVE LossInv'
  <1>1. Fat32Inv /\ Fat32Inv' /\ losses \in Nat /\ MaxLosses \in Nat
    BY NextFat32Inv, Numbers DEF LossInv, Fat32Inv
  <1>2. WellUsed
    BY DEF OneLoss, WellUsed
  <1>3. CASE losses' = losses
    <2>1. settled' \subseteq settled
      BY <1>1, <1>3, StepForgets
    <2>2. losses' = 0 => OwnershipInv' /\ settled' = {}
      BY <1>2, <1>3, <2>1, NextOwnership DEF LossInv
    <2>3. CASE settled = {}
      BY <1>1, <2>1, <2>2, <2>3 DEF LossInv, Guarded
    <2>4. CASE settled # {}
      <3>1. PICK S : Safe(disk, S) /\ \A v \in settled : \E x \in S : v = Shown(disk, x[1], x[2])
        BY <2>4 DEF LossInv, Guarded
      <3>2. Guarded(disk', settled')
        BY <1>1, <1>3, <3>1, StepGuards DEF OneLoss
      <3> QED
        BY <1>1, <2>2, <3>2 DEF LossInv, Guarded
    <2> QED
      BY <2>3, <2>4
  <1>4. CASE losses' # losses
    <2>1. /\ losses < MaxLosses /\ losses' = losses + 1 /\ settled' \subseteq View(disk)
          /\ losses = 0 /\ losses' # 0
      BY <1>1, <1>4, StepForgets DEF OneLoss
    <2>2. OwnershipInv
      BY <2>1 DEF LossInv
    <2>3. Guarded(disk', settled')
      <3>1. CASE disk[BOOT_SECTOR] # Signature
        BY <2>1, <2>2, <3>1, Unformatted DEF Guarded
      <3>2. CASE disk[BOOT_SECTOR] = Signature
        <4>1. Safe(disk, EntriesOn(disk))
          BY <2>2, <3>2, StoreIsSafe DEF OwnershipInv
        <4>2. \A v \in View(disk) : \E x \in EntriesOn(disk) : v = Shown(disk, x[1], x[2])
          BY ViewFact
        <4> QED
          BY <1>1, <1>4, <4>1, <4>2, StepGuards DEF OneLoss
      <3> QED
        BY <3>1, <3>2
    <2> QED
      BY <1>1, <2>1, <2>3 DEF LossInv, Guarded
  <1> QED
    BY <1>3, <1>4

\* What is settled is shown.
LEMMA GuardedIsShown ==
    ASSUME LossInv PROVE SettledSurvives
  <1> SUFFICES ASSUME NEW v \in settled PROVE v \in View(disk)
    BY DEF SettledSurvives
  <1>1. PICK S : Safe(disk, S) /\ \A u \in settled : \E x \in S : u = Shown(disk, x[1], x[2])
    BY DEF LossInv, Guarded
  <1>2. PICK x \in S : v = Shown(disk, x[1], x[2])
    BY <1>1
  <1>3. x \in EntriesOn(disk)
    BY <1>1 DEF Safe
  <1> QED
    BY <1>2, <1>3, ViewFact

\* What the disk held when the power failed inside an operation is there until
\* somebody asks for its removal, whatever is written and deleted afterwards.
THEOREM WhatIsSettledSurvives == OneLoss /\ Spec => []SettledSurvives
  <1>1. CASE OneLoss
    <2>1. LossInv /\ [Next]_vars => LossInv'
      BY <1>1, NextLoss
    <2>2. LossInv => SettledSurvives
      BY GuardedIsShown
    <2> QED
      BY <2>1, <2>2, InitLoss, PTL DEF Spec
  <1>2. CASE ~OneLoss
    BY <1>2
  <1> QED
    BY <1>1, <1>2

-----------------------------------------------------------------------------
\* Lookups end.

\* No set of clusters whose tables lead from one to the next for ever.
Acyclic(d) ==
    \A X \in SUBSET Clusters : X # {} => \E x \in X : Subdirectories(d, x) \cap X = {}

\* What leads to a directory below c comes from one of c's subdirectories.
LEMMA BelowStarts ==
    ASSUME NEW d, DiskOK(d), NEW c \in Clusters, NEW t \in Below(d, c)
    PROVE  \E s \in Subdirectories(d, c) : s = t \/ t \in Below(d, s)
  <1> DEFINE X == Subdirectories(d, c) \cup UNION {Below(d, s) : s \in Subdirectories(d, c)}
  <1>1. Subdirectories(d, c) \subseteq Clusters
    BY SubdirectoriesAreClusters
  <1>2. ASSUME NEW x \in X PROVE Subdirectories(d, x) \subseteq X
    <2>1. CASE x \in Subdirectories(d, c)
      BY <1>1, <2>1, BelowClosed
    <2>2. ASSUME NEW s \in Subdirectories(d, c), x \in Below(d, s) PROVE Subdirectories(d, x) \subseteq X
      BY <1>1, <2>2, BelowClosed
    <2> QED
      BY <2>1, <2>2
  <1>3. Subdirectories(d, c) \subseteq X
    OBVIOUS
  <1> HIDE DEF X
  <1>4. Below(d, c) \subseteq X
    BY <1>2, <1>3, BelowLeast
  <1> QED
    BY <1>4 DEF X

\* Then no directory lies below itself.
LEMMA AcyclicEnds ==
    ASSUME NEW d, DiskOK(d), Acyclic(d), NEW t \in Tables(d)
    PROVE  t \notin Below(d, t)
  <1> SUFFICES ASSUME t \in Below(d, t) PROVE FALSE
    OBVIOUS
  <1> DEFINE X == {x \in Below(d, t) : t \in Below(d, x)}
  <1>1. t \in Clusters /\ Below(d, t) \subseteq Clusters
    BY TablesClosed, BelowClosed
  <1>2. X \in SUBSET Clusters /\ t \in X
    BY <1>1
  <1>3. ASSUME NEW x \in X PROVE Subdirectories(d, x) \cap X # {}
    <2>1. PICK s \in Subdirectories(d, x) : s = t \/ t \in Below(d, s)
      BY <1>1, <1>3, BelowStarts
    <2>2. s \in Below(d, t)
      BY <1>1, <1>3, <2>1, BelowClosed
    <2> QED
      BY <1>2, <2>1, <2>2
  <1> HIDE DEF X
  <1> QED
    BY <1>2, <1>3 DEF Acyclic

\* The step from d to e makes tables lead where they led, and to the clusters K,
\* which lead nowhere.
LeadsOnTo(d, e, K) ==
    /\ \A y \in Clusters : Subdirectories(e, y) \subseteq Subdirectories(d, y) \cup K
    /\ \A y \in K : Subdirectories(e, y) = {}

\* Such a step makes no cycle.
LEMMA NoNewCycle ==
    ASSUME NEW d, NEW e, NEW K, Acyclic(d), LeadsOnTo(d, e, K)
    PROVE  Acyclic(e)
  <1> SUFFICES ASSUME NEW X \in SUBSET Clusters, X # {}
               PROVE  \E x \in X : Subdirectories(e, x) \cap X = {}
    BY DEF Acyclic
  <1>1. CASE X \cap K # {}
    BY <1>1 DEF LeadsOnTo
  <1>2. CASE X \cap K = {}
    <2>1. PICK x \in X : Subdirectories(d, x) \cap X = {}
      BY DEF Acyclic
    <2> QED
      BY <1>2, <2>1 DEF LeadsOnTo
  <1> QED
    BY <1>1, <1>2

\* A write whose table leads where the old one led, or into K.
LeadsTo(w, K) ==
    \/ w.put.kind # "table"
    \/ w.put.entries = NoEntries
    \/ \E n, entry : w.put = WithEntry(w.at, n, entry).put /\ (entry.dir => entry.cluster \in K)
    \/ \E n : w.put = WithoutEntry(w.at, n).put

\* A sequence of such writes leads where its tables led, or into K.
LEMMA WritesLead ==
    ASSUME NEW w, NEW k \in Nat, NEW K, disk' = After(w, k), \A i \in 1 .. k : LeadsTo(w[i], K),
           NEW y \in Clusters
    PROVE  Subdirectories(disk', y) \subseteq Subdirectories(disk, y) \cup K
  <1> SUFFICES ASSUME NEW s \in Subdirectories(disk', y), s \notin K
               PROVE  s \in Subdirectories(disk, y)
    OBVIOUS
  <1>1. PICK m \in DOMAIN ReadTable(disk', y).entries :
          EntryOf(disk', y, m).dir /\ EntryOf(disk', y, m).cluster = s
    BY SubdirectoriesOf DEF EntryOf
  <1>2. CASE disk'[y] = disk[y]
    BY <1>2 DEF Subdirectories, ReadTable
  <1>3. ASSUME NEW i \in 1 .. k, w[i].at = y, disk'[y] = w[i].put
        PROVE  s \in Subdirectories(disk, y)
    <2>1. CASE w[i].put.kind # "table"
      BY <1>1, <1>3, <2>1, NoEntriesRead
    <2>2. CASE w[i].put.entries = NoEntries
      BY <1>1, <1>3, <2>1, <2>2 DEF ReadTable, NoEntries
    <2>3. ASSUME NEW n, NEW entry, disk'[y] = WithEntry(y, n, entry).put, entry.dir => entry.cluster \in K
          PROVE  s \in Subdirectories(disk, y)
      <3>1. /\ DOMAIN ReadTable(disk', y).entries = DOMAIN ReadTable(disk, y).entries \cup {n}
            /\ \A l \in DOMAIN ReadTable(disk, y).entries :
                 l # n => EntryOf(disk', y, l) = EntryOf(disk, y, l)
            /\ EntryOf(disk', y, n) = entry
        BY <2>3, WithEntryReads
      <3>2. m # n
        BY <1>1, <2>3, <3>1
      <3>3. /\ m \in DOMAIN ReadTable(disk, y).entries
            /\ EntryOf(disk, y, m).dir /\ EntryOf(disk, y, m).cluster = s
        BY <1>1, <3>1, <3>2
      <3> QED
        BY <3>3, SubdirectoriesOf DEF EntryOf
    <2>4. ASSUME NEW n, disk'[y] = WithoutEntry(y, n).put PROVE s \in Subdirectories(disk, y)
      <3>1. /\ m \in DOMAIN ReadTable(disk, y).entries
            /\ EntryOf(disk, y, m).dir /\ EntryOf(disk, y, m).cluster = s
        BY <1>1, <2>4, WithoutEntryReads
      <3> QED
        BY <3>1, SubdirectoriesOf DEF EntryOf
    <2> QED
      BY <1>3, <2>1, <2>2, <2>3, <2>4 DEF LeadsTo
  <1> QED
    BY <1>2, <1>3, AfterAt

\* An operation whose writes lead nowhere new makes no cycle.
LEMMA WritesKeepAcyclic ==
    ASSUME Acyclic(disk), NEW w, Len(w) \in Nat, Len(w) > 0, \A i \in 1 .. Len(w) : LeadsTo(w[i], {}),
           NEW f, NEW gone, Perform(w, f, gone) \/ Hang(w, gone)
    PROVE  Acyclic(disk')
  <1>1. PICK k \in 1 .. Len(w) : disk' = After(w, k)
    BY PerformWrites, HangWrites
  <1>2. k \in Nat /\ \A i \in 1 .. k : LeadsTo(w[i], {})
    BY <1>1
  <1>3. \A y \in Clusters : Subdirectories(disk', y) \subseteq Subdirectories(disk, y) \cup {}
    BY <1>1, <1>2, WritesLead
  <1>4. LeadsOnTo(disk, disk', {})
    BY <1>3 DEF LeadsOnTo
  <1> QED
    BY <1>4, NoNewCycle

\* mkdir leads to the new directory, whose table is empty: written last, and what is in
\* its place before it is written is empty on a store.
LEMMA WriteDirectoryKeepsAcyclic ==
    ASSUME Fat32Inv, Acyclic(disk), losses' # losses => WellUsed /\ OwnershipInv,
           NEW p \in Clusters, NEW n \in Names, WriteDirectory(p, n)
    PROVE  Acyclic(disk')
  <1> DEFINE c == IF MakesRoot(p, n) THEN ROOT_CLUSTER_NUMBER ELSE GetEmptyCluster(fat)
             parent == IF MakesRoot(p, n) THEN RootLink ELSE ReadTable(disk, p).self
             newFat == [LoadedFat(disk) EXCEPT ![c] = END_OF_FILE]
             entry == Entry(TRUE, c, 0)
             table == Table(Link(n, c), parent, NoEntries)
             w == <<WithEntry(p, n, entry),
                    [at |-> FAT_CLUSTER_NUMBER, put |-> FatContent(newFat)],
                    [at |-> c, put |-> table]>>
  <1>1. Perform(w, newFat, {}) /\ power = "on" /\ WriteCode(p, n) = 0 /\ Affordable(1)
        /\ (MakesRoot(p, n) => "make_root" \in Misuse)
    BY DEF WriteDirectory
  <1>2. c \in Clusters /\ c # FAT_CLUSTER_NUMBER
    BY EmptyClusterIsCluster, RootIsCluster DEF ROOT_CLUSTER_NUMBER, FAT_CLUSTER_NUMBER
  <1>3. w[1].at = p /\ w[1].put = WithEntry(p, n, entry).put /\ Len(w) = 3
    BY DEF WithEntry
  <1>4. /\ w[2].at = FAT_CLUSTER_NUMBER /\ w[2].put = FatContent(newFat)
        /\ w[3].at = c /\ w[3].put = table
    OBVIOUS
  <1>5. entry.cluster = c /\ table.entries = NoEntries
    BY DEF Entry, Table
  <1>6. ASSUME disk'[c] = table PROVE Subdirectories(disk', c) = {}
    <2>1. DOMAIN ReadTable(disk', c).entries = {}
      BY <1>6, NoEntriesRead
    <2> QED
      BY <2>1, SubdirectoriesOf
  <1>7. WellUsed => c = GetEmptyCluster(fat)
    BY <1>1 DEF WellUsed
  <1> HIDE DEF w, newFat, table, entry, c
  <1>8. \A i \in 1 .. 3 : LeadsTo(w[i], {c})
    <2>1. LeadsTo(w[1], {c})
      BY <1>3, <1>5 DEF LeadsTo
    <2>2. LeadsTo(w[2], {c})
      <3>1. FatContent(newFat).kind # "table"
        BY DEF FatContent
      <3> QED
        BY <1>4, <3>1 DEF LeadsTo
    <2>3. LeadsTo(w[3], {c})
      BY <1>4, <1>5 DEF LeadsTo
    <2>4. \A i \in 1 .. 3 : i = 1 \/ i = 2 \/ i = 3
      OBVIOUS
    <2> QED
      BY <2>1, <2>2, <2>3, <2>4
  <1>9. ASSUME NEW k \in 1 .. 3, disk' = After(w, k), Subdirectories(disk', c) = {}
        PROVE  Acyclic(disk')
    <2>1. k \in Nat /\ \A i \in 1 .. k : LeadsTo(w[i], {c})
      BY <1>8
    <2>2. \A y \in Clusters : Subdirectories(disk', y) \subseteq Subdirectories(disk, y) \cup {c}
      BY <1>9, <2>1, WritesLead
    <2>3. LeadsOnTo(disk, disk', {c})
      BY <1>9, <2>2 DEF LeadsOnTo
    <2> QED
      BY <2>3, NoNewCycle
  <1>10. CASE \E v \in {w} : disk' = After(v, Len(v))
    <2>1. disk' = After(w, 3) /\ 3 \in 1 .. 3
      <3>1. disk' = After(w, Len(w))
        BY <1>10
      <3> QED
        BY <1>3, <3>1
    <2>2. disk'[c] = table
      <3>1. \A j \in 1 .. 3 : j > 3 => w[j].at # w[3].at
        OBVIOUS
      <3> QED
        BY <1>2, <1>4, <2>1, <3>1, LastWriteStands
    <2> QED
      BY <1>6, <1>9, <2>1, <2>2
  <1>11. CASE losses' = losses + 1 /\ \E k \in 1 .. Len(w) - 1 : disk' = After(w, k)
    <2>1. PICK k \in 1 .. 2 : disk' = After(w, k)
      BY <1>3, <1>11
    <2>2. losses' # losses
      BY <1>11, Numbers DEF Fat32Inv
    <2>3. /\ IsStore(disk) /\ fat = LoadedFat(disk) /\ p \in Tables(disk)
          /\ EmptyClusters(fat) # {}
      BY <1>1, <2>2, WriteRelies
    <2>4. c \in EmptyClusters(fat)
      BY <1>7, <2>2, <2>3, EmptyClusterIsEmpty
    <2>5. LoadedFat(disk)[c] = EMPTY_ENTRY
      BY <2>3, <2>4, EmptyClusterFacts
    <2>6. c # p /\ c \notin Tables(disk)
      BY <2>3, <2>5, TableFacts
    <2>7. DOMAIN ReadTable(disk, c).entries = {}
      BY <1>2, <2>3, <2>6 DEF IsStore, StaleEmpty
    <2>8. disk'[c] = disk[c]
      <3>1. \A i \in 1 .. k : i = 1 \/ i = 2
        OBVIOUS
      <3>2. \A i \in 1 .. k : w[i].at # c
        BY <1>2, <1>3, <1>4, <2>6, <3>1
      <3>3. k \in Nat
        OBVIOUS
      <3> QED
        BY <1>2, <2>1, <3>2, <3>3, Unwritten
    <2>9. Subdirectories(disk', c) = {}
      <3>1. ReadTable(disk', c) = ReadTable(disk, c)
        BY <2>8 DEF ReadTable
      <3> QED
        BY <2>7, <3>1, SubdirectoriesOf
    <2>10. k \in 1 .. 3
      OBVIOUS
    <2> QED
      BY <1>9, <2>1, <2>9, <2>10
  <1> QED
    BY <1>1, <1>10, <1>11 DEF Perform

\* Formatting writes one table, and it is empty.
LEMMA CreateKeepsAcyclic ==
    ASSUME Acyclic(disk), Create PROVE Acyclic(disk')
  <1> DEFINE w == <<[at |-> BOOT_SECTOR, put |-> Signature],
                    [at |-> ROOT_CLUSTER_NUMBER, put |-> RootTable],
                    [at |-> FAT_CLUSTER_NUMBER, put |-> FatContent(FreshFat)]>>
  <1>1. Perform(w, FreshFat, {})
    BY DEF Create
  <1>2. /\ Len(w) = 3 /\ w[1].put = Signature /\ w[2].put = RootTable
        /\ w[3].put = FatContent(FreshFat)
    OBVIOUS
  <1>3. Signature.kind # "table" /\ RootTable.entries = NoEntries /\ FatContent(FreshFat).kind # "table"
    BY DEF Signature, RootTable, Table, FatContent
  <1> HIDE DEF w
  <1>4. \A i \in 1 .. Len(w) : LeadsTo(w[i], {})
    <2>1. \A i \in 1 .. 3 : i = 1 \/ i = 2 \/ i = 3
      OBVIOUS
    <2> QED
      BY <1>2, <1>3, <2>1 DEF LeadsTo
  <1>5. Len(w) \in Nat /\ Len(w) > 0
    BY <1>2
  <1> QED
    BY <1>1, <1>4, <1>5, WritesKeepAcyclic

\* Writing a file enters no directory, and its blocks are no tables.
LEMMA WriteFileKeepsAcyclic ==
    ASSUME Acyclic(disk), NEW p \in Clusters, NEW n \in Names, NEW size \in Sizes, NEW payload,
           WriteFile(p, n, size, payload)
    PROVE  Acyclic(disk')
  <1> DEFINE needed == NeededClusters(size)
             entry == Entry(FALSE, GetEmptyCluster(fat), size)
             first == WithEntry(p, n, entry)
             newFat == FileLoop(needed)[needed].map
             w == <<first>> \o FileWrites(needed, payload)
  <1>1. needed \in Nat /\ needed > 0
    BY FilesNeedClusters
  <1>2. Perform(w, newFat, {})
    BY DEF WriteFile
  <1>3. first.at = p /\ first.put = WithEntry(p, n, entry).put /\ entry.dir = FALSE
    BY DEF WithEntry, Entry
  <1> HIDE DEF needed, entry, first
  <1>4. /\ Len(w) = 2 * needed + 1
        /\ w[1] = first
        /\ \A i \in 1 .. needed :
             /\ w[2 * i].at = NewChain(needed)[i]
             /\ w[2 * i].put = Block(payload, i)
             /\ w[2 * i + 1].at = FAT_CLUSTER_NUMBER
             /\ w[2 * i + 1].put = FatContent(FileLoop(needed)[i].map)
    BY <1>1, FileWritesSequence
  <1> HIDE DEF w, newFat
  <1>5. LeadsTo(w[1], {})
    BY <1>3, <1>4 DEF LeadsTo
  <1>6. ASSUME NEW i \in 1 .. needed PROVE LeadsTo(w[2 * i], {}) /\ LeadsTo(w[2 * i + 1], {})
    <2>1. \A f : Block(payload, i).kind # "table" /\ FatContent(f).kind # "table"
      BY DEF Block, FatContent
    <2> QED
      BY <1>4, <2>1 DEF LeadsTo
  <1>7. \A j \in 1 .. Len(w) : LeadsTo(w[j], {})
    <2> TAKE j \in 1 .. Len(w)
    <2>1. j \in 1 .. 2 * needed + 1
      BY <1>4
    <2>2. j = 1 \/ \E i \in 1 .. needed : j = 2 * i \/ j = 2 * i + 1
      BY <1>1, <2>1, OddOrEven
    <2> QED
      BY <1>5, <1>6, <2>2
  <1>8. Len(w) \in Nat /\ Len(w) > 0
    BY <1>1, <1>4
  <1> QED
    BY <1>2, <1>7, <1>8, WritesKeepAcyclic

\* Deleting takes an entry away.
LEMMA DeleteKeepsAcyclic ==
    ASSUME Acyclic(disk), NEW p \in Clusters, NEW n \in Names, Delete(p, n)
    PROVE  Acyclic(disk')
  <1> DEFINE c == EntryOf(disk, p, n).cluster
             gone == {v \in View(disk) : v.in = p /\ v.name = n}
             newFat == ClearCluster(fat, c)
             first == WithoutEntry(p, n)
             u == <<first>>
             w == <<first, [at |-> FAT_CLUSTER_NUMBER, put |-> FatContent(newFat)]>>
  <1>1. Perform(w, newFat, gone) \/ Hang(u, gone)
    BY DEF Delete
  <1>2. first.put = WithoutEntry(first.at, n).put
    BY DEF WithoutEntry
  <1>3. LeadsTo(first, {})
    BY <1>2 DEF LeadsTo
  <1>4. \A v : v.put = FatContent(newFat) => LeadsTo(v, {})
    <2>1. FatContent(newFat).kind # "table"
      BY DEF FatContent
    <2> QED
      BY <2>1 DEF LeadsTo
  <1>5. /\ Len(w) = 2 /\ w[1] = first /\ w[2].put = FatContent(newFat)
        /\ Len(u) = 1 /\ u[1] = first
    OBVIOUS
  <1> HIDE DEF u, w, first, newFat, gone
  <1>6. CASE Perform(w, newFat, gone)
    <2>1. \A i \in 1 .. Len(w) : LeadsTo(w[i], {})
      <3>1. \A i \in 1 .. 2 : i = 1 \/ i = 2
        OBVIOUS
      <3> QED
        BY <1>3, <1>4, <1>5, <3>1
    <2>2. Len(w) \in Nat /\ Len(w) > 0
      BY <1>5
    <2> QED
      BY <1>6, <2>1, <2>2, WritesKeepAcyclic
  <1>7. CASE Hang(u, gone)
    <2>1. \A i \in 1 .. Len(u) : LeadsTo(u[i], {})
      BY <1>3, <1>5
    <2>2. Len(u) \in Nat /\ Len(u) > 0
      BY <1>5
    <2> QED
      BY <1>7, <2>1, <2>2, WritesKeepAcyclic
  <1> QED
    BY <1>1, <1>6, <1>7

\* A power loss is survived on a disk that was a store; without one, anything goes.
RareLoss == "power_loss" \in Misuse => WellUsed /\ MaxLosses <= 1

\* The invariant: no cycle, and until the power fails the disk is a store.
LookupInv ==
    /\ Fat32Inv
    /\ "power_loss" \in Misuse /\ losses = 0 => OwnershipInv
    /\ Acyclic(disk)

\* A blank disk leads nowhere.
LEMMA InitLookup == Init => LookupInv
  <1> SUFFICES ASSUME Init PROVE LookupInv
    OBVIOUS
  <1>1. \A y \in Clusters : Subdirectories(disk, y) = {}
    <2>1. \A y \in Clusters : disk[y].kind # "table"
      BY DEF Init, Blank
    <2> QED
      BY <2>1, NoEntriesRead, SubdirectoriesOf
  <1>2. Acyclic(disk)
    BY <1>1 DEF Acyclic
  <1> QED
    BY <1>2, InitFat32Inv, InitOwnership DEF LookupInv

\* One step per operation; mkdir's is the one that needs the disk to be a store.
LEMMA NextLookup ==
    ASSUME RareLoss, LookupInv, [Next]_vars PROVE LookupInv'
  <1>1. Fat32Inv /\ Fat32Inv' /\ Acyclic(disk) /\ losses \in Nat /\ MaxLosses \in Nat
    BY NextFat32Inv, Numbers DEF LookupInv, Fat32Inv
  <1>2. losses' # losses => WellUsed /\ OwnershipInv /\ losses' # 0
    <2> SUFFICES ASSUME losses' # losses PROVE WellUsed /\ OwnershipInv /\ losses' # 0
      OBVIOUS
    <2>1. "power_loss" \in Misuse /\ losses < MaxLosses /\ losses' = losses + 1
      BY StepForgets
    <2>2. WellUsed /\ losses = 0
      BY <1>1, <2>1 DEF RareLoss
    <2> QED
      BY <1>1, <2>1, <2>2 DEF LookupInv
  <1>3. "power_loss" \in Misuse /\ losses' = 0 => OwnershipInv'
    <2> SUFFICES ASSUME "power_loss" \in Misuse, losses' = 0 PROVE OwnershipInv'
      OBVIOUS
    <2>1. losses' = losses /\ WellUsed
      BY <1>2 DEF RareLoss
    <2> QED
      BY <2>1, NextOwnership DEF LookupInv
  <1>4. CASE Load \/ SwitchOff \/ UNCHANGED vars
    <2>1. disk' = disk
      BY <1>4 DEF Load, SwitchOff, vars
    <2> QED
      BY <1>1, <1>3, <2>1 DEF LookupInv
  <1>5. ASSUME NEW p, NEW n, NEW size, ReadHangs(p, n, size) PROVE Acyclic(disk')
    <2>1. disk' = After(<<>>, 0)
      BY <1>5 DEF ReadHangs, Hang
    <2>2. \A y \in Clusters : disk'[y] = disk[y]
      <3>1. \A i \in 1 .. 0 : FALSE
        OBVIOUS
      <3> QED
        BY <2>1, <3>1, Unwritten
    <2>3. \A y \in Clusters : Subdirectories(disk', y) = Subdirectories(disk, y)
      BY <2>2 DEF Subdirectories, ReadTable
    <2> QED
      BY <1>1, <2>3 DEF Acyclic
  <1>6. CASE Next
    <2>1. CASE Create
      BY <1>1, <1>3, <2>1, CreateKeepsAcyclic DEF LookupInv
    <2>2. CASE \E p \in Clusters, n \in Names, size \in Sizes :
                 p \in Parents /\ ReadHangs(p, n, size)
      BY <1>1, <1>3, <1>5, <2>2 DEF LookupInv
    <2>3. CASE \E p \in Clusters, n \in Names : p \in Parents /\ WriteDirectory(p, n)
      BY <1>1, <1>2, <1>3, <2>3, WriteDirectoryKeepsAcyclic DEF LookupInv
    <2>4. CASE \E p \in Clusters, n \in Names, size \in Sizes, payload \in Payloads :
                 p \in Parents /\ WriteFile(p, n, size, payload)
      BY <1>1, <1>3, <2>4, WriteFileKeepsAcyclic DEF LookupInv
    <2>5. CASE \E p \in Clusters, n \in Names : p \in Parents /\ Delete(p, n)
      BY <1>1, <1>3, <2>5, DeleteKeepsAcyclic DEF LookupInv
    <2> QED
      BY <1>4, <1>6, <2>1, <2>2, <2>3, <2>4, <2>5 DEF Next
  <1> QED
    BY <1>4, <1>6

\* No directory lies below itself, so is_directory's recursion ends: whatever programs
\* name as a parent and however full the disk, and if the power fails inside one
\* operation on a disk that does not fill.
THEOREM LookupsEnd == RareLoss /\ Spec => []LookupsTerminate
  <1>1. CASE RareLoss
    <2>1. LookupInv /\ [Next]_vars => LookupInv'
      BY <1>1, NextLookup
    <2>2. LookupInv => LookupsTerminate
      BY AcyclicEnds DEF LookupInv, Fat32Inv, LookupsTerminate
    <2> QED
      BY <2>1, <2>2, InitLookup, PTL DEF Spec
  <1>2. CASE ~RareLoss
    BY <1>2
  <1> QED
    BY <1>1, <1>2
=============================================================================
