---------------------------- MODULE ShellProofs ----------------------------
(***************************************************************************)
(* What holds whatever is typed, served by the commands or not (Slips is   *)
(* any set), however commands nest, shells interleave and the machine is   *)
(* switched off.  A shell never loses the root, its stacks hold links that *)
(* were read from tables, and what it passes to the system calls names a   *)
(* cluster and a name: so the disk stays a store.                          *)
(*                                                                         *)
(* The two need each other.  That read_directory returns a directory's     *)
(* table, with an entry 0 that says which, is because the disk is a store; *)
(* that the disk stays one is because the calls name things read that way. *)
(***************************************************************************)
EXTENDS Shell, Fat32Proofs, SequenceTheorems

LEMMA SessionFiles ==
    ASSUME NEW x \in Sessions
    PROVE  LET N == Len(x.files)
           IN  /\ N \in Nat /\ DOMAIN x.files = 1 .. N
               /\ N <= DIRECTORY_ENTRIES /\ N < CLUSTER_MAP_SIZE - 3
               /\ \A i \in 1 .. N : x.files[i].name \in Names
               /\ \A i, j \in 1 .. N : x.files[i].name = x.files[j].name => i = j
  <1> DEFINE files == x.files
  <1>1. /\ files \in Seq([name: Names, payload: Payloads])
        /\ \A i, j \in DOMAIN files : files[i].name = files[j].name => i = j
        /\ Len(files) <= DIRECTORY_ENTRIES /\ Len(files) < CLUSTER_MAP_SIZE - 3
    BY ShellAssumption
  <1> HIDE DEF files
  <1>2. Len(files) \in Nat /\ DOMAIN files = 1 .. Len(files)
        /\ \A i \in 1 .. Len(files) : files[i] \in [name: Names, payload: Payloads]
    <2> DEFINE A == [name: Names, payload: Payloads]
    <2>1. files \in Seq(A)
      BY <1>1
    <2> HIDE DEF A
    <2>2. Len(files) \in Nat /\ DOMAIN files = 1 .. Len(files) /\ \A i \in 1 .. Len(files) : files[i] \in A
      BY <2>1
    <2> QED
      BY <2>2 DEF A
  <1>3. \A i \in 1 .. Len(files) : files[i].name \in Names
    BY <1>2
  <1> QED
    BY <1>1, <1>2, <1>3 DEF files

LEMMA ContentKinds ==
    /\ \A p, i : Block(p, i).kind = "data"
    /\ Blank.kind = "blank" /\ Signature.kind = "signature"
  BY DEF Block, Blank, Signature

LEMMA FileEntryOK ==
    ASSUME NEW c \in Clusters, NEW size \in Sizes, NEW d \in BOOLEAN
    PROVE  Entry(d, c, size) \in [dir: BOOLEAN, cluster: Clusters, size: Sizes \cup {0}]
  BY DEF Entry

\* The files the inserter left own a cluster each.
LEMMA InsertedStore ==
    ASSUME NEW x \in Sessions
    PROVE  LET d == InsertedDisk(x.files)
           IN  d[BOOT_SECTOR] = Signature /\ IsStore(d) /\ Subdirectories(d, ROOT_CLUSTER_NUMBER) = {}
  <1> DEFINE files == x.files
             N == Len(files)
             names == {files[i].name : i \in DOMAIN files}
             at == [i \in DOMAIN files |-> ROOT_CLUSTER_NUMBER + i]
             of(n) == CHOOSE i \in DOMAIN files : files[i].name = n
             entries == [n \in names |-> Entry(FALSE, at[of(n)], FileSize)]
             used == [c \in Clusters |-> IF c \in Range(at) THEN END_OF_FILE ELSE FreshFat[c]]
             d == InsertedDisk(files)
  <1>1. /\ N \in Nat /\ DOMAIN files = 1 .. N
        /\ N <= DIRECTORY_ENTRIES /\ N < CLUSTER_MAP_SIZE - 3
        /\ \A i \in 1 .. N : files[i].name \in Names
        /\ \A i, j \in 1 .. N : files[i].name = files[j].name => i = j
    BY SessionFiles
  <1>2. d = [c \in Clusters |->
               CASE c = BOOT_SECTOR -> Signature
                 [] c = FAT_CLUSTER_NUMBER -> FatContent(used)
                 [] c = ROOT_CLUSTER_NUMBER -> Table(RootLink, RootLink, entries)
                 [] c \in Range(at) -> Block(files[c - ROOT_CLUSTER_NUMBER].payload, 1)
                 [] OTHER -> Blank]
    BY DEF InsertedDisk
  <1>3. Range(at) = {ROOT_CLUSTER_NUMBER + i : i \in 1 .. N}
    BY <1>1 DEF Range
  <1> DEFINE R == Range(at)
  <1> HIDE DEF files, d
  <1>4. \A c : c \in R <=> c \in Clusters /\ 3 <= c /\ c <= N + 2
    <2>1. \A c : c \in R <=> \E i \in 1 .. N : c = 2 + i
      BY <1>3 DEF ROOT_CLUSTER_NUMBER
    <2>2. \A c : c \in R => c \in Clusters /\ 3 <= c /\ c <= N + 2
      BY <1>1, <2>1, Numbers DEF Clusters
    <2>3. \A c \in Clusters : 3 <= c /\ c <= N + 2 => c - 2 \in 1 .. N /\ c = 2 + (c - 2)
      BY <1>1, Numbers DEF Clusters
    <2> QED
      BY <2>1, <2>2, <2>3
  <1>5. /\ 0 \notin R /\ 1 \notin R /\ 2 \notin R
        /\ {0, 1, 2} \subseteq Clusters
    BY <1>4, Numbers
  <1> HIDE DEF R
  <1>6. used \in [Clusters -> FatValues]
    BY EndIsNoCluster, FreshFatOK
  <1>7. \A c \in Clusters : used[c] = IF c \in R THEN END_OF_FILE ELSE FreshFat[c]
    BY DEF R
  <1> HIDE DEF used
  <1>8. \A n \in names : of(n) \in 1 .. N /\ files[of(n)].name = n
    BY <1>1
  <1>9. \A i \in 1 .. N : files[i].name \in names /\ of(files[i].name) = i
    BY <1>1, <1>8
  <1>10. names \subseteq Names
    BY <1>1
  <1>11. IsFiniteSet(names) /\ Cardinality(names) <= DIRECTORY_ENTRIES
    <2> DEFINE f == [i \in 1 .. N |-> files[i].name]
    <2>1. f \in Surjection(1 .. N, names)
      BY <1>1, <1>8 DEF Surjection
    <2>0. 1 \in Int /\ N \in Int /\ N >= 0
      BY <1>1
    <2>4. IsFiniteSet(1 .. N) /\ Cardinality(1 .. N) = IF 1 > N THEN 0 ELSE N - 1 + 1
      BY <2>0, FS_Interval
    <2>2. IsFiniteSet(1 .. N) /\ Cardinality(1 .. N) = N
      BY <2>0, <2>4
    <2> HIDE DEF f, names
    <2>3. IsFiniteSet(names) /\ Cardinality(names) <= N
      BY <2>1, <2>2, FS_Surjection
    <2> QED
      BY <1>1, <2>3, Numbers, FS_CardinalityType
  <1>12. \A n \in names : entries[n] = Entry(FALSE, 2 + of(n), FileSize) /\ 2 + of(n) \in R
    <2>1. \A n \in names : at[of(n)] = 2 + of(n) /\ 2 + of(n) \in R
      BY <1>1, <1>3, <1>8 DEF R, ROOT_CLUSTER_NUMBER
    <2> HIDE DEF of, at
    <2> QED
      BY <2>1
  <1>13. DOMAIN entries = names
    OBVIOUS
  <1> HIDE DEF entries, names, of, at
  <1>14. /\ d[0] = Signature
         /\ d[FAT_CLUSTER_NUMBER] = FatContent(used)
         /\ d[ROOT_CLUSTER_NUMBER] = Table(RootLink, RootLink, entries)
         /\ \A c \in Clusters : c \notin {0, 1, 2} =>
              \/ \E p : d[c] = Block(p, 1)
              \/ d[c] = Blank
    <2>1. d = [c \in Clusters |->
               CASE c = 0 -> Signature
                 [] c = 1 -> FatContent(used)
                 [] c = 2 -> Table(RootLink, RootLink, entries)
                 [] c \in R -> Block(files[c - ROOT_CLUSTER_NUMBER].payload, 1)
                 [] OTHER -> Blank]
      BY <1>2 DEF R, BOOT_SECTOR, FAT_CLUSTER_NUMBER, ROOT_CLUSTER_NUMBER
    <2>2. d[0] = Signature /\ d[1] = FatContent(used) /\ d[2] = Table(RootLink, RootLink, entries)
      BY <1>5, <2>1
    <2>3. ASSUME NEW c \in Clusters, c \notin {0, 1, 2}
          PROVE  (\E p : d[c] = Block(p, 1)) \/ d[c] = Blank
      <3>1. CASE c \in R
        <4>1. d[c] = Block(files[c - ROOT_CLUSTER_NUMBER].payload, 1)
          BY <2>1, <2>3, <3>1
        <4> QED
          BY <4>1
      <3>2. CASE c \notin R
        BY <2>1, <2>3, <3>2
      <3> QED
        BY <3>1, <3>2
    <2> QED
      BY <2>2, <2>3 DEF FAT_CLUSTER_NUMBER, ROOT_CLUSTER_NUMBER
  <1>15. /\ LoadedFat(d) = used
         /\ ReadTable(d, ROOT_CLUSTER_NUMBER) = Table(RootLink, RootLink, entries)
         /\ \A c \in Clusters \ {ROOT_CLUSTER_NUMBER} : d[c].kind # "table"
    <2>1. FatContent(used).kind = "fat" /\ FatContent(used).map = used
      BY DEF FatContent
    <2>2. Table(RootLink, RootLink, entries).kind = "table"
      BY DEF Table
    <2>3. ASSUME NEW c \in Clusters, c # 2 PROVE d[c].kind # "table"
      <3>1. CASE c \in {0, 1}
        BY <1>14, <2>1, <3>1 DEF Signature, FAT_CLUSTER_NUMBER
      <3>2. CASE c \notin {0, 1}
        <4>1. (\E p : d[c] = Block(p, 1)) \/ d[c] = Blank
          BY <1>14, <2>3, <3>2
        <4> QED
          BY <4>1, ContentKinds
      <3> QED
        BY <3>1, <3>2
    <2> QED
      BY <1>14, <2>1, <2>2, <2>3 DEF LoadedFat, ReadTable, ROOT_CLUSTER_NUMBER
  <1>16. /\ ReadTable(d, ROOT_CLUSTER_NUMBER).self = RootLink
         /\ ReadTable(d, ROOT_CLUSTER_NUMBER).parent = RootLink
         /\ ReadTable(d, ROOT_CLUSTER_NUMBER).entries = entries
         /\ \A c \in Clusters \ {ROOT_CLUSTER_NUMBER} : DOMAIN ReadTable(d, c).entries = {}
    BY <1>15, NoEntriesRead DEF Table
  <1>17. DiskOK(d)
    <2>1. ContentOK(d[ROOT_CLUSTER_NUMBER])
      <3> DEFINE t == Table(RootLink, RootLink, entries)
      <3>1. RootLink \in {NoLink} \cup {Link(n, c) : n \in Names, c \in Clusters}
        BY Numbers, RootIsCluster, LinkOK DEF RootLink
      <3>2. \A n \in names : entries[n] \in [dir: BOOLEAN, cluster: Clusters, size: Sizes \cup {0}]
        <4>1. FileSize \in Sizes
          BY ShellAssumption
        <4>2. \A n \in names : entries[n] = Entry(FALSE, 2 + of(n), FileSize) /\ 2 + of(n) \in Clusters
          BY <1>4, <1>12
        <4> QED
          BY <4>1, <4>2, FileEntryOK
      <3>3. t.self = RootLink /\ t.parent = RootLink /\ t.entries = entries /\ t.kind = "table"
        BY DEF Table
      <3> HIDE DEF t
      <3>4. TableOK(t) /\ IsFiniteSet(DOMAIN t.entries)
        BY <1>10, <1>11, <1>13, <3>1, <3>2, <3>3 DEF TableOK
      <3> QED
        BY <1>14, <3>3, <3>4 DEF ContentOK, t
    <2>2. ContentOK(d[FAT_CLUSTER_NUMBER])
      BY <1>6, <1>14, FatContentOK
    <2>3. ASSUME NEW c \in Clusters, c # 1, c # 2 PROVE ContentOK(d[c])
      <3>1. d[c].kind # "table"
        BY <1>15, <2>3 DEF ROOT_CLUSTER_NUMBER
      <3>2. d[c].kind # "fat"
        <4>1. d[c] = Signature \/ (\E p : d[c] = Block(p, 1)) \/ d[c] = Blank
          BY <1>14, <2>3
        <4> QED
          BY <4>1, ContentKinds
      <3> QED
        BY <3>1, <3>2 DEF ContentOK
    <2> QED
      BY <2>1, <2>2, <2>3 DEF DiskOK, FAT_CLUSTER_NUMBER, ROOT_CLUSTER_NUMBER
  <1>18. \A n \in names : EntryOf(d, ROOT_CLUSTER_NUMBER, n) = Entry(FALSE, 2 + of(n), FileSize)
    BY <1>12, <1>16 DEF EntryOf
  <1>19. Subdirectories(d, ROOT_CLUSTER_NUMBER) = {}
    BY <1>12, <1>13, <1>16, SubdirectoriesOf DEF Entry
  <1>20. Tables(d) = {ROOT_CLUSTER_NUMBER}
    BY <1>17, <1>19, TablesLeast, TablesClosed
  <1>21. /\ \A n \in names : <<ROOT_CLUSTER_NUMBER, n>> \in EntriesOn(d)
         /\ \A e \in EntriesOn(d) : e = <<ROOT_CLUSTER_NUMBER, e[2]>> /\ e[1] = ROOT_CLUSTER_NUMBER /\ e[2] \in names
    BY <1>13, <1>16, <1>20, EntriesFact, EntryPairs
  <1>22. \A e \in EntriesOn(d) : ~EntryOf(d, e[1], e[2]).dir /\ ClusterOf(d, e) = 2 + of(e[2])
    BY <1>18, <1>21 DEF ClusterOf, Entry
  <1>23. \A e \in EntriesOn(d) : Ends(used, 2 + of(e[2])) /\ Owned(d, e) = {2 + of(e[2])}
    <2> SUFFICES ASSUME NEW e \in EntriesOn(d)
                 PROVE  Ends(used, 2 + of(e[2])) /\ Owned(d, e) = {2 + of(e[2])}
      OBVIOUS
    <2> DEFINE c == 2 + of(e[2])
               s == <<c>>
    <2>1. c \in R /\ c \in Clusters
      BY <1>4, <1>12, <1>21
    <2>2. used[c] = END_OF_FILE
      BY <1>7, <2>1
    <2>3. ClusterOf(d, e) = c
      BY <1>22
    <2> HIDE DEF c
    <2>4. s \in Seq(Clusters) /\ Len(s) = 1 /\ s[1] = c /\ 1 \in 1 .. CLUSTER_MAP_SIZE /\ Range(s) = {c}
      BY <2>1, Numbers DEF Range
    <2> HIDE DEF s
    <2>5. IsPath(used, s)
      BY <2>2, <2>4 DEF IsPath
    <2>6. Ends(used, c) /\ Chain(used, c) = s
      BY <1>6, <2>4, <2>5, PathIsChain
    <2> QED
      BY <1>15, <2>3, <2>4, <2>6 DEF Owned, c
  <1>24. ChainsApart(d)
    <2>1. ASSUME NEW e \in EntriesOn(d)
          PROVE  Ends(LoadedFat(d), ClusterOf(d, e)) /\ ROOT_CLUSTER_NUMBER \notin Owned(d, e)
      <3>1. 2 + of(e[2]) # 2
        BY <1>5, <1>12, <1>21
      <3> QED
        BY <1>15, <1>22, <1>23, <3>1 DEF ROOT_CLUSTER_NUMBER
    <2>2. ASSUME NEW e \in EntriesOn(d), NEW f \in EntriesOn(d), e # f
          PROVE  Owned(d, e) \cap Owned(d, f) = {}
      <3>1. e[2] \in names /\ f[2] \in names /\ e[2] # f[2]
        BY <1>21, <2>2
      <3>2. of(e[2]) \in 1 .. N /\ of(f[2]) \in 1 .. N /\ of(e[2]) # of(f[2])
        BY <1>8, <3>1
      <3>3. 2 + of(e[2]) # 2 + of(f[2])
        BY <1>1, <3>2
      <3> QED
        BY <1>23, <3>3
    <2>3. \A c \in Clusters : c >= 2 => (used[c] # EMPTY_ENTRY <=> c = 2 \/ c \in R)
      <3>1. END_OF_FILE # EMPTY_ENTRY
        BY EndIsNoCluster
      <3>2. \A c \in Clusters : c >= 2 => FreshFat[c] = IF c = ROOT_CLUSTER_NUMBER THEN END_OF_FILE ELSE EMPTY_ENTRY
        <4>1. EmptyFat = [c \in Clusters |-> EMPTY_ENTRY]
          BY DEF EmptyFat
        <4>2. \A c \in Clusters : c >= 2 => c # 0 /\ c # 1
          BY Numbers DEF Clusters
        <4> QED
          BY <4>1, <4>2 DEF FreshFat, ROOT_CLUSTER_NUMBER
      <3> QED
        BY <1>7, <3>1, <3>2 DEF ROOT_CLUSTER_NUMBER
    <2>4. ASSUME NEW c \in R PROVE \E e \in EntriesOn(d) : c \in Owned(d, e)
      <3>1. PICK i \in 1 .. N : c = 2 + i
        BY <1>3 DEF R, ROOT_CLUSTER_NUMBER
      <3> DEFINE n == files[i].name
                 e == <<ROOT_CLUSTER_NUMBER, n>>
      <3>2. n \in names /\ of(n) = i /\ e[2] = n
        BY <1>9
      <3>3. e \in EntriesOn(d)
        BY <1>21, <3>2
      <3> QED
        BY <1>23, <3>1, <3>2, <3>3
    <2>5. ASSUME NEW e \in EntriesOn(d) PROVE Owned(d, e) \subseteq R
      BY <1>12, <1>21, <1>23
    <2>6. \A c \in R : c \in Clusters /\ c >= 2
      BY <1>4, Numbers DEF Clusters
    <2>7. {c \in Clusters : c >= 2 /\ LoadedFat(d)[c] # EMPTY_ENTRY} = {2} \cup R
      BY <1>5, <1>15, <2>3, <2>6
    <2>8. UNION {Owned(d, e) : e \in EntriesOn(d)} = R
      BY <2>4, <2>5
    <2> QED
      BY <2>1, <2>2, <2>7, <2>8 DEF ChainsApart, ROOT_CLUSTER_NUMBER
  <1>25. Linked(d)
    BY <1>16, <1>22 DEF Linked
  <1>26. StaleEmpty(d)
    BY <1>16, <1>20 DEF StaleEmpty
  <1>27. Reserved(d)
    BY <1>5, <1>7, <1>15, Numbers DEF Reserved, FreshFat, EmptyFat, ROOT_CLUSTER_NUMBER
  <1> QED
    BY <1>14, <1>17, <1>19, <1>24, <1>25, <1>26, <1>27 DEF IsStore, BOOT_SECTOR, d, files

-----------------------------------------------------------------------------
\* The machine is up, and its disk is a store.
Served == OwnershipInv /\ power = "on"

\* What a system call of a shell does to the file system: nothing, or one
\* operation on an entry of a cluster it names.
SystemCall ==
    \/ UNCHANGED vars
    \/ \E p \in Clusters, n \in Names :
         \/ WriteDirectory(p, n)
         \/ \E size \in Sizes : \E data : WriteFile(p, n, size, data)
         \/ Delete(p, n)

LEMMA NothingMisused == WellUsed /\ "power_loss" \notin Misuse
  BY ShellAssumption DEF WellUsed

LEMMA OperationKeepsStore ==
    ASSUME Served, NEW p \in Clusters, NEW n \in Names,
           \/ WriteDirectory(p, n)
           \/ \E size \in Sizes : \E data : WriteFile(p, n, size, data)
           \/ Delete(p, n)
    PROVE  Served' /\ losses' = losses
  <1>0. /\ OwnershipInv /\ power = "on" /\ WellUsed /\ Fat32Inv
        /\ disk[BOOT_SECTOR] = Signature /\ IsStore(disk)
    BY NothingMisused, FormattedWhenUsed DEF Served, OwnershipInv
  <1>1. losses' = losses
    BY NothingMisused DEF WriteDirectory, WriteFile, Delete, Perform, Hang
  <1>2. ASSUME Fat32Inv', IsStore(disk'), power' = "on", disk'[BOOT_SECTOR] = disk[BOOT_SECTOR]
        PROVE  Served'
    BY <1>0, <1>2 DEF Served, OwnershipInv
  <1>3. Fat32Inv'
    BY <1>0, WriteDirectoryPreserves, WriteFilePreserves, DeletePreserves
  <1>4. DiskOK(disk')
    BY <1>3 DEF Fat32Inv
  <1>5. CASE WriteDirectory(p, n)
    BY <1>0, <1>1, <1>2, <1>3, <1>4, <1>5, WriteDirectoryAdds, AddIsStore
  <1>6. ASSUME NEW size \in Sizes, NEW data, WriteFile(p, n, size, data) PROVE Served'
    BY <1>0, <1>1, <1>2, <1>3, <1>4, <1>6, WriteFileAdds, AddIsStore
  <1>7. CASE Delete(p, n)
    BY <1>0, <1>1, <1>2, <1>3, <1>4, <1>7, DeleteRemoves, RemoveIsStore
  <1> QED
    BY <1>1, <1>5, <1>6, <1>7

LEMMA CallKeepsStore == Served /\ SystemCall => Served'
  <1>1. ASSUME Served, UNCHANGED vars PROVE Served'
    BY <1>1 DEF Served, OwnershipInv, Fat32Inv, FatCached, vars
  <1> QED
    BY <1>1, OperationKeepsStore DEF SystemCall

\* Switched off and on again it is served from the same disk.
LEMMA RestartKeepsStore == Served /\ Restart => Served'
  <1> SUFFICES ASSUME Served, Restart PROVE Served'
    OBVIOUS
  <1>1. /\ Fat32Inv /\ disk[BOOT_SECTOR] = Signature /\ IsStore(disk) /\ power = "on"
        /\ DiskOK(disk)
    BY FormattedWhenUsed DEF Served, OwnershipInv, Fat32Inv
  <1>2. /\ power' = "on" /\ fat' = LoadedFat(disk) /\ disk' = disk /\ losses' = losses
        /\ LoadedFat(disk) \in [Clusters -> FatValues]
    BY <1>1, LoadedFatOK DEF Restart
  <1>3. Fat32Inv'
    BY <1>1, <1>2 DEF Fat32Inv, FatCached
  <1> QED
    BY <1>1, <1>2, <1>3 DEF Served, OwnershipInv

LEMMA InitServed == ShellInit => Served
  <1> SUFFICES ASSUME ShellInit PROVE Served
    OBVIOUS
  <1>1. disk[BOOT_SECTOR] = Signature /\ IsStore(disk)
    BY InsertedStore DEF ShellInit
  <1>2. power = "on" /\ fat = LoadedFat(disk) /\ losses = 0
    BY DEF ShellInit
  <1>3. Fat32Inv
    <2>1. DiskOK(disk) /\ fat \in [Clusters -> FatValues]
      BY <1>1, <1>2, LoadedFatOK DEF IsStore
    <2> QED
      BY <1>2, <2>1, Numbers DEF Fat32Inv, FatCached
  <1> QED
    BY <1>1, <1>2, <1>3 DEF Served, OwnershipInv

-----------------------------------------------------------------------------
\* What a system call returns.

Links == {Link(n, c) : n \in Names, c \in Clusters}

\* A table that was read: of a directory, and it says of which.
Known(t) == TableOK(t) /\ t.self \in Links

LEMMA LinkFields ==
    ASSUME NEW l \in Links
    PROVE  l.name \in Names /\ l.cluster \in Clusters /\ l = Link(l.name, l.cluster) /\ l # NoLink
  <1>1. PICK n \in Names, c \in Clusters : l = Link(n, c)
    BY DEF Links
  <1>2. l.name = n /\ l.cluster = c
    BY <1>1 DEF Link
  <1>3. NoLink.cluster = NoCluster /\ NoCluster \notin Clusters
    BY Numbers DEF NoLink, Link, NoCluster, Clusters
  <1> QED
    BY <1>1, <1>2, <1>3

LEMMA KnownFacts ==
    ASSUME NEW t, Known(t)
    PROVE  /\ t.self \in Links /\ t.self.name \in Names
           /\ ClusterNumber(t) = t.self.cluster /\ ClusterNumber(t) \in Clusters
           /\ DOMAIN t.entries \subseteq Names
           /\ \A n \in DOMAIN t.entries : t.entries[n].size \in Sizes \cup {0}
           /\ \A n : Found(t, n) => EntryIn(t, n).size \in Sizes \cup {0}
  <1>1. t.self \in Links /\ t.self.name \in Names /\ t.self.cluster \in Clusters /\ t.self # NoLink
    BY LinkFields DEF Known
  <1>2. DOMAIN t.entries \subseteq Names
        /\ \A n \in DOMAIN t.entries : t.entries[n].size \in Sizes \cup {0}
    BY DEF Known, TableOK
  <1>3. Entry(TRUE, 0, 0).size = 0
    BY DEF Entry
  <1>4. ASSUME NEW n, Found(t, n) PROVE EntryIn(t, n).size \in Sizes \cup {0}
    BY <1>2, <1>3, <1>4 DEF Found, EntryIn
  <1> QED
    BY <1>1, <1>2, <1>4 DEF ClusterNumber

\* A directory that a program asks for is there, is read whole, and says what it
\* is.
LEMMA ReadIsKnown ==
    ASSUME Served, NEW p \in Clusters, NEW n, Reads(p, n)
    PROVE  LET t == ReadDirectory(p, n)
           IN  /\ Known(t)
               /\ ~(p = ROOT_CLUSTER_NUMBER /\ n = RootName) =>
                    /\ <<p, n>> \in EntriesOn(disk) /\ EntryOf(disk, p, n).dir
                    /\ t.self = Link(n, EntryOf(disk, p, n).cluster)
               /\ p = ROOT_CLUSTER_NUMBER /\ n = RootName => t.self = RootLink
  <1>1. IsStore(disk) /\ DiskOK(disk) /\ Linked(disk)
    BY FormattedWhenUsed DEF Served, IsStore
  <1>2. CASE p = ROOT_CLUSTER_NUMBER /\ n = RootName
    <2>1. ReadDirectory(p, n) = ReadTable(disk, p) /\ ReadTable(disk, p).self = RootLink
      BY <1>1, <1>2 DEF ReadDirectory, Linked
    <2>2. RootLink \in Links
      BY Numbers, RootIsCluster DEF RootLink, Links
    <2> QED
      BY <1>1, <1>2, <2>1, <2>2, ReadTableOK DEF Known
  <1>3. CASE ~(p = ROOT_CLUSTER_NUMBER /\ n = RootName)
    <2> DEFINE x == <<p, n>>
    <2>1. Has(disk, p, n) /\ EntryOf(disk, p, n).dir
      BY <1>3 DEF Reads, ReadDirectoryCode
    <2>2. x \in EntriesOn(disk) /\ x[1] = p /\ x[2] = n
      BY <1>1, <2>1, HasMeansTable DEF Has
    <2> HIDE DEF x
    <2>3. ClusterOf(disk, x) = EntryOf(disk, p, n).cluster /\ ClusterOf(disk, x) \in Clusters /\ n \in Names
      BY <1>1, <2>2, EntryTypes DEF ClusterOf
    <2>4. ReadDirectory(p, n) = ReadTable(disk, EntryOf(disk, p, n).cluster)
      BY <1>3 DEF ReadDirectory
    <2>5. ReadTable(disk, EntryOf(disk, p, n).cluster).self = Link(n, EntryOf(disk, p, n).cluster)
      BY <1>1, <2>1, <2>2, <2>3 DEF Linked
    <2>6. TableOK(ReadTable(disk, EntryOf(disk, p, n).cluster))
      BY <1>1, <2>3, ReadTableOK
    <2>7. Link(n, EntryOf(disk, p, n).cluster) \in Links
      BY <2>3 DEF Links
    <2> QED
      BY <1>3, <2>1, <2>2, <2>4, <2>5, <2>6, <2>7 DEF Known, x
  <1> QED
    BY <1>2, <1>3

\* What sys_write and sys_delete do.
LEMMA WriteIsCall ==
    ASSUME NEW p \in Clusters, NEW n \in Names, NEW size \in Sizes \cup {0}, NEW data,
           SysWrite(p, n, size, data)
    PROVE  SystemCall
  BY DEF SysWrite, SystemCall

LEMMA DeleteIsCall ==
    ASSUME NEW p \in Clusters, NEW n \in Names, SysDelete(p, n)
    PROVE  SystemCall
  BY DEF SysDelete, SystemCall

-----------------------------------------------------------------------------
\* A stack: links of directories, the root's first.
StackOK(w) == w \in Seq(Links) /\ Len(w) > 0 /\ w[1] = RootLink

LEMMA PoppedOK ==
    ASSUME NEW w, StackOK(w)
    PROVE  StackOK(Popped(w))
  <1>1. w \in Seq(Links) /\ Len(w) \in Nat /\ w[1] = RootLink
    BY DEF StackOK
  <1>2. CASE Len(w) > 1
    <2> DEFINE n == Len(w) - 1
    <2>1. n \in Int /\ 1 \in Int /\ n >= 1 /\ \A i \in 1 .. n : w[i] \in Links
      BY <1>1, <1>2
    <2> HIDE DEF n
    <2>2. /\ SubSeq(w, 1, n) \in Seq(Links)
          /\ Len(SubSeq(w, 1, n)) = IF 1 <= n THEN n - 1 + 1 ELSE 0
          /\ \A i \in 1 .. n - 1 + 1 : SubSeq(w, 1, n)[i] = w[1 + i - 1]
      BY <2>1, SubSeqProperties
    <2>3. /\ Len(SubSeq(w, 1, n)) = n
          /\ SubSeq(w, 1, n)[1] = w[1]
      BY <2>1, <2>2
    <2>4. Popped(w) = SubSeq(w, 1, n)
      BY <1>2 DEF Popped, Front, n
    <2> QED
      BY <1>1, <2>1, <2>2, <2>3, <2>4 DEF StackOK
  <1>3. CASE ~(Len(w) > 1)
    BY <1>3 DEF Popped
  <1> QED
    BY <1>2, <1>3

LEMMA AppendOK ==
    ASSUME NEW w, StackOK(w), NEW x \in Links
    PROVE  StackOK(Append(w, x))
  <1>1. w \in Seq(Links) /\ Len(w) \in Nat /\ Len(w) > 0 /\ w[1] = RootLink
    BY DEF StackOK
  <1>2. /\ Append(w, x) \in Seq(Links) /\ Len(Append(w, x)) = Len(w) + 1
        /\ Append(w, x)[1] = w[1]
    BY <1>1
  <1> QED
    BY <1>1, <1>2 DEF StackOK

LEMMA RootLinkOK == RootLink \in Links /\ StackOK(<<RootLink>>)
  <1>1. RootLink \in Links
    BY Numbers, RootIsCluster DEF RootLink, Links
  <1> DEFINE r == RootLink
  <1> HIDE DEF r
  <1>2. ASSUME NEW A, NEW x \in A PROVE <<x>> \in Seq(A) /\ Len(<<x>>) = 1 /\ <<x>>[1] = x
    OBVIOUS
  <1> QED
    BY <1>1, <1>2 DEF StackOK

\* The top of a stack, and the directory below it.
LEMMA StackTop ==
    ASSUME NEW w, StackOK(w)
    PROVE  /\ Last(w) \in Links /\ Last(w).cluster \in Clusters /\ Last(w).name \in Names
           /\ Len(w) > 1 => w[Len(w) - 1] \in Links /\ w[Len(w) - 1].cluster \in Clusters
  <1>1. w \in Seq(Links) /\ Len(w) \in Nat /\ Len(w) > 0
    BY DEF StackOK
  <1>2. Last(w) \in Links /\ (Len(w) > 1 => w[Len(w) - 1] \in Links)
    BY <1>1 DEF Last
  <1> QED
    BY <1>2, LinkFields

-----------------------------------------------------------------------------
\* The frames.  Before a table is used it was read; a name that is asked for is a
\* name, and the size of what is read and written a size.

PathFrame(f) ==
    /\ {"rest", "walk", "cwd"} \subseteq DOMAIN f
    /\ StackOK(f.walk)
    /\ Known(f.cwd) \/ (f.at = "peek" /\ f.cwd = Unread)
    /\ f.at \in {"name", "write", "open"} => Head(f.rest) \in Names

SourceFrame(f) ==
    /\ {"name", "to", "mv", "dir", "size"} \subseteq DOMAIN f
    /\ f.name \in Names
    /\ f.size \in Sizes \cup {0} \/ (f.at # "name" /\ f.size = -1)

DestFrame(f) ==
    /\ {"name", "mv", "dir", "isfile", "size", "data", "want"} \subseteq DOMAIN f
    /\ f.name \in Names
    /\ f.size \in Sizes \cup {0}
    /\ ~f.isfile => Known(f.want)

CopyFrame(f) ==
    /\ {"want", "into", "new", "left"} \subseteq DOMAIN f
    /\ Known(f.want) /\ f.into \in Clusters
    /\ f.at = "each" => f.new \in Clusters /\ f.left \subseteq DOMAIN f.want.entries

FlushFrame(f) ==
    /\ {"walk", "holder", "name", "table", "left"} \subseteq DOMAIN f
    /\ StackOK(f.walk)
    /\ f.holder \in Clusters /\ f.name \in Names
    /\ Known(f.table) /\ f.left \subseteq DOMAIN f.table.entries

ScanFrame(f) ==
    /\ {"name", "walk", "cwd", "first", "seen"} \subseteq DOMAIN f
    /\ StackOK(f.walk)
    /\ Known(f.cwd) \/ (f.at = "peek" /\ f.cwd = Unread)

FrameOK(f) ==
    /\ {"fn", "at"} \subseteq DOMAIN f
    /\ f.fn \in Loops => PathFrame(f)
    /\ f.fn = "source" => SourceFrame(f)
    /\ f.fn = "dest" => DestFrame(f)
    /\ f.fn = "copy" => CopyFrame(f)
    /\ f.fn = "flush" => FlushFrame(f)
    /\ f.fn = "scan" => ScanFrame(f)

\* A call stack; cd makes no calls and is called by none, and find_helper is not
\* the outermost.
FramesOK(c) ==
    /\ \E S : c \in Seq(S)
    /\ \A i \in 1 .. Len(c) : /\ FrameOK(c[i])
                              /\ i > 1 => c[i].fn # "cd"
                              /\ i = Len(c) => c[i].fn # "scan"

\* The frames that commands push.
LEMMA NewLoop ==
    ASSUME NEW fn \in {"cd", "mkdir", "cat", "rm"}, NEW path, NEW w, StackOK(w)
    PROVE  FrameOK(Loop(fn, path, w))
  BY DEF FrameOK, Loop, PathFrame, Loops

LEMMA NewSource ==
    ASSUME NEW path, NEW to, NEW w, StackOK(w), NEW mv, Head(path) \in Names
    PROVE  FrameOK(Source(path, to, w, mv))
  <1> DEFINE f == Source(path, to, w, mv)
  <1>1. /\ f.fn = "source" /\ f.at = "peek" /\ f.walk = w /\ f.cwd = Unread
        /\ f.name = Head(path) /\ f.size = -1
        /\ {"fn", "at", "rest", "walk", "cwd", "name", "to", "mv", "dir", "size"} \subseteq DOMAIN f
    BY DEF Source, AfterSplit
  <1> HIDE DEF f
  <1>2. PathFrame(f) /\ SourceFrame(f)
    BY <1>1 DEF PathFrame, SourceFrame
  <1>3. FrameOK(f)
    BY <1>1, <1>2 DEF FrameOK
  <1> QED
    BY <1>3 DEF f

LEMMA NewDest ==
    ASSUME NEW f, f.name \in Names, NEW w, StackOK(w), NEW isfile \in BOOLEAN,
           NEW size \in Sizes \cup {0}, NEW data, NEW want, ~isfile => Known(want)
    PROVE  FrameOK(Dest(f, w, isfile, size, data, want))
  <1> DEFINE g == Dest(f, w, isfile, size, data, want)
  <1>1. /\ g.fn = "dest" /\ g.at = "peek" /\ g.walk = w /\ g.cwd = Unread
        /\ g.name = f.name /\ g.size = size /\ (g.isfile <=> isfile) /\ g.want = want
        /\ {"fn", "at", "rest", "walk", "cwd", "name", "mv", "dir", "isfile", "size", "data", "want"}
             \subseteq DOMAIN g
    BY DEF Dest
  <1> HIDE DEF g
  <1>2. PathFrame(g) /\ DestFrame(g)
    BY <1>1 DEF PathFrame, DestFrame
  <1>3. FrameOK(g)
    BY <1>1, <1>2 DEF FrameOK
  <1> QED
    BY <1>3 DEF g

LEMMA NewCopy ==
    ASSUME NEW want, Known(want), NEW into \in Clusters
    PROVE  FrameOK(Copy(want, into))
  BY DEF FrameOK, Copy, CopyFrame, Loops

LEMMA NewFlush ==
    ASSUME NEW f, FrameOK(f), f.fn = "rm", f.at = "open", NEW table, Known(table)
    PROVE  FrameOK(Flush(f, table))
  <1> DEFINE g == Flush(f, table)
  <1>1. StackOK(f.walk) /\ Known(f.cwd) /\ Head(f.rest) \in Names
    BY DEF FrameOK, PathFrame, Loops
  <1>2. StackOK(Append(f.walk, table.self)) /\ ClusterNumber(f.cwd) \in Clusters
    BY <1>1, KnownFacts, AppendOK
  <1>3. /\ g.fn = "flush" /\ g.walk = Append(f.walk, table.self) /\ g.holder = ClusterNumber(f.cwd)
        /\ g.name = Head(f.rest) /\ g.table = table /\ g.left = DOMAIN table.entries
        /\ {"fn", "at", "walk", "holder", "name", "table", "left"} \subseteq DOMAIN g
    BY DEF Flush
  <1> HIDE DEF g
  <1>4. FlushFrame(g)
    BY <1>1, <1>2, <1>3 DEF FlushFrame
  <1>5. FrameOK(g)
    BY <1>3, <1>4 DEF FrameOK, Loops
  <1> QED
    BY <1>5 DEF g

LEMMA NewScan ==
    ASSUME NEW name, NEW w, StackOK(w)
    PROVE  FrameOK(Scan(name, w))
  BY DEF FrameOK, Scan, ScanFrame, Loops

LEMMA NewFind ==
    /\ \A name : FrameOK([fn |-> "find", at |-> "root", name |-> name])
    /\ FrameOK(Lost)
  BY DEF FrameOK, Lost, Loops

\* A loop goes on.
LEMMA LoopGoesOn ==
    ASSUME NEW f, FrameOK(f), f.fn \in Loops, NEW a, NEW r, NEW w, StackOK(w), NEW t,
           Known(t) \/ (a = "peek" /\ t = Unread),
           a \in {"name", "write", "open"} => Head(r) \in Names,
           f.fn = "source" /\ a = "name" => f.size # -1
    PROVE  FrameOK([f EXCEPT !.at = a, !.rest = r, !.walk = w, !.cwd = t])
  <1> DEFINE g == [f EXCEPT !.at = a, !.rest = r, !.walk = w, !.cwd = t]
  <1>1. PathFrame(f) /\ {"fn", "at"} \subseteq DOMAIN f
        /\ (f.fn = "source" => SourceFrame(f)) /\ (f.fn = "dest" => DestFrame(f))
    BY DEF FrameOK
  <1>2. /\ g.fn = f.fn /\ g.at = a /\ g.rest = r /\ g.walk = w /\ g.cwd = t
        /\ DOMAIN g = DOMAIN f
    BY <1>1 DEF PathFrame
  <1>3. f.fn = "source" => g.name = f.name /\ g.size = f.size
    BY <1>1 DEF SourceFrame
  <1>4. f.fn = "dest" => g.name = f.name /\ g.size = f.size /\ g.isfile = f.isfile /\ g.want = f.want
    BY <1>1 DEF DestFrame
  <1> HIDE DEF g
  <1>5. PathFrame(g)
    BY <1>1, <1>2 DEF PathFrame
  <1>6. f.fn = "source" => SourceFrame(g)
    BY <1>1, <1>2, <1>3 DEF SourceFrame
  <1>7. f.fn = "dest" => DestFrame(g)
    BY <1>1, <1>2, <1>4 DEF DestFrame
  <1>8. FrameOK(g)
    BY <1>1, <1>2, <1>5, <1>6, <1>7 DEF FrameOK, Loops
  <1> QED
    BY <1>8 DEF g

LEMMA LoopPeeks ==
    ASSUME NEW f, FrameOK(f), f.fn \in Loops, NEW r, NEW w, StackOK(w),
           NEW t, Known(t) \/ t = Unread
    PROVE  FrameOK([f EXCEPT !.at = "peek", !.rest = r, !.walk = w, !.cwd = t])
  <1> DEFINE a == "peek"
  <1>1. a \notin {"name", "write", "open"} /\ a # "name" /\ (Known(t) \/ (a = "peek" /\ t = Unread))
    OBVIOUS
  <1> HIDE DEF a
  <1>2. FrameOK([f EXCEPT !.at = a, !.rest = r, !.walk = w, !.cwd = t])
    BY <1>1, LoopGoesOn
  <1> QED
    BY <1>2 DEF a

\* peek leaves a table that was read, or the one the caller had.
LEMMA PeekedIsKnown ==
    ASSUME Served, NEW f, StackOK(f.walk)
    PROVE  Peeked(f) = f.cwd \/ Known(Peeked(f))
  <1> DEFINE top == Last(f.walk)
             holder == IF Len(f.walk) > 1 THEN f.walk[Len(f.walk) - 1].cluster ELSE top.cluster
  <1>1. holder \in Clusters
    BY StackTop
  <1>2. Peeked(f) = IF Reads(holder, top.name) THEN ReadDirectory(holder, top.name) ELSE f.cwd
    BY DEF Peeked
  <1> HIDE DEF holder, top
  <1> QED
    BY <1>1, <1>2, ReadIsKnown

\* The call stack, once its innermost frame is replaced or gone.
LEMMA FramesReplaced ==
    ASSUME NEW c, FramesOK(c), c # <<>>
    PROVE  /\ FramesOK(Tail(c)) /\ (Len(c) = 1 <=> Tail(c) = <<>>)
           /\ Tail(c) # <<>> => Head(Tail(c)).fn # "cd"
           /\ FrameOK(Head(c)) /\ (Head(c).fn = "scan" => Tail(c) # <<>>)
           /\ \A f : FrameOK(f) /\ (f.fn = "scan" => Tail(c) # <<>>) => FramesOK(<<f>> \o Tail(c))
           /\ \A f, g : /\ FrameOK(f) /\ FrameOK(g)
                        /\ g.fn # "cd" /\ (g.fn = "scan" => Tail(c) # <<>>)
                        => FramesOK(<<f, g>> \o Tail(c))
           /\ \A f : <<f>> \o Tail(c) # <<>> /\ Head(<<f>> \o Tail(c)) = f
           /\ \A f, g : <<f, g>> \o Tail(c) # <<>> /\ Head(<<f, g>> \o Tail(c)) = f
  <1>1. PICK S : c \in Seq(S)
    BY DEF FramesOK
  <1> DEFINE t == Tail(c)
  <1>2. /\ t \in Seq(S) /\ Len(c) = Len(t) + 1 /\ Len(t) \in Nat
        /\ \A i \in 1 .. Len(t) : t[i] = c[i + 1]
    BY <1>1
  <1>4. Head(c) = c[1] /\ 1 \in 1 .. Len(c)
    BY <1>1, <1>2
  <1> HIDE DEF t
  <1>3. (Len(t) = 0 <=> t = <<>>) /\ (t # <<>> => Head(t) = t[1] /\ 1 \in 1 .. Len(t))
    <2>1. t \in Seq(S)
      BY <1>2
    <2> QED
      BY <2>1
  <1>5. FrameOK(Head(c)) /\ (Head(c).fn = "scan" => t # <<>>)
    <2>1. t = <<>> => 1 = Len(c)
      BY <1>2, <1>3
    <2> QED
      BY <1>4, <2>1 DEF FramesOK
  <1>6. \A i \in 1 .. Len(t) : /\ FrameOK(t[i]) /\ t[i].fn # "cd"
                               /\ i = Len(t) => t[i].fn # "scan"
    <2>1. \A i \in 1 .. Len(t) : /\ i + 1 \in 1 .. Len(c) /\ i + 1 > 1
                                 /\ i = Len(t) => i + 1 = Len(c)
      BY <1>2
    <2> QED
      BY <1>2, <2>1 DEF FramesOK
  <1>7. FramesOK(t) /\ (t # <<>> => Head(t).fn # "cd") /\ (Len(c) = 1 <=> t = <<>>)
    BY <1>2, <1>3, <1>6 DEF FramesOK
  <1>8. ASSUME NEW u, NEW n \in {1, 2}, NEW T, u \in Seq(T), Len(u) = n
        PROVE  /\ \E A : u \o t \in Seq(A)
               /\ Len(u \o t) = n + Len(t)
               /\ \A i \in 1 .. n + Len(t) : (u \o t)[i] = IF i <= n THEN u[i] ELSE t[i - n]
               /\ u \o t # <<>> /\ Head(u \o t) = u[1]
    <2> DEFINE A == S \cup T
    <2>1. u \in Seq(A) /\ t \in Seq(A)
      BY <1>2, <1>8
    <2> HIDE DEF A
    <2>2. /\ u \o t \in Seq(A) /\ Len(u \o t) = Len(u) + Len(t)
          /\ \A i \in 1 .. Len(u) + Len(t) :
               (u \o t)[i] = IF i <= Len(u) THEN u[i] ELSE t[i - Len(u)]
      BY <2>1, ConcatProperties, Zenon
    <2>3. Len(u \o t) > 0 /\ (u \o t)[1] = u[1]
      BY <1>2, <1>8, <2>2
    <2>4. u \o t # <<>> /\ Head(u \o t) = (u \o t)[1]
      BY <2>2, <2>3
    <2> QED
      BY <1>8, <2>2, <2>3, <2>4
  <1>9. ASSUME NEW u, NEW n \in {1, 2}, NEW T, u \in Seq(T), Len(u) = n,
               \A i \in 1 .. n : FrameOK(u[i]) /\ (i > 1 => u[i].fn # "cd"),
               u[n].fn = "scan" => t # <<>>
        PROVE  FramesOK(u \o t)
    <2>1. \A i \in 1 .. n + Len(t) :
            \/ i \in 1 .. n /\ i <= n /\ (i = n + Len(t) => i = n /\ Len(t) = 0)
            \/ /\ ~(i <= n) /\ i > 1 /\ i - n \in 1 .. Len(t)
               /\ i = n + Len(t) => i - n = Len(t)
      BY <1>2, <1>9
    <2> DEFINE v == u \o t
    <2>2. /\ \E A : v \in Seq(A)
          /\ Len(v) = n + Len(t)
          /\ \A i \in 1 .. n + Len(t) : v[i] = IF i <= n THEN u[i] ELSE t[i - n]
      BY <1>8, <1>9
    <2> HIDE DEF v
    <2>3. ASSUME NEW i \in 1 .. Len(v)
          PROVE  FrameOK(v[i]) /\ (i > 1 => v[i].fn # "cd") /\ (i = Len(v) => v[i].fn # "scan")
      BY <1>3, <1>6, <1>9, <2>1, <2>2
    <2> QED
      BY <2>2, <2>3 DEF FramesOK, v
  <1>10. ASSUME NEW f
         PROVE  /\ <<f>> \o t # <<>> /\ Head(<<f>> \o t) = f
                /\ FrameOK(f) /\ (f.fn = "scan" => t # <<>>) => FramesOK(<<f>> \o t)
    <2> DEFINE u == <<f>>
    <2>1. u \in Seq({f}) /\ Len(u) = 1 /\ u[1] = f
      OBVIOUS
    <2> HIDE DEF u
    <2>2. u \o t # <<>> /\ Head(u \o t) = f
      BY <1>8, <2>1
    <2>3. ASSUME FrameOK(f), f.fn = "scan" => t # <<>> PROVE FramesOK(u \o t)
      <3>1. \A i \in 1 .. 1 : FrameOK(u[i]) /\ (i > 1 => u[i].fn # "cd")
        BY <2>1, <2>3
      <3> QED
        BY <1>9, <2>1, <2>3, <3>1
    <2> QED
      BY <2>2, <2>3 DEF u
  <1>11. ASSUME NEW f, NEW g
         PROVE  /\ <<f, g>> \o t # <<>> /\ Head(<<f, g>> \o t) = f
                /\ /\ FrameOK(f) /\ FrameOK(g)
                   /\ g.fn # "cd" /\ (g.fn = "scan" => t # <<>>)
                   => FramesOK(<<f, g>> \o t)
    <2> DEFINE u == <<f, g>>
    <2>1. u \in Seq({f, g}) /\ Len(u) = 2 /\ u[1] = f /\ u[2] = g
      OBVIOUS
    <2> HIDE DEF u
    <2>2. u \o t # <<>> /\ Head(u \o t) = f
      BY <1>8, <2>1
    <2>3. ASSUME FrameOK(f), FrameOK(g), g.fn # "cd", g.fn = "scan" => t # <<>>
          PROVE  FramesOK(u \o t)
      <3>1. \A i \in 1 .. 2 : FrameOK(u[i]) /\ (i > 1 => u[i].fn # "cd")
        BY <2>1, <2>3
      <3> QED
        BY <1>9, <2>1, <2>3, <3>1
    <2> QED
      BY <2>2, <2>3 DEF u
  <1> QED
    BY <1>5, <1>7, <1>10, <1>11 DEF t

LEMMA OneFrame ==
    ASSUME NEW f, FrameOK(f), f.fn # "scan"
    PROVE  FramesOK(<<f>>)
  <1>1. <<f>> \in Seq({f}) /\ Len(<<f>>) = 1 /\ <<f>>[1] = f
    OBVIOUS
  <1> DEFINE u == <<f>>
  <1> HIDE DEF u
  <1>2. u \in Seq({f}) /\ Len(u) = 1 /\ u[1] = f
    BY <1>1 DEF u
  <1>3. FramesOK(u)
    BY <1>2 DEF FramesOK
  <1> QED
    BY <1>3 DEF u

LEMMA TwoFrames ==
    ASSUME NEW f, NEW g, FrameOK(f), FrameOK(g), g.fn \notin {"cd", "scan"}
    PROVE  FramesOK(<<f, g>>)
  <1> DEFINE u == <<f, g>>
  <1>1. u \in Seq({f, g}) /\ Len(u) = 2 /\ u[1] = f /\ u[2] = g
    OBVIOUS
  <1> HIDE DEF u
  <1>2. FramesOK(u)
    BY <1>1 DEF FramesOK
  <1> QED
    BY <1>2 DEF u

LEMMA NoFrames == FramesOK(<<>>)
  <1>1. <<>> \in Seq({}) /\ Len(<<>>) = 0
    OBVIOUS
  <1> QED
    BY <1>1 DEF FramesOK

-----------------------------------------------------------------------------
\* The invariant.  A command copies the shell's stack, and cd puts the copy in its
\* place; what it reads it passes on to frames that name it in system calls; these
\* keep the disk a store, of which it reads no table that is none.
CallsInv ==
    /\ dts = [s \in Shells |-> dts[s]]
    /\ call = [s \in Shells |-> call[s]]
    /\ line = [s \in Shells |-> line[s]]
    /\ out = [s \in Shells |-> out[s]]
    /\ \A s \in Shells :
         /\ StackOK(dts[s]) /\ FramesOK(call[s])
         /\ line[s] = NoLine <=> call[s] = <<>>
         /\ line[s] = NoLine => out[s] = {}
         /\ call[s] # <<>> /\ Head(call[s]).fn = "cd" => out[s] = {}

\* How a step goes on.
LEMMA CallReplaced ==
    ASSUME CallsInv, NEW s \in Shells, NEW c, FramesOK(c), c # <<>>, call[s] # <<>>,
           call' = [call EXCEPT ![s] = c], UNCHANGED <<dts, line>>,
           UNCHANGED out \/ \E o : out' = [out EXCEPT ![s] = o],
           Head(c).fn = "cd" => Head(call[s]).fn = "cd" /\ UNCHANGED out
    PROVE  CallsInv'
  BY DEF CallsInv

LEMMA CallStack ==
    ASSUME CallsInv, NEW s \in Shells, call[s] # <<>>
    PROVE  FramesOK(call[s]) /\ StackOK(dts[s])
  BY DEF CallsInv

LEMMA GoOnOne ==
    ASSUME CallsInv, NEW s \in Shells, call[s] # <<>>, NEW f, FrameOK(f), GoOn(s, <<f>>),
           f.fn \in {"cd", "scan"} => Head(call[s]).fn = f.fn
    PROVE  CallsInv'
  <1> DEFINE c == <<f>> \o Tail(call[s])
  <1>1. call' = [call EXCEPT ![s] = c] /\ UNCHANGED <<dts, line, out>>
    BY DEF GoOn
  <1>2. FramesOK(c) /\ c # <<>> /\ Head(c) = f
    BY CallStack, FramesReplaced
  <1> HIDE DEF c
  <1> QED
    BY <1>1, <1>2, CallReplaced

LEMMA GoOnTwo ==
    ASSUME CallsInv, NEW s \in Shells, call[s] # <<>>,
           NEW f, NEW g, FrameOK(f), FrameOK(g), GoOn(s, <<f, g>>), f.fn # "cd", g.fn # "cd",
           g.fn = "scan" => Head(call[s]).fn = "scan"
    PROVE  CallsInv'
  <1> DEFINE c == <<f, g>> \o Tail(call[s])
  <1>1. call' = [call EXCEPT ![s] = c] /\ UNCHANGED <<dts, line, out>>
    BY DEF GoOn
  <1>2. FramesOK(c) /\ c # <<>> /\ Head(c) = f
    BY CallStack, FramesReplaced
  <1> HIDE DEF c
  <1> QED
    BY <1>1, <1>2, CallReplaced

LEMMA ReturnOK ==
    ASSUME CallsInv, NEW s \in Shells, call[s] # <<>>, Return(s)
    PROVE  CallsInv'
  <1> DEFINE c == Tail(call[s])
  <1>1. call' = [call EXCEPT ![s] = c] /\ UNCHANGED dts
    BY DEF Return
  <1>2. FramesOK(c) /\ (c # <<>> => Head(c).fn # "cd") /\ (Len(call[s]) = 1 <=> c = <<>>)
    BY CallStack, FramesReplaced
  <1>3. CASE Len(call[s]) = 1
    <2>1. line' = [line EXCEPT ![s] = NoLine] /\ out' = [out EXCEPT ![s] = {}] /\ c = <<>>
      BY <1>2, <1>3 DEF Return
    <2> HIDE DEF c
    <2> QED
      BY <1>1, <1>2, <2>1 DEF CallsInv
  <1>4. CASE Len(call[s]) # 1
    <2>1. UNCHANGED <<line, out>> /\ c # <<>>
      BY <1>2, <1>4 DEF Return
    <2> HIDE DEF c
    <2> QED
      BY <1>1, <1>2, <2>1, CallReplaced
  <1> QED
    BY <1>3, <1>4

LEMMA LoseOK ==
    ASSUME CallsInv, NEW s \in Shells, call[s] # <<>>, Lose(s)
    PROVE  CallsInv'
  <1> DEFINE c == <<Lost>>
  <1>1. call' = [call EXCEPT ![s] = c] /\ UNCHANGED <<dts, line, out>>
    BY DEF Lose
  <1>2. FramesOK(c) /\ c # <<>> /\ Head(c).fn = "lost"
    BY NewFind, OneFrame DEF Lost
  <1> HIDE DEF c
  <1> QED
    BY <1>1, <1>2, CallReplaced

LEMMA SucceedOK ==
    ASSUME CallsInv, NEW s \in Shells, call[s] # <<>>, NEW f, Succeed(s, f)
    PROVE  CallsInv'
  <1>1. CASE GoOn(s, <<Loop("rm", <<f.name>>, dts[s])>>)
    <2>1. FrameOK(Loop("rm", <<f.name>>, dts[s])) /\ Loop("rm", <<f.name>>, dts[s]).fn = "rm"
      BY CallStack, NewLoop DEF Loop
    <2> QED
      BY <1>1, <2>1, GoOnOne
  <1>2. CASE Return(s)
    BY <1>2, ReturnOK
  <1> QED
    BY <1>1, <1>2 DEF Succeed

-----------------------------------------------------------------------------
\* The steps.  Each is a system call, and keeps the invariant.
LEMMA Entered ==
    ASSUME CallsInv, NEW s \in Shells, NEW fns, NEW at, In(s, fns, at)
    PROVE  /\ call[s] # <<>> /\ FrameOK(Head(call[s])) /\ Head(call[s]).fn \in fns
           /\ Head(call[s]).at = at
           /\ StackOK(dts[s])
  <1>1. call[s] # <<>> /\ Head(call[s]).fn \in fns /\ Head(call[s]).at = at
    BY DEF In
  <1> QED
    BY <1>1, CallStack, FramesReplaced

\* What a loop over a path has in hand.
LEMMA LoopHas ==
    ASSUME CallsInv, NEW s \in Shells, NEW fns \in SUBSET Loops, NEW at, In(s, fns, at)
    PROVE  LET f == Head(call[s])
           IN  /\ call[s] # <<>> /\ FrameOK(f) /\ f.fn \in Loops /\ f.fn \in fns /\ f.at = at
               /\ StackOK(f.walk) /\ StackOK(dts[s])
               /\ {"fn", "at", "rest", "walk", "cwd"} \subseteq DOMAIN f
               /\ Known(f.cwd) \/ (at = "peek" /\ f.cwd = Unread)
               /\ at \in {"name", "write", "open"} => Head(f.rest) \in Names
               /\ at # "peek" => ClusterNumber(f.cwd) \in Clusters
               /\ f.fn = "source" => SourceFrame(f)
               /\ f.fn = "dest" => DestFrame(f)
  <1> DEFINE f == Head(call[s])
  <1>1. call[s] # <<>> /\ FrameOK(f) /\ f.fn \in fns /\ f.at = at /\ StackOK(dts[s])
    BY Entered
  <1> HIDE DEF f
  <1>2. f.fn \in Loops /\ PathFrame(f) /\ {"fn", "at"} \subseteq DOMAIN f
        /\ (f.fn = "source" => SourceFrame(f)) /\ (f.fn = "dest" => DestFrame(f))
    BY <1>1 DEF FrameOK
  <1>3. Known(f.cwd) => ClusterNumber(f.cwd) \in Clusters
    BY KnownFacts
  <1> QED
    BY <1>1, <1>2, <1>3 DEF PathFrame, f

\* ... and when it has read a table.
LEMMA LoopIn ==
    ASSUME CallsInv, NEW s \in Shells, NEW fn \in Loops, NEW at, at # "peek", In(s, {fn}, at)
    PROVE  LET f == Head(call[s])
           IN  /\ call[s] # <<>> /\ FrameOK(f) /\ f.fn = fn /\ f.at = at
               /\ StackOK(f.walk) /\ StackOK(dts[s])
               /\ {"fn", "at", "rest", "walk", "cwd"} \subseteq DOMAIN f
               /\ Known(f.cwd) /\ ClusterNumber(f.cwd) \in Clusters
               /\ at \in {"name", "write", "open"} => Head(f.rest) \in Names
               /\ fn = "source" => SourceFrame(f)
               /\ fn = "dest" => DestFrame(f)
  <1> DEFINE f == Head(call[s])
  <1>1. call[s] # <<>> /\ FrameOK(f) /\ f.fn \in {fn} /\ f.at = at /\ StackOK(dts[s])
    BY Entered
  <1> HIDE DEF f
  <1>2. f.fn \in Loops /\ PathFrame(f) /\ {"fn", "at"} \subseteq DOMAIN f
        /\ (f.fn = "source" => SourceFrame(f)) /\ (f.fn = "dest" => DestFrame(f))
    BY <1>1 DEF FrameOK
  <1>3. Known(f.cwd) => ClusterNumber(f.cwd) \in Clusters
    BY KnownFacts
  <1> QED
    BY <1>1, <1>2, <1>3 DEF PathFrame, f

\* The look at the table at the top of a loop's stack.
LEMMA PeekedInLoop ==
    ASSUME Served, CallsInv, NEW s \in Shells, NEW fns \in SUBSET Loops, In(s, fns, "peek")
    PROVE  LET t == Peeked(Head(call[s])) IN Known(t) \/ t = Unread
  BY LoopHas, PeekedIsKnown

LEMMA LoopsAre == {"cd", "mkdir", "cat", "rm", "source", "dest"} = Loops
  BY DEF Loops

LEMMA GoUpKeeps ==
    ASSUME Served, CallsInv, NEW s \in Shells, GoUp(s) PROVE SystemCall /\ CallsInv'
  <1> DEFINE f == Head(call[s])
             w == IF f.fn = "dest" THEN f.walk ELSE Popped(f.walk)
             t == Peeked(f)
             g == [f EXCEPT !.at = "peek", !.rest = Tail(f.rest), !.walk = w, !.cwd = t]
  <1>1. /\ call[s] # <<>> /\ FrameOK(f) /\ f.fn \in Loops /\ StackOK(f.walk)
        /\ {"fn", "at", "rest", "walk", "cwd"} \subseteq DOMAIN f
        /\ Known(t) \/ t = Unread
    BY LoopHas, PeekedInLoop DEF GoUp
  <1>2. StackOK(w)
    BY <1>1, PoppedOK
  <1>3. [Advanced(f) EXCEPT !.walk = IF f.fn = "dest" THEN @ ELSE Popped(@), !.cwd = t] = g
    BY <1>1 DEF Advanced
  <1>4. Return(s) \/ GoOn(s, <<g>>)
    BY <1>3 DEF GoUp
  <1> HIDE DEF w, t
  <1>5. FrameOK(g) /\ g.fn = f.fn
    BY <1>1, <1>2, LoopPeeks
  <1> HIDE DEF g
  <1>6. CallsInv'
    BY <1>1, <1>4, <1>5, ReturnOK, GoOnOne
  <1> QED
    BY <1>6 DEF GoUp, SystemCall

LEMMA StayKeeps ==
    ASSUME Served, CallsInv, NEW s \in Shells, Stay(s) PROVE SystemCall /\ CallsInv'
  <1> DEFINE f == Head(call[s])
             t == Peeked(f)
             g == [f EXCEPT !.at = "peek", !.rest = Tail(f.rest), !.walk = f.walk, !.cwd = t]
  <1>1. /\ call[s] # <<>> /\ FrameOK(f) /\ f.fn \in Loops /\ StackOK(f.walk)
        /\ {"fn", "at", "rest", "walk", "cwd"} \subseteq DOMAIN f
        /\ Known(t) \/ t = Unread
    BY LoopHas, PeekedInLoop DEF Stay
  <1>3. [Advanced(f) EXCEPT !.cwd = t] = g
    BY <1>1 DEF Advanced
  <1>4. GoOn(s, <<g>>)
    BY <1>3 DEF Stay
  <1> HIDE DEF t
  <1>5. FrameOK(g) /\ g.fn = f.fn
    BY <1>1, LoopPeeks
  <1> HIDE DEF g
  <1>6. CallsInv'
    BY <1>1, <1>4, <1>5, GoOnOne
  <1> QED
    BY <1>6 DEF Stay, SystemCall

LEMMA ExamineKeeps ==
    ASSUME Served, CallsInv, NEW s \in Shells, Examine(s) PROVE SystemCall /\ CallsInv'
  <1> DEFINE f == Head(call[s])
             t == Peeked(f)
             h == [f EXCEPT !.at = "name", !.cwd = t]
  <1>1. /\ call[s] # <<>> /\ FrameOK(f) /\ f.fn \in Loops /\ StackOK(f.walk)
        /\ {"fn", "at", "rest", "walk", "cwd"} \subseteq DOMAIN f
        /\ f.fn = "source" => SourceFrame(f)
        /\ f.fn = "dest" => DestFrame(f)
        /\ Known(t) \/ t = Unread
    BY LoopHas, PeekedInLoop DEF Examine
  <1>2. Head(f.rest) \in Names
    BY DEF Examine
  <1>3. Lose(s) \/ (/\ t # Unread
                    /\ \E g \in Examined(f) : /\ ~(f.fn = "source" /\ g.size = -1)
                                              /\ GoOn(s, <<g>>))
    BY DEF Examine
  <1>4. /\ h.fn = f.fn /\ h.at = "name" /\ h.rest = f.rest /\ h.walk = f.walk /\ h.cwd = t
        /\ DOMAIN h = DOMAIN f
    BY <1>1
  <1>5. f.fn = "source" => h.name = f.name /\ h.size = f.size
    BY <1>1 DEF SourceFrame
  <1>6. f.fn = "dest" => h.name = f.name /\ h.size = f.size /\ h.isfile = f.isfile /\ h.want = f.want
    BY <1>1 DEF DestFrame
  <1> DEFINE known == Found(h.cwd, Head(f.rest))
             e == EntryIn(h.cwd, Head(f.rest))
             D == IF known THEN {e.dir} ELSE f.dir
             F(d) == IF f.fn = "source"
                       THEN [h EXCEPT !.dir = {d}, !.size = IF known THEN e.size ELSE @]
                       ELSE [h EXCEPT !.dir = {d}]
  <1>7. Examined(f) = IF f.fn \notin {"source", "dest"} THEN {h} ELSE {F(d) : d \in D}
    BY DEF Examined
  <1>8. f.fn = "source" => {"name", "to", "mv", "dir", "size"} \subseteq DOMAIN h
    BY <1>1, <1>4 DEF SourceFrame
  <1>9. f.fn = "dest" => {"name", "mv", "dir", "isfile", "size", "data", "want"} \subseteq DOMAIN h
    BY <1>1, <1>4 DEF DestFrame
  <1> HIDE DEF h, t, known, e, D
  <1>10. ASSUME Known(t), NEW g \in Examined(f), ~(f.fn = "source" /\ g.size = -1)
         PROVE  FrameOK(g) /\ g.fn = f.fn
    <2>1. CASE f.fn \notin {"source", "dest"}
      <3>1. g = h
        BY <1>7, <1>10, <2>1
      <3>2. PathFrame(h)
        BY <1>1, <1>2, <1>4, <1>10 DEF PathFrame
      <3> QED
        BY <1>1, <1>4, <2>1, <3>1, <3>2 DEF FrameOK, Loops
    <2>2. CASE f.fn = "source"
      <3> DEFINE size == IF known THEN e.size ELSE h.size
      <3>7. \E d \in D : g = F(d)
        <4> HIDE DEF F
        <4> QED
          BY <1>7, <1>10, <2>2
      <3>1. PICK d : g = [h EXCEPT !.dir = {d}, !.size = size]
        BY <1>8, <2>2, <3>7
      <3>2. /\ g.fn = "source" /\ g.at = "name" /\ g.rest = f.rest /\ g.walk = f.walk /\ g.cwd = t
            /\ g.name = f.name /\ g.size = size /\ DOMAIN g = DOMAIN h
        BY <1>1, <1>4, <1>5, <1>8, <2>2, <3>1
      <3>3. size \in Sizes \cup {0}
        BY <1>1, <1>4, <1>5, <1>10, <2>2, <3>2, KnownFacts DEF SourceFrame, known, e
      <3>4. PathFrame(g)
        BY <1>1, <1>2, <1>4, <1>10, <3>2 DEF PathFrame
      <3>5. SourceFrame(g)
        BY <1>1, <1>8, <2>2, <3>2, <3>3 DEF SourceFrame
      <3>6. {"fn", "at"} \subseteq DOMAIN g
        BY <1>1, <1>4, <3>2
      <3> QED
        BY <2>2, <3>2, <3>4, <3>5, <3>6 DEF FrameOK
    <2>3. CASE f.fn = "dest"
      <3>7. \E d \in D : g = F(d)
        <4> HIDE DEF F
        <4> QED
          BY <1>7, <1>10, <2>3
      <3>1. PICK d : g = [h EXCEPT !.dir = {d}]
        BY <2>3, <3>7
      <3>2. /\ g.fn = "dest" /\ g.at = "name" /\ g.rest = f.rest /\ g.walk = f.walk /\ g.cwd = t
            /\ g.name = f.name /\ g.size = f.size /\ g.isfile = f.isfile /\ g.want = f.want
            /\ DOMAIN g = DOMAIN h
        BY <1>1, <1>4, <1>6, <1>9, <2>3, <3>1
      <3>4. PathFrame(g)
        BY <1>1, <1>2, <1>4, <1>10, <3>2 DEF PathFrame
      <3>5. DestFrame(g)
        BY <1>1, <1>9, <2>3, <3>2 DEF DestFrame
      <3>6. {"fn", "at"} \subseteq DOMAIN g
        BY <1>1, <1>4, <3>2
      <3> QED
        BY <2>3, <3>2, <3>4, <3>5, <3>6 DEF FrameOK
    <2> QED
      BY <2>1, <2>2, <2>3
  <1>11. CallsInv'
    BY <1>1, <1>3, <1>10, LoseOK, GoOnOne
  <1> QED
    BY <1>11 DEF Examine, SystemCall

LEMMA EnterKeeps ==
    ASSUME Served, CallsInv, NEW s \in Shells, Enter(s) PROVE SystemCall /\ CallsInv'
  <1> DEFINE f == Head(call[s])
             p == ClusterNumber(f.cwd)
             n == IF f.fn = "source" THEN f.name ELSE Head(f.rest)
             t == ReadDirectory(p, n)
             a == IF f.fn = "dest" /\ IsLast(f) THEN "into" ELSE "peek"
             g == [f EXCEPT !.at = a, !.rest = Tail(f.rest), !.walk = Pushed(f.walk, t), !.cwd = t]
  <1>1. /\ call[s] # <<>> /\ FrameOK(f) /\ f.fn \in Loops /\ StackOK(f.walk)
        /\ {"fn", "at", "rest", "walk", "cwd"} \subseteq DOMAIN f
        /\ p \in Clusters
    BY LoopHas DEF Enter
  <1>2. Return(s) \/ (Reads(p, n) /\ GoOn(s, <<[Advanced(f) EXCEPT !.at = a, !.walk = Pushed(@, t), !.cwd = t]>>))
    BY DEF Enter
  <1>3. [Advanced(f) EXCEPT !.at = a, !.walk = Pushed(@, t), !.cwd = t] = g
    BY <1>1 DEF Advanced
  <1>4. a \in {"into", "peek"}
    OBVIOUS
  <1> HIDE DEF t, a, n, p
  <1>5. ASSUME Reads(p, n) PROVE FrameOK(g) /\ g.fn = f.fn
    <2>1. Known(t)
      BY <1>1, <1>5, ReadIsKnown DEF t
    <2>2. StackOK(Pushed(f.walk, t))
      BY <1>1, <2>1, AppendOK DEF Pushed, Known
    <2> DEFINE w == Pushed(f.walk, t)
               r == Tail(f.rest)
    <2> HIDE DEF w, r
    <2>3. a \notin {"name", "write", "open"} /\ a # "name"
      BY <1>4
    <2>4. FrameOK([f EXCEPT !.at = a, !.rest = r, !.walk = w, !.cwd = t])
      BY <1>1, <2>1, <2>2, <2>3, LoopGoesOn DEF w
    <2> QED
      BY <1>1, <2>4 DEF w, r
  <1> HIDE DEF g
  <1>6. CallsInv'
    BY <1>1, <1>2, <1>3, <1>5, ReturnOK, GoOnOne
  <1> QED
    BY <1>6 DEF Enter, SystemCall

\* cd ends by keeping the stack it walked with.
LEMMA EndOfPathKeeps ==
    ASSUME CallsInv, NEW s \in Shells, EndOfPath(s) PROVE SystemCall /\ CallsInv'
  <1> DEFINE f == Head(call[s])
  <1>1. call[s] # <<>> /\ StackOK(f.walk)
    BY LoopHas DEF EndOfPath
  <1>2. ASSUME dts' = [dts EXCEPT ![s] = f.walk], call' = [call EXCEPT ![s] = <<>>],
               line' = [line EXCEPT ![s] = NoLine], UNCHANGED out, f.fn = "cd"
        PROVE  CallsInv'
    BY <1>1, <1>2, NoFrames DEF CallsInv
  <1>3. CallsInv'
    BY <1>1, <1>2, ReturnOK DEF EndOfPath
  <1> QED
    BY <1>3 DEF EndOfPath, SystemCall

LEMMA LoopAt ==
    ASSUME NEW f, FrameOK(f), f.fn \in Loops \ {"source"}, Known(f.cwd), Head(f.rest) \in Names, NEW a
    PROVE  FrameOK([f EXCEPT !.at = a])
  <1>1. {"fn", "at", "rest", "walk", "cwd"} \subseteq DOMAIN f /\ StackOK(f.walk)
    BY DEF FrameOK, PathFrame
  <1>2. [f EXCEPT !.at = a, !.rest = f.rest, !.walk = f.walk, !.cwd = f.cwd] = [f EXCEPT !.at = a]
    BY <1>1
  <1> DEFINE r == f.rest
             w == f.walk
             t == f.cwd
  <1>3. StackOK(w) /\ Known(t) /\ Head(r) \in Names /\ f.fn # "source" /\ f.fn \in Loops
    BY <1>1
  <1> HIDE DEF r, w, t
  <1>4. FrameOK([f EXCEPT !.at = a, !.rest = r, !.walk = w, !.cwd = t])
    BY <1>3, LoopGoesOn
  <1> QED
    BY <1>2, <1>4 DEF r, w, t

LEMMA RefuseKeeps ==
    ASSUME CallsInv, NEW s \in Shells, Refuse(s) PROVE SystemCall /\ CallsInv'
  <1>1. call[s] # <<>>
    BY Entered DEF Refuse
  <1> QED
    BY <1>1, ReturnOK DEF Refuse, SystemCall

-----------------------------------------------------------------------------
\* mkdir and cat.
LEMMA LookKeeps ==
    ASSUME CallsInv, NEW s \in Shells, Look(s) PROVE SystemCall /\ CallsInv'
  <1> DEFINE f == Head(call[s])
  <1>1. /\ call[s] # <<>> /\ FrameOK(f) /\ f.fn \in {"mkdir"} /\ f.fn \in Loops
        /\ Known(f.cwd) /\ Head(f.rest) \in Names
    BY LoopsAre, LoopHas DEF Look
  <1> DEFINE g == [f EXCEPT !.at = "write"]
  <1>2. FrameOK(g) /\ g.fn \notin {"cd", "scan"}
    <2>1. g.fn = f.fn
      BY <1>1 DEF FrameOK
    <2> QED
      BY <1>1, <2>1, LoopAt
  <1>3. Return(s) \/ GoOn(s, <<g>>)
    BY DEF Look
  <1> HIDE DEF g
  <1>4. CallsInv'
    BY <1>1, <1>2, <1>3, ReturnOK, GoOnOne
  <1> QED
    BY <1>4 DEF Look, SystemCall

LEMMA MakeDirectoryKeeps ==
    ASSUME CallsInv, NEW s \in Shells, MakeDirectory(s) PROVE SystemCall /\ CallsInv'
  <1> DEFINE f == Head(call[s])
             p == ClusterNumber(f.cwd)
             n == Head(f.rest)
  <1>1. call[s] # <<>> /\ p \in Clusters /\ n \in Names
    BY LoopsAre, LoopHas DEF MakeDirectory
  <1>2. SysWrite(p, n, 0, Junk) /\ Return(s)
    BY DEF MakeDirectory
  <1> HIDE DEF p, n
  <1>3. SystemCall
    BY <1>1, <1>2, WriteIsCall
  <1> QED
    BY <1>1, <1>2, <1>3, ReturnOK

LEMMA ShowKeeps ==
    ASSUME CallsInv, NEW s \in Shells, Show(s) PROVE SystemCall /\ CallsInv'
  <1> DEFINE f == Head(call[s])
             g == [f EXCEPT !.at = "peek", !.rest = Tail(f.rest), !.walk = f.walk, !.cwd = f.cwd]
             c == <<g>> \o Tail(call[s])
  <1>1. /\ call[s] # <<>> /\ FrameOK(f) /\ f.fn \in {"cat"} /\ f.fn \in Loops
        /\ StackOK(f.walk) /\ Known(f.cwd)
        /\ {"fn", "at", "rest", "walk", "cwd"} \subseteq DOMAIN f
    BY LoopsAre, LoopHas DEF Show
  <1>2. Advanced(f) = g
    BY <1>1 DEF Advanced
  <1>3. FrameOK(g) /\ g.fn \notin {"cd", "scan"}
    BY <1>1, LoopPeeks
  <1>4. \/ Return(s)
        \/ /\ call' = [call EXCEPT ![s] = c]
           /\ UNCHANGED <<dts, line>>
           /\ \E o : out' = [out EXCEPT ![s] = o]
    BY <1>2 DEF Show
  <1> HIDE DEF g
  <1>5. FramesOK(c) /\ c # <<>> /\ Head(c) = g
    BY <1>1, <1>3, CallStack, FramesReplaced
  <1> HIDE DEF c
  <1>6. CallsInv'
    BY <1>1, <1>3, <1>4, <1>5, ReturnOK, CallReplaced
  <1> QED
    BY <1>6 DEF Show, SystemCall

-----------------------------------------------------------------------------
\* rm.
LEMMA RemoveLastKeeps ==
    ASSUME CallsInv, NEW s \in Shells, RemoveLast(s) PROVE SystemCall /\ CallsInv'
  <1> DEFINE f == Head(call[s])
             p == ClusterNumber(f.cwd)
             n == Head(f.rest)
             g == [f EXCEPT !.at = "open"]
  <1>1. /\ call[s] # <<>> /\ FrameOK(f) /\ f.fn \in {"rm"} /\ f.fn \in Loops
        /\ p \in Clusters /\ n \in Names /\ Known(f.cwd)
    BY LoopsAre, LoopHas DEF RemoveLast
  <1>2. FrameOK(g) /\ g.fn \notin {"cd", "scan"}
    <2>1. g.fn = f.fn
      BY <1>1 DEF FrameOK
    <2> QED
      BY <1>1, <2>1, LoopAt
  <1>3. SysDelete(p, n) /\ (GoOn(s, <<g>>) \/ Return(s))
    BY DEF RemoveLast
  <1> HIDE DEF g, p, n
  <1>4. SystemCall
    BY <1>1, <1>3, DeleteIsCall
  <1> QED
    BY <1>1, <1>2, <1>3, <1>4, ReturnOK, GoOnOne

LEMMA OpenRemovedKeeps ==
    ASSUME Served, CallsInv, NEW s \in Shells, OpenRemoved(s) PROVE SystemCall /\ CallsInv'
  <1> DEFINE f == Head(call[s])
             p == ClusterNumber(f.cwd)
             n == Head(f.rest)
             t == ReadDirectory(p, n)
             g == Flush(f, t)
  <1>0. In(s, {"rm"}, "open") /\ "rm" \in Loops
    BY DEF OpenRemoved, Loops
  <1>1. call[s] # <<>> /\ FrameOK(f) /\ f.fn = "rm" /\ f.at = "open" /\ p \in Clusters
    BY <1>0, LoopIn
  <1>2. (Reads(p, n) /\ GoOn(s, <<g>>)) \/ Return(s)
    BY DEF OpenRemoved
  <1> HIDE DEF p, n
  <1>3. ASSUME Reads(p, n) PROVE FrameOK(g) /\ g.fn \notin {"cd", "scan"}
    <2>1. Known(t)
      BY <1>1, <1>3, ReadIsKnown
    <2> HIDE DEF t
    <2>2. FrameOK(g)
      BY <1>1, <2>1, NewFlush
    <2> QED
      BY <2>2 DEF Flush
  <1> HIDE DEF g
  <1>4. CallsInv'
    BY <1>1, <1>2, <1>3, ReturnOK, GoOnOne
  <1> QED
    BY <1>4 DEF OpenRemoved, SystemCall

LEMMA FlushHas ==
    ASSUME CallsInv, NEW s \in Shells, In(s, {"flush"}, "each")
    PROVE  LET f == Head(call[s]) IN call[s] # <<>> /\ FrameOK(f) /\ f.fn = "flush" /\ FlushFrame(f)
  <1>1. call[s] # <<>> /\ FrameOK(Head(call[s])) /\ Head(call[s]).fn \in {"flush"}
    BY Entered
  <1> QED
    BY <1>1 DEF FrameOK

LEMMA FlushChildKeeps ==
    ASSUME CallsInv, NEW s \in Shells, FlushChild(s) PROVE SystemCall /\ CallsInv'
  <1> DEFINE f == Head(call[s])
  <1>1. call[s] # <<>> /\ FrameOK(f) /\ f.fn = "flush" /\ FlushFrame(f)
    BY FlushHas DEF FlushChild
  <1>2. PICK n \in f.left :
          LET g == [f EXCEPT !.left = @ \ {n}]
          IN  \/ GoOn(s, <<Loop("rm", <<n>>, f.walk), g>>) /\ UNCHANGED vars
              \/ SysDelete(f.holder, n) /\ GoOn(s, <<g>>)
    BY DEF FlushChild
  <1> DEFINE left == f.left \ {n}
             g == [f EXCEPT !.left = left]
             h == Loop("rm", <<n>>, f.walk)
  <1>3. [f EXCEPT !.left = @ \ {n}] = g
    BY <1>1 DEF FlushFrame
  <1>4. \/ GoOn(s, <<h, g>>) /\ UNCHANGED vars
        \/ SysDelete(f.holder, n) /\ GoOn(s, <<g>>)
    BY <1>2, <1>3
  <1>5. n \in Names /\ f.holder \in Clusters /\ StackOK(f.walk) /\ left \subseteq f.left
    BY <1>1, <1>2, KnownFacts DEF FlushFrame
  <1>6. FrameOK(h) /\ h.fn \notin {"cd", "scan"}
    BY <1>5, NewLoop DEF Loop
  <1> HIDE DEF h, left
  <1>7. FrameOK(g) /\ g.fn \notin {"cd", "scan"}
    <2>1. /\ g.fn = "flush" /\ g.left = left /\ g.walk = f.walk /\ g.holder = f.holder
          /\ g.name = f.name /\ g.table = f.table /\ DOMAIN g = DOMAIN f
          /\ {"fn", "at"} \subseteq DOMAIN f
      BY <1>1 DEF FrameOK, FlushFrame
    <2> HIDE DEF g
    <2>2. FlushFrame(g)
      BY <1>1, <1>5, <2>1 DEF FlushFrame
    <2> QED
      BY <2>1, <2>2 DEF FrameOK, Loops
  <1> HIDE DEF g
  <1>8. SystemCall
    BY <1>4, <1>5, DeleteIsCall DEF SystemCall
  <1> QED
    BY <1>1, <1>4, <1>6, <1>7, <1>8, GoOnOne, GoOnTwo

LEMMA FlushEndKeeps ==
    ASSUME CallsInv, NEW s \in Shells, FlushEnd(s) PROVE SystemCall /\ CallsInv'
  <1> DEFINE f == Head(call[s])
  <1>1. call[s] # <<>> /\ FlushFrame(f)
    BY FlushHas DEF FlushEnd
  <1>2. SysDelete(f.holder, f.name) /\ Return(s)
    BY DEF FlushEnd
  <1>3. SystemCall
    BY <1>1, <1>2, DeleteIsCall DEF FlushFrame
  <1> QED
    BY <1>1, <1>2, <1>3, ReturnOK

-----------------------------------------------------------------------------
\* cp and mv.
\* What cp has in hand at its source.
LEMMA SourceHas ==
    ASSUME CallsInv, NEW s \in Shells, NEW at, at # "peek", In(s, {"source"}, at)
    PROVE  LET f == Head(call[s])
           IN  /\ call[s] # <<>> /\ f.fn = "source" /\ f.at = at /\ SourceFrame(f)
               /\ StackOK(dts[s]) /\ Known(f.cwd) /\ ClusterNumber(f.cwd) \in Clusters
  <1> DEFINE fn == "source"
  <1>1. fn \in Loops /\ In(s, {fn}, at)
    BY DEF Loops
  <1>2. fn = "source"
    OBVIOUS
  <1> HIDE DEF fn
  <1> QED
    BY <1>1, <1>2, LoopIn

LEMMA ReadSourceKeeps ==
    ASSUME Served, CallsInv, NEW s \in Shells, ReadSource(s) PROVE SystemCall /\ CallsInv'
  <1> DEFINE f == Head(call[s])
             p == ClusterNumber(f.cwd)
             size == IF f.name \notin Extended /\ Found(f.cwd, f.name)
                       THEN EntryIn(f.cwd, f.name).size ELSE f.size
             want == IF Reads(p, f.name) THEN ReadDirectory(p, f.name) ELSE f.cwd
             data == Bytes(p, f.name, size)
             g == Dest(f, dts[s], TRUE, size, data, Unread)
             h == Dest(f, dts[s], FALSE, 0, Junk, want)
  <1>1. /\ call[s] # <<>> /\ f.fn = "source" /\ f.at = "name" /\ SourceFrame(f)
        /\ StackOK(dts[s]) /\ Known(f.cwd) /\ p \in Clusters
    BY SourceHas DEF ReadSource
  <1>2. GoOn(s, <<g>>) \/ GoOn(s, <<h>>)
    BY DEF ReadSource
  <1>3. f.name \in Names /\ size \in Sizes \cup {0}
    BY <1>1, KnownFacts DEF SourceFrame
  <1>4. Known(want)
    BY <1>1, ReadIsKnown
  <1> HIDE DEF size, want, data, f
  <1>5. FrameOK(g) /\ FrameOK(h)
    BY <1>1, <1>3, <1>4, NewDest
  <1>6. g.fn = "dest" /\ h.fn = "dest"
    BY DEF Dest
  <1> HIDE DEF g, h
  <1>7. CallsInv'
    BY <1>1, <1>2, <1>5, <1>6, GoOnOne
  <1> QED
    BY <1>7 DEF ReadSource, SystemCall

\* What cp has in hand at its destination.
LEMMA DestHas ==
    ASSUME CallsInv, NEW s \in Shells, NEW at, at # "peek", In(s, {"dest"}, at)
    PROVE  LET f == Head(call[s])
           IN  /\ call[s] # <<>> /\ FrameOK(f) /\ f.fn = "dest" /\ f.fn \in Loops /\ f.at = at
               /\ StackOK(f.walk) /\ Known(f.cwd) /\ ClusterNumber(f.cwd) \in Clusters
               /\ f.name \in Names /\ f.size \in Sizes \cup {0} /\ (~f.isfile => Known(f.want))
               /\ {"fn", "at", "rest", "walk", "cwd"} \subseteq DOMAIN f
               /\ at = "name" => Head(f.rest) \in Names
  <1> DEFINE f == Head(call[s])
             fn == "dest"
  <1>1. fn \in Loops /\ In(s, {fn}, at)
    BY DEF Loops
  <1>2. fn = "dest"
    OBVIOUS
  <1> HIDE DEF fn
  <1>3. /\ call[s] # <<>> /\ FrameOK(f) /\ f.fn = fn /\ f.at = at
        /\ StackOK(f.walk) /\ Known(f.cwd) /\ ClusterNumber(f.cwd) \in Clusters
        /\ {"fn", "at", "rest", "walk", "cwd"} \subseteq DOMAIN f
        /\ at = "name" => Head(f.rest) \in Names
        /\ DestFrame(f)
    BY <1>1, <1>2, LoopIn
  <1> HIDE DEF f
  <1> QED
    BY <1>1, <1>2, <1>3 DEF DestFrame, f

LEMMA WriteUnderKeeps ==
    ASSUME CallsInv, NEW s \in Shells, WriteUnder(s) PROVE SystemCall /\ CallsInv'
  <1> DEFINE f == Head(call[s])
             p == ClusterNumber(f.cwd)
             n == Head(f.rest)
  <1>0. In(s, {"dest"}, "name") /\ SysWrite(p, n, f.size, f.data) /\ Succeed(s, f)
    BY DEF WriteUnder
  <1>1. call[s] # <<>> /\ p \in Clusters /\ n \in Names /\ f.size \in Sizes \cup {0}
    BY <1>0, DestHas
  <1> HIDE DEF p, n, f
  <1>2. SystemCall
    BY <1>0, <1>1, WriteIsCall
  <1> QED
    BY <1>0, <1>1, <1>2, SucceedOK

LEMMA PeekIntoKeeps ==
    ASSUME Served, CallsInv, NEW s \in Shells, PeekInto(s) PROVE SystemCall /\ CallsInv'
  <1> DEFINE f == Head(call[s])
             t == Peeked(f)
             r == f.rest
             w == f.walk
             a == "put"
             g == [f EXCEPT !.at = a, !.rest = r, !.walk = w, !.cwd = t]
  <1>0. In(s, {"dest"}, "into")
    BY DEF PeekInto
  <1>1. /\ call[s] # <<>> /\ FrameOK(f) /\ f.fn = "dest" /\ f.fn \in Loops
        /\ StackOK(w) /\ Known(f.cwd)
        /\ {"fn", "at", "rest", "walk", "cwd"} \subseteq DOMAIN f
    BY <1>0, DestHas
  <1>2. [f EXCEPT !.at = "put", !.cwd = t] = g
    BY <1>1
  <1>3. GoOn(s, <<g>>)
    BY <1>2 DEF PeekInto
  <1>4. Known(t) /\ a \notin {"name", "write", "open"}
    BY <1>1, PeekedIsKnown
  <1> HIDE DEF t, r, w, a
  <1>5. FrameOK(g) /\ g.fn = f.fn
    BY <1>1, <1>4, LoopGoesOn
  <1> HIDE DEF g
  <1>6. CallsInv'
    BY <1>1, <1>3, <1>5, GoOnOne
  <1> QED
    BY <1>6 DEF PeekInto, SystemCall

LEMMA PutFileKeeps ==
    ASSUME CallsInv, NEW s \in Shells, PutFile(s) PROVE SystemCall /\ CallsInv'
  <1> DEFINE f == Head(call[s])
             p == ClusterNumber(f.cwd)
  <1>0. In(s, {"dest"}, "put") /\ SysWrite(p, f.name, f.size, f.data) /\ (Succeed(s, f) \/ Return(s))
    BY DEF PutFile
  <1>1. call[s] # <<>> /\ p \in Clusters /\ f.name \in Names /\ f.size \in Sizes \cup {0}
    BY <1>0, DestHas
  <1> HIDE DEF p, f
  <1>2. SystemCall
    BY <1>0, <1>1, WriteIsCall
  <1> QED
    BY <1>0, <1>1, <1>2, SucceedOK, ReturnOK

LEMMA PutDirectoryKeeps ==
    ASSUME CallsInv, NEW s \in Shells, PutDirectory(s) PROVE SystemCall /\ CallsInv'
  <1> DEFINE f == Head(call[s])
             p == ClusterNumber(f.cwd)
             want == f.want
             h == Copy(want, p)
             t == f.cwd
             r == f.rest
             w == f.walk
             a == "copied"
             g == [f EXCEPT !.at = a, !.rest = r, !.walk = w, !.cwd = t]
  <1>0. In(s, {"dest"}, "put") /\ ~f.isfile
    BY DEF PutDirectory
  <1>1. /\ call[s] # <<>> /\ FrameOK(f) /\ f.fn = "dest" /\ f.fn \in Loops
        /\ StackOK(w) /\ Known(t) /\ Known(want) /\ p \in Clusters
        /\ {"fn", "at", "rest", "walk", "cwd"} \subseteq DOMAIN f
        /\ a \notin {"name", "write", "open"}
    BY <1>0, DestHas
  <1>2. [f EXCEPT !.at = "copied"] = g
    BY <1>1
  <1>3. GoOn(s, <<h, g>>)
    BY <1>2 DEF PutDirectory
  <1> HIDE DEF t, r, w, a, want, p
  <1>4. FrameOK(g) /\ g.fn = f.fn
    BY <1>1, LoopGoesOn
  <1>5. FrameOK(h) /\ h.fn = "copy"
    BY <1>1, NewCopy DEF Copy
  <1> HIDE DEF g, h
  <1>6. CallsInv'
    BY <1>1, <1>3, <1>4, <1>5, GoOnTwo
  <1> QED
    BY <1>6 DEF PutDirectory, SystemCall

LEMMA CopiedKeeps ==
    ASSUME CallsInv, NEW s \in Shells, Copied(s) PROVE SystemCall /\ CallsInv'
  <1>1. call[s] # <<>>
    BY Entered DEF Copied
  <1> QED
    BY <1>1, SucceedOK DEF Copied, SystemCall

\* cp_helper.
LEMMA CopyHas ==
    ASSUME CallsInv, NEW s \in Shells, NEW at, In(s, {"copy"}, at)
    PROVE  LET f == Head(call[s])
           IN  call[s] # <<>> /\ FrameOK(f) /\ f.fn = "copy" /\ CopyFrame(f) /\ f.at = at
               /\ {"fn", "at"} \subseteq DOMAIN f
  <1>1. /\ call[s] # <<>> /\ FrameOK(Head(call[s])) /\ Head(call[s]).fn \in {"copy"}
        /\ Head(call[s]).at = at
    BY Entered
  <1> QED
    BY <1>1 DEF FrameOK

LEMMA CopyGoesOn ==
    ASSUME NEW f, FrameOK(f), f.fn = "copy", NEW a, NEW new, NEW left,
           a = "each" => new \in Clusters /\ left \subseteq DOMAIN f.want.entries
    PROVE  LET g == [f EXCEPT !.at = a, !.new = new, !.left = left]
           IN  FrameOK(g) /\ g.fn = "copy"
  <1> DEFINE g == [f EXCEPT !.at = a, !.new = new, !.left = left]
  <1>1. CopyFrame(f) /\ {"fn", "at"} \subseteq DOMAIN f
    BY DEF FrameOK
  <1>2. /\ g.fn = "copy" /\ g.at = a /\ g.new = new /\ g.left = left /\ g.want = f.want
        /\ g.into = f.into /\ DOMAIN g = DOMAIN f
    BY <1>1 DEF CopyFrame
  <1> HIDE DEF g
  <1>3. CopyFrame(g)
    BY <1>1, <1>2 DEF CopyFrame
  <1>4. FrameOK(g)
    BY <1>1, <1>2, <1>3 DEF FrameOK, Loops
  <1> QED
    BY <1>2, <1>4 DEF g

LEMMA MakeCopyKeeps ==
    ASSUME CallsInv, NEW s \in Shells, MakeCopy(s) PROVE SystemCall /\ CallsInv'
  <1> DEFINE f == Head(call[s])
             p == f.into
             n == f.want.self.name
             new == f.new
             left == f.left
             a == "open"
             g == [f EXCEPT !.at = a, !.new = new, !.left = left]
  <1>1. call[s] # <<>> /\ FrameOK(f) /\ f.fn = "copy" /\ CopyFrame(f) /\ {"fn", "at"} \subseteq DOMAIN f
    BY CopyHas DEF MakeCopy
  <1>2. [f EXCEPT !.at = "open"] = g
    BY <1>1 DEF CopyFrame
  <1>3. SysWrite(p, n, 0, Junk) /\ GoOn(s, <<g>>)
    BY <1>2 DEF MakeCopy
  <1>4. p \in Clusters /\ n \in Names /\ a # "each"
    BY <1>1, KnownFacts DEF CopyFrame
  <1> HIDE DEF p, n, new, left, a
  <1>5. FrameOK(g) /\ g.fn \notin {"cd", "scan"}
    BY <1>1, <1>4, CopyGoesOn
  <1> HIDE DEF g
  <1>6. SystemCall
    BY <1>3, <1>4, WriteIsCall
  <1> QED
    BY <1>1, <1>3, <1>5, <1>6, GoOnOne

LEMMA OpenCopyKeeps ==
    ASSUME Served, CallsInv, NEW s \in Shells, OpenCopy(s) PROVE SystemCall /\ CallsInv'
  <1> DEFINE f == Head(call[s])
             p == f.into
             n == f.want.self.name
             new == ClusterNumber(ReadDirectory(p, n))
             left == DOMAIN f.want.entries
             a == "each"
             g == [f EXCEPT !.at = a, !.new = new, !.left = left]
  <1>1. call[s] # <<>> /\ FrameOK(f) /\ f.fn = "copy" /\ CopyFrame(f)
    BY CopyHas DEF OpenCopy
  <1>2. (Reads(p, n) /\ GoOn(s, <<g>>)) \/ Lose(s)
    BY DEF OpenCopy
  <1>3. p \in Clusters
    BY <1>1 DEF CopyFrame
  <1>4. left \subseteq DOMAIN f.want.entries
    OBVIOUS
  <1> HIDE DEF p, n, left, a
  <1>5. Reads(p, n) => new \in Clusters
    BY <1>3, ReadIsKnown, KnownFacts
  <1> HIDE DEF new
  <1>6. Reads(p, n) => FrameOK(g) /\ g.fn \notin {"cd", "scan"}
    BY <1>1, <1>4, <1>5, CopyGoesOn
  <1> HIDE DEF g
  <1>7. CallsInv'
    BY <1>1, <1>2, <1>6, LoseOK, GoOnOne
  <1> QED
    BY <1>7 DEF OpenCopy, SystemCall

LEMMA CopyChildKeeps ==
    ASSUME Served, CallsInv, NEW s \in Shells, CopyChild(s) PROVE SystemCall /\ CallsInv'
  <1> DEFINE f == Head(call[s])
             p == ClusterNumber(f.want)
  <1>1. call[s] # <<>> /\ FrameOK(f) /\ f.fn = "copy" /\ CopyFrame(f) /\ f.at = "each"
        /\ {"fn", "at"} \subseteq DOMAIN f
    BY CopyHas DEF CopyChild
  <1>2. PICK n \in f.left :
          LET g == [f EXCEPT !.left = @ \ {n}]
          IN  \/ Reads(p, n) /\ GoOn(s, <<Copy(ReadDirectory(p, n), f.new), g>>) /\ UNCHANGED vars
              \/ Lose(s) /\ UNCHANGED vars
              \/ SysWrite(f.new, n, EntryIn(f.want, n).size, Junk) /\ GoOn(s, <<g>>)
    BY DEF CopyChild
  <1> DEFINE left == f.left \ {n}
             new == f.new
             a == "each"
             t == ReadDirectory(p, n)
             size == EntryIn(f.want, n).size
             g == [f EXCEPT !.at = a, !.new = new, !.left = left]
             h == Copy(t, new)
  <1>3. [f EXCEPT !.left = @ \ {n}] = g
    BY <1>1 DEF CopyFrame
  <1>4. \/ Reads(p, n) /\ GoOn(s, <<h, g>>) /\ UNCHANGED vars
        \/ Lose(s) /\ UNCHANGED vars
        \/ SysWrite(new, n, size, Junk) /\ GoOn(s, <<g>>)
    BY <1>2, <1>3
  <1>5. /\ new \in Clusters /\ left \subseteq DOMAIN f.want.entries
        /\ Known(f.want) /\ n \in DOMAIN f.want.entries
    BY <1>1 DEF CopyFrame
  <1>6. n \in Names /\ size \in Sizes \cup {0} /\ p \in Clusters
    BY <1>5, KnownFacts DEF Found
  <1> HIDE DEF left, new, a, t, size, p
  <1>7. Reads(p, n) => FrameOK(h) /\ h.fn \notin {"cd", "scan"}
    <2>1. Reads(p, n) => Known(t)
      BY <1>6, ReadIsKnown DEF t
    <2> QED
      BY <1>5, <2>1, NewCopy DEF Copy
  <1>8. FrameOK(g) /\ g.fn \notin {"cd", "scan"}
    BY <1>1, <1>5, CopyGoesOn
  <1> HIDE DEF g, h
  <1>9. SystemCall
    BY <1>4, <1>5, <1>6, WriteIsCall DEF SystemCall
  <1> QED
    BY <1>1, <1>4, <1>7, <1>8, <1>9, LoseOK, GoOnOne, GoOnTwo

LEMMA CopyEndKeeps ==
    ASSUME CallsInv, NEW s \in Shells, CopyEnd(s) PROVE SystemCall /\ CallsInv'
  <1>1. call[s] # <<>>
    BY CopyHas DEF CopyEnd
  <1> QED
    BY <1>1, ReturnOK DEF CopyEnd, SystemCall

-----------------------------------------------------------------------------
\* find.
LEMMA ScanHas ==
    ASSUME CallsInv, NEW s \in Shells, NEW at, In(s, {"scan"}, at)
    PROVE  LET f == Head(call[s])
           IN  /\ call[s] # <<>> /\ FrameOK(f) /\ f.fn = "scan" /\ ScanFrame(f) /\ f.at = at
               /\ {"fn", "at"} \subseteq DOMAIN f
  <1>1. /\ call[s] # <<>> /\ FrameOK(Head(call[s])) /\ Head(call[s]).fn \in {"scan"}
        /\ Head(call[s]).at = at
    BY Entered
  <1> QED
    BY <1>1 DEF FrameOK

LEMMA ScanGoesOn ==
    ASSUME NEW f, FrameOK(f), f.fn = "scan", NEW a, NEW t, Known(t), NEW first, NEW seen
    PROVE  LET g == [f EXCEPT !.at = a, !.cwd = t, !.first = first, !.seen = seen]
           IN  FrameOK(g) /\ g.fn = "scan"
  <1> DEFINE g == [f EXCEPT !.at = a, !.cwd = t, !.first = first, !.seen = seen]
  <1>1. ScanFrame(f) /\ {"fn", "at"} \subseteq DOMAIN f
    BY DEF FrameOK
  <1>2. g.fn = "scan" /\ g.at = a /\ g.cwd = t /\ g.walk = f.walk /\ DOMAIN g = DOMAIN f
    BY <1>1 DEF ScanFrame
  <1> HIDE DEF g
  <1>3. ScanFrame(g)
    BY <1>1, <1>2 DEF ScanFrame
  <1>4. FrameOK(g)
    BY <1>1, <1>2, <1>3 DEF FrameOK, Loops
  <1> QED
    BY <1>2, <1>4 DEF g

LEMMA PeekScanKeeps ==
    ASSUME Served, CallsInv, NEW s \in Shells, PeekScan(s) PROVE SystemCall /\ CallsInv'
  <1> DEFINE f == Head(call[s])
             t == Peeked(f)
             a == "each"
             first == DOMAIN t.entries
             seen == f.seen
             g == [f EXCEPT !.at = a, !.cwd = t, !.first = first, !.seen = seen]
  <1>1. call[s] # <<>> /\ FrameOK(f) /\ f.fn = "scan" /\ ScanFrame(f) /\ {"fn", "at"} \subseteq DOMAIN f
    BY ScanHas DEF PeekScan
  <1>2. [f EXCEPT !.at = "each", !.cwd = t, !.first = DOMAIN t.entries] = g
    BY <1>1 DEF ScanFrame
  <1>3. Lose(s) \/ (t # Unread /\ GoOn(s, <<g>>))
    BY <1>2 DEF PeekScan
  <1>4. Known(t) \/ t = Unread
    BY <1>1, PeekedIsKnown DEF ScanFrame
  <1> HIDE DEF t, a, first, seen
  <1>5. Known(t) => FrameOK(g) /\ g.fn = "scan"
    BY <1>1, ScanGoesOn
  <1> HIDE DEF g
  <1>6. CallsInv'
    BY <1>1, <1>3, <1>4, <1>5, LoseOK, GoOnOne
  <1> QED
    BY <1>6 DEF PeekScan, SystemCall

LEMMA ScanEntryKeeps ==
    ASSUME Served, CallsInv, NEW s \in Shells, ScanEntry(s) PROVE SystemCall /\ CallsInv'
  <1> DEFINE f == Head(call[s])
             p == ClusterNumber(f.cwd)
  <1>0. In(s, {"scan"}, "each")
    BY DEF ScanEntry
  <1>1. /\ call[s] # <<>> /\ FrameOK(f) /\ f.fn = "scan" /\ ScanFrame(f) /\ f.at = "each"
        /\ {"fn", "at"} \subseteq DOMAIN f
    BY <1>0, ScanHas
  <1>2. PICK n :
          LET t == ReadDirectory(p, n)
              g == [f EXCEPT !.seen = @ \cup {n}]
          IN  /\ \E o : out' = [out EXCEPT ![s] = o]
              /\ \/ call' = [call EXCEPT ![s] = <<g>> \o Tail(@)]
                 \/ /\ Reads(p, n)
                    /\ call' = [call EXCEPT ![s] = <<Scan(f.name, Pushed(f.walk, t)),
                                                     [g EXCEPT !.at = "back", !.cwd = t]>> \o Tail(@)]
                 \/ call' = [call EXCEPT ![s] = Tail(@)]
              /\ UNCHANGED <<session, dts, line>>
    BY DEF ScanEntry
  <1> DEFINE t == ReadDirectory(p, n)
             cwd == f.cwd
             first == f.first
             seen == f.seen \cup {n}
             at == f.at
             back == "back"
             g == [f EXCEPT !.at = at, !.cwd = cwd, !.first = first, !.seen = seen]
             h == [f EXCEPT !.at = back, !.cwd = t, !.first = first, !.seen = seen]
             k == Scan(f.name, Pushed(f.walk, t))
             rest == Tail(call[s])
  <1>3. [f EXCEPT !.seen = @ \cup {n}] = g
    BY <1>1 DEF ScanFrame
  <1>4. [[f EXCEPT !.seen = @ \cup {n}] EXCEPT !.at = "back", !.cwd = t] = h
    BY <1>1 DEF ScanFrame
  <1>5. /\ \E o : out' = [out EXCEPT ![s] = o]
        /\ UNCHANGED <<dts, line>>
        /\ \/ call' = [call EXCEPT ![s] = <<g>> \o rest]
           \/ Reads(p, n) /\ call' = [call EXCEPT ![s] = <<k, h>> \o rest]
           \/ call' = [call EXCEPT ![s] = rest]
    BY <1>2, <1>3, <1>4
  <1>6. Known(cwd) /\ StackOK(f.walk)
    BY <1>1 DEF ScanFrame
  <1>7. p \in Clusters
    BY <1>6, KnownFacts
  <1> HIDE DEF p, t, cwd, first, seen, at, back
  <1>8. FrameOK(g) /\ g.fn = "scan"
    BY <1>1, <1>6, ScanGoesOn
  <1>9. ASSUME Reads(p, n) PROVE FrameOK(h) /\ h.fn = "scan" /\ FrameOK(k) /\ k.fn = "scan"
    <2>1. Known(t)
      BY <1>7, <1>9, ReadIsKnown DEF t
    <2>2. StackOK(Pushed(f.walk, t))
      BY <1>6, <2>1, AppendOK DEF Pushed, Known
    <2>3. FrameOK(k) /\ k.fn = "scan"
      BY <2>2, NewScan DEF Scan
    <2>4. FrameOK(h) /\ h.fn = "scan"
      BY <1>1, <2>1, ScanGoesOn
    <2> QED
      BY <2>3, <2>4
  <1> HIDE DEF g, h, k
  <1>10. ASSUME call' = [call EXCEPT ![s] = <<g>> \o rest] PROVE CallsInv'
    <2> DEFINE c == <<g>> \o rest
    <2>1. FramesOK(c) /\ c # <<>> /\ Head(c) = g
      BY <1>1, <1>8, CallStack, FramesReplaced
    <2>2. call' = [call EXCEPT ![s] = c]
      BY <1>10
    <2> HIDE DEF c
    <2> QED
      BY <1>1, <1>5, <1>8, <2>1, <2>2, CallReplaced
  <1>11. ASSUME Reads(p, n), call' = [call EXCEPT ![s] = <<k, h>> \o rest] PROVE CallsInv'
    <2> DEFINE c == <<k, h>> \o rest
    <2>1. FramesOK(c) /\ c # <<>> /\ Head(c) = k
      BY <1>1, <1>9, <1>11, CallStack, FramesReplaced
    <2>2. call' = [call EXCEPT ![s] = c]
      BY <1>11
    <2> HIDE DEF c
    <2> QED
      BY <1>1, <1>5, <1>9, <1>11, <2>1, <2>2, CallReplaced
  <1>12. ASSUME call' = [call EXCEPT ![s] = rest] PROVE CallsInv'
    <2>1. FramesOK(rest) /\ rest # <<>> /\ Head(rest).fn # "cd"
      BY <1>1, CallStack, FramesReplaced
    <2> HIDE DEF rest
    <2> QED
      BY <1>1, <1>5, <1>12, <2>1, CallReplaced
  <1>13. CallsInv'
    BY <1>5, <1>10, <1>11, <1>12
  <1> QED
    BY <1>13 DEF ScanEntry, SystemCall

LEMMA ScanOnKeeps ==
    ASSUME Served, CallsInv, NEW s \in Shells, ScanOn(s) PROVE SystemCall /\ CallsInv'
  <1> DEFINE f == Head(call[s])
             t == Peeked(f)
             a == "each"
             first == f.first
             seen == f.seen
             g == [f EXCEPT !.at = a, !.cwd = t, !.first = first, !.seen = seen]
  <1>0. In(s, {"scan"}, "back")
    BY DEF ScanOn
  <1>1. /\ call[s] # <<>> /\ FrameOK(f) /\ f.fn = "scan" /\ ScanFrame(f) /\ f.at = "back"
        /\ {"fn", "at"} \subseteq DOMAIN f
    BY <1>0, ScanHas
  <1>2. [f EXCEPT !.at = "each", !.cwd = t] = g
    BY <1>1 DEF ScanFrame
  <1>3. GoOn(s, <<g>>)
    BY <1>2 DEF ScanOn
  <1>4. Known(t)
    BY <1>1, PeekedIsKnown DEF ScanFrame
  <1> HIDE DEF t, a, first, seen
  <1>5. FrameOK(g) /\ g.fn = "scan"
    BY <1>1, <1>4, ScanGoesOn
  <1> HIDE DEF g
  <1>6. CallsInv'
    BY <1>1, <1>3, <1>5, GoOnOne
  <1> QED
    BY <1>6 DEF ScanOn, SystemCall

LEMMA FindRootKeeps ==
    ASSUME CallsInv, NEW s \in Shells, FindRoot(s) PROVE SystemCall /\ CallsInv'
  <1> DEFINE f == Head(call[s])
             g == [f EXCEPT !.at = "done"]
             c == <<g>>
  <1>1. call[s] # <<>> /\ FrameOK(f) /\ f.fn \in {"find"}
    BY Entered DEF FindRoot
  <1>2. g.fn = "find" /\ {"fn", "at"} \subseteq DOMAIN g
    BY <1>1 DEF FrameOK
  <1>3. /\ call' = [call EXCEPT ![s] = c] /\ UNCHANGED <<dts, line, vars>>
        /\ \E o : out' = [out EXCEPT ![s] = o]
    BY DEF FindRoot
  <1> HIDE DEF g
  <1>4. FrameOK(g)
    BY <1>2 DEF FrameOK, Loops
  <1>5. FramesOK(c) /\ c # <<>> /\ Head(c) = g
    BY <1>2, <1>4, OneFrame
  <1> HIDE DEF c
  <1>6. CallsInv'
    BY <1>1, <1>2, <1>3, <1>5, CallReplaced
  <1> QED
    BY <1>3, <1>6 DEF SystemCall

LEMMA FindEnds ==
    ASSUME CallsInv, NEW s \in Shells, ScanEnd(s) \/ FindEnd(s) PROVE SystemCall /\ CallsInv'
  <1>1. call[s] # <<>>
    BY Entered DEF ScanEnd, FindEnd
  <1> QED
    BY <1>1, ReturnOK DEF ScanEnd, FindEnd, SystemCall

-----------------------------------------------------------------------------
\* The prompt, and the machine's switch.
LEMMA TypeKeeps ==
    ASSUME CallsInv, NEW s \in Shells, Type(s), session \in Sessions
    PROVE  SystemCall /\ CallsInv'
  <1>1. PICK l \in session.lines[s] :
          /\ call' = [call EXCEPT ![s] = FirstFrames(l, dts[s])] /\ UNCHANGED <<dts, out>>
          /\ line' = [line EXCEPT ![s] =
               [cmd |-> l.cmd, path |-> l.path, dest |-> l.dest,
                at |-> Named(s, l), alone |-> NeedsAlone(s, l),
                due |-> IF l.cmd = "find" THEN Matches(disk, Last(l.path)) ELSE {}]]
    BY DEF Type
  <1> DEFINE w == dts[s]
             c == FirstFrames(l, w)
             typed == [cmd |-> l.cmd, path |-> l.path, dest |-> l.dest,
                       at |-> Named(s, l), alone |-> NeedsAlone(s, l),
                       due |-> IF l.cmd = "find" THEN Matches(disk, Last(l.path)) ELSE {}]
  <1>2. /\ l.cmd \in {"cd", "mkdir", "cat", "rm", "cp", "mv", "find"}
        /\ l.cmd \in {"cp", "mv"} => Head(l.path) \in Names
    BY ShellAssumption
  <1>3. StackOK(w) /\ call[s] = <<>> /\ out[s] = {}
    BY DEF Type, Running, CallsInv
  <1>4. typed # NoLine
    <2>1. "path" \in DOMAIN typed /\ "path" \notin DOMAIN NoLine
      BY DEF NoLine
    <2> QED
      BY <2>1
  <1>5. FramesOK(c) /\ c # <<>>
    <2> HIDE DEF w
    <2>1. CASE l.cmd \in {"cp", "mv"}
      <3> DEFINE f == Source(l.path, l.dest, w, l.cmd = "mv")
      <3>1. c = <<f>>
        BY <2>1 DEF FirstFrames
      <3>2. FrameOK(f) /\ f.fn = "source"
        BY <1>2, <1>3, <2>1, NewSource DEF Source
      <3> HIDE DEF f, c
      <3> QED
        BY <3>1, <3>2, OneFrame
    <2>2. CASE l.cmd = "find"
      <3> DEFINE f == Scan(Last(l.path), <<RootLink>>)
                 g == [fn |-> "find", at |-> "root", name |-> Last(l.path)]
      <3>1. c = <<f, g>>
        BY <2>2 DEF FirstFrames
      <3>2. FrameOK(f) /\ FrameOK(g) /\ g.fn = "find"
        BY RootLinkOK, NewScan, NewFind
      <3> HIDE DEF f, g, c
      <3> QED
        BY <3>1, <3>2, TwoFrames
    <2>3. CASE l.cmd \in {"cd", "mkdir", "cat", "rm"}
      <3> DEFINE f == Loop(l.cmd, l.path, w)
      <3>1. c = <<f>>
        BY <2>3 DEF FirstFrames
      <3>2. FrameOK(f) /\ f.fn = l.cmd
        BY <1>3, <2>3, NewLoop DEF Loop
      <3> HIDE DEF f, c
      <3> QED
        BY <2>3, <3>1, <3>2, OneFrame
    <2> QED
      BY <1>2, <2>1, <2>2, <2>3
  <1>6. call' = [call EXCEPT ![s] = c] /\ line' = [line EXCEPT ![s] = typed]
    BY <1>1
  <1> HIDE DEF c, typed, w
  <1>7. CallsInv'
    BY <1>1, <1>3, <1>4, <1>5, <1>6 DEF CallsInv
  <1> QED
    BY <1>7 DEF Type, SystemCall

LEMMA AtPrompt ==
    ASSUME dts = AtRoot, call = [s \in Shells |-> <<>>], line = [s \in Shells |-> NoLine],
           out = [s \in Shells |-> {}]
    PROVE  CallsInv
  BY RootLinkOK, NoFrames DEF AtRoot, CallsInv

LEMMA RestartKeeps ==
    ASSUME Restart PROVE CallsInv'
  <1>1. /\ dts' = AtRoot /\ call' = [s \in Shells |-> <<>>] /\ line' = [s \in Shells |-> NoLine]
        /\ out' = [s \in Shells |-> {}]
    BY DEF Restart
  <1> QED
    BY <1>1, RootLinkOK, NoFrames DEF AtRoot, CallsInv

LEMMA StepKeeps ==
    ASSUME Served, CallsInv, NEW s \in Shells, Step(s) PROVE SystemCall /\ CallsInv'
  <1>1. CASE GoUp(s) \/ Stay(s) \/ Examine(s) \/ Refuse(s) \/ Enter(s) \/ EndOfPath(s)
    BY <1>1, GoUpKeeps, StayKeeps, ExamineKeeps, RefuseKeeps, EnterKeeps, EndOfPathKeeps
  <1>2. CASE Look(s) \/ MakeDirectory(s) \/ Show(s)
    BY <1>2, LookKeeps, MakeDirectoryKeeps, ShowKeeps
  <1>3. CASE RemoveLast(s) \/ OpenRemoved(s) \/ FlushChild(s) \/ FlushEnd(s)
    BY <1>3, RemoveLastKeeps, OpenRemovedKeeps, FlushChildKeeps, FlushEndKeeps
  <1>4. CASE ReadSource(s) \/ WriteUnder(s) \/ PeekInto(s) \/ PutFile(s) \/ PutDirectory(s) \/ Copied(s)
    BY <1>4, ReadSourceKeeps, WriteUnderKeeps, PeekIntoKeeps, PutFileKeeps, PutDirectoryKeeps, CopiedKeeps
  <1>5. CASE MakeCopy(s) \/ OpenCopy(s) \/ CopyChild(s) \/ CopyEnd(s)
    BY <1>5, MakeCopyKeeps, OpenCopyKeeps, CopyChildKeeps, CopyEndKeeps
  <1>6. CASE PeekScan(s) \/ ScanEntry(s) \/ ScanOn(s) \/ ScanEnd(s) \/ FindRoot(s) \/ FindEnd(s)
    BY <1>6, PeekScanKeeps, ScanEntryKeeps, ScanOnKeeps, FindEnds, FindRootKeeps
  <1> QED
    BY <1>1, <1>2, <1>3, <1>4, <1>5, <1>6 DEF Step

-----------------------------------------------------------------------------
\* The session stays what it was.
LEMMA SameSession ==
    ASSUME [ShellNext]_shvars PROVE session' = session
  <1>1. \A s : /\ \A c : GoOn(s, c) => session' = session
               /\ Return(s) \/ Lose(s) => session' = session
    BY DEF GoOn, Return, Lose
  <1>2. \A s, f : Succeed(s, f) => session' = session
    BY <1>1 DEF Succeed
  <1>3. ASSUME NEW s \in Shells, Step(s) PROVE session' = session
    <2>1. CASE GoUp(s) \/ Stay(s) \/ Examine(s) \/ Refuse(s) \/ Enter(s) \/ EndOfPath(s)
      BY <1>1, <2>1 DEF GoUp, Stay, Examine, Refuse, Enter, EndOfPath
    <2>2. CASE Look(s) \/ MakeDirectory(s) \/ Show(s)
      BY <1>1, <2>2 DEF Look, MakeDirectory, Show
    <2>3. CASE RemoveLast(s) \/ OpenRemoved(s) \/ FlushChild(s) \/ FlushEnd(s)
      BY <1>1, <2>3 DEF RemoveLast, OpenRemoved, FlushChild, FlushEnd
    <2>4. CASE ReadSource(s) \/ WriteUnder(s) \/ PeekInto(s) \/ PutFile(s) \/ PutDirectory(s) \/ Copied(s)
      BY <1>1, <1>2, <2>4 DEF ReadSource, WriteUnder, PeekInto, PutFile, PutDirectory, Copied
    <2>5. CASE MakeCopy(s) \/ OpenCopy(s) \/ CopyChild(s) \/ CopyEnd(s)
      BY <1>1, <2>5 DEF MakeCopy, OpenCopy, CopyChild, CopyEnd
    <2>6. CASE PeekScan(s) \/ ScanEntry(s) \/ ScanOn(s) \/ ScanEnd(s) \/ FindRoot(s) \/ FindEnd(s)
      BY <1>1, <2>6 DEF PeekScan, ScanEntry, ScanOn, ScanEnd, FindRoot, FindEnd
    <2> QED
      BY <1>3, <2>1, <2>2, <2>3, <2>4, <2>5, <2>6 DEF Step
  <1> QED
    BY <1>3 DEF ShellNext, Type, Restart, shvars

\* The inductive invariant: the disk is a store, and what the commands hold names
\* things on it.
ShellInv == Served /\ CallsInv /\ session \in Sessions

LEMMA InitShellInv == ShellInit => ShellInv
  BY InitServed, AtPrompt DEF ShellInit, ShellInv

LEMMA NextShellInv == ShellInv /\ [ShellNext]_shvars => ShellInv'
  <1> SUFFICES ASSUME ShellInv, [ShellNext]_shvars PROVE ShellInv'
    OBVIOUS
  <1>1. session' = session
    BY SameSession
  <1>2. ASSUME NEW s \in Shells, Type(s) PROVE SystemCall /\ CallsInv'
    BY <1>2, TypeKeeps DEF ShellInv
  <1>3. ASSUME NEW s \in Shells, Step(s) PROVE SystemCall /\ CallsInv'
    BY <1>3, StepKeeps DEF ShellInv
  <1>4. CASE Restart
    BY <1>1, <1>4, RestartKeeps, RestartKeepsStore DEF ShellInv
  <1>5. CASE UNCHANGED shvars
    <2>1. CallsInv'
      BY <1>5 DEF shvars, ShellInv, CallsInv
    <2>2. SystemCall
      BY <1>5 DEF shvars, SystemCall
    <2> QED
      BY <1>1, <2>1, <2>2, CallKeepsStore DEF ShellInv
  <1> QED
    BY <1>1, <1>2, <1>3, <1>4, <1>5, CallKeepsStore DEF ShellNext, ShellInv

\* Every stack a shell holds has the root at its bottom and a top.
StacksKeepRoot ==
    \A s \in Shells : \A w \in Stacks(s) : Len(w) > 0 /\ w[1] = RootLink

LEMMA EveryStackOK ==
    ASSUME ShellInv, NEW s \in Shells, NEW w \in Stacks(s)
    PROVE  StackOK(w)
  <1>1. CASE w = dts[s]
    BY <1>1 DEF ShellInv, CallsInv
  <1>2. CASE w # dts[s]
    <2>1. PICK i \in DOMAIN call[s] :
            call[s][i].fn \in Loops \cup {"flush", "scan"} /\ w = call[s][i].walk
      BY <1>2 DEF Stacks
    <2>2. FramesOK(call[s])
      BY DEF ShellInv, CallsInv
    <2>3. FrameOK(call[s][i])
      BY <2>2 DEF FramesOK
    <2> QED
      BY <2>1, <2>3 DEF FrameOK, PathFrame, FlushFrame, ScanFrame
  <1> QED
    BY <1>1, <1>2

\* The stack of a shell, and every copy a command walks with, keeps the root:
\* cd .. and the failed ends of every command never leave peek without a top, in
\* every session and with every slip, whatever the other shells do.
THEOREM StacksNeverUnderflow == ShellSpec => []StacksKeepRoot
  <1>1. ShellInv => StacksKeepRoot
    BY EveryStackOK DEF StackOK, StacksKeepRoot
  <1> QED
    BY <1>1, InitShellInv, NextShellInv, PTL DEF ShellSpec

\* Every stack is one of links that were read from tables, never what a buffer
\* held; a shell is at the prompt exactly when it works on no line, and has printed
\* nothing then.
THEOREM ShellTypeCorrect == ShellSpec => []ShellTypeOK
  <1>1. ShellInv => ShellTypeOK
    <2> SUFFICES ASSUME ShellInv PROVE ShellTypeOK
      OBVIOUS
    <2>1. ASSUME NEW s \in Shells, NEW w \in Stacks(s)
          PROVE  w # <<>> /\ \A i \in DOMAIN w : w[i] \in {Link(n, c) : n \in Names, c \in Clusters}
      <3>1. w \in Seq(Links) /\ Len(w) > 0
        BY <2>1, EveryStackOK DEF StackOK
      <3> QED
        BY <3>1 DEF Links
    <2>2. \A s \in Shells : (line[s] = NoLine <=> call[s] = <<>>) /\ (line[s] = NoLine => out[s] = {})
      BY DEF ShellInv, CallsInv
    <2> QED
      BY <2>1, <2>2 DEF ShellTypeOK
  <1> QED
    BY <1>1, InitShellInv, NextShellInv, PTL DEF ShellSpec

\* Whatever is typed, served or not, and however the shells interleave, the disk
\* stays a store: no cluster has two owners and none is lost, every directory's
\* table leads to the one above it, everything on the disk reads whole, and the
\* cached allocation table is the one on the disk.
THEOREM CommandsKeepTheStore ==
    ShellSpec => [](ClustersOwnedOnce /\ ParentLinks /\ EverythingReads /\ FatCached)
  <1>1. ShellInv => ClustersOwnedOnce /\ ParentLinks /\ EverythingReads /\ FatCached
    BY NothingMisused, FormattedWhenUsed, StoreOwnsOnce, StoreLinksParents, StoreReads
       DEF ShellInv, Served, OwnershipInv, Fat32Inv
  <1> QED
    BY <1>1, InitShellInv, NextShellInv, PTL DEF ShellSpec

\* One entry comes or goes, as FileStore says: a name that is new in a directory
\* that is there, or an entry that is no directory with something in it.
OneChange ==
    \/ View(disk)' = View(disk)
    \/ \E v \in View(disk)' \ View(disk) : Store!Add(v)
    \/ \E v \in View(disk) \ View(disk)' : Store!Delete(v)

LEMMA CallIsOneChange ==
    ASSUME Served, SystemCall PROVE OneChange
  <1>0. /\ OwnershipInv /\ power = "on" /\ WellUsed /\ Fat32Inv
        /\ disk[BOOT_SECTOR] = Signature /\ IsStore(disk)
    BY NothingMisused, FormattedWhenUsed DEF Served, OwnershipInv
  <1>1. DiskOK(disk')
    BY CallKeepsStore DEF Served, OwnershipInv, Fat32Inv
  <1>2. CASE UNCHANGED vars
    BY <1>2 DEF OneChange, vars
  <1>3. ASSUME NEW p \in Clusters, NEW n \in Names, NEW entry, NEW s,
               IsStore(disk), Adds(disk, disk', p, n, entry, s)
        PROVE  OneChange
    <2> DEFINE v == Shown(disk', p, n)
    <2>1. IsStore(disk) /\ DiskOK(disk') /\ Adds(disk, disk', p, n, entry, s)
      BY <1>1, <1>3
    <2>2. /\ View(disk') = View(disk) \cup {v} /\ v \notin View(disk)
          /\ \A x \in View(disk) : x.in = p => x.name # n
          /\ v.in = p /\ v.name = n /\ v.dir = entry.dir
          /\ entry.dir => v.id = s[1] /\ s[1] \notin Tables(disk)
          /\ v.size = entry.size
          /\ ~entry.dir => v.data = [i \in 1 .. Len(s) |-> disk'[s[i]]]
      BY <2>1, AddedToView
    <2>3. Store!Directories = Tables(disk) /\ p \in Tables(disk)
      BY <2>1, StoreDirectories DEF Adds
    <2> HIDE DEF v
    <2>4. v \in View(disk') \ View(disk)
      BY <2>2
    <2>5. Store!Add(v)
      BY <2>2, <2>3 DEF Store!Add
    <2> QED
      BY <2>4, <2>5 DEF OneChange
  <1>4. ASSUME NEW p \in Clusters, NEW n \in Names, WriteDirectory(p, n) PROVE OneChange
    <2>1. losses' = losses
      BY <1>4, OperationKeepsStore
    <2>2. \E entry, s : IsStore(disk) /\ Adds(disk, disk', p, n, entry, s)
      BY <1>0, <1>4, <2>1, WriteDirectoryAdds
    <2> QED
      BY <1>3, <2>2
  <1>5. ASSUME NEW p \in Clusters, NEW n \in Names, NEW size \in Sizes, NEW data,
               WriteFile(p, n, size, data)
        PROVE  OneChange
    <2>1. losses' = losses
      BY <1>5, OperationKeepsStore
    <2>2. \E entry, s : IsStore(disk) /\ Adds(disk, disk', p, n, entry, s)
      BY <1>0, <1>5, <2>1, WriteFileAdds
    <2> QED
      BY <1>3, <2>2
  <1>6. ASSUME NEW p \in Clusters, NEW n \in Names, Delete(p, n) PROVE OneChange
    <2> DEFINE v == Shown(disk, p, n)
    <2>1. IsStore(disk) /\ Removes(disk, disk', p, n)
      <3>1. losses' = losses
        BY <1>6, OperationKeepsStore
      <3> QED
        BY <1>0, <1>6, <3>1, DeleteRemoves
    <2>2. /\ View(disk') = View(disk) \ {v} /\ v \in View(disk)
          /\ v.dir => \A x \in View(disk) : x.in # v.id
      BY <1>1, <2>1, RemovedFromView
    <2> HIDE DEF v
    <2>3. Store!Delete(v)
      BY <2>2 DEF Store!Delete
    <2> QED
      BY <2>2, <2>3 DEF OneChange
  <1> QED
    BY <1>2, <1>4, <1>5, <1>6 DEF SystemCall

\* However deep rm and cp_helper recurse, and whatever they do not ask for, each
\* step of a shell changes one entry at most, the way FileStore allows: rm never
\* takes a directory with something in it, and nothing appears where there is no
\* directory, or under a name that is taken.
THEOREM StepsChangeOneEntry == ShellSpec => [][OneChange]_shvars
  <1>1. ShellInv /\ [ShellNext]_shvars => [OneChange]_shvars
    <2> SUFFICES ASSUME ShellInv, ShellNext PROVE OneChange
      BY DEF OneChange, shvars, vars
    <2>1. ASSUME NEW s \in Shells, Type(s) \/ Step(s) PROVE SystemCall
      BY <2>1, TypeKeeps, StepKeeps DEF ShellInv
    <2>2. CASE Restart
      BY <2>2 DEF Restart, OneChange
    <2> QED
      BY <2>1, <2>2, CallIsOneChange DEF ShellNext, ShellInv
  <1> QED
    BY <1>1, InitShellInv, NextShellInv, PTL DEF ShellSpec
=============================================================================
