-------------------------------- MODULE Fat32 --------------------------------
(***************************************************************************)
(* The file system of MeongOS, src/src/filesystem/fat32.c, over a disk of  *)
(* clusters.  Cluster 0 holds the boot signature, cluster 1 the FAT,       *)
(* cluster 2 the root directory's table; every other cluster holds a       *)
(* directory table or one cluster of a file.                               *)
(*                                                                         *)
(* The four operations run inside a system call with interrupts off, so    *)
(* nothing sees them half done, except the power failing between two of    *)
(* their disk writes.  An operation is therefore one action: the sequence  *)
(* of cluster writes it makes, of which all reach the disk, or the first   *)
(* few do and the machine is off.                                          *)
(*                                                                         *)
(* A name stands for the 8.3 pair (name, ext) that entries are compared    *)
(* by.  The slots of a table are abstracted to the set of names in use and *)
(* their number: nothing but the order of a listing depends on the slot.   *)
(* The contents of a file are text, which reads as an empty table when its *)
(* cluster is taken for one.                                               *)
(***************************************************************************)
EXTENDS Integers, Sequences, FiniteSets, FiniteSetsExt, Functions

CONSTANTS
    CLUSTER_MAP_SIZE,   \* clusters on the disk (512)
    CLUSTER_SIZE,       \* bytes in a cluster (2048)
    DIRECTORY_ENTRIES,  \* entries of a table after the first two (62)
    Names,              \* entry names, RootName among them
    RootName,           \* "root\0\0\0\0"
    Sizes,              \* file sizes written and read, in bytes
    Payloads,           \* what files are filled with
    MaxLosses,          \* bound: how often the power fails inside an operation
    Misuse              \* see AllMisuse

AllMisuse == {"any_parent",   \* a parent that is no directory, or not any more
              "disk_full",    \* a write when too few clusters are empty
              "make_root",    \* a directory "root" made in the root directory
              "power_loss"}   \* the power fails inside an operation

ASSUME Fat32Assumption ==
    /\ CLUSTER_MAP_SIZE \in Nat /\ CLUSTER_MAP_SIZE > 3
    /\ CLUSTER_SIZE \in Nat \ {0}
    /\ DIRECTORY_ENTRIES \in Nat \ {0}
    /\ RootName \in Names
    /\ Sizes \subseteq Nat \ {0}
    /\ MaxLosses \in Nat
    /\ Misuse \subseteq AllMisuse

BOOT_SECTOR == 0
FAT_CLUSTER_NUMBER == 1
ROOT_CLUSTER_NUMBER == 2
EMPTY_ENTRY == 0          \* FAT32_FAT_EMPTY_ENTRY
END_OF_FILE == -1         \* FAT32_FAT_END_OF_FILE, also CLUSTER_1_VALUE
CLUSTER_0_VALUE == -2     \* 0x0FFFFFF0: not the number of any cluster
NoCluster == -3           \* a zeroed entry 0 or 1: not a subdirectory

Clusters == 0 .. CLUSTER_MAP_SIZE - 1
FatValues == Clusters \cup {END_OF_FILE, CLUSTER_0_VALUE}

\* What a cluster holds.
Blank == [kind |-> "blank"]
Signature == [kind |-> "signature"]
FatContent(f) == [kind |-> "fat", map |-> f]
Block(payload, i) == [kind |-> "data", payload |-> payload, nth |-> i]
Table(self, parent, entries) ==
    [kind |-> "table", self |-> self, parent |-> parent, entries |-> entries]
NoEntries == [n \in {} |-> 0]

\* Entry 0 or 1 of a table: the directory itself, the directory that holds it.
Link(name, cluster) == [name |-> name, cluster |-> cluster]
NoLink == Link("", NoCluster)

VARIABLES
    power,    \* "off", "on", or "hung": a handler that never returns
    disk,     \* the contents of every cluster
    fat,      \* fat32_driver_state.fat_table, lost with the power
    losses,   \* history: power failures inside an operation
    settled   \* history: the view of the disk before the last such failure

vars == <<power, disk, fat, losses, settled>>

-----------------------------------------------------------------------------
\* Reading the disk.

EmptyFat == [c \in Clusters |-> EMPTY_ENTRY]

\* read_clusters of cluster 1 into the driver state.
LoadedFat(d) == IF d[FAT_CLUSTER_NUMBER].kind = "fat"
                  THEN d[FAT_CLUSTER_NUMBER].map ELSE EmptyFat

\* A cluster read as a directory table, whatever it holds.
ReadTable(d, c) == IF d[c].kind = "table" THEN d[c]
                   ELSE Table(NoLink, NoLink, NoEntries)

\* dirtable_search found one.
Has(d, p, n) == n \in DOMAIN ReadTable(d, p).entries
EntryOf(d, p, n) == ReadTable(d, p).entries[n]

\* is_directory descends from the root along the subdirectory entries after the
\* first two; those it only compares.
Subdirectories(d, c) ==
    LET t == ReadTable(d, c).entries
    IN  {t[n].cluster : n \in {m \in DOMAIN t : t[m].dir}}

Below(d, c) ==
    LET level[i \in 0 .. CLUSTER_MAP_SIZE] ==
          IF i = 0 THEN Subdirectories(d, c)
          ELSE UNION {{x} \cup Subdirectories(d, x) : x \in level[i - 1]}
    IN  level[CLUSTER_MAP_SIZE]

Tables(d) == {ROOT_CLUSTER_NUMBER} \cup Below(d, ROOT_CLUSTER_NUMBER)

IsDirectory(c) ==
    \E t \in Tables(disk) :
      c \in {ReadTable(disk, t).self.cluster, ReadTable(disk, t).parent.cluster}
              \cup Subdirectories(disk, t)

\* The chain from cluster c, as read and clear_cluster follow it: until the end
\* mark.  A chain that runs into an empty cluster goes on at cluster 0, to
\* CLUSTER_0_VALUE, beyond the FAT, and (through a zeroed word) never ends.
Walk(f, c) ==
    LET next == [x \in FatValues |-> IF x \in Clusters THEN f[x] ELSE x]
        at[i \in 0 .. CLUSTER_MAP_SIZE] == IF i = 0 THEN c ELSE next[at[i - 1]]
    IN  at

Ends(f, c) == \E i \in 0 .. CLUSTER_MAP_SIZE : Walk(f, c)[i] = END_OF_FILE

Chain(f, c) ==
    LET at == Walk(f, c)
        len == Min({i \in 0 .. CLUSTER_MAP_SIZE : at[i] = END_OF_FILE})
    IN  [i \in 1 .. len |-> at[i - 1]]

\* get_empty_cluster: the first one, or 0 when there is none.
EmptyClusters(f) == {c \in Clusters : c >= 2 /\ f[c] = EMPTY_ENTRY}
GetEmptyCluster(f) == IF EmptyClusters(f) = {} THEN 0 ELSE Min(EmptyClusters(f))

\* ceil(buffer_size / CLUSTER_SIZE)
NeededClusters(size) == (size + CLUSTER_SIZE - 1) \div CLUSTER_SIZE

-----------------------------------------------------------------------------
(***************************************************************************)
(* What the disk shows: every entry of every directory that can be reached *)
(* from the root, with the file's contents, in the terms of FileStore.     *)
(***************************************************************************)
Shown(d, t, n) ==
    LET e == EntryOf(d, t, n)
        f == LoadedFat(d)
    IN  [in |-> t, name |-> n, dir |-> e.dir,
         id |-> IF e.dir THEN e.cluster ELSE 0,
         size |-> e.size,
         data |-> IF e.dir \/ ~Ends(f, e.cluster) THEN <<>>
                  ELSE LET chain == Chain(f, e.cluster)
                       IN  [i \in DOMAIN chain |-> d[chain[i]]]]

View(d) == UNION {{Shown(d, t, n) : n \in DOMAIN ReadTable(d, t).entries}
                    : t \in Tables(d)}

-----------------------------------------------------------------------------
\* Writing the disk: [at, put] is one write_clusters call.

Written(writes, k, c) == {i \in 1 .. k : writes[i].at = c}

\* The disk after the first k writes.
After(writes, k) ==
    [c \in Clusters |-> IF Written(writes, k, c) = {} THEN disk[c]
                        ELSE writes[Max(Written(writes, k, c))].put]

\* An operation that makes these writes and leaves newFat in the driver state;
\* or that the power fails in, after some of the writes.  gone is
\* what the caller asked to be removed.  (\E w: the writes are worked out once.)
Perform(writes, newFat, gone) ==
    \/ /\ \E w \in {writes} : disk' = After(w, Len(w))
       /\ fat' = newFat
       /\ power' = "on"
       /\ settled' = settled \ gone
       /\ UNCHANGED losses
    \/ /\ "power_loss" \in Misuse
       /\ losses < MaxLosses
       /\ \E k \in 1 .. Len(writes) - 1 : disk' = After(writes, k)
       /\ fat' = EmptyFat
       /\ power' = "off"
       /\ settled' = View(disk) \ gone
       /\ losses' = losses + 1

\* The handler never returns, after it made these writes.
Hang(writes, gone) ==
    /\ power' = "hung"
    /\ disk' = After(writes, Len(writes))
    /\ fat' = EmptyFat
    /\ settled' = settled \ gone
    /\ UNCHANGED losses

-----------------------------------------------------------------------------
\* initialize_filesystem_fat32, and create_fat32 on a disk without signature.

FreshFat ==
    [EmptyFat EXCEPT ![0] = CLUSTER_0_VALUE, ![1] = END_OF_FILE,
                     ![ROOT_CLUSTER_NUMBER] = END_OF_FILE]

\* init_directory_table of the root.
RootLink == Link(RootName, ROOT_CLUSTER_NUMBER)
RootTable == Table(RootLink, RootLink, NoEntries)

Create ==
    /\ power = "off"
    /\ disk[BOOT_SECTOR] # Signature
    /\ Perform(<<[at |-> BOOT_SECTOR, put |-> Signature],
                 [at |-> ROOT_CLUSTER_NUMBER, put |-> RootTable],
                 [at |-> FAT_CLUSTER_NUMBER, put |-> FatContent(FreshFat)]>>,
               FreshFat, {})

\* A mutant of Load: the FAT is not read.
LoadForgetsFat ==
    /\ power = "off"
    /\ disk[BOOT_SECTOR] = Signature
    /\ power' = "on"
    /\ fat' = FreshFat
    /\ UNCHANGED <<disk, losses, settled>>

Load ==
    /\ power = "off"
    /\ disk[BOOT_SECTOR] = Signature
    /\ power' = "on"
    /\ fat' = LoadedFat(disk)
    /\ UNCHANGED <<disk, losses, settled>>

\* The power goes off between two operations, or the user gives up on a hung one.
SwitchOff ==
    /\ power # "off"
    /\ power' = "off"
    /\ fat' = EmptyFat
    /\ UNCHANGED <<disk, losses, settled>>

-----------------------------------------------------------------------------
\* read and read_directory change nothing but the caller's memory, unless read
\* never returns.

\* A mutant of ReadCode: a buffer of exactly the file's size is refused.
ReadCodeStrict(p, n, size) ==
    LET e == EntryOf(disk, p, n)
    IN  IF ~Has(disk, p, n) THEN 3
        ELSE IF e.dir THEN 1
        ELSE IF size <= e.size THEN 2
        ELSE IF e.cluster = 0 THEN -1 ELSE 0

ReadCode(p, n, size) ==
    LET e == EntryOf(disk, p, n)
    IN  IF ~Has(disk, p, n) THEN 3
        ELSE IF e.dir THEN 1
        ELSE IF size < e.size THEN 2
        ELSE IF e.cluster = 0 THEN -1 ELSE 0

ReadHangs(p, n, size) ==
    /\ power = "on"
    /\ ReadCode(p, n, size) = 0
    /\ ~Ends(fat, EntryOf(disk, p, n).cluster)
    /\ Hang(<<>>, {})

ReadDirectoryCode(p, n) ==
    IF p = ROOT_CLUSTER_NUMBER /\ n = RootName THEN 0
    ELSE IF ~Has(disk, p, n) THEN 2
    ELSE IF EntryOf(disk, p, n).dir THEN 0 ELSE 1

-----------------------------------------------------------------------------
\* write

\* add_entry: the parent's table with an entry for a new file or directory.
Entry(isdir, cluster, size) == [dir |-> isdir, cluster |-> cluster, size |-> size]

WithEntry(p, n, entry) ==
    LET t == ReadTable(disk, p)
    IN  [at |-> p,
         put |-> Table(t.self, t.parent,
                       [m \in DOMAIN t.entries \cup {n} |->
                          IF m = n THEN entry ELSE t.entries[m]])]

\* A mutant of HasRoom: the search runs one slot too far.
HasRoomOffByOne(p) == Cardinality(DOMAIN ReadTable(disk, p).entries) <= DIRECTORY_ENTRIES

HasRoom(p) == Cardinality(DOMAIN ReadTable(disk, p).entries) < DIRECTORY_ENTRIES

\* The checks both kinds of write make before they touch the disk.
WriteCode(p, n) ==
    IF ~IsDirectory(p) THEN 2
    ELSE IF Has(disk, p, n) THEN 1
    ELSE IF ~HasRoom(p) THEN -1 ELSE 0

Affordable(clusters) ==
    clusters <= Cardinality(EmptyClusters(fat)) \/ "disk_full" \in Misuse

\* init_directory_table takes the name "root" below the root for the root itself.
MakesRoot(p, n) == p = ROOT_CLUSTER_NUMBER /\ n = RootName

\* Mutants of WriteDirectory: entry 1 is a copy of the parent's entry 1; the new
\* table is written first.
WriteDirectoryOfGrandparent(p, n) ==
    LET c == GetEmptyCluster(fat)
        newFat == [LoadedFat(disk) EXCEPT ![c] = END_OF_FILE]
    IN  /\ power = "on"
        /\ WriteCode(p, n) = 0
        /\ Affordable(1)
        /\ ~MakesRoot(p, n)
        /\ Perform(<<WithEntry(p, n, Entry(TRUE, c, 0)),
                     [at |-> FAT_CLUSTER_NUMBER, put |-> FatContent(newFat)],
                     [at |-> c, put |-> Table(Link(n, c), ReadTable(disk, p).parent, NoEntries)]>>,
                   newFat, {})

WriteDirectoryChildFirst(p, n) ==
    LET c == GetEmptyCluster(fat)
        newFat == [LoadedFat(disk) EXCEPT ![c] = END_OF_FILE]
    IN  /\ power = "on"
        /\ WriteCode(p, n) = 0
        /\ Affordable(1)
        /\ ~MakesRoot(p, n)
        /\ Perform(<<[at |-> c, put |-> Table(Link(n, c), ReadTable(disk, p).self, NoEntries)],
                     WithEntry(p, n, Entry(TRUE, c, 0)),
                     [at |-> FAT_CLUSTER_NUMBER, put |-> FatContent(newFat)]>>,
                   newFat, {})

WriteDirectory(p, n) ==
    LET c == IF MakesRoot(p, n) THEN ROOT_CLUSTER_NUMBER ELSE GetEmptyCluster(fat)
        parent == IF MakesRoot(p, n) THEN RootLink
                  ELSE ReadTable(disk, p).self
        newFat == [LoadedFat(disk) EXCEPT ![c] = END_OF_FILE]
    IN  /\ power = "on"
        /\ WriteCode(p, n) = 0
        /\ Affordable(1)
        /\ MakesRoot(p, n) => "make_root" \in Misuse
        /\ Perform(<<WithEntry(p, n, Entry(TRUE, c, 0)),
                     [at |-> FAT_CLUSTER_NUMBER, put |-> FatContent(newFat)],
                     [at |-> c, put |-> Table(Link(n, c), parent, NoEntries)]>>,
                   newFat, {})

\* The loop over the clusters of a file: fat and cluster after each turn.
Turn(t, last) ==
    LET marked == [t.map EXCEPT ![t.cluster] = END_OF_FILE]
        next == GetEmptyCluster(marked)
    IN  IF last THEN [map |-> marked, cluster |-> t.cluster]
        ELSE [map |-> [marked EXCEPT ![t.cluster] = next], cluster |-> next]

FileLoop(needed) ==
    LET turn[i \in 0 .. needed] ==
          IF i = 0 THEN [map |-> fat, cluster |-> GetEmptyCluster(fat)]
          ELSE Turn(turn[i - 1], i = needed)
    IN  turn

\* A mutant of FileWrites: the buffer pointer does not move on.
FileWritesFirstBlock(needed, payload) ==
    LET turn == FileLoop(needed)
    IN  [k \in 1 .. 2 * needed |->
           LET i == (k + 1) \div 2
           IN  IF k % 2 = 1
                 THEN [at |-> turn[i - 1].cluster, put |-> Block(payload, 1)]
                 ELSE [at |-> FAT_CLUSTER_NUMBER, put |-> FatContent(turn[i].map)]]

\* In every turn the cluster's data is written, then the FAT.
FileWrites(needed, payload) ==
    LET turn == FileLoop(needed)
    IN  [k \in 1 .. 2 * needed |->
           LET i == (k + 1) \div 2
           IN  IF k % 2 = 1
                 THEN [at |-> turn[i - 1].cluster, put |-> Block(payload, i)]
                 ELSE [at |-> FAT_CLUSTER_NUMBER, put |-> FatContent(turn[i].map)]]

WriteFile(p, n, size, payload) ==
    LET needed == NeededClusters(size)
    IN  /\ power = "on"
        /\ WriteCode(p, n) = 0
        /\ Affordable(needed)
        /\ Perform(<<WithEntry(p, n, Entry(FALSE, GetEmptyCluster(fat), size))>>
                      \o FileWrites(needed, payload),
                   FileLoop(needed)[needed].map, {})

-----------------------------------------------------------------------------
\* delete

WithoutEntry(p, n) ==
    LET t == ReadTable(disk, p)
    IN  [at |-> p,
         put |-> Table(t.self, t.parent,
                       [m \in DOMAIN t.entries \ {n} |-> t.entries[m]])]

\* A mutant of ClearCluster: only the first cluster of the chain is freed.
ClearFirstCluster(f, c) == [f EXCEPT ![c] = EMPTY_ENTRY]

\* clear_cluster
ClearCluster(f, c) ==
    LET chain == Range(Chain(f, c))
    IN  [x \in Clusters |-> IF x \in chain THEN EMPTY_ENTRY ELSE f[x]]

NotEmptyDirectory(c) == IsDirectory(c) /\ DOMAIN ReadTable(disk, c).entries # {}

DeleteCode(p, n) ==
    IF ~Has(disk, p, n) THEN 1
    ELSE IF NotEmptyDirectory(EntryOf(disk, p, n).cluster) THEN 2
    ELSE IF ~IsDirectory(p) THEN -1 ELSE 0

\* A mutant of Delete: the FAT is not written back.
DeleteForgetsFat(p, n) ==
    LET c == EntryOf(disk, p, n).cluster
    IN  /\ power = "on"
        /\ DeleteCode(p, n) = 0
        /\ Ends(fat, c)
        /\ Perform(<<WithoutEntry(p, n)>>, ClearCluster(fat, c),
                   {x \in View(disk) : x.in = p /\ x.name = n})

Delete(p, n) ==
    LET c == EntryOf(disk, p, n).cluster
        gone == {x \in View(disk) : x.in = p /\ x.name = n}
    IN  /\ power = "on"
        /\ DeleteCode(p, n) = 0
        /\ IF Ends(fat, c)
             THEN Perform(<<WithoutEntry(p, n),
                            [at |-> FAT_CLUSTER_NUMBER,
                             put |-> FatContent(ClearCluster(fat, c))]>>,
                          ClearCluster(fat, c), gone)
             ELSE Hang(<<WithoutEntry(p, n)>>, gone)

-----------------------------------------------------------------------------
Init ==
    /\ power = "off"
    /\ disk = [c \in Clusters |-> Blank]
    /\ fat = EmptyFat
    /\ losses = 0
    /\ settled = {}

\* The clusters a program names as the parent: of a directory it finds on its
\* way from the root, or of one it found once and that is gone.
Parents == IF "any_parent" \in Misuse THEN Clusters \ {FAT_CLUSTER_NUMBER}
           ELSE Tables(disk)

Next ==
    \/ Create \/ Load \/ SwitchOff
    \/ \E p \in Clusters, n \in Names, size \in Sizes :
         p \in Parents /\ ReadHangs(p, n, size)
    \/ \E p \in Clusters, n \in Names :
         p \in Parents /\ WriteDirectory(p, n)
    \/ \E p \in Clusters, n \in Names, size \in Sizes, payload \in Payloads :
         p \in Parents /\ WriteFile(p, n, size, payload)
    \/ \E p \in Clusters, n \in Names :
         p \in Parents /\ Delete(p, n)

Spec == Init /\ [][Next]_vars

-----------------------------------------------------------------------------
TableOK(t) ==
    /\ {t.self, t.parent} \subseteq {NoLink} \cup {Link(n, c) : n \in Names, c \in Clusters}
    /\ DOMAIN t.entries \subseteq Names
    /\ Cardinality(DOMAIN t.entries) <= DIRECTORY_ENTRIES
    /\ \A n \in DOMAIN t.entries :
         t.entries[n] \in [dir: BOOLEAN, cluster: Clusters, size: Sizes \cup {0}]

TypeOK ==
    /\ power \in {"off", "on", "hung"}
    /\ fat \in [Clusters -> FatValues]
    /\ LoadedFat(disk) \in [Clusters -> FatValues]
    /\ \A c \in Clusters : disk[c].kind = "table" => TableOK(disk[c])
    /\ losses \in 0 .. MaxLosses

(***************************************************************************)
(* Without a power loss inside an operation, and on a disk that is never   *)
(* full, Misuse = {}.                                                      *)
(***************************************************************************)

\* The file system implements FileStore: whatever was written and deleted
\* before, a write shows up whole under its name and a delete takes one entry
\* away, and every other file keeps every cluster of its contents.
Store == INSTANCE FileStore
           WITH Root <- ROOT_CLUSTER_NUMBER,
                Files <- {[size |-> s, data |-> [i \in 1 .. NeededClusters(s) |-> Block(b, i)]]
                            : s \in Sizes, b \in Payloads},
                entries <- View(disk)

ImplementsStore == Store!Spec

\* Every entry there is, as <<table, name>>.
EntriesOn(d) == UNION {{<<t, n>> : n \in DOMAIN ReadTable(d, t).entries} : t \in Tables(d)}

\* The clusters of an entry, on a disk whose chains end.
ClustersOf(e) ==
    Range(Chain(fat, EntryOf(disk, e[1], e[2]).cluster))

\* The FAT marks used the root and the clusters of the entries, each cluster in
\* the chain of one entry: none is shared and none is lost, after every mix of
\* mkdir, write and delete (write and delete keep the FAT and the tables apart).
ClustersOwnedOnce ==
    power = "on" =>
      /\ \A e \in EntriesOn(disk) : Ends(fat, EntryOf(disk, e[1], e[2]).cluster)
      /\ \A e, x \in EntriesOn(disk) : e # x => ClustersOf(e) \cap ClustersOf(x) = {}
      /\ {c \in Clusters : c >= 2 /\ fat[c] # EMPTY_ENTRY} =
           {ROOT_CLUSTER_NUMBER} \cup UNION {ClustersOf(e) : e \in EntriesOn(disk)}

\* The FAT in memory is the one on disk whenever an operation has returned: a
\* restart loses nothing (only mkdir ever reads it back).
FatCached == power = "on" => fat = LoadedFat(disk)

\* Entry 0 of a directory's table is about itself, entry 1 about the directory
\* that holds it (fat32.h:149-150): what cd .. and is_directory follow.
ParentLinks ==
    \A e \in EntriesOn(disk) :
      LET x == EntryOf(disk, e[1], e[2])
      IN  x.dir => /\ ReadTable(disk, x.cluster).self = Link(e[2], x.cluster)
                   /\ ReadTable(disk, x.cluster).parent = ReadTable(disk, e[1]).self

\* Every file shown can be read with a buffer of its own size, every directory
\* shown can be listed, and no read or delete follows a chain without an end.
EverythingReads ==
    /\ power # "hung"
    /\ power = "on" =>
         \A x \in View(disk) :
           IF x.dir THEN ReadDirectoryCode(x.in, x.name) = 0
                    ELSE ReadCode(x.in, x.name, x.size) = 0

(***************************************************************************)
(* With a power loss inside an operation.                                  *)
(***************************************************************************)

\* What was on the disk before the power failed stays there until somebody asks
\* for its removal, although the interrupted operation may leave an entry whose
\* cluster the FAT still offers to the next writer.
SettledSurvives == settled \subseteq View(disk)

\* is_directory's recursion ends: no directory lies below itself.
LookupsTerminate == \A t \in Tables(disk) : t \notin Below(disk, t)

(***************************************************************************)
(* Stated by fat32.h, and not so.                                          *)
(***************************************************************************)

\* fat32.h:20: the first two entries of the FAT are reserved.
ReservedEntries ==
    power = "on" => fat[0] = CLUSTER_0_VALUE /\ fat[1] = END_OF_FILE

\* fat32.h:221-224: a write writes a file or a folder, and says 0 when it did.
SuccessIsThere ==
    [][\A p \in Parents, n \in Names :
         WriteDirectory(p, n) /\ power' = "on" =>
            \E x \in View(disk') : x.in = p /\ x.name = n /\ x.dir]_vars
=============================================================================
