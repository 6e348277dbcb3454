-------------------------- MODULE FileStoreProofs --------------------------
(***************************************************************************)
(* What the promise of FileStore.tla amounts to, whatever the names and    *)
(* the contents of files are: a tree.  Fat32.tla implements the promise,   *)
(* so what its disk shows is such a tree too.                              *)
(***************************************************************************)
EXTENDS FileStore, TLAPS

\* A place in a directory belongs to one entry, a directory to one entry, and
\* every entry lies in a directory that is there.
NamesAreUnique == \A x, y \in entries : x.in = y.in /\ x.name = y.name => x = y
DirectoriesAreUnique == \A x, y \in entries : x.dir /\ y.dir /\ x.id = y.id => x = y
RootIsNoEntry == \A x \in entries : x.dir => x.id # Root
NothingIsOrphaned == \A x \in entries : x.in \in Directories

StoreInv == NamesAreUnique /\ DirectoriesAreUnique /\ RootIsNoEntry /\ NothingIsOrphaned

LEMMA InitStoreInv == Init => StoreInv
  BY DEF Init, StoreInv, NamesAreUnique, DirectoriesAreUnique, RootIsNoEntry,
         NothingIsOrphaned

\* A new entry takes a free name, and a directory that is there.
LEMMA AddPreserves ==
    ASSUME StoreInv, NEW e, Add(e), e.dir => e.id \notin Directories
    PROVE  StoreInv'
  <1>1. /\ entries' = entries \cup {e} /\ e.in \in Directories
        /\ \A x \in entries : x.in = e.in => x.name # e.name
    BY DEF Add
  <1>2. Directories \subseteq Directories'
    BY <1>1 DEF Directories
  <1>3. NamesAreUnique'
    BY <1>1 DEF StoreInv, NamesAreUnique
  <1>4. DirectoriesAreUnique'
    <2>1. \A x \in entries : x.dir => x.id \in Directories
      BY DEF Directories
    <2> QED
      BY <1>1, <2>1 DEF StoreInv, DirectoriesAreUnique
  <1>5. RootIsNoEntry'
    <2>1. Root \in Directories
      BY DEF Directories
    <2> QED
      BY <1>1, <2>1 DEF StoreInv, RootIsNoEntry
  <1>6. NothingIsOrphaned'
    BY <1>1, <1>2 DEF StoreInv, NothingIsOrphaned
  <1> QED
    BY <1>3, <1>4, <1>5, <1>6 DEF StoreInv

\* A directory that goes holds nothing, so nothing loses the directory it is in.
LEMMA DeletePreserves ==
    ASSUME StoreInv, NEW e \in entries, Delete(e)
    PROVE  StoreInv'
  <1>1. entries' = entries \ {e} /\ (e.dir => \A x \in entries : x.in # e.id)
    BY DEF Delete
  <1>2. \A x \in entries' : x.in \in Directories'
    <2> SUFFICES ASSUME NEW x \in entries' PROVE x.in \in Directories'
      OBVIOUS
    <2>1. x \in entries /\ x.in \in Directories
      BY <1>1 DEF StoreInv, NothingIsOrphaned
    <2>2. CASE x.in = Root
      BY <2>2 DEF Directories
    <2>3. CASE x.in # Root
      <3>1. PICK y \in entries : y.dir /\ y.id = x.in
        BY <2>1, <2>3 DEF Directories
      <3>2. y # e
        BY <1>1, <2>1, <3>1
      <3> QED
        BY <1>1, <3>1, <3>2 DEF Directories
    <2> QED
      BY <2>2, <2>3
  <1> QED
    BY <1>1, <1>2 DEF StoreInv, NamesAreUnique, DirectoriesAreUnique, RootIsNoEntry,
                      NothingIsOrphaned

LEMMA NextStoreInv == StoreInv /\ [Next]_entries => StoreInv'
  <1> SUFFICES ASSUME StoreInv, [Next]_entries PROVE StoreInv'
    OBVIOUS
  <1>1. ASSUME NEW e, WriteFile(e) PROVE StoreInv'
    BY <1>1, AddPreserves DEF WriteFile
  <1>2. ASSUME NEW e, MakeDirectory(e) PROVE StoreInv'
    BY <1>2, AddPreserves DEF MakeDirectory
  <1>3. ASSUME NEW e \in entries, Delete(e) PROVE StoreInv'
    BY <1>3, DeletePreserves
  <1>4. CASE UNCHANGED entries
    BY <1>4 DEF StoreInv, NamesAreUnique, DirectoriesAreUnique, RootIsNoEntry,
                NothingIsOrphaned, Directories
  <1> QED
    BY <1>1, <1>2, <1>3, <1>4 DEF Next

\* The store stays a tree whatever is written and deleted: no name twice in a
\* directory, no directory twice, no entry whose directory went before it.
THEOREM StoreIsATree == Spec => []StoreInv
  BY InitStoreInv, NextStoreInv, PTL DEF Spec
=============================================================================
