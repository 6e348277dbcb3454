------------------------------ MODULE FileStore ------------------------------
(***************************************************************************)
(* What MeongOS's file system promises: a tree of directories and files.   *)
(* A write adds one entry to a directory, a delete removes one, and no     *)
(* other entry, and no byte of another file, changes with it.  Fat32.tla   *)
(* is shown to implement it.                                               *)
(***************************************************************************)
CONSTANTS
    Root,    \* the directory that always exists
    Names,
    Files    \* what a file can be: records [size, data]

VARIABLE entries   \* records [in, name, dir, id, size, data]

Directories == {Root} \cup {e.id : e \in {x \in entries : x.dir}}

Init == entries = {}

\* A new entry e takes a name that its directory does not use.
Add(e) ==
    /\ e.in \in Directories
    /\ e.name \in Names
    /\ \A x \in entries : x.in = e.in => x.name # e.name
    /\ entries' = entries \cup {e}

WriteFile(e) ==
    /\ ~e.dir
    /\ [size |-> e.size, data |-> e.data] \in Files
    /\ Add(e)

MakeDirectory(e) ==
    /\ e.dir
    /\ e.id \notin Directories
    /\ Add(e)

\* A directory goes only when it is empty.
Delete(e) ==
    /\ e.dir => \A x \in entries : x.in # e.id
    /\ entries' = entries \ {e}

Next ==
    \/ \E e \in entries' \ entries : WriteFile(e) \/ MakeDirectory(e)
    \/ \E e \in entries \ entries' : Delete(e)

Spec == Init /\ [][Next]_entries
=============================================================================
