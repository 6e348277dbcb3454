-------------------------------- MODULE Shell --------------------------------
(***************************************************************************)
(* The file commands of MeongOS's shell, src/src/shell/, on top of the     *)
(* file system of Fat32.tla.  A shell is a user process: it keeps a stack  *)
(* of the directories from the root to its working directory, splits the   *)
(* line it is given into components and walks them with system calls.  The *)
(* timer may switch to another shell between any two of these, so one      *)
(* action is one system call together with the code up to the next one.    *)
(*                                                                         *)
(* A path is the sequence of its components.  Splitting cuts the typed     *)
(* text at the first "/": who splits it again finds the first component    *)
(* only, which is what cp and mv take the source's name from.              *)
(*                                                                         *)
(* Where the code goes on with memory nobody wrote, the command is "lost": *)
(* anything may follow.                                                    *)
(***************************************************************************)
EXTENDS Fat32, SequencesExt

CONSTANTS
    Shells,     \* the processes that run the shell
    Extended,   \* the names with an extension; without it they name nothing
    RootLike,   \* the names without one that begin as the root's name does
    Sessions,   \* [files, lines]: the files the inserter left in the root, each
                \* [name, payload], and what the user of each shell may type, each
                \* [cmd, path, dest]
    FileSize,   \* the size of these files, in bytes
    Reserve,    \* clusters that are left for each command typed
    Slips       \* see AllSlips

Up == ".."
Here == "."
Junk == "junk"   \* what a buffer holds that nothing was read into

\* How a line can be typed that the commands do not serve.
AllSlips ==
    {"overlap",         \* rm or mv while another shell runs a command
     "remove_used",     \* rm of a directory on some shell's stack
     "rm_files",        \* rm of a directory with files in it
     "missing_source",  \* cp or mv of what is not there
     "deep_source",     \* cp or mv of a path of several components
     "namesake",        \* ... of an entry named like its directory or the one above
     "dest_up",         \* ".." in the destination of cp or mv
     "onto",            \* cp or mv to a place that is taken, or has no room
     "into_itself",     \* a directory copied into itself
     "copy_files",      \* cp or mv of a directory with files in it
     "root_named",      \* the root's name in a path, but for find
     "root_like"}       \* find of a name that only begins as the root's does

ASSUME ShellAssumption ==
    /\ Extended \subseteq Names \ {RootName}
    /\ RootName \in RootLike /\ RootLike \subseteq Names \ Extended
    /\ {Up, Here} \cap Names = {}
    /\ FileSize \in Sizes \cap (1 .. CLUSTER_SIZE)
    /\ \A x \in Sessions :
         /\ x.files \in Seq([name: Names, payload: Payloads])
         /\ \A i, j \in DOMAIN x.files : x.files[i].name = x.files[j].name => i = j
         /\ Len(x.files) <= DIRECTORY_ENTRIES /\ Len(x.files) < CLUSTER_MAP_SIZE - 3
    /\ \A x \in Sessions : \A s \in Shells : \A l \in x.lines[s] :
         /\ l.cmd \in {"cd", "mkdir", "cat", "rm", "cp", "mv", "find"}
         /\ {l.path, l.dest} \subseteq Seq(Names \cup {Up, Here}) /\ l.path # <<>>
         /\ l.cmd \in {"rm", "cp", "mv"} => Last(l.path) \in Names
         /\ l.cmd \in {"cp", "mv"} => Head(l.path) \in Names
    /\ Slips \subseteq AllSlips
    /\ Misuse = {}

VARIABLES
    session,\* the session this is; it does not change
    dts,    \* struct DirTableStack of every shell: links from the root down
    call,   \* what its command is in the middle of, innermost first; <<>>: the prompt
    line,   \* the line it works on
    out     \* what the command has printed

shvars == <<vars, session, dts, call, line, out>>

-----------------------------------------------------------------------------
\* System calls as a program sees them.

\* get_cluster_number of a table; entry 0 of what is no table is all zero.
ClusterNumber(t) == IF t.self = NoLink THEN 0 ELSE t.self.cluster

\* The table read_directory returns, where its code is 0.
ReadDirectory(p, n) ==
    IF p = ROOT_CLUSTER_NUMBER /\ n = RootName THEN ReadTable(disk, p)
    ELSE ReadTable(disk, EntryOf(disk, p, n).cluster)

Reads(p, n) == ReadDirectoryCode(p, n) = 0

\* sys_write; a request without bytes is one for a directory.
SysWrite(p, n, size, data) ==
    IF WriteCode(p, n) # 0 THEN UNCHANGED vars
    ELSE IF size = 0 THEN WriteDirectory(p, n) ELSE WriteFile(p, n, size, data)

SysDelete(p, n) == IF DeleteCode(p, n) = 0 THEN Delete(p, n) ELSE UNCHANGED vars

\* get_size and get_size_and_attribute search all 64 entries, the first two too.
Found(t, n) == n \in {t.self.name, t.parent.name} \cup DOMAIN t.entries
EntryIn(t, n) == IF n \in {t.self.name, t.parent.name} THEN Entry(TRUE, 0, 0) ELSE t.entries[n]

-----------------------------------------------------------------------------
\* The directory stack.

\* A mutant of Popped: the root is popped too.
PoppedRoot(walk) == IF Len(walk) > 0 THEN Front(walk) ELSE walk

Popped(walk) == IF Len(walk) > 1 THEN Front(walk) ELSE walk

\* A mutant of Pushed: the cluster is taken from entry 1.
PushedParent(walk, table) == Append(walk, Link(table.self.name, table.parent.cluster))

Pushed(walk, table) == Append(walk, table.self)

\* A mutant of Peeked: the top is looked up in itself.
PeekedInItself(f) ==
    LET top == Last(f.walk)
    IN  IF Reads(top.cluster, top.name) THEN ReadDirectory(top.cluster, top.name) ELSE f.cwd

\* peek: the top's table, looked up in the directory below it on the stack; when
\* that fails the table the caller has stays as it is.
Peeked(f) ==
    LET top == Last(f.walk)
        holder == IF Len(f.walk) > 1 THEN f.walk[Len(f.walk) - 1].cluster ELSE top.cluster
    IN  IF Reads(holder, top.name) THEN ReadDirectory(holder, top.name) ELSE f.cwd

-----------------------------------------------------------------------------
\* The frames of the call stack.

NoLine == [cmd |-> "none"]
Unread == [kind |-> "unread"]   \* a table on the stack before it is read

\* The loop over the components of a path, in cd, mkdir, cat and rm.
Loop(fn, path, walk) ==
    [fn |-> fn, at |-> "peek", rest |-> path, walk |-> walk, cwd |-> Unread]

\* What is left of a path's text once it was split: strtok ends it at the first "/".
AfterSplit(path) == Head(path)

\* cp looks at its source, size -1 and dir BOOLEAN standing for any value.
Source(path, to, walk, mv) ==
    [fn |-> "source", at |-> "peek", rest |-> path, walk |-> walk, cwd |-> Unread,
     name |-> AfterSplit(path), to |-> to, mv |-> mv, dir |-> BOOLEAN, size |-> -1]

\* cp goes to its destination, with a file's contents or a directory's table.
Dest(f, walk, isfile, size, data, want) ==
    [fn |-> "dest", at |-> "peek", rest |-> f.to, walk |-> walk, cwd |-> Unread,
     name |-> f.name, mv |-> f.mv, dir |-> BOOLEAN,
     isfile |-> isfile, size |-> size, data |-> data, want |-> want]

\* cp_helper
Copy(want, into) ==
    [fn |-> "copy", at |-> "make", want |-> want, into |-> into, new |-> 0, left |-> {}]

\* rm takes the children of a directory.
Flush(f, table) ==
    [fn |-> "flush", at |-> "each", walk |-> Append(f.walk, table.self), holder |-> ClusterNumber(f.cwd),
     name |-> Head(f.rest), table |-> table, left |-> DOMAIN table.entries]

\* find_helper
Scan(name, walk) ==
    [fn |-> "scan", at |-> "peek", name |-> name, walk |-> walk, cwd |-> Unread,
     first |-> {}, seen |-> {}]

Lost == [fn |-> "lost", at |-> "lost"]

-----------------------------------------------------------------------------
\* The innermost frame of shell s is a call of one of fns, and about to do at.
In(s, fns, at) ==
    /\ power = "on"
    /\ call[s] # <<>>
    /\ Head(call[s]).fn \in fns
    /\ Head(call[s]).at = at

\* The frame goes on as f.
GoOn(s, frames) ==
    /\ call' = [call EXCEPT ![s] = frames \o Tail(@)]
    /\ UNCHANGED <<session, dts, line, out>>

\* It returns; the outermost one to the prompt.
Return(s) ==
    /\ call' = [call EXCEPT ![s] = Tail(@)]
    /\ IF Len(call[s]) = 1
         THEN line' = [line EXCEPT ![s] = NoLine] /\ out' = [out EXCEPT ![s] = {}]
         ELSE UNCHANGED <<line, out>>
    /\ UNCHANGED <<session, dts>>

Lose(s) ==
    /\ call' = [call EXCEPT ![s] = <<Lost>>]
    /\ UNCHANGED <<session, dts, line, out>>

\* cp returned true: mv goes on to remove the source.
Succeed(s, f) ==
    IF f.mv THEN GoOn(s, <<Loop("rm", <<f.name>>, dts[s])>>) ELSE Return(s)

Loops == {"cd", "mkdir", "cat", "rm", "source", "dest"}

IsLast(f) == Len(f.rest) = 1
HasExtension(f) == Head(f.rest) \in Extended
Advanced(f) == [f EXCEPT !.at = "peek", !.rest = Tail(@)]

-----------------------------------------------------------------------------
\* One turn of the loop over the components.

\* "..": cd and mkdir give up at the root, the others stay there.  In its second
\* loop cp pops the stack of the first.
GoUp(s) ==
    /\ In(s, Loops, "peek")
    /\ LET f == Head(call[s])
       IN  /\ f.rest # <<>> /\ Head(f.rest) = Up
           /\ IF f.fn \in {"cd", "mkdir"} /\ Len(f.walk) = 1 THEN Return(s)
              ELSE GoOn(s, <<[Advanced(f) EXCEPT
                               !.walk = IF f.fn = "dest" THEN @ ELSE Popped(@),
                               !.cwd = Peeked(f)]>>)
    /\ UNCHANGED vars

\* A mutant of Stay: the loop does not move on.
StayForEver(s) ==
    /\ In(s, Loops, "peek")
    /\ LET f == Head(call[s])
       IN  /\ f.rest # <<>> /\ Head(f.rest) = Here
           /\ GoOn(s, <<[f EXCEPT !.cwd = Peeked(f)]>>)
    /\ UNCHANGED vars

\* ".": nothing but the look at the table.
Stay(s) ==
    /\ In(s, Loops, "peek")
    /\ LET f == Head(call[s])
       IN  /\ f.rest # <<>> /\ Head(f.rest) = Here
           /\ GoOn(s, <<[Advanced(f) EXCEPT !.cwd = Peeked(f)]>>)
    /\ UNCHANGED vars

\* A name: the table of the directory is read, and cp looks the name up in it.
\* What it does not find leaves size and attribute as they were.
Examined(f) ==
    LET g == [f EXCEPT !.at = "name", !.cwd = Peeked(f)]
        n == Head(f.rest)
    IN  IF f.fn \notin {"source", "dest"} THEN {g}
        ELSE LET known == Found(g.cwd, n)
                 e == EntryIn(g.cwd, n)
             IN  {IF f.fn = "source"
                    THEN [g EXCEPT !.dir = {d}, !.size = IF known THEN e.size ELSE @]
                    ELSE [g EXCEPT !.dir = {d}]
                    : d \in IF known THEN {e.dir} ELSE f.dir}

Examine(s) ==
    /\ In(s, Loops, "peek")
    /\ LET f == Head(call[s])
       IN  /\ f.rest # <<>> /\ Head(f.rest) \in Names
           /\ IF Peeked(f) = Unread THEN Lose(s)
              ELSE \E g \in Examined(f) :
                     IF f.fn = "source" /\ g.size = -1 THEN Lose(s) ELSE GoOn(s, <<g>>)
    /\ UNCHANGED vars

\* The component must be a directory, and is none by its name or attribute.
Refused(f) ==
    \/ f.fn \in {"cd", "mkdir"} /\ HasExtension(f)
    \/ f.fn \in {"cat", "rm"} /\ HasExtension(f) /\ ~IsLast(f)
    \/ f.fn \in {"source", "dest"} /\ f.dir = {FALSE} /\ ~IsLast(f)
    \/ f.fn = "dest" /\ f.dir = {FALSE} /\ ~f.isfile

Refuse(s) ==
    /\ In(s, Loops, "name")
    /\ Refused(Head(call[s]))
    /\ Return(s)
    /\ UNCHANGED vars

\* The component is a directory on the way; cp's source takes the first name of
\* the path for every component.
Enters(f) ==
    \/ f.fn = "cd"
    \/ f.fn = "dest" /\ f.dir = {TRUE}
    \/ ~IsLast(f)

\* A mutant of Enter: where cd finds no directory it leaves the loop, not the
\* command.
EnterAsFar(s) ==
    /\ In(s, Loops, "name")
    /\ LET f == Head(call[s])
           p == ClusterNumber(f.cwd)
           n == IF f.fn = "source" THEN f.name ELSE Head(f.rest)
           t == ReadDirectory(p, n)
       IN  /\ Enters(f) /\ ~Refused(f)
           /\ IF Reads(p, n)
                THEN GoOn(s, <<[Advanced(f) EXCEPT
                                 !.at = IF f.fn = "dest" /\ IsLast(f) THEN "into" ELSE "peek",
                                 !.walk = Pushed(@, t),
                                 !.cwd = t]>>)
                ELSE IF f.fn = "cd" THEN GoOn(s, <<[f EXCEPT !.at = "peek", !.rest = <<>>]>>)
                ELSE Return(s)
    /\ UNCHANGED vars

Enter(s) ==
    /\ In(s, Loops, "name")
    /\ LET f == Head(call[s])
           p == ClusterNumber(f.cwd)
           n == IF f.fn = "source" THEN f.name ELSE Head(f.rest)
           t == ReadDirectory(p, n)
       IN  /\ Enters(f) /\ ~Refused(f)
           /\ IF Reads(p, n)
                THEN GoOn(s, <<[Advanced(f) EXCEPT
                                 !.at = IF f.fn = "dest" /\ IsLast(f) THEN "into" ELSE "peek",
                                 !.walk = Pushed(@, t),
                                 !.cwd = t]>>)
                ELSE Return(s)
    /\ UNCHANGED vars

\* The end of the path; cd moves only now.
EndOfPath(s) ==
    /\ In(s, Loops, "peek")
    /\ Head(call[s]).rest = <<>>
    /\ IF Head(call[s]).fn = "cd"
         THEN /\ dts' = [dts EXCEPT ![s] = Head(call[s]).walk]
              /\ call' = [call EXCEPT ![s] = <<>>]
              /\ line' = [line EXCEPT ![s] = NoLine]
              /\ UNCHANGED <<session, out>>
         ELSE Return(s)
    /\ UNCHANGED vars

-----------------------------------------------------------------------------
\* mkdir: the last component must not be a directory yet; then it is written.
Look(s) ==
    /\ In(s, {"mkdir"}, "name")
    /\ LET f == Head(call[s])
       IN  /\ IsLast(f) /\ ~Refused(f)
           /\ IF Reads(ClusterNumber(f.cwd), Head(f.rest)) THEN Return(s)
              ELSE GoOn(s, <<[f EXCEPT !.at = "write"]>>)
    /\ UNCHANGED vars

\* A mutant of MakeDirectory: it writes into the working directory.
MakeDirectoryHere(s) ==
    /\ In(s, {"mkdir"}, "write")
    /\ LET f == Head(call[s])
       IN  SysWrite(Last(dts[s]).cluster, Head(f.rest), 0, Junk)
    /\ Return(s)

MakeDirectory(s) ==
    /\ In(s, {"mkdir"}, "write")
    /\ LET f == Head(call[s])
       IN  SysWrite(ClusterNumber(f.cwd), Head(f.rest), 0, Junk)
    /\ Return(s)

-----------------------------------------------------------------------------
\* A mutant of Bytes: the read is left out.
NoBytes(p, n, size) == Junk

\* What sys_read leaves in a buffer of this size (that it returns is Fat32's
\* EverythingReads).
Bytes(p, n, size) ==
    IF ReadCode(p, n, size) = 0 THEN disk[EntryOf(disk, p, n).cluster].payload ELSE Junk

\* cat: the file is read and shown.
Show(s) ==
    /\ In(s, {"cat"}, "name")
    /\ LET f == Head(call[s])
           p == ClusterNumber(f.cwd)
           n == Head(f.rest)
           size == EntryIn(f.cwd, n).size
       IN  /\ IsLast(f)
           /\ IF Found(f.cwd, n)
                THEN /\ call' = [call EXCEPT ![s] = <<Advanced(f)>> \o Tail(@)]
                     /\ out' = [out EXCEPT ![s] = IF ReadCode(p, n, size) = 0
                                                    THEN {Bytes(p, n, size)} ELSE @]
                     /\ UNCHANGED <<session, dts, line>>
                ELSE Return(s)
    /\ UNCHANGED vars

-----------------------------------------------------------------------------
\* A mutant of RemoveLast: it deletes in the working directory.
RemoveLastHere(s) ==
    /\ In(s, {"rm"}, "name")
    /\ LET f == Head(call[s])
           p == Last(dts[s]).cluster
           n == Head(f.rest)
       IN  /\ IsLast(f)
           /\ SysDelete(p, n)
           /\ IF DeleteCode(p, n) = 2 THEN GoOn(s, <<[f EXCEPT !.at = "open"]>>)
              ELSE Return(s)

\* rm: the last component is deleted; a directory that is not empty is opened,
\* and its children go first.
RemoveLast(s) ==
    /\ In(s, {"rm"}, "name")
    /\ LET f == Head(call[s])
           p == ClusterNumber(f.cwd)
           n == Head(f.rest)
       IN  /\ IsLast(f)
           /\ SysDelete(p, n)
           /\ IF DeleteCode(p, n) = 2 THEN GoOn(s, <<[f EXCEPT !.at = "open"]>>)
              ELSE Return(s)

OpenRemoved(s) ==
    /\ In(s, {"rm"}, "open")
    /\ LET f == Head(call[s])
           p == ClusterNumber(f.cwd)
           n == Head(f.rest)
       IN  IF Reads(p, n) /\ ~HasExtension(f)
             THEN GoOn(s, <<Flush(f, ReadDirectory(p, n))>>)
             ELSE Return(s)
    /\ UNCHANGED vars

\* A directory by a call of rm, a file by its name in the directory above.
FlushChild(s) ==
    /\ In(s, {"flush"}, "each")
    /\ LET f == Head(call[s])
       IN  \E n \in f.left :
             LET g == [f EXCEPT !.left = @ \ {n}]
             IN  IF f.table.entries[n].dir
                   THEN /\ GoOn(s, <<Loop("rm", <<n>>, f.walk), g>>)
                        /\ UNCHANGED vars
                   ELSE SysDelete(f.holder, n) /\ GoOn(s, <<g>>)

FlushEnd(s) ==
    /\ In(s, {"flush"}, "each")
    /\ LET f == Head(call[s])
       IN  f.left = {} /\ SysDelete(f.holder, f.name)
    /\ Return(s)

-----------------------------------------------------------------------------
\* cp, once it stands at the last component of the source: a file is read, the
\* size looked up once more under the name without extension; of a directory the
\* table is read.
ReadSource(s) ==
    /\ In(s, {"source"}, "name")
    /\ LET f == Head(call[s])
           p == ClusterNumber(f.cwd)
           size == IF f.name \notin Extended /\ Found(f.cwd, f.name)
                     THEN EntryIn(f.cwd, f.name).size ELSE f.size
       IN  /\ IsLast(f)
           /\ GoOn(s, <<IF f.dir = {FALSE}
                          THEN Dest(f, dts[s], TRUE, size, Bytes(p, f.name, size), Unread)
                          ELSE Dest(f, dts[s], FALSE, 0, Junk,
                                    IF Reads(p, f.name) THEN ReadDirectory(p, f.name)
                                    ELSE f.cwd)>>)
    /\ UNCHANGED vars

\* The destination is no directory: the file is written under its name, and
\* whether it was is not asked.
WriteUnder(s) ==
    /\ In(s, {"dest"}, "name")
    /\ LET f == Head(call[s])
       IN  /\ IsLast(f) /\ f.dir = {FALSE} /\ f.isfile
           /\ SysWrite(ClusterNumber(f.cwd), Head(f.rest), f.size, f.data)
           /\ Succeed(s, f)

\* It is one: cp writes into it, under the source's name.
PeekInto(s) ==
    /\ In(s, {"dest"}, "into")
    /\ LET f == Head(call[s])
       IN  GoOn(s, <<[f EXCEPT !.at = "put", !.cwd = Peeked(f)]>>)
    /\ UNCHANGED vars

\* A mutant of PutFile: the code of the write is not looked at.
PutFileUnasked(s) ==
    /\ In(s, {"dest"}, "put")
    /\ LET f == Head(call[s])
       IN  /\ f.isfile
           /\ SysWrite(ClusterNumber(f.cwd), f.name, f.size, f.data)
           /\ Succeed(s, f)

PutFile(s) ==
    /\ In(s, {"dest"}, "put")
    /\ LET f == Head(call[s])
           p == ClusterNumber(f.cwd)
       IN  /\ f.isfile
           /\ SysWrite(p, f.name, f.size, f.data)
           /\ IF WriteCode(p, f.name) = 0 THEN Succeed(s, f) ELSE Return(s)

PutDirectory(s) ==
    /\ In(s, {"dest"}, "put")
    /\ LET f == Head(call[s])
       IN  /\ ~f.isfile
           /\ GoOn(s, <<Copy(f.want, ClusterNumber(f.cwd)), [f EXCEPT !.at = "copied"]>>)
    /\ UNCHANGED vars

Copied(s) ==
    /\ In(s, {"dest"}, "copied")
    /\ Succeed(s, Head(call[s]))
    /\ UNCHANGED vars

-----------------------------------------------------------------------------
\* cp_helper: a directory of the same name, and everything in it; the codes of
\* the writes are not looked at.
MakeCopy(s) ==
    /\ In(s, {"copy"}, "make")
    /\ LET f == Head(call[s])
       IN  /\ SysWrite(f.into, f.want.self.name, 0, Junk)
           /\ GoOn(s, <<[f EXCEPT !.at = "open"]>>)

OpenCopy(s) ==
    /\ In(s, {"copy"}, "open")
    /\ LET f == Head(call[s])
           n == f.want.self.name
       IN  IF Reads(f.into, n)
             THEN GoOn(s, <<[f EXCEPT !.at = "each",
                                      !.new = ClusterNumber(ReadDirectory(f.into, n)),
                                      !.left = DOMAIN f.want.entries]>>)
             ELSE Lose(s)
    /\ UNCHANGED vars

\* A file's bytes are never read: what is written is what the buffer held.
CopyChild(s) ==
    /\ In(s, {"copy"}, "each")
    /\ LET f == Head(call[s])
           p == ClusterNumber(f.want)
       IN  \E n \in f.left :
             LET g == [f EXCEPT !.left = @ \ {n}]
             IN  IF f.want.entries[n].dir
                   THEN /\ IF Reads(p, n) THEN GoOn(s, <<Copy(ReadDirectory(p, n), f.new), g>>)
                            ELSE Lose(s)
                        /\ UNCHANGED vars
                   ELSE IF n \in Extended THEN Lose(s) /\ UNCHANGED vars
                   ELSE /\ SysWrite(f.new, n, EntryIn(f.want, n).size, Junk)
                        /\ GoOn(s, <<g>>)

CopyEnd(s) ==
    /\ In(s, {"copy"}, "each")
    /\ Head(call[s]).left = {}
    /\ Return(s)
    /\ UNCHANGED vars

-----------------------------------------------------------------------------
\* find_helper: every entry of the directory's table, in the order of the slots,
\* which the model leaves open.  An entry that appears while a subdirectory is
\* searched is met or not.
PeekScan(s) ==
    /\ In(s, {"scan"}, "peek")
    /\ LET f == Head(call[s])
           t == Peeked(f)
       IN  IF t = Unread THEN Lose(s)
           ELSE GoOn(s, <<[f EXCEPT !.at = "each", !.cwd = t, !.first = DOMAIN t.entries]>>)
    /\ UNCHANGED vars

\* get_full_path and the name
Printed(f, n) == {[i \in DOMAIN f.walk |-> f.walk[i].name] \o <<n>> : m \in {f.name} \cap {n}}

\* Below a directory the same table variable holds that directory's table.
ScanEntry(s) ==
    /\ In(s, {"scan"}, "each")
    /\ LET f == Head(call[s])
           p == ClusterNumber(f.cwd)
       IN  \E n \in DOMAIN f.cwd.entries \ f.seen :
             LET t == ReadDirectory(p, n)
                 g == [f EXCEPT !.seen = @ \cup {n}]
             IN  /\ out' = [out EXCEPT ![s] = @ \cup Printed(f, n)]
                 /\ call' = [call EXCEPT ![s] =
                      IF ~f.cwd.entries[n].dir THEN <<g>> \o Tail(@)
                      ELSE IF Reads(p, n)
                        THEN <<Scan(f.name, Pushed(f.walk, t)),
                               [g EXCEPT !.at = "back", !.cwd = t]>> \o Tail(@)
                        ELSE Tail(@)]
                 /\ UNCHANGED <<session, dts, line>>
    /\ UNCHANGED vars

\* A mutant of ScanOn: the table is not read again.
ScanOnBelow(s) ==
    /\ In(s, {"scan"}, "back")
    /\ LET f == Head(call[s])
       IN  GoOn(s, <<[f EXCEPT !.at = "each"]>>)
    /\ UNCHANGED vars

ScanOn(s) ==
    /\ In(s, {"scan"}, "back")
    /\ LET f == Head(call[s])
       IN  GoOn(s, <<[f EXCEPT !.at = "each", !.cwd = Peeked(f)]>>)
    /\ UNCHANGED vars

\* The end of the table.
ScanEnd(s) ==
    /\ In(s, {"scan"}, "each")
    /\ LET f == Head(call[s])
       IN  f.first \cap DOMAIN f.cwd.entries \subseteq f.seen
    /\ Return(s)
    /\ UNCHANGED vars

\* find, after find_helper: the root itself has no entry to be found by.  Only
\* four letters of the name are compared.
FindRoot(s) ==
    /\ In(s, {"find"}, "root")
    /\ LET f == Head(call[s])
       IN  /\ out' = [out EXCEPT ![s] = @ \cup {<<RootName>> : n \in {f.name} \cap RootLike}]
           /\ call' = [call EXCEPT ![s] = <<[f EXCEPT !.at = "done"]>>]
           /\ UNCHANGED <<vars, session, dts, line>>

FindEnd(s) ==
    /\ In(s, {"find"}, "done")
    /\ Return(s)
    /\ UNCHANGED vars

-----------------------------------------------------------------------------
\* What a path names, read off the disk: what the commands are measured against.

\* The stack after a path of directories, <<>> when there is none.
Follow(d, walk, path) ==
    LET to[i \in 0 .. Len(path)] ==
          IF i = 0 THEN walk
          ELSE LET w == to[i - 1]
                   n == path[i]
               IN  IF w = <<>> \/ n = Here THEN w
                   ELSE IF n = Up THEN (IF Len(w) > 1 THEN Front(w) ELSE w)
                   ELSE IF Has(d, Last(w).cluster, n) /\ EntryOf(d, Last(w).cluster, n).dir
                     THEN Append(w, Link(n, EntryOf(d, Last(w).cluster, n).cluster))
                   ELSE <<>>
    IN  to[Len(path)]

\* The place <<table, name>> of a path's last component.
Place(d, walk, path) ==
    LET w == Follow(d, walk, Front(path))
    IN  <<IF w = <<>> THEN NoCluster ELSE Last(w).cluster, Last(path)>>

\* Where cp and mv put the source: into the directory the destination names, or
\* under the name it gives.
Destination(d, walk, l) ==
    LET w == Follow(d, walk, l.dest)
    IN  IF w = <<>> THEN Place(d, walk, l.dest) ELSE <<Last(w).cluster, Last(l.path)>>

Exists(d, e) == e[1] # NoCluster /\ Has(d, e[1], e[2])
IsFolder(d, e) == Exists(d, e) /\ EntryOf(d, e[1], e[2]).dir

\* The directories at and below c: [path, at].
Folders(d, c) ==
    LET level[i \in 0 .. CLUSTER_MAP_SIZE] ==
          IF i = 0 THEN {[path |-> <<>>, at |-> c]}
          ELSE UNION {{x} \cup {[path |-> Append(x.path, n), at |-> EntryOf(d, x.at, n).cluster]
                                  : n \in {m \in DOMAIN ReadTable(d, x.at).entries :
                                            EntryOf(d, x.at, m).dir}} : x \in level[i - 1]}
    IN  level[CLUSTER_MAP_SIZE]

\* A file or a directory without the place it is in.
Shape(d, t, n) == LET x == Shown(d, t, n) IN [dir |-> x.dir, size |-> x.size, data |-> x.data]

\* Everything below c, and at and below place e: [path, is].
Contents(d, c) ==
    UNION {{[path |-> Append(x.path, n), is |-> Shape(d, x.at, n)]
             : n \in DOMAIN ReadTable(d, x.at).entries} : x \in Folders(d, c)}

TreeAt(d, e) ==
    IF ~Exists(d, e) THEN {}
    ELSE {[path |-> <<>>, is |-> Shape(d, e[1], e[2])]} \cup
         IF IsFolder(d, e) THEN Contents(d, EntryOf(d, e[1], e[2]).cluster) ELSE {}

\* The places of a tree: what a command that names e may touch.
PlacesIn(d, e) ==
    {e} \cup IF ~IsFolder(d, e) THEN {}
             ELSE UNION {{<<x.at, n>> : n \in DOMAIN ReadTable(d, x.at).entries}
                           : x \in Folders(d, EntryOf(d, e[1], e[2]).cluster)}

Matches(d, n) ==
    {<<RootName>> \o x.path : x \in {y \in Contents(d, ROOT_CLUSTER_NUMBER) : Last(y.path) = n}}
      \cup {<<RootName>> : m \in {n} \cap {RootName}}

-----------------------------------------------------------------------------
\* Which lines are typed when.

Running == {s \in Shells : call[s] # <<>>}

\* The place the line takes something from, or makes a directory at.
Named(s, l) == Place(disk, dts[s], l.path)

\* It removes something, or copies a directory.
NeedsAlone(s, l) ==
    \/ l.cmd \in {"rm", "mv"}
    \/ l.cmd = "cp" /\ IsFolder(disk, Named(s, l))

\* The ways in which line l is not served if shell s is given it now.
SlipsOf(s, l) ==
    LET e == Named(s, l)
        tree == TreeAt(disk, e)
        inside == IF IsFolder(disk, e)
                    THEN {x.at : x \in Folders(disk, EntryOf(disk, e[1], e[2]).cluster)} ELSE {}
        files == \E x \in tree : ~x.is.dir
        to == Follow(disk, dts[s], l.dest)
        target == Destination(disk, dts[s], l)
        copies == l.cmd \in {"cp", "mv"}
        here == ReadTable(disk, IF e[1] = NoCluster THEN BOOT_SECTOR ELSE e[1])
    IN  {slip \in AllSlips :
           \/ /\ slip = "overlap"
              /\ \/ NeedsAlone(s, l) /\ Running # {}
                 \/ \E z \in Running : line[z].alone
           \/ /\ slip = "remove_used"
              /\ l.cmd \in {"rm", "mv"}
              /\ \E z \in Shells : \E i \in DOMAIN dts[z] : dts[z][i].cluster \in inside
           \/ slip = "rm_files" /\ l.cmd = "rm" /\ inside # {} /\ files
           \/ slip = "missing_source" /\ copies /\ tree = {}
           \/ slip = "deep_source" /\ copies /\ Len(l.path) > 1
           \/ slip = "namesake" /\ copies /\ e[2] \in {here.self.name, here.parent.name}
           \/ slip = "dest_up" /\ copies /\ Up \in Range(l.dest)
           \/ /\ slip = "onto"
              /\ copies
              /\ IF to = <<>> THEN l.cmd = "mv" ELSE inside # {}
              /\ target[1] # NoCluster
              /\ Exists(disk, target) \/ ~HasRoom(target[1])
           \/ slip = "into_itself" /\ copies /\ to # <<>> /\ Last(to).cluster \in inside
           \/ slip = "copy_files" /\ copies /\ inside # {} /\ files
           \/ slip = "root_named" /\ l.cmd # "find" /\ RootName \in Range(l.path) \cup Range(l.dest)
           \/ slip = "root_like" /\ l.cmd = "find" /\ Last(l.path) \in RootLike \ {RootName}}

\* A line that makes something is typed while the disk has room for it and for
\* what the others are making.
RoomFor(l) ==
    l.cmd \in {"mkdir", "cp", "mv"} =>
      Cardinality(EmptyClusters(fat)) >= Reserve * (1 + Cardinality(Running))

FirstFrames(l, walk) ==
    IF l.cmd \in {"cp", "mv"} THEN <<Source(l.path, l.dest, walk, l.cmd = "mv")>>
    ELSE IF l.cmd = "find"
      THEN <<Scan(Last(l.path), <<RootLink>>),
             [fn |-> "find", at |-> "root", name |-> Last(l.path)]>>
    ELSE <<Loop(l.cmd, l.path, walk)>>

\* execute_commands gets a line; the place it names, and what a find should
\* report, are noted with it.
Type(s) ==
    /\ power = "on"
    /\ s \notin Running
    /\ \E l \in session.lines[s] :
         /\ SlipsOf(s, l) \subseteq Slips
         /\ RoomFor(l)
         /\ call' = [call EXCEPT ![s] = FirstFrames(l, dts[s])]
         /\ line' = [line EXCEPT ![s] =
                      [cmd |-> l.cmd, path |-> l.path, dest |-> l.dest,
                       at |-> Named(s, l), alone |-> NeedsAlone(s, l),
                       due |-> IF l.cmd = "find" THEN Matches(disk, Last(l.path)) ELSE {}]]
    /\ UNCHANGED <<vars, session, dts, out>>

-----------------------------------------------------------------------------
\* The disk the machine is first started with: every file in one cluster.
InsertedDisk(files) ==
    LET at == [i \in DOMAIN files |-> ROOT_CLUSTER_NUMBER + i]
        of(n) == CHOOSE i \in DOMAIN files : files[i].name = n
        entries == [n \in {files[i].name : i \in DOMAIN files} |->
                      Entry(FALSE, at[of(n)], FileSize)]
        used == [c \in Clusters |-> IF c \in Range(at) THEN END_OF_FILE ELSE FreshFat[c]]
    IN  [c \in Clusters |->
           CASE c = BOOT_SECTOR -> Signature
             [] c = FAT_CLUSTER_NUMBER -> FatContent(used)
             [] c = ROOT_CLUSTER_NUMBER -> Table(RootLink, RootLink, entries)
             [] c \in Range(at) -> Block(files[c - ROOT_CLUSTER_NUMBER].payload, 1)
             [] OTHER -> Blank]

\* main of user-shell.c
AtRoot == [s \in Shells |-> <<RootLink>>]

ShellInit ==
    /\ power = "on"
    /\ session \in Sessions
    /\ disk = InsertedDisk(session.files)
    /\ fat = LoadedFat(disk)
    /\ losses = 0
    /\ settled = {}
    /\ dts = AtRoot
    /\ call = [s \in Shells |-> <<>>]
    /\ line = [s \in Shells |-> NoLine]
    /\ out = [s \in Shells |-> {}]

\* The machine is switched off between two system calls, and on again.
Restart ==
    /\ power' = "on"
    /\ fat' = LoadedFat(disk)
    /\ dts' = AtRoot
    /\ call' = [s \in Shells |-> <<>>]
    /\ line' = [s \in Shells |-> NoLine]
    /\ out' = [s \in Shells |-> {}]
    /\ UNCHANGED <<session, disk, losses, settled>>

Step(s) ==
    \/ GoUp(s) \/ Stay(s) \/ Examine(s) \/ Refuse(s) \/ Enter(s) \/ EndOfPath(s)
    \/ Look(s) \/ MakeDirectory(s)
    \/ Show(s)
    \/ RemoveLast(s) \/ OpenRemoved(s) \/ FlushChild(s) \/ FlushEnd(s)
    \/ ReadSource(s) \/ WriteUnder(s)
    \/ PeekInto(s) \/ PutFile(s) \/ PutDirectory(s) \/ Copied(s)
    \/ MakeCopy(s) \/ OpenCopy(s) \/ CopyChild(s) \/ CopyEnd(s)
    \/ PeekScan(s) \/ ScanEntry(s) \/ ScanOn(s) \/ ScanEnd(s)
    \/ FindRoot(s) \/ FindEnd(s)

ShellNext ==
    \/ \E s \in Shells : Type(s) \/ Step(s)
    \/ Restart

\* A shell that runs a command is scheduled again and again; its user need not type.
ShellSpec ==
    /\ ShellInit /\ [][ShellNext]_shvars
    /\ \A s \in Shells : WF_shvars(Step(s))

-----------------------------------------------------------------------------
Stacks(s) == {dts[s]} \cup {call[s][i].walk : i \in {j \in DOMAIN call[s] :
                              call[s][j].fn \in Loops \cup {"flush", "scan"}}}

ShellTypeOK ==
    /\ \A s \in Shells : \A w \in Stacks(s) :
         w # <<>> /\ \A i \in DOMAIN w : w[i] \in {Link(n, c) : n \in Names, c \in Clusters}
    /\ \A s \in Shells : line[s] = NoLine <=> call[s] = <<>>
    /\ \A s \in Shells : line[s] = NoLine => out[s] = {}

(***************************************************************************)
(* With Slips = {}.                                                        *)
(***************************************************************************)

\* Every stack a shell holds, of its working directory or on the way through a
\* path, is a path of directories on the disk, although other shells make and
\* remove directories: peek finds what was pushed, and a cluster number kept
\* since is still that of the same directory.
StackIsAPath ==
    \A s \in Shells : \A w \in Stacks(s) :
      /\ w[1] = RootLink
      /\ Follow(disk, <<RootLink>>, [i \in 1 .. Len(w) - 1 |-> w[i + 1].name]) = w

\* No command goes on with a table or a size that was never read.
NoneIsLost == \A s \in Shells : call[s] # <<Lost>>

\* The shell that takes this step, when its command is one of cmds.
Does(cmds) == {s \in Shells : line[s].cmd \in cmds /\ call'[s] # call[s]}

NewPlaces == EntriesOn(disk') \ EntriesOn(disk)
GonePlaces == EntriesOn(disk) \ EntriesOn(disk')

\* What appears on the disk is what a running mkdir, cp or mv names, or lies in
\* the directory it copies there: never another name, never another directory.
MakesWhatIsNamed ==
    [][\A e \in NewPlaces :
         \/ \E s \in Does({"mkdir"}) : e = Named(s, line[s]) /\ IsFolder(disk', e)
         \/ \E s \in Does({"cp", "mv"}) :
              e \in PlacesIn(disk', Destination(disk, dts[s], line[s]))]_shvars

\* What disappears is what a running rm or mv named when it was typed, or lies in
\* it.  (A path like a/b/../../a leads nowhere any more once b is gone.)
RemovesWhatIsNamed ==
    [][\A e \in GonePlaces : \E s \in Does({"rm", "mv"}) :
         e \in PlacesIn(disk, line[s].at)]_shvars

\* cp and mv make at the destination nothing but what the source has, with the
\* same contents; cat shows the contents of the file it names.
CopiesAreFaithful ==
    [][\A s \in Shells :
         /\ s \in Does({"cp", "mv"}) =>
              LET target == Destination(disk, dts[s], line[s])
              IN  TreeAt(disk', target) \subseteq
                    TreeAt(disk, target) \cup TreeAt(disk, Named(s, line[s]))
         /\ s \in Does({"cat"}) /\ ~(out'[s] \subseteq out[s]) =>
              \E x \in TreeAt(disk, Named(s, line[s])) :
                x.path = <<>> /\ out'[s] = {x.is.data[1].payload}]_shvars

\* mv removes nothing that does not stand at the destination already.
MovesLoseNothing ==
    [][\A s \in Does({"mv"}) :
         TreeAt(disk, Named(s, line[s])) \ TreeAt(disk', Named(s, line[s])) \subseteq
           TreeAt(disk', Destination(disk, dts[s], line[s]))]_shvars

\* cd goes where its path leads, or nowhere.
CdGoesWhereNamed ==
    [][\A s \in Shells : dts'[s] # dts[s] =>
         \/ dts' = AtRoot /\ call' = [z \in Shells |-> <<>>]
         \/ s \in Does({"cd"}) /\ dts'[s] = Follow(disk, dts[s], line[s].path)]_shvars

\* find prints every match that was there when it was typed, and none that is
\* not there when it ends, whatever is made meanwhile.  (What find promises for
\* every name; a name that begins with "root" breaks it, which is a slip.)
FindReportsAll ==
    [][\A s \in Does({"find"}) :
         call[s] # <<>> /\ Head(call[s]).at = "done" =>
           /\ line[s].due \subseteq out[s]
           /\ out[s] \subseteq Matches(disk, Last(line[s].path))]_shvars

\* Every command comes back to the prompt.
EveryCommandEnds == \A s \in Shells : call[s] # <<>> ~> call[s] = <<>>
=============================================================================
