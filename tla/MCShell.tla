------------------------------- MODULE MCShell -------------------------------
(***************************************************************************)
(* Small instances of Shell for TLC, three sessions and one for copies.    *)
(*   Trees    one user with the clusters for two directories, one put      *)
(*            inside a third, and a copy of that;                          *)
(*   Company  two users on a disk with little room, the second making a    *)
(*            directory under a name the first copies to, moves to,        *)
(*            searches and goes through;                                   *)
(*   Depths   two users inside one directory of a root that is nearly      *)
(*            full;                                                        *)
(*   Folder   one user with a directory that has a file in it.             *)
(***************************************************************************)
EXTENDS Shell

Plain(cmd, path) == [cmd |-> cmd, path |-> path, dest |-> <<>>]
Two(cmd, path, dest) == [cmd |-> cmd, path |-> path, dest |-> dest]
File(name, payload) == [name |-> name, payload |-> payload]

MCNames == {"root", "rooted", "a", "b", "c", "t"}
MCExtended == {"t"}
MCRootLike == {"root", "rooted"}
MCShells == {"s1", "s2"}
MCSizes == {2}
MCPayloads == {"p", "q"}
NoMisuse == {}
NoSlips == {}
RmFiles == {"rm_files"}
CopyFiles == {"copy_files"}
RootLikeNames == {"root_like"}

Trees ==
    [files |-> <<>>,
     lines |->
       [s \in MCShells |->
          IF s = "s1"
            THEN {Plain("mkdir", <<"a">>), Plain("mkdir", <<"b">>), Plain("mkdir", <<"a", "b">>),
                  Plain("rm", <<"a">>), Plain("rm", <<"a", "b", "..", "..", "a">>),
                  Plain("find", <<"a">>), Plain("find", <<"root">>), Plain("find", <<"rooted">>),
                  Two("cp", <<"a">>, <<"b">>), Two("mv", <<"a">>, <<"b">>)}
            ELSE {}]]

Company ==
    [files |-> <<File("b", "p"), File("a", "q"), File("c", "p")>>,
     lines |->
       [s \in MCShells |->
          IF s = "s1"
            THEN {Plain("mkdir", <<"a", "b">>), Plain("mkdir", <<"a", "t">>),
                  Plain("cd", <<"a">>), Plain("cd", <<"a", ".", "b">>), Plain("cd", <<"..">>),
                  Plain("rm", <<"a">>), Plain("rm", <<"b">>), Plain("rm", <<"..", "b">>),
                  Plain("rm", <<"t">>), Plain("cat", <<"a", "b">>), Plain("find", <<"b">>),
                  Two("cp", <<"b">>, <<"a">>), Two("cp", <<"b">>, <<"t">>),
                  Two("cp", <<"b">>, <<"a", "b">>), Two("mv", <<"b">>, <<"a">>),
                  Two("mv", <<"a", "b">>, <<"t">>), Two("cp", <<"a">>, <<"a", "b">>)}
            ELSE {Plain("mkdir", <<"a">>), Two("cp", <<"b">>, <<"a">>)}]]

Depths ==
    [files |-> <<File("c", "q"), File("b", "p")>>,
     lines |->
       [s \in MCShells |->
          IF s = "s1"
            THEN {Plain("mkdir", <<"a">>), Plain("cd", <<"a", "b">>), Plain("cd", <<"..", "..">>),
                  Plain("cd", <<"root">>), Plain("rm", <<"a">>), Plain("mkdir", <<"..", "c">>),
                  Two("cp", <<"c">>, <<"a">>), Two("cp", <<"c">>, <<"a", ".">>),
                  Two("mv", <<"c">>, <<"b">>)}
            ELSE {Plain("cd", <<"a">>), Plain("mkdir", <<"b">>), Plain("cat", <<"..", "c">>),
                  Two("cp", <<"c">>, <<"..", "t">>)}]]

MCSessions == {Trees, Company, Depths}

\* One user, with the clusters for a directory that has a file in it and a copy.
Folder ==
    [files |-> <<File("b", "p")>>,
     lines |->
       [s \in MCShells |->
          IF s = "s1"
            THEN {Plain("mkdir", <<"a">>), Plain("mkdir", <<"c">>),
                  Two("cp", <<"b">>, <<"a">>), Two("cp", <<"a">>, <<"c">>)}
            ELSE {}]]

FolderSessions == {Folder}
=============================================================================
