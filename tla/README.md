# MeongOS in TLA+

A verification development for MeongOS, the 32-bit operating system in this
repository: the process core (process manager, scheduler, page manager), the
FAT32 file system, the console and the shell's file commands are modelled in
TLA+ and model-checked with TLC on small instances; the process core, the file
system down to its refinement of an abstract store and to what a power loss
cannot do, and the console's buffers are proved correct with TLAPS for every
size of their tables.

All source paths below are relative to `src/src/`.

## 1. Inventory

| Component | State it keeps | Operations | What makes it hard |
|---|---|---|---|
| process manager, `process/process.c` | `_process_list` (16 PCBs), `process_map`, `active_process_count` | `process_create_user_process` (syscall 11, boot), `process_destroy` (syscall 12) | failure in the middle of a creation; a process killed while queued, while running, twice |
| scheduler, `scheduler/scheduler.c`, `pcbqueue.c` | `pcb_queue`, the RUNNING mark in the PCBs | `scheduler_init`, context save, `scheduler_switch_to_next_process` (timer) | preemption between any two instructions; CR3 saved with the context; a queue with a limit that drops silently |
| page manager, `paging/paging.c` | `page_frame_map` and its counter, `page_directory_used`, the directories, CR3 | allocate and free a frame, create and free a directory, switch CR3 | two records of one fact; resources that must come back |
| interrupts and system calls, `interrupt/interrupt.c` | none of its own | timer, keyboard, syscalls 0-14 | which code runs with interrupts off |
| boot, `kernel.c` | none of its own | `kernel_setup` | the shell missing on the disk |
| file system, `filesystem/fat32.c` | the disk; `fat_table` and `dir_table_buf` in memory | `read`, `read_directory`, `write`, `delete`, formatting, loading | several disk writes per operation and the power failing between them; a cached table; cluster numbers that programs keep |
| keyboard, `keyboard/keyboard.c` | one character, an on/off flag | interrupt, flush (syscall 4), activate (7) | a scancode overwrites what nobody has read |
| console, `kernelutils/kernelutils.c`, `framebuffer/framebuffer.c` | the screen, the cursor | `putchar`, `puts`, clear, `put_clock` | 8- and 16-bit arithmetic at the screen's edges |
| shell loop, `user-shell.c` | `input_buffer`, `last_idx` | prompt, read, echo, edit, run | keys, echoes and the clock interleave |
| shell commands, `shell/commands/commands.c` | the line, local copies of tables, sizes and names | cd, mkdir, cat, rm, cp, mv, find; ls, ps, help, exec, kill, clock | sequences of system calls that another shell, or the power, can come between, and that fail in the middle |
| directory stack, `shell/datastructure/dirtablestack.c` | the (name, cluster) pairs from the root to the working directory | push, pop, peek, copy, print | cluster numbers kept while others make and remove directories; a peek that ignores its result code |
| shell utilities, `shell/utils/shellutils.c`; string library | request buffers | system-call wrappers, size and attribute look-ups, splitting | sizes that keep an old value when nothing was found |
| clock program, disk driver, descriptor tables, image inserter | | | device I/O and constant tables |

They meet in five places. The **timer interrupt** saves the interrupted
program's registers and CR3 into the RUNNING PCB and resumes the head of the
ready queue. **System calls** enter the process manager, the file system and
the console from whatever process has the CPU. `process_create_user_process`
calls the page manager and `read()`; `process_destroy` reaches into the
scheduler's queue. The **screen** is shared by the shell and the clock's
process. The **disk** is shared by every process that runs the shell: `exec
shell` starts another one, with a stack and a working directory of its own.

Every IDT entry is an interrupt gate, so a handler runs with interrupts off and
nothing sees it half done. That is the granularity of every module: one handler
is one action. Two things break operations up: the power failing between disk
writes, and the timer between two system calls of a shell's command.

The hazards, each at its line, are the `hazards` of `PROJECT.json`.

## 2. Modules

| Module | What it is |
|---|---|
| `Paging` | page frames, page directories and CR3, as operations for `Kernel` |
| `PcbQueue` | the ready queue's operators |
| `Kernel` | the process core: boot, timer, exec, kill, over `Paging` and `PcbQueue` |
| `ProcessService` | abstract: processes alive, one of them with the CPU |
| `MCKernel` | instances of `Kernel` for TLC |
| `NatLemmas` | least and greatest elements of sets of numbers, and functions by iteration, which the proofs induct with |
| `KernelProofs` | lemmas and theorems about the process core, under every program and under the contract |
| `Fat32` | the file system over a disk of clusters |
| `FileStore` | abstract: a tree of directories and whole files |
| `MCFat32` | instances of `Fat32` for TLC |
| `Fat32Proofs` | lemmas about the operators of `Fat32`; theorems about types, cache and ownership of clusters, the refinement of `FileStore`, the disk after a power loss, and lookups |
| `FileStoreProofs` | a theorem about the abstraction |
| `Shell` | the shell's file commands, several shells over one `Fat32` |
| `MCShell` | four sessions of `Shell` for TLC |
| `ShellProofs` | theorems about `Shell`, whatever is typed: its stacks, its types, and the disk below it |
| `ShellPathProofs` | theorems about where the shells are, when what is typed is served |
| `ShellTreeProofs` | theorems about what the commands make, remove and look for, when what is typed is served |
| `Terminal` | keyboard, console, shell loop and clock |
| `MCTerminal` | an instance of `Terminal` for TLC |
| `TerminalProofs` | theorems about the console |

Operators that end in a description of an error (`DestroyKeepingQueue`,
`ClearFirstCluster`, `EnterAsFar`, ...) are deliberate bugs: each property is checked to fail
when the definition next to it is exchanged for one of them.

### Kernel

The variables are the C variables of the same names; `pcb_pid`, `pcb_state` and
`pcb_dir` are fields of the PCBs. `mode` is where the machine is: booting, up,
or *halted*, meaning no user program will run again (a fault taken inside a
handler, or CR3 without the kernel's half).

| Action | Code |
|---|---|
| `BootShell`, `BootWithoutShell` | `kernel_setup`: create the shell, `scheduler_init`, first switch |
| `TimerTick` | `main_interrupt_handler`'s timer case; its disjuncts are the ordinary switch, the two behaviours after the RUNNING PCB was destroyed (contexts saved and resumed through NULL, which is the mapped user page), and the crash |
| `Exec...` | `process_create_user_process`, one action per return, and one for each way it goes on where nothing is mapped: no frame left or a file larger than its page (`ExecUnmapped`), no directory left (`ExecWithoutDirectory`), its code stored in a page the new directory does not have (`ExecReadCrash`) |
| `StackFault` | a process that was loaded above page 0 uses its stack, which `process.c:115` puts at the end of page 0 |
| `Kill...` | syscall 12 with `process_destroy` |
| `PowerCycle` | off and on again |

What is abstracted: registers and the program's bytes; of a directory, all
entries but the kernel's (0x300) and the one `exec` makes, which is kept as its
index (`user_page`, the upper bits of `request.buf`) and the frame it maps
(`user_entry`); TLB entries that outlive a directory's entry. Sizes are words of
`WORD` values, so that the sum at `process.c:74` wraps as it does in a
`uint32_t`: `FramesNeeded` is 0 then, and the check passes.

`Misuse` lists what the code does not guard against: a missing shell, an exec of
something `read()` refuses, an exec once all page directories were handed out,
an exec into a page above the first 4 MiB, an exec of a file that does not fit
the rest of its page, kills of the caller, of process 0, and of the remains of a
failed exec. With `AllMisuse` the model is the code under every program, up to
what is abstracted; where the code goes on with memory that is not mapped, what
follows is `halted`. With `{}` it is the code under programs that keep to the
contract these eight clauses spell out.

### Fat32

`disk` maps clusters to contents (signature, FAT, table, one block of a file);
`fat` is the copy in memory. An operation is the *sequence* of its
`write_clusters` calls: `Perform` lets all of them reach the disk, or, where
`power_loss` is allowed, a proper prefix of them, and the machine is off. Reads
change nothing and appear as result codes (`ReadCode`, `ReadDirectoryCode`),
except that a read of a chain without an end never returns (`ReadHangs`).

| Definition | Code |
|---|---|
| `Create`, `Load` | `initialize_filesystem_fat32`, `create_fat32` |
| `WriteDirectory`, `WriteFile` | the two branches of `write` |
| `Delete` | `delete`, with `clear_cluster` |
| `IsDirectory`, `Tables` | `is_directory`'s recursion, as reachability |
| `ReadCode`, `ReadDirectoryCode` | `read`, `read_directory` |
| `View` | not code: what the disk shows, in `FileStore`'s terms |

Abstracted: a name is the pair (name, ext); a table is a set of names, because
only a listing's order depends on slots; a cluster write is one step although
it is four sectors; file contents are text, which contains no byte that makes
an entry when a data cluster is read as a table. `Misuse` again names what the
environment may do: name a parent cluster that is no directory (any more), fill
the disk, make a directory called `root` in the root, lose power inside an
operation.

### Terminal

`at` is the shell's next system call; `line` is `input_buffer[0..last_idx]`.
Each system call and each keyboard interrupt is one action, and the clock may
draw between any two. `uint8` and `uint16` keep the widths of `putchar`'s
arithmetic. Commands are an arbitrary choice of output. The code never compares `last_idx`
with the size of `input_buffer` (`user-shell.c:66`). The model does: the
character after the last one that fits ends the shell (`"lost"`), because what it
overwrites depends on the compiler. So lines no longer than the buffer are a
limit of the model, and neither the type invariant nor a theorem claims them.

### Shell

`Shell` extends `Fat32` and adds, for every shell, its directory stack `dts`
(links `(name, cluster)` from the root down), the frames of the C call stack of
the command it is in the middle of (`call`, innermost first), the line it was
given and what it has printed. A frame has the locals of its function: the rest
of the path, the copy of the stack it walks with, the table read last (`cwd`)
and, in cp, name, size and attribute. `fn` says which function it is, `at`
which system call comes next, so that one action is **one system call with the
code up to the next one**, and the other shells, or a restart, may come between
any two.

| Definition | Code |
|---|---|
| `Popped`, `Pushed`, `Peeked` | `dirtablestack.c`; `Peeked` keeps the caller's table where `read_directory` fails, as the code does |
| `Type`, `FirstFrames` | `execute_commands` gets a line and calls the command |
| `GoUp`, `Stay`, `Examine`, `Refuse`, `Enter`, `EndOfPath` | one turn of the component loop that cd, mkdir, cat, rm and (twice) cp each have a copy of; where the copies differ, the guard names the command |
| `Look`, `MakeDirectory`; `Show` | the last component in mkdir; in cat |
| `RemoveLast`, `OpenRemoved`, `FlushChild`, `FlushEnd` | rm, with its recursion into directories |
| `ReadSource`, `WriteUnder`, `PeekInto`, `PutFile`, `PutDirectory`, `Copied` | cp; `Succeed` is mv's call of rm when cp returned true |
| `MakeCopy`, `OpenCopy`, `CopyChild`, `CopyEnd` | `cp_helper` |
| `PeekScan`, `ScanEntry`, `ScanOn`, `ScanEnd`, `FindRoot`, `FindEnd` | find and `find_helper` |
| `SysWrite`, `SysDelete`, `Reads` | the system calls: the actions of `Fat32` with the arguments the shell passes |
| `InsertedDisk` | the disk the image inserter leaves |
| `Follow`, `Place`, `TreeAt`, `Matches` | not code: what a path names, read off the disk, for the properties |

Data that was never written is kept apart: a size that was never read is -1, an
attribute either value, a table `Unread`, the bytes of an unread buffer `Junk`.
Where the code goes on with such a table or size the command is `Lost`.

A path is the sequence of its components. The commands split the text with
`strtok`, which ends it at the first "/", and cp and mv split the *source*
again afterwards and get its first component only (`AfterSplit`): a path of
several components as a source is a slip.

`Slips` names the lines the commands do not serve, as `Misuse` names what the
lower layers do not guard against. With `Slips = {}`, the contract, the
properties below hold. With one slip allowed at a time:

| Slip | What it is | What then fails |
|---|---|---|
| `overlap` | rm, mv, or the copy of a directory while another shell runs a command | `NoneIsLost` |
| `remove_used` | rm of a directory that some shell stands in or below | `StackIsAPath` |
| `root_named` | `root` in a path, for any command but find: `read_directory` finds `root` in the root, so `cd root` there pushes the root once more | `StackIsAPath` |
| `rm_files` | rm of a directory with files in it | `RemovesWhatIsNamed` (run `shell_rm`) |
| `missing_source` | cp or mv of what is not there | `NoneIsLost` |
| `deep_source` | cp or mv of `a/b` | `CopiesAreFaithful` |
| `dest_up` | `..` in the destination of cp or mv | `MakesWhatIsNamed`: cp goes up in the source's path (`commands.c:630`) |
| `onto` | cp or mv onto a name that is taken, or into a full directory | `MovesLoseNothing` |
| `into_itself` | a directory copied into itself | `EveryCommandEnds`: it is copied until the disk is full |
| `copy_files` | cp or mv of a directory with files in it | `CopiesAreFaithful` (run `shell_copy`): the copies of the files hold whatever the buffer held |
| `root_like` | find of a name without extension that only begins with `root` | `FindReportsAll` (run `shell_find`): `root` is printed |
| `namesake` | cp or mv of an entry named like its directory or the one above | nothing in these sessions; the size is looked up in the first two entries of the table too |

## 3. Runs

| Run | Question | Result |
|---|---|---|
| `kernel_any` | do the kernel's tables stay consistent, whatever programs do? | holds, 170 332 states |
| `kernel_contract` | is the CPU never lost, nothing leaked, memory private, every process run again, `ProcessService` implemented, under the contract? | holds, 838 states |
| `kernel_directories` | does a destroyed process release its page directory (`paging.c:186`, `process.h:122`)? | **no**: `paging.c:194` marks it used |
| `fat32_store` | does the file system implement `FileStore`, and do FAT, cache and tables agree? | holds, 20 427 states |
| `fat32_losses` | does one power loss leave alone what was there, files of two clusters included? | holds, 281 094 states |
| `fat32_full` | are FAT entries 0 and 1 reserved (`fat32.h:20`)? | **no**, on a full disk |
| `fat32_root` | does `write` returning 0 mean the folder is there (`fat32.h:221`)? | **no**, for `root` in the root |
| `shell` | does every command, interleaved with another shell's and with restarts, do what its line names, nothing else, and end? | holds, 64 102 states |
| `shell_rm` | does rm remove only what is named (`commands.c:90`)? | **no**: rm of a directory holding `b` removes the `b` beside the directory |
| `shell_copy` | does cp of a directory with a file in it copy the file (`commands.c:698`)? | **no**: it writes a buffer nothing was read into |
| `shell_find` | does find print `root` for the root only (`commands.c:1282`)? | **no**: four letters are compared, so also for `rooted` |
| `terminal` | is what the user sees before the cursor what the shell will run? | holds, 481 682 states |

### Properties worth knowing

* `TurnsConserved`: every live process owns exactly one turn (its entries in the
  queue, plus one while it runs), except process 0, which owns two for ever,
  because `scheduler_init` queues the PCB it is about to run. The round robin is
  therefore not even: the shell gets two turns in every round.
* `EnqueNeverDrops`: the queue is exactly as long as there are processes. With
  16 processes it is full, and one more entry would be dropped without an error.
* `AddressSpacesPrivate`: the timer saves *whatever CR3 holds* into the RUNNING
  PCB; that this is always the process's own directory is what keeps processes
  apart, and a failed exec (`process.c:103`) breaks it.
* `UsedFramesAreMapped`, `NoFrameIsLost`: a frame that is marked used and mapped
  by no directory is lost to every exec to come. `process_destroy` frees page 0
  and wipes the rest of the directory, so this is exactly what happens to a
  program that was loaded elsewhere; the second property says that nothing else
  loses a frame, no failed exec and no kill of what one left behind.
* `SettledSurvives`: the entry is written before the FAT, so a loss leaves an
  entry whose cluster counts as empty. The next writer takes that cluster, and
  nothing that was there before is harmed.
* `StackIsAPath`: the cluster numbers a shell keeps, in its working directory and
  in the copies its commands walk with, lead from the root to directories that
  still have those names, while another shell makes and removes directories and
  reuses their clusters.
* `MakesWhatIsNamed`, `RemovesWhatIsNamed`: every entry that appears or
  disappears is one a running line names, resolved against the disk. They are
  action properties about the disk and not about the command's code, so a wrong
  parent, a wrong name or a wrong command all violate them. What is removed is
  compared with the place the line named *when it was typed* (`line.at`, a
  history variable): `rm a/b/../../a` removes `a/b` first, and from then on its
  path leads nowhere. Attempting the proof showed that; the line is in the first
  session since.
* `FindReportsAll`: find reads a table again after every subdirectory, and may
  meet entries made meanwhile; it still reports every match that was there when
  it started and none that is not there at its end. A name that only begins with
  `root` is the exception (`commands.c:1283`), and so a slip.
* `EchoMatchesLine`: also after the screen was cleared in the middle of a line
  and backspaces have moved the cursor before the first cell (`position--` wraps
  to 65535).

### What exploring the model showed besides

These are facts about the code that no run is about. Where the state they lead
to is not what the properties speak of, a bound or a clause of `Misuse` or
`Slips` excludes it:

* A process that kills itself takes the machine with it (`process.c:160`, where
  the switch to another process is commented out; `kill_running`): with it
  `NeverHalts` fails.
* The frame of a program that was loaded at 4 MiB or above stays marked used when
  the program is killed, because `process.c:181` frees page 0
  (`loaded_elsewhere`): with it `UsedFramesAreMapped` fails.
* `read()` copies whole clusters, past the end of a buffer of the file's size
  (`fat32.c:360`; `fat32.h:215` says that `buffer_size` limits it). What lies
  behind a caller's buffer is not in the model.
* `framebuffer_clear` leaves the character of the first cell
  (`framebuffer.c:36`; `framebuffer.h:51` says every cell). `putchar` and the
  prompt write that cell next, so nothing is seen of it.
* Two power losses, one in a `mkdir` and one in a later operation, can make a
  directory appear below itself; `is_directory` then recurses without end. So
  `fat32_losses` bounds `MaxLosses` by 1.
* After a power loss a program that still names a removed directory's cluster as
  a parent can overwrite a file's cluster: `any_parent` and `power_loss` are
  checked apart.
* A power loss inside `create_fat32`, which writes the signature first, leaves a
  disk that passes for formatted and has no root.
* After a power loss, `read` or `delete` of the half-written entry follows
  `FAT[0]` out of the table and does not return (mode `hung`).
* mv removes its source when cp returned true, and cp returns true after writing
  to a plain name whatever `sys_write` said: a move onto a name that is taken,
  or into a directory without room, loses the file (slip `onto`).
* cp of `a/b` reads `a` (slip `deep_source`).
* cp copies a directory into itself without end (`into_itself`).
* Nothing keeps a shell's working directory from being removed by itself or by
  another shell; its stack then names a freed cluster (slip `remove_used`).
* `mkdir d/` asks for a directory with an empty name. `exec` of a directory's
  name is refused only by `read()`, in the middle of the creation: the failed
  exec of `Kernel`.
* A name is split at the first dot into name and extension, so files the
  inserter left under a name with a dot in it cannot be named in the shell; a
  file with an extension gets onto the disk through cp only.
* Newlines put below the last row move the cursor on without clearing anything;
  some 230 of them in a row wrap the 8-bit row to the top of the screen and text
  is left behind the cursor. No command puts that many of its own without a
  character between, so `terminal`'s outputs do not either; cat of a file that
  holds them would.
* A release code maps to character 0 and overwrites the keyboard's buffer, so a
  key is lost when *any* key goes up before the shell polls.

### Bounds

* **Kernel**: 3 slots (one running, one waiting, one to kill), queue of 3 as in
  the code (limit = slots), 5 frames (kernel, two processes, and two free, so
  that exec is refused for lack of memory and for size), 5 or 6 directories (the
  contract run never exhausts what the run with misuse does), 4-byte frames with
  programs of 1 and 5 bytes (two frames, three frames) and, in words of 16
  values, of 12 bytes, which wrap to no frame at all; two pages to load a program
  in, page 0 and another. The theorems remove these bounds.
* **Fat32**: 6 clusters, 4 of them free: a directory, a file of two clusters and
  one cluster over; tables of 2 entries with 3 names, so that tables fill and
  names collide; files of 2 and 3 bytes in clusters of 2, one exactly full and
  one spilling over. `MaxLosses` counts losses.
  For losses all files have two clusters and the two plain names are symmetric
  (no property and no initial state tells them apart).
* **Shell**: two shells, five clusters after the root's, tables of 3 entries,
  six names, one of them with an extension and one that begins with `root`. One session could not have every
  line that matters in reach of TLC, so there are three (`MCShell`), chosen
  once, at the start, by `session`: trees of directories (one user; rm, cp and
  mv work alone by the contract), two users on a disk with little room, and two
  users inside one directory of a nearly full root. A fourth, for `shell_copy`,
  has a directory with a file in it and one cluster more. `Reserve` keeps one cluster
  free for every line typed, because a full disk is `fat32_full`'s subject; a
  command that ran out nevertheless would stay where it is, so `EveryCommandEnds`
  also shows that the reserve is enough. Files take one cluster: chains are
  `fat32_store`'s subject. Losses inside an operation are left to
  `fat32_losses`; `Restart` comes between any two system calls.
* **Terminal**: a 2 x 3 screen with one clock cell, a prompt of two strings, two
  printable keys, lines of up to 6, two keys held at a time. The screen fills and
  is cleared within a line, and the cursor wraps; nothing else is bounded.

Deadlock is checked in every run: from every state some key, tick or restart is
possible.

### Fairness

`kernel_contract` and `shell` need some. `kernel_contract` assumes weak fairness of `TimerTick`. The PIT is
programmed once (`interrupt.c:206`) and fires periodically, and programs
cannot turn interrupts off in user mode; handlers are finite. No fairness is
assumed of programs. From it follows `EveryProcessRuns`: every process that
stays alive gets the CPU again and again. `shell` builds on exactly that: weak
fairness of each shell's `Step`, the next system call of a command that is
running. Users need not type, and the power need not go off.

## 4. Proofs

`KernelProofs` begins with what the queue operators do to the number of entries of
a PCB, by the library's facts about sequences and finite sets: `Enqued` adds one
or none, `Dequed` takes the head's, `Removed` takes one. Then it proves `THEOREM KernelInvariant == Spec => []KernelInv` with
`Misuse` arbitrary, hence for every program. `KernelInv` is already inductive:
its parts support each other. `InPlace`, a part of it, is `UsedFramesAreMapped`
for programs loaded in page 0 with the fact it rests on, that page 0 is the one
every directory maps; `UsedFramesStayMapped` reads it off for every other misuse,
and `FramesLostOnlyToKills` proves `NoFrameIsLost` of every program. `FrameAccounting` needs `FramesExclusive` (the
frame that a destroyed process gives back was marked), that needs
`NothingLeftOver` (a directory handed out is empty, so no frame is lost by
mapping over it), and `CpuStaysMapped` needs `ProcessAccounting` (a live PCB has
a directory). One lemma per action, one step per part. That a kernel under the
contract never maps nothing, although a size that wraps passes the memory check,
is counted: there are more frames than processes, and each has one.

The second half of the module takes `Misuse = {}` as an assumption of its
theorems and proves `ContractInv`, which adds the queue: `TurnsConserved` is the key. It gives that
a queued PCB is live, hence its directory maps the kernel and a page
(`AddressSpacesPrivate`), hence no switch halts the CPU (`NeverHalts`); and it
gives the queue's length (`EnqueNeverDrops`), without which an exec could drop
the PCB it created. From `ContractInv` follow the action property `MemoryStays`
and the refinement of `ProcessService`, whose steps are: boot is `Start`, a
successful exec is `Create`, a kill is `Destroy`, a switch is `Dispatch`,
everything else stutters.

`Fat32Proofs` proves `Fat32Invariant`, again for `Misuse` arbitrary: full disks,
parents that are gone and power losses included. `Fat32Inv` says that every
cluster of the disk is well formed, that the FAT in memory maps clusters to
clusters or marks, and that it is the one on disk (`FatCached`). The parts need
each other: mkdir reads the FAT back from disk, so the types of the copy rest on
those of the disk. Two strengthenings are needed: tables are *finite* (without
that, "fewer entries than slots" says nothing about one entry more), and a FAT
on disk is total. An operation is a sequence of writes, so one lemma,
`PerformPreserves`, serves all of them: it asks that every write is well formed
and that the last write to cluster 1 is the FAT kept in memory. What remains for
each operation is to show that of its writes. The loop of `write()` is a
recursive function; that it exists, unfolds and keeps a FAT a FAT is proved by
the least number for which it would fail (`NatLemmas`).

Its second half proves the properties of the run `fat32_store` for every size
of the disk and of its tables, every set of names, sizes and contents, and any
parent cluster a program names. Its theorems assume `Undisturbed`, which allows
what that run allows: `any_parent`, but neither a full disk, nor a power loss
inside an operation, nor a directory `root` in the root. The other runs, and the
section on what exploring showed, say what goes wrong otherwise.

* *The invariant.* `OwnershipInv` says that a formatted disk is a store
  (`IsStore`): the chains of the entries end, share no cluster and are what the
  FAT marks used (`ChainsApart`); a directory's table names the directory and its
  parent (`Linked`); every other cluster reads as an empty table (`StaleEmpty`).
  `ClustersOwnedOnce` and `ParentLinks` alone are not inductive. That a new
  entry's cluster is no directory's rests on chains being apart; that the table
  it is added to is no block of a file, and no table that was removed, rests on
  `is_directory`, which follows the links; and `delete` reads whatever cluster it
  is given as a table, so it must find no entry in one that was freed.
* *Directories and chains.* `Below` and `Chain` are recursive functions over the
  whole disk. Lemmas replace each by what it computes: the directories
  are the least set that contains the root and is closed under subdirectories
  (`TablesClosed`, `TablesLeast`), and a chain is a path through the FAT up to
  the end mark, and every such path a chain (`ChainIsPath`, `PathIsChain`). The
  counting arguments (there are no more levels than clusters, a walk longer than
  the disk meets a cluster twice) are least counterexamples.
* *Operations.* `Adds` and `Removes` relate two disks: one entry more with a chain
  of clusters that were empty, or one entry less and its chain freed. That they
  keep `IsStore`, and what they do to `View`, is a matter of sets (`AddIsStore`,
  `AddedToView`, `RemoveIsStore`, `RemovedFromView`). What remains for `mkdir`,
  `write` and `delete` is that their sequence of writes amounts to one of these
  (`WriteDirectoryAdds`, `WriteFileAdds`, `DeleteRemoves`); for a file, that the
  loop of `write()` links as many empty clusters as the file needs
  (`NewChainIsPath`).
* *Refinement.* `FileSystemIsAStore` states `ImplementsStore`: a mkdir is a
  `MakeDirectory`, a write of a file a `WriteFile`, a delete a `Delete`, and
  formatting, loading, switching off and refused requests stutter. The
  directories of the abstract store are those of the disk (`StoreDirectories`).
* *A document that is nearly right.* `ReservedEntriesKept`: what `fat32.h:20`
  says of the first two FAT entries, which `fat32_full` refutes on a full disk,
  does hold as long as the disk does not fill and the power holds.

The last part of `Fat32Proofs` goes on where `Undisturbed` ends, with the power failing inside
one operation, after any writes of it.

* *What a loss leaves.* The disk is no store then: there may be an entry whose
  chain was never written, a chain without an entry, or a directory whose
  cluster still holds what it held before, and these can be written to and
  removed later. So the proof of `WhatIsSettledSurvives` does not describe them.
  It describes the entries that were there: a set `S` of entries is `Safe` when
  their chains end, are apart, and nothing outside `S` leads into them, neither
  the FAT nor any entry that can be read in any cluster, reachable or not.
  `LossInv` says that the disk is a store until the loss and that afterwards
  what is settled is shown by a safe set (`Guarded`).
* *Why it stays.* A step *spares* `S` when it keeps the tables and chains of `S`
  and makes nothing lead into them (`Spares`), and then `S` stays safe and reads
  back the same (`SparedStaySafe`). Every single write of every operation spares
  it (`Harmless`, `HarmlessSpare`), so it does not matter at which write the
  power fails. That `write()` puts nothing into a safe chain rests on
  `get_empty_cluster` choosing an entry the FAT calls empty; that `delete` frees
  none of it, even starting at a cluster whose chain was never written, on
  nothing leading into it (`PathAvoids`).
* *Lookups.* `LookupsEnd` needs only that no set of clusters has tables leading
  round in it (`Acyclic`). An entry for a new directory is written before the
  directory's table, so what matters is that the cluster it names leads nowhere
  at that moment: on a store because a free cluster reads as an empty table, and
  without losses because the table is written in the same step. Hence the
  hypothesis `RareLoss`: any misuse whatsoever if the power holds, and one loss
  on a disk that does not fill otherwise.

The hypotheses are sharp: TLC finds `LookupsTerminate` violated with
`MaxLosses = 2`, and `SettledSurvives` with `any_parent` beside `power_loss`.

`FileStoreProofs` shows what the abstraction promises, whatever the files are: a
tree in which no name occurs twice in a directory, no directory twice, and no
entry outlives the directory it is in. With the refinement it holds of the disk
(`DiskIsATree`).

`TerminalProofs` proves the types of the console (`ConsoleTypes`) and `KeyIsHeld`,
for every screen, prompt and output. `KeyIsHeld` alone is not inductive: while the
keyboard is off a release leaves the buffer alone, so the invariant adds that
the buffer is empty then. That the cursor stays within what the ports hold goes
through every character of a string, by the least one after which it would not.

What is on the screen takes two more invariants, one upon the other.

* *Before the cursor* (`WhatIsSeenIsRun`, for `EchoMatchesLine`). `EchoInv` says
  what of the prompt and the line is `Typed` on the display in every state of the
  shell: while it puts the prompt, the strings put so far; while it echoes a
  backspace, one character more than the line has. After a screen that was
  cleared within the line, backspaces reach the first cell and the next one wraps;
  then the line is not on the screen at all, and must not come back to it with
  the rest of the backspaces, so the invariant adds that the cursor is further
  behind the screen than the line is long. The hypotheses are
  `PromptPrints`, that the prompt has neither newline nor backspace, and
  `WrapsOffScreen`, that position 65535, put through the 8-bit row and column,
  comes back off the screen by at least `INPUT_MAX` cells. On 80 by 25 it comes
  back as 4095, so both hold of the code; a screen of other sizes need not.
* *Behind it* (`NothingStandsBehind`, for `NothingBehindCursor`). `BehindInv` adds
  that nothing but erased cells stands behind the cursor, and that the cursor is
  at most below the last row, or the whole screen is blank, as it is after the
  wrap. While commands put text the cursor may go further down, by the newlines
  put in a row (`Low`). `OutputsFlow` asks that these never bring the 8-bit row
  round (229 in a row on 25 rows) and that no output has a backspace;
  `PromptEnds`, that the prompt begins and ends with a character, as it does
  (`user-shell.c:32`, `:36`).

The four hypotheses are true of the instance that `terminal` checks. `FlattenSeq`,
which both properties read the prompt with, is a recursive function; `Joined`
gives its value string by string, so that a string put is one step.

`ShellProofs` proves what holds whatever is typed: for every session, every
number of shells and every slip, so also for the lines the commands do not serve.
Its invariant `ShellInv` has two halves that need each other.

* *The calls* (`CallsInv`). Every stack has the root at its bottom and otherwise
  links that were read from tables; a table a command works on was read
  (`Known`), or the frame is about to read it; what a frame will name in a system
  call is a cluster and a name, and the size it asks for one that `read()` can be
  asked for. The working directory of a shell is not enough for that, because `cd`
  replaces it by the copy it walked with, so the invariant speaks of every frame
  of `call` (`FrameOK`). A step replaces the innermost frame by nothing, one
  frame or two: there is a lemma for each of these (`ReturnOK`, `GoOnOne`,
  `GoOnTwo`), and what remains for an action is its new frames. `cd` has no frames
  above or below its own, and below one of `find_helper`'s there always is
  another, or a return would leave the line behind.
* *The disk* (`Served`): it is a store, in the sense of `Fat32Proofs`. A
  shell's step is one system call or none (`SystemCall`), and a call that names a
  cluster and a name keeps the store (`CallKeepsStore`); the inserter's disk is
  one (`InsertedStore`), and switching off between two calls leaves it.
* That what `read_directory` returns is a table whose entry 0 says which directory
  it is (`ReadIsKnown`) follows from the second half, that the calls name such
  things from the first.

From it follow `StacksNeverUnderflow` (`peek` always has a top to read and `pop`
never leaves the array), `ShellTypeCorrect` (the property `ShellTypeOK` of the
run), `CommandsKeepTheStore` (`ClustersOwnedOnce`, `ParentLinks`,
`EverythingReads` and `FatCached`, which `Fat32`'s runs check, hold under the
shells too, rm's and cp's recursion and the slips included), and
`StepsChangeOneEntry` (each step is one `Add` or `Delete` of `FileStore`, or
none). What a slip costs is therefore never the file system's consistency, only
what the user meant: files left over, empty copies, a lost command.

`ShellPathProofs` assumes `Slips = {}` and proves that every stack, of a working
directory or of a command on its way, is a path of directories on the disk
(`StacksArePaths`), and that cd ends where its whole path leads on the disk as it
is then, or leaves the shell where it is (`CdGoesThere`), for any number of
shells. The hypothesis is sharp: with `remove_used` or `root_named` TLC finds
`StackIsAPath` violated.

* *Why `StackIsAPath` is not inductive.* Only a delete can break a path, and what
  is deleted was chosen long before: rm walks to a directory, opens it, removes
  its children one after another and then itself; mv copies first and ends with an
  rm. That the path is served is known of the tree as it was when the line was
  typed.
* *The invariant* `PathInv` hands it on. A directory is `Doomed` when no shell's
  working directory lies in it and no file lies in it or below. `Good` says of
  every frame what it needs: the loop of a command stands where the part of the
  path behind it leads (`Led`), and in rm the rest of it leads to something
  doomed; an rm among the children of a directory is in a doomed one with
  directories only; mv still has the name it will remove, and the table it copies
  from is `Clean`. `Nested` relates the frames of one shell: an rm runs for an rm
  of the directory above, and its stack goes on from that one's. `Apart` is the
  contract between shells: who removes runs alone.
* *Why files matter.* rm deletes a file of the directory it removes by its name
  in the directory *above*, where another directory may have that name. So a path
  is safe from an rm only when there are no files below, and that has to be in
  the invariant (slip `rm_files`).
* *The disk.* A write `Grows` the tree and keeps every path, where it leads and
  what is doomed (`PathGrows`, `FollowGrows`); a delete `Shrinks` it by an entry
  that no path passes (`PathShrinks`). Shells that do not take part are `Good`
  still (`GoodCalm`).
* *Recursion.* `Follow` and `Folders` are recursive functions; `TrailUnfold` and
  `FoldersUnfold` unfold them, and the folders an rm was checked against when the
  line was typed are all that is below (`FoldersClosed`), by an induction over
  numbers as in `NatLemmas`.

`ShellTreeProofs` proves what the commands do to the tree of directories, for any
number of shells and, again, what is typed being served: nothing disappears but
what an rm or mv named (`RemovesTheNamed`), nothing appears but what a mkdir, cp
or mv names (`MakesTheNamed`), no command gets lost (`CommandsFindTheirWay`), and
find prints what there is (`FindsAll`; a name that only begins with `root` is not
served, and the invariant carries that along, `NoRootLike`).

* *The tree.* `Reach` says that a sequence of names leads from one directory to
  another. In a store every directory is reached from the root by exactly one
  (`RootOnce`: going up there is one way, by the parent links), which passes no
  directory twice and is so shorter than the number of clusters (`ReachBounded`).
  So `Folders`, a recursive function that descends as many levels as there are
  clusters, collects precisely the directories that can be reached (`FoldersAre`),
  and the places in a place are those of the directories inside (`PlacesAre`).
* *What is removed* (`AimedInv`). An rm's loop still leads to the place the line
  named, or names it with the one component it has left, or its stack goes
  *through* that place (`Passes`), as that of every rm of a child does; mv's source
  stays where it was until its rm. So what is deleted lies in the place named.
* *What is looked for* (`FineInv`). cp's source is in its working directory from
  the moment the line is typed, and what cp learns of it is what it is; a
  directory that is copied has no file in it, runs alone, and the table it is
  copied from says nothing that is not still so (`Covers`). A destination that
  exists has neither the name nor a full table. `cp_helper` makes a directory only
  where there is a place for it, and then it is there, and empty: the copy so far
  holds nothing but children that are off the list, so it has room for the next.
  That a frame's writes do not disturb the frames that wait below it, whose
  directories it writes into or below, is `Over`. sys_write may still fail on a
  full disk: but the shell is only modelled where each write can be afforded
  (`Misuse = {}` in `Shell`; `Reserve` shows that this stops no command on the
  instance), and what happens on a full disk is `fat32_full`'s subject.
* *What is made* needs the same invariant: the entry is at the destination or in
  a directory inside (`CopyGoing`), and a file cp puts under a new name is put
  where the path leads nowhere else.
* *What is found* (`FindInv`). What find has to print is an entry at the end of a
  way from the root (`MatchesAre`). Until it is printed, one of find's frames is on
  that way and has the next name of it still before it (`Meets`): the name was in
  its table when it read it first, is not among those it has been at, and is in the
  table it reads again after every subdirectory. That table is the one the frame's
  stack says, since stacks are paths, and what others make meanwhile takes no entry
  away (`FindsGrows`); rm and mv run alone.

The hypothesis `Slips = {}` is sharp here too: the table in section 2 says which
of these fails for which slip.

Assumptions on constants are the `ASSUME`s of `Paging`, `Kernel`, `Fat32`,
`Shell` and `Terminal`: sizes are natural numbers, `PCB_QUEUE_MAX >= PROCESS_COUNT_MAX` as in
the code (16 and 16), `PROCESS_COUNT_MAX < PAGE_FRAME_MAX_COUNT` (16 and 32), the
kernel's entry is not page 0, sizes are below `WORD`, the root's name is one of
`RootLike` and none of these has an extension, a disk has a cluster beyond the first three, screens have
at most 255 rows and columns, prompt and outputs are sequences of strings of
characters, and the files the inserter leaves fit the root's table and the disk,
with distinct names and a cluster each.

Only model-checked:

* `EveryProcessRuns` and `EveryCommandEnds`: liveness is out of the prover's
  reach.
* `CopiesAreFaithful` and `MovesLoseNothing`: they compare contents of whole trees
  before and after a step. Proved are the parts they rest
  on: a step changes one entry (`StepsChangeOneEntry`), in the tree the line names
  (`MakesTheNamed`, `RemovesTheNamed`), and the stack that says where is a path
  (`StacksArePaths`).

## 5. Not modelled

* **ls, help, ps, clear** only print. **exec, clock and kill** hand a file of the
  working directory, the file `clock` of the root, or a pid to a system call of
  `Kernel`, where their effect is. exec looks the size up one system call
  earlier: when another shell replaces the file by a longer one in between,
  `read()` refuses it, which is the failed exec of `Kernel`.
* **Texts**: `parse_user_input` and the string library build and split strings
  character by character. `Shell` has what the splitting does to a path, and
  which names have an extension; names of more than eight characters, which
  `parse_file_name` cuts, are not in the sessions. `memcpy`, `strlen` and their
  like are assumed.
* **Lines of rm, cp and mv that end in `.` or `..`** are excluded by an
  assumption on the sessions: the commands take them for names.
* The **depth** of the directory stack (128) and of `cp_helper`'s, rm's and
  `find_helper`'s recursion on the user stack: the models' trees
  are too shallow to say anything about it.
* **ps, exit and the CMOS clock** (syscalls 9, 10, 14): they read or do nothing.
* **Disk driver, port I/O, descriptor tables, assembly entry points**: device
  access and constant tables. The models rest on two facts about them: gates
  disable interrupts, and a cluster is written as a whole.
* **The image inserter** runs `write()` of the same `fat32.c` on the host; only
  the disk it leaves is modelled.
* `dumped.c` is not part of the build.

## 6. How the project grew, and what could follow

1. `Paging`, `PcbQueue`, `Kernel`, `ProcessService`, with their proofs: the
   behaviour everything else runs on.
2. `Fat32`, `FileStore`: operations, refinement, power loss; then the proofs of
   its types and its cache, of the ownership of clusters, of the refinement, and
   of what survives a power loss.
3. `Terminal`, and its proofs.
4. `Shell`: the directory stack and the file commands, two shells interleaved.

Next would come: a module for `parse_file_name` and
`int_to_string` as functions on short texts; and a composition of `Shell` with
`Kernel`, in which exec and kill start and stop the shells themselves.
