------------------------------- MODULE Kernel -------------------------------
(***************************************************************************)
(* The process core of MeongOS: the process manager (process.c), the       *)
(* round-robin scheduler (scheduler.c), the two interrupt gates that reach *)
(* them (interrupt.c: the timer, and syscalls 11 exec and 12 kill) and the *)
(* boot path (kernel.c), over the page manager and the ready queue.        *)
(*                                                                         *)
(* Every gate is an interrupt gate, so the CPU runs a handler with         *)
(* interrupts off: one handler is one action.  The user programs are the   *)
(* environment; whichever process the CPU runs may issue any system call.  *)
(*                                                                         *)
(* Misuse names the ways the environment may stray from what the kernel    *)
(* guards against.  With Misuse = {} the specification describes programs  *)
(* that keep to the contract; with all of them, every program.             *)
(***************************************************************************)
EXTENDS Paging, PcbQueue

CONSTANTS
    PROCESS_COUNT_MAX,            \* length of _process_list (16)
    PROCESS_PAGE_FRAME_COUNT_MAX, \* frames one program may ask for (8)
    WORD,                         \* values of a uint32_t (2^32)
    ExecSizes,                    \* the buffer sizes exec is called with
    ShellSize,                    \* the buffer size kernel_setup asks for
    Misuse                        \* see AllMisuse

AllMisuse == {"missing_shell",   \* the disk holds no shell to boot
              "read_failure",    \* exec of something read() refuses
              "too_many_execs",  \* exec once no directory is unused
              "loaded_elsewhere",\* exec with request.buf at 4 MiB or above
              "past_page",       \* exec of a file larger than the rest of the
                                 \* page that request.buf is in
              "kill_running",    \* kill of the calling process itself
              "kill_init",       \* kill of the process of slot 0
              "kill_leaked"}     \* kill of what a failed exec left behind

ASSUME KernelAssumption ==
    /\ PROCESS_COUNT_MAX \in Nat \ {0}
    /\ PROCESS_COUNT_MAX < PAGE_FRAME_MAX_COUNT
    /\ PCB_QUEUE_MAX \in Nat
    /\ PCB_QUEUE_MAX >= PROCESS_COUNT_MAX
    /\ PROCESS_PAGE_FRAME_COUNT_MAX \in Nat
    /\ WORD \in Nat \ {0}
    /\ ExecSizes \subseteq 0 .. WORD - 1
    /\ ShellSize \in 0 .. WORD - 1
    /\ Misuse \subseteq AllMisuse

Slots == 0 .. PROCESS_COUNT_MAX - 1
Pids == 1 .. PROCESS_COUNT_MAX
InitSlot == 0

\* PROCESS_CREATE_* and the return codes of syscall 12.
NoReply == -1

VARIABLES
    mode,                 \* "boot", "up", or "halted": the CPU is lost
    process_map,          \* slots handed out
    active_process_count,
    pcb_pid,              \* metadata.pid of every PCB, 0 when zeroed
    pcb_state,            \* metadata.state, "READY" when zeroed
    pcb_dir,              \* context.page_directory_virtual_addr
    pcb_queue,
    reply                 \* what the last handler wrote to user memory

processVars == <<process_map, active_process_count, pcb_pid, pcb_state, pcb_dir>>
vars == <<pagingVars, mode, processVars, pcb_queue, reply>>

Live == {s \in Slots : pcb_pid[s] # 0}
Running == {s \in Slots : pcb_state[s] = "RUNNING"}

\* The only states of enum PROCESS_STATE ever assigned.
ProcessStates == {"READY", "RUNNING"}

TypeOK ==
    /\ PagingTypeOK
    /\ mode \in {"boot", "up", "halted"}
    /\ process_map \in [Slots -> BOOLEAN]
    /\ active_process_count \in 0 .. PROCESS_COUNT_MAX
    /\ pcb_pid \in [Slots -> Pids \cup {0}]
    /\ pcb_state \in [Slots -> ProcessStates]
    /\ pcb_dir \in [Slots -> Dirs \cup {NullDir}]
    /\ pcb_queue \in Seq(Slots \cup {NullPcb})
    /\ Len(pcb_queue) <= PCB_QUEUE_MAX
    /\ reply \in -1 .. 4

ProcessInit ==
    /\ process_map = [s \in Slots |-> FALSE]
    /\ active_process_count = 0
    /\ pcb_pid = [s \in Slots |-> 0]
    /\ pcb_state = [s \in Slots |-> "READY"]
    /\ pcb_dir = [s \in Slots |-> NullDir]

Init ==
    /\ PagingInit
    /\ ProcessInit
    /\ mode = "boot"
    /\ pcb_queue = <<>>
    /\ reply = NoReply

-----------------------------------------------------------------------------
\* Helpers of process.c.

\* process_get_current_running_pcb_pointer: the first PCB marked RUNNING.
CurrentPcb ==
    IF Running = {} THEN NullPcb
    ELSE CHOOSE s \in Running : \A t \in Running : s <= t

\* process_list_get_inactive_index
FirstInactive(s) ==
    ~process_map[s] /\ \A t \in Slots : t < s => process_map[t]

\* ceil_div: the sum in its numerator is a uint32_t.
CeilDiv(a, b) == ((a + b - 1) % WORD) \div b

\* The frames of the program and one of stack.  The sum wraps too, so a size
\* near 4 GiB needs none.
FramesNeeded(size) == CeilDiv((size + PAGE_FRAME_SIZE) % WORD, PAGE_FRAME_SIZE)

EnoughMemory(size) ==
    /\ AllocateCheck(FramesNeeded(size))
    /\ FramesNeeded(size) <= PROCESS_PAGE_FRAME_COUNT_MAX

\* An exec that passes every check at the head of process_create_user_process.
Admitted(size) == active_process_count < PROCESS_COUNT_MAX /\ EnoughMemory(size)

\* The CPU never comes back to a user program: a page fault taken with
\* interrupts off and returned to the faulting instruction, or a triple fault.
Halt ==
    /\ mode' = "halted"
    /\ UNCHANGED <<pagingVars, processVars, pcb_queue, reply>>

\* The PCB, directory and frame an exec claims before it reads the program:
\* slot s, directory d, for a program loaded in page.
ClaimProcess(s, d, page) ==
    /\ FirstInactive(s)
    /\ FirstUnusedDir(d)
    /\ process_map' = [process_map EXCEPT ![s] = TRUE]
    /\ active_process_count' = active_process_count + 1
    /\ pcb_pid' = [pcb_pid EXCEPT ![s] = s + 1]
    /\ pcb_dir' = [pcb_dir EXCEPT ![s] = d]
    /\ CreateNewPageDirectory(d)
    /\ AllocateUserPageFrame(d, page)

-----------------------------------------------------------------------------
\* kernel.c: kernel_setup creates the shell, scheduler_init dequeues it, loads
\* its directory and enqueues it again, marked RUNNING; the first call of
\* scheduler_switch_to_next_process then dequeues and enqueues it once more.
BootShell ==
    /\ mode = "boot"
    /\ Admitted(ShellSize)
    /\ \E s \in Slots, d \in Dirs :
         /\ ClaimProcess(s, d, 0)
         /\ pcb_state' = [pcb_state EXCEPT ![s] = "RUNNING"]
         /\ pcb_queue' = Enqued(Dequed(Enqued(Dequed(Enqued(pcb_queue, s)), s)), s)
         /\ UsePageDirectory(d)
    /\ mode' = "up"
    /\ UNCHANGED reply

\* No shell on the disk: the return code is ignored, the queue is empty and
\* scheduler_init follows a NULL PCB.
BootWithoutShell ==
    /\ mode = "boot"
    /\ "missing_shell" \in Misuse
    /\ Halt

\* The machine is switched off and on again; the kernel image is reloaded.
PowerCycle ==
    /\ mode = "halted"
    /\ PagingReset
    /\ mode' = "boot"
    /\ process_map' = [s \in Slots |-> FALSE]
    /\ active_process_count' = 0
    /\ pcb_pid' = [s \in Slots |-> 0]
    /\ pcb_state' = [s \in Slots |-> "READY"]
    /\ pcb_dir' = [s \in Slots |-> NullDir]
    /\ pcb_queue' = <<>>
    /\ reply' = NoReply

-----------------------------------------------------------------------------
\* The timer interrupt: scheduler_save_context_to_current_running_pcb, which
\* stores CR3 with the registers, then scheduler_switch_to_next_process.

\* The directory the next PCB resumes in, once the context is saved.
ResumeDir(next) == IF next = CurrentPcb THEN cr3 ELSE pcb_dir[next]

\* Mutant: the preempted PCB stays marked RUNNING.
TimerSwitchStillRunning ==
    LET current == CurrentPcb
        next == First(pcb_queue)
    IN  /\ mode = "up"
        /\ current # NullPcb
        /\ next # NullPcb
        /\ Runnable(ResumeDir(next))
        /\ pcb_dir' = [pcb_dir EXCEPT ![current] = cr3]
        /\ pcb_state' = [pcb_state EXCEPT ![next] = "RUNNING"]
        /\ pcb_queue' = Enqued(Dequed(pcb_queue), current)
        /\ UsePageDirectory(ResumeDir(next))
        /\ reply' = NoReply
        /\ UNCHANGED <<mode, process_map, active_process_count, pcb_pid,
                       page_frame_map, free_page_frame_count,
                       page_directory_used, user_page, user_entry, kernel_entry>>

TimerSwitch ==
    LET current == CurrentPcb
        next == First(pcb_queue)
    IN  /\ mode = "up"
        /\ current # NullPcb
        /\ next # NullPcb
        /\ Runnable(ResumeDir(next))
        /\ pcb_dir' = [pcb_dir EXCEPT ![current] = cr3]
        /\ pcb_state' = [[pcb_state EXCEPT ![current] = "READY"]
                                    EXCEPT ![next] = "RUNNING"]
        /\ pcb_queue' = Enqued(Dequed(pcb_queue), current)
        /\ UsePageDirectory(ResumeDir(next))
        /\ reply' = NoReply
        /\ UNCHANGED <<mode, process_map, active_process_count, pcb_pid,
                       page_frame_map, free_page_frame_count,
                       page_directory_used, user_page, user_entry, kernel_entry>>

\* No PCB is RUNNING: its process was killed while its CR3 was another
\* process's directory.  The context is saved through a NULL pointer, into the
\* user page if that is page 0, and the NULL PCB joins the queue.
TimerSwitchDetached ==
    LET next == First(pcb_queue)
    IN  /\ mode = "up"
        /\ CurrentPcb = NullPcb
        /\ user_page[cr3] = 0
        /\ next # NullPcb
        /\ Runnable(pcb_dir[next])
        /\ pcb_state' = [pcb_state EXCEPT ![next] = "RUNNING"]
        /\ pcb_queue' = Enqued(Dequed(pcb_queue), NullPcb)
        /\ UsePageDirectory(pcb_dir[next])
        /\ reply' = NoReply
        /\ UNCHANGED <<mode, process_map, active_process_count, pcb_pid, pcb_dir,
                       page_frame_map, free_page_frame_count,
                       page_directory_used, user_page, user_entry, kernel_entry>>

\* ... and when the next PCB is NULL too, the context just saved through the
\* NULL pointer is the one resumed.
TimerResumeDetached ==
    /\ mode = "up"
    /\ CurrentPcb = NullPcb
    /\ user_page[cr3] = 0
    /\ First(pcb_queue) = NullPcb
    /\ pcb_queue' = Enqued(Dequed(pcb_queue), NullPcb)
    /\ reply' = NoReply
    /\ UNCHANGED <<pagingVars, mode, processVars>>

\* The next PCB is NULL, or zeroed, or its directory has been wiped; or there is
\* no PCB to save the context in and nothing mapped at 0.
TimerCrash ==
    LET next == First(pcb_queue)
    IN  /\ mode = "up"
        /\ \/ CurrentPcb = NullPcb /\ user_page[cr3] # 0
           \/ CurrentPcb # NullPcb /\ next = NullPcb
           \/ next # NullPcb /\ ~Runnable(ResumeDir(next))
        /\ Halt

TimerTick ==
    TimerSwitch \/ TimerSwitchDetached \/ TimerResumeDetached \/ TimerCrash

\* Every process is started with its stack at the end of page 0.  One that was
\* loaded in another page has nothing mapped there.
StackFault ==
    /\ mode = "up"
    /\ user_page[cr3] # 0
    /\ Halt

-----------------------------------------------------------------------------
\* Syscall 11, exec: process_create_user_process.

\* A handler that only writes its return code to the caller's memory.
Refuse(code) ==
    /\ mode = "up"
    /\ reply' = code
    /\ UNCHANGED <<pagingVars, mode, processVars, pcb_queue>>

ExecTooManyProcesses ==
    active_process_count >= PROCESS_COUNT_MAX /\ Refuse(1)

\* request.buf lies in the kernel's half of the address space.
ExecInvalidEntrypoint ==
    active_process_count < PROCESS_COUNT_MAX /\ Refuse(2)

ExecNotEnoughMemory(size) ==
    /\ active_process_count < PROCESS_COUNT_MAX
    /\ ~EnoughMemory(size)
    /\ Refuse(3)

\* What the contract asks of request.buf.
MayLoad(page) == page # 0 => "loaded_elsewhere" \in Misuse

\* Mutants of ExecProcess: the new PCB is never enqueued; CR3 is not restored.
ExecProcessForgetsEnque(size, page) ==
    /\ mode = "up"
    /\ Admitted(size)
    /\ MayLoad(page)
    /\ \E s \in Slots, d \in Dirs : ClaimProcess(s, d, page)
    /\ reply' = 0
    /\ UNCHANGED <<mode, pcb_queue, pcb_state, cr3>>

ExecProcessKeepsNewDirectory(size, page) ==
    /\ mode = "up"
    /\ Admitted(size)
    /\ MayLoad(page)
    /\ \E s \in Slots, d \in Dirs :
         /\ ClaimProcess(s, d, page)
         /\ pcb_state' = [pcb_state EXCEPT ![s] = "READY"]
         /\ pcb_queue' = Enqued(pcb_queue, s)
         /\ UsePageDirectory(d)
    /\ reply' = 0
    /\ UNCHANGED mode

ExecProcess(size, page) ==
    /\ mode = "up"
    /\ Admitted(size)
    /\ MayLoad(page)
    /\ \E s \in Slots, d \in Dirs :
         /\ ClaimProcess(s, d, page)
         /\ pcb_state' = [pcb_state EXCEPT ![s] = "READY"]
         /\ pcb_queue' = Enqued(pcb_queue, s)
    /\ reply' = 0
    /\ UNCHANGED <<mode, cr3>>

\* read() fails: the handler leaves at once, with CR3 on the new directory and
\* nothing it claimed released; the code is written into the new directory,
\* where the caller's page has to be mapped.
ExecReadFailure(size, page) ==
    /\ mode = "up"
    /\ "read_failure" \in Misuse
    /\ Admitted(size)
    /\ MayLoad(page)
    /\ page = user_page[cr3]
    /\ \E s \in Slots, d \in Dirs : ClaimProcess(s, d, page) /\ UsePageDirectory(d)
    /\ reply' = 4
    /\ UNCHANGED <<mode, pcb_state, pcb_queue>>

\* It is not, and the code cannot be written.
ExecReadCrash(size, page) ==
    /\ mode = "up"
    /\ "read_failure" \in Misuse
    /\ Admitted(size)
    /\ MayLoad(page)
    /\ page # user_page[cr3]
    /\ Halt

\* read() writes where the new directory maps nothing: no frame was free, which
\* a size that wraps does not reveal, or the file does not fit its page.
ExecUnmapped(size) ==
    /\ mode = "up"
    /\ Admitted(size)
    /\ \E d \in Dirs : ~page_directory_used[d]
    /\ free_page_frame_count = 0 \/ "past_page" \in Misuse
    /\ Halt

\* paging_create_new_page_directory returns NULL, and the handler goes on with
\* it: the entry is written into the caller's page and CR3 becomes 0.
ExecWithoutDirectory(size) ==
    /\ mode = "up"
    /\ "too_many_execs" \in Misuse
    /\ Admitted(size)
    /\ \A d \in Dirs : page_directory_used[d]
    /\ Halt

-----------------------------------------------------------------------------
\* Syscall 12, kill.

KillUnknown(p) ==
    /\ \A s \in Slots : pcb_pid[s] # p
    /\ Refuse(1)

\* A zeroed PCB has pid 0: process_destroy refuses it, the syscall replies 0.
KillZero ==
    /\ \E s \in Slots : pcb_pid[s] = 0
    /\ Refuse(0)

\* Mutants: the queue entry stays; the frame stays; the state stays; the
\* counter stays.
DestroyKeepingQueue(s) ==
    /\ FreeUserPageFrame(pcb_dir[s], 0)
    /\ FreePageDirectory(pcb_dir[s])
    /\ process_map' = [process_map EXCEPT ![s] = FALSE]
    /\ active_process_count' = active_process_count - 1
    /\ pcb_pid' = [pcb_pid EXCEPT ![s] = 0]
    /\ pcb_state' = [pcb_state EXCEPT ![s] = "READY"]
    /\ pcb_dir' = [pcb_dir EXCEPT ![s] = NullDir]
    /\ UNCHANGED pcb_queue

DestroyKeepingFrame(s) ==
    /\ FreePageDirectory(pcb_dir[s])
    /\ pcb_queue' = Removed(pcb_queue, s)
    /\ process_map' = [process_map EXCEPT ![s] = FALSE]
    /\ active_process_count' = active_process_count - 1
    /\ pcb_pid' = [pcb_pid EXCEPT ![s] = 0]
    /\ pcb_state' = [pcb_state EXCEPT ![s] = "READY"]
    /\ pcb_dir' = [pcb_dir EXCEPT ![s] = NullDir]
    /\ UNCHANGED <<page_frame_map, free_page_frame_count>>

DestroyKeepingState(s) ==
    /\ FreeUserPageFrame(pcb_dir[s], 0)
    /\ FreePageDirectory(pcb_dir[s])
    /\ pcb_queue' = Removed(pcb_queue, s)
    /\ process_map' = [process_map EXCEPT ![s] = FALSE]
    /\ active_process_count' = active_process_count - 1
    /\ pcb_pid' = [pcb_pid EXCEPT ![s] = 0]
    /\ pcb_dir' = [pcb_dir EXCEPT ![s] = NullDir]
    /\ UNCHANGED pcb_state

DestroyKeepingCount(s) ==
    /\ FreeUserPageFrame(pcb_dir[s], 0)
    /\ FreePageDirectory(pcb_dir[s])
    /\ pcb_queue' = Removed(pcb_queue, s)
    /\ process_map' = [process_map EXCEPT ![s] = FALSE]
    /\ pcb_pid' = [pcb_pid EXCEPT ![s] = 0]
    /\ pcb_state' = [pcb_state EXCEPT ![s] = "READY"]
    /\ pcb_dir' = [pcb_dir EXCEPT ![s] = NullDir]
    /\ UNCHANGED active_process_count

\* process_destroy on the PCB of slot s: it frees page 0, whatever page exec
\* mapped.
Destroy(s) ==
    /\ FreeUserPageFrame(pcb_dir[s], 0)
    /\ FreePageDirectory(pcb_dir[s])
    /\ pcb_queue' = Removed(pcb_queue, s)
    /\ process_map' = [process_map EXCEPT ![s] = FALSE]
    /\ active_process_count' = active_process_count - 1
    /\ pcb_pid' = [pcb_pid EXCEPT ![s] = 0]
    /\ pcb_state' = [pcb_state EXCEPT ![s] = "READY"]
    /\ pcb_dir' = [pcb_dir EXCEPT ![s] = NullDir]

\* What the contract asks of the target of a kill.
MayKill(s) ==
    /\ s = CurrentPcb => "kill_running" \in Misuse
    /\ s = InitSlot => "kill_init" \in Misuse
    /\ (s # CurrentPcb /\ Entries(pcb_queue, s) = {})
          => "kill_leaked" \in Misuse

\* The target's directory is not the one the CPU runs in.
KillProcess(s) ==
    /\ mode = "up"
    /\ s \in Live
    /\ MayKill(s)
    /\ pcb_dir[s] # cr3
    /\ Destroy(s)
    /\ reply' = 0
    /\ UNCHANGED <<mode, cr3>>

\* It is: the reply is written to a page that is no longer mapped.
KillCrash(s) ==
    /\ mode = "up"
    /\ s \in Live
    /\ MayKill(s)
    /\ pcb_dir[s] = cr3
    /\ Halt

-----------------------------------------------------------------------------
Exec ==
    \/ ExecTooManyProcesses
    \/ ExecInvalidEntrypoint
    \/ \E size \in ExecSizes :
         \/ ExecNotEnoughMemory(size)
         \/ ExecUnmapped(size)
         \/ ExecWithoutDirectory(size)
         \/ \E page \in UserPages :
              \/ ExecProcess(size, page)
              \/ ExecReadFailure(size, page)
              \/ ExecReadCrash(size, page)

Kill ==
    \/ \E p \in Pids \cup {PROCESS_COUNT_MAX + 1} : KillUnknown(p)
    \/ KillZero
    \/ \E s \in Slots : KillProcess(s) \/ KillCrash(s)

Next == \/ BootShell \/ BootWithoutShell \/ PowerCycle
        \/ TimerTick \/ StackFault \/ Exec \/ Kill

Spec == Init /\ [][Next]_vars

-----------------------------------------------------------------------------
(***************************************************************************)
(* What holds of every program, whatever Misuse allows.                    *)
(***************************************************************************)

\* process_map, the counter beside it and the PCBs describe the same set of
\* processes, also after a failed exec, which claims a slot and never starts it
\* (process.c: process_generate_new_pid against process_destroy).
ProcessAccounting ==
    /\ active_process_count = Cardinality(Live)
    /\ \A s \in Slots :
         /\ pcb_pid[s] = IF process_map[s] THEN s + 1 ELSE 0
         /\ pcb_dir[s] = NullDir <=> ~process_map[s]

\* The free-frame counter agrees with the map: no handler frees a frame twice
\* or forgets to count one (paging.c: both allocate and free keep two records).
FrameAccounting ==
    free_page_frame_count = Cardinality({f \in Frames : ~page_frame_map[f]})

\* No frame is mapped by two directories, none maps frame 0 (the kernel's), and
\* every frame that one maps is marked used, so no exec is given it.
FramesExclusive ==
    /\ \A d, e \in Dirs :
         user_entry[d] # NoFrame /\ user_entry[d] = user_entry[e] => d = e
    /\ page_frame_map[0]
    /\ \A d \in Dirs : user_entry[d] # 0
    /\ \A d \in Dirs : user_entry[d] # NoFrame => page_frame_map[user_entry[d]]

\* paging.h: the map is "True when the page frame is currently used": no frame
\* but the kernel's is marked that no directory maps, so none is lost to execs.
UsedFramesAreMapped ==
    \A f \in Frames :
      page_frame_map[f] => f = 0 \/ \E d \in Dirs : user_entry[d] = f

\* Which is so of programs loaded in page 0, the one process_destroy frees.
InPlace ==
    "loaded_elsewhere" \notin Misuse =>
      UsedFramesAreMapped /\ \A d \in Dirs : user_page[d] = 0

\* The frames lost to every exec to come.
Lost == {f \in Frames \ {0} :
           page_frame_map[f] /\ \A d \in Dirs : user_entry[d] # f}

\* Of the programs that are loaded elsewhere: a frame is only ever lost with the
\* process that had it, by a kill (process.c:181).  No failed exec, refusal,
\* switch or kill of a program in page 0 loses one.
FramesLostToKills ==
    \A f \in Lost' \ Lost :
      \E s \in Live \ Live' :
        user_entry[pcb_dir[s]] = f /\ user_page[pcb_dir[s]] # 0

NoFrameIsLost == [][FramesLostToKills]_vars

\* The directory the CPU runs in maps the kernel and a user page for as long as
\* the machine is up: no kill by another process pulls it away.
CpuStaysMapped == mode = "up" => Runnable(cr3)

\* Never two RUNNING PCBs: process_get_current_running_pcb_pointer takes the
\* first it finds, and would save the context in the wrong one.
OneRunning == \A s, t \in Running : s = t

\* Kernel memory before the first process, a directory that was never handed
\* out, and a RUNNING mark: none of them holds anything left over.
NothingLeftOver ==
    /\ mode = "boot" => /\ Running = {}
                        /\ pcb_queue = <<>>
                        /\ active_process_count = 0
                        /\ free_page_frame_count = PAGE_FRAME_MAX_COUNT - 1
    /\ Running \subseteq Live
    /\ \A d \in Dirs : ~page_directory_used[d] =>
         user_entry[d] = NoFrame /\ \A s \in Slots : pcb_dir[s] # d

\* The inductive invariant of the specification.
KernelInv ==
    /\ TypeOK
    /\ ProcessAccounting
    /\ FrameAccounting
    /\ FramesExclusive
    /\ InPlace
    /\ CpuStaysMapped
    /\ OneRunning
    /\ NothingLeftOver

-----------------------------------------------------------------------------
(***************************************************************************)
(* What holds of programs that keep to the contract, Misuse = {}.          *)
(***************************************************************************)

\* No sequence of boots, execs, kills and ticks loses the CPU.
NeverHalts == mode # "halted"

\* Whatever was created and destroyed before, a process costs one frame and
\* gives it back (process.c claims one frame for page 0, whatever the size).
FramesFollowProcesses ==
    free_page_frame_count + active_process_count = PAGE_FRAME_MAX_COUNT - 1

\* The queue holds as many entries as there are processes, so pcbqueue_enque
\* never silently drops one (pcbqueue.c's limit of 16 equals PROCESS_COUNT_MAX,
\* and process 0 is in the queue while it runs).
EnqueNeverDrops == mode = "up" => Len(pcb_queue) = active_process_count

\* The turns a PCB holds: its entries in the queue, and the CPU.
Turns(p) ==
    Cardinality(Entries(pcb_queue, p)) + (IF p = CurrentPcb THEN 1 ELSE 0)

\* Every live process holds one turn and no other PCB holds any, through every
\* exec, kill and switch; except that process 0 holds two, because
\* scheduler_init enqueues the PCB it is about to run (scheduler.c).
TurnsConserved ==
    mode = "up" =>
      \A p \in Slots \cup {NullPcb} :
        Turns(p) = IF p \notin Live THEN 0 ELSE IF p = InitSlot THEN 2 ELSE 1

\* The CPU runs in the directory of the RUNNING process, and no two processes
\* share a directory, though the timer saves whatever CR3 holds into the PCB.
AddressSpacesPrivate ==
    mode = "up" =>
      /\ CurrentPcb # NullPcb /\ InitSlot \in Live
      /\ cr3 = pcb_dir[CurrentPcb]
      /\ \A s, t \in Live : pcb_dir[s] = pcb_dir[t] => s = t
      /\ \A s \in Live : Runnable(pcb_dir[s])

\* The inductive invariant under the contract.
ContractInv ==
    /\ KernelInv
    /\ NeverHalts
    /\ FramesFollowProcesses
    /\ EnqueNeverDrops
    /\ TurnsConserved
    /\ AddressSpacesPrivate

\* While a process lives, no step of another (a kill, an exec, a switch) moves
\* the frame its program is in.
ProgramsStayPut ==
    \A s \in Slots :
      s \in Live /\ s \in Live' =>
         user_entry'[pcb_dir'[s]] = user_entry[pcb_dir[s]]

MemoryStays == [][ProgramsStayPut]_vars

\* Under the contract the kernel implements ProcessService: the processes alive
\* are the PCBs that carry a pid, the one with the CPU is the RUNNING one.
Service == INSTANCE ProcessService
             WITH Processes <- Slots, Nobody <- NullPcb,
                  alive <- Live, running <- CurrentPcb

ImplementsService == Service!Spec

\* The PIT fires for as long as the machine is up: the timer's handler is the
\* only thing the kernel's own progress rests on.
FairSpec == Spec /\ WF_vars(TimerTick)

\* Every process that stays alive runs again and again, however many processes
\* are created and destroyed around it.
EveryProcessRuns ==
    \A s \in Slots : s \in Live ~> (s \in Running \/ s \notin Live)

\* paging.c:186, paging.h: freeing a directory makes it available again.
FreedDirectoryIsUnused ==
    mode = "up" =>
      \A d \in Dirs : page_directory_used[d] => \E s \in Slots : pcb_dir[s] = d
=============================================================================
