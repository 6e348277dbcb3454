------------------------------- MODULE Paging -------------------------------
(***************************************************************************)
(* The page manager of MeongOS, src/src/paging/paging.c: the map of the    *)
(* 4 MiB physical page frames, the table of page directories that user     *)
(* processes run in, and the CPU register CR3 that selects one of them.    *)
(*                                                                         *)
(* Of a directory only the two entries the kernel ever sets are kept: the  *)
(* one of the user page its program is loaded in, as its index and the     *)
(* frame it maps, and entry 0x300 (the kernel's higher half) as its        *)
(* present bit.  TLB invalidation and flag bits that never differ are      *)
(* abstracted away.                                                        *)
(***************************************************************************)
EXTENDS Integers, FiniteSets

CONSTANTS
    PAGE_FRAME_MAX_COUNT,             \* number of physical frames (32)
    PAGING_DIRECTORY_TABLE_MAX_COUNT, \* number of page directories (32)
    PAGE_FRAME_SIZE,                  \* bytes in a frame (4 MiB)
    KERNEL_PAGE                       \* entry of the kernel's half (0x300)

ASSUME PagingAssumption ==
    /\ PAGE_FRAME_MAX_COUNT \in Nat \ {0}
    /\ PAGING_DIRECTORY_TABLE_MAX_COUNT \in Nat \ {0}
    /\ PAGE_FRAME_SIZE \in Nat \ {0}
    /\ KERNEL_PAGE \in Nat \ {0}

Frames == 0 .. PAGE_FRAME_MAX_COUNT - 1
Dirs == 0 .. PAGING_DIRECTORY_TABLE_MAX_COUNT - 1
UserPages == 0 .. KERNEL_PAGE - 1  \* virtual addresses, by their bits 22 to 31

NoFrame == -1    \* a page directory entry whose present bit is 0
NullDir == -1    \* the NULL page directory pointer
KernelDir == -2  \* _paging_kernel_page_directory, active while booting

VARIABLES
    page_frame_map,        \* TRUE when the frame is in use
    free_page_frame_count, \* the counter kept beside the map
    page_directory_used,   \* page_directory_manager's map
    user_page,             \* index of every directory's user entry, 0 if none
    user_entry,            \* what it maps: a frame or NoFrame
    kernel_entry,          \* present bit of table[0x300] of every directory
    cr3                    \* the directory the CPU translates through

pagingVars == <<page_frame_map, free_page_frame_count, page_directory_used,
                user_page, user_entry, kernel_entry, cr3>>

PagingTypeOK ==
    /\ page_frame_map \in [Frames -> BOOLEAN]
    /\ free_page_frame_count \in 0 .. PAGE_FRAME_MAX_COUNT
    /\ page_directory_used \in [Dirs -> BOOLEAN]
    /\ user_page \in [Dirs -> UserPages]
    /\ user_entry \in [Dirs -> Frames \cup {NoFrame}]
    /\ kernel_entry \in [Dirs -> BOOLEAN]
    /\ cr3 \in Dirs \cup {KernelDir}

\* The static initialisers: frame 0 holds the kernel, no directory is in use.
PagingInit ==
    /\ page_frame_map = [f \in Frames |-> f = 0]
    /\ free_page_frame_count = PAGE_FRAME_MAX_COUNT - 1
    /\ page_directory_used = [d \in Dirs |-> FALSE]
    /\ user_page = [d \in Dirs |-> 0]
    /\ user_entry = [d \in Dirs |-> NoFrame]
    /\ kernel_entry = [d \in Dirs |-> FALSE]
    /\ cr3 = KernelDir

PagingReset ==
    /\ page_frame_map' = [f \in Frames |-> f = 0]
    /\ free_page_frame_count' = PAGE_FRAME_MAX_COUNT - 1
    /\ page_directory_used' = [d \in Dirs |-> FALSE]
    /\ user_page' = [d \in Dirs |-> 0]
    /\ user_entry' = [d \in Dirs |-> NoFrame]
    /\ kernel_entry' = [d \in Dirs |-> FALSE]
    /\ cr3' = KernelDir

-----------------------------------------------------------------------------
\* Queries.

\* paging_allocate_check
AllocateCheck(amount) == free_page_frame_count >= amount

\* The first free frame, and the first directory not marked used: both loops
\* run upwards from 0 and stop at the first hit.
FirstFreeFrame(f) ==
    ~page_frame_map[f] /\ \A g \in Frames : g < f => page_frame_map[g]

FirstUnusedDir(d) ==
    ~page_directory_used[d] /\ \A e \in Dirs : e < d => page_directory_used[e]

\* The CPU can go on executing a user program after CR3 := d: the kernel half
\* is mapped (without it the first interrupt or fetch triple-faults) and so is
\* the page the program lives in.
Runnable(d) == d \in Dirs /\ kernel_entry[d] /\ user_entry[d] # NoFrame

-----------------------------------------------------------------------------
\* The operations of paging.c.  Each constrains the variables it assigns.

\* Mutant: the frame is mapped and counted, and not marked.
AllocateUserPageFrameUnmarked(d, page) ==
    /\ free_page_frame_count > 0
    /\ \E f \in Frames :
         /\ FirstFreeFrame(f)
         /\ user_entry' = [user_entry EXCEPT ![d] = f]
    /\ user_page' = [user_page EXCEPT ![d] = page]
    /\ free_page_frame_count' = free_page_frame_count - 1
    /\ UNCHANGED page_frame_map

\* paging_allocate_user_page_frame(d, an address in page).  The caller ignores
\* what it returns: without a free frame it goes on, see Kernel!ExecUnmapped.
AllocateUserPageFrame(d, page) ==
    /\ free_page_frame_count > 0
    /\ \E f \in Frames :
         /\ FirstFreeFrame(f)
         /\ page_frame_map' = [page_frame_map EXCEPT ![f] = TRUE]
         /\ user_entry' = [user_entry EXCEPT ![d] = f]
    /\ user_page' = [user_page EXCEPT ![d] = page]
    /\ free_page_frame_count' = free_page_frame_count - 1

\* Mutant of paging_free_user_page_frame: the frame stays marked.
FreeUserPageFrameKeepsMark(d, page) ==
    /\ free_page_frame_count' = free_page_frame_count + 1
    /\ UNCHANGED page_frame_map

\* paging_free_user_page_frame(d, an address in page): nothing is freed when the
\* directory maps another page.  Without the clearing of the entry, which
\* FreePageDirectory repeats in the same handler.
FreeUserPageFrame(d, page) ==
    IF user_entry[d] # NoFrame /\ user_page[d] = page
      THEN /\ page_frame_map' = [page_frame_map EXCEPT ![user_entry[d]] = FALSE]
           /\ free_page_frame_count' = free_page_frame_count + 1
      ELSE UNCHANGED <<page_frame_map, free_page_frame_count>>

\* Mutant: the kernel's higher half is not copied into the new directory.
CreateNewPageDirectoryWithoutKernel(d) ==
    /\ page_directory_used' = [page_directory_used EXCEPT ![d] = TRUE]
    /\ UNCHANGED kernel_entry

\* paging_create_new_page_directory, which picked d.
CreateNewPageDirectory(d) ==
    /\ page_directory_used' = [page_directory_used EXCEPT ![d] = TRUE]
    /\ kernel_entry' = [kernel_entry EXCEPT ![d] = TRUE]

\* paging_free_page_directory(d): the memset clears every entry, and the mark
\* is set to "used" once more.
FreePageDirectory(d) ==
    /\ page_directory_used' = [page_directory_used EXCEPT ![d] = TRUE]
    /\ user_page' = [user_page EXCEPT ![d] = 0]
    /\ user_entry' = [user_entry EXCEPT ![d] = NoFrame]
    /\ kernel_entry' = [kernel_entry EXCEPT ![d] = FALSE]

\* paging_use_page_directory(d)
UsePageDirectory(d) == cr3' = d
=============================================================================
