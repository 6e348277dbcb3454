---------------------------- MODULE KernelProofs ----------------------------
(***************************************************************************)
(* KernelInv is an invariant of Spec, for every number of processes,       *)
(* frames and directories, and whatever Misuse allows; ContractInv is one  *)
(* for programs that keep to the contract, and with it the kernel is a     *)
(* ProcessService.  First what the operations of the ready queue do to any *)
(* queue of PCBs.                                                          *)
(***************************************************************************)
EXTENDS Kernel, NatLemmas, SequenceTheorems, FunctionTheorems, FiniteSetTheorems, TLAPS

\* Enqueueing below the limit appends: nothing is dropped.
LEMMA EnquedProperties ==
    ASSUME NEW S, NEW q \in Seq(S), NEW p \in S, PCB_QUEUE_MAX \in Nat
    PROVE  /\ Enqued(q, p) \in Seq(S)
           /\ Len(q) <= PCB_QUEUE_MAX => Len(Enqued(q, p)) <= PCB_QUEUE_MAX
           /\ Len(q) < PCB_QUEUE_MAX =>
                /\ Len(Enqued(q, p)) = Len(q) + 1
                /\ Enqued(q, p)[Len(q) + 1] = p
                /\ \A i \in 1 .. Len(q) : Enqued(q, p)[i] = q[i]
  <1>1. /\ Append(q, p) \in Seq(S)
        /\ Len(Append(q, p)) = Len(q) + 1
        /\ Append(q, p)[Len(q) + 1] = p
        /\ \A i \in 1 .. Len(q) : Append(q, p)[i] = q[i]
    BY AppendProperties
  <1>2. Len(q) \in Nat
    BY LenProperties
  <1> QED
    BY <1>1, <1>2 DEF Enqued

\* Dequeueing shifts every other entry one place forward.
LEMMA DequedProperties ==
    ASSUME NEW S, NEW q \in Seq(S)
    PROVE  /\ Dequed(q) \in Seq(S)
           /\ Len(Dequed(q)) <= Len(q)
           /\ q # <<>> => /\ First(q) = q[1]
                          /\ First(q) \in S
                          /\ Len(Dequed(q)) = Len(q) - 1
                          /\ \A i \in 1 .. Len(q) - 1 : Dequed(q)[i] = q[i + 1]
  <1>0. Len(q) \in Nat
    BY LenProperties
  <1>1. CASE q = <<>>
    BY <1>0, <1>1, EmptySeq DEF Dequed
  <1>2. CASE q # <<>>
    <2>1. /\ Head(q) \in S
          /\ Tail(q) \in Seq(S)
          /\ Len(Tail(q)) = Len(q) - 1
          /\ \A i \in 1 .. Len(Tail(q)) : Tail(q)[i] = q[i + 1]
      BY <1>2, HeadTailProperties
    <2>2. Head(q) = q[1]
      BY <1>2
    <2> QED
      BY <1>0, <1>2, <2>1, <2>2 DEF First, Dequed
  <1> QED
    BY <1>1, <1>2

\* Removing a PCB that is queued takes out its first entry and no other.
LEMMA RemovedProperties ==
    ASSUME NEW S, NEW q \in Seq(S), NEW p, Entries(q, p) # {}
    PROVE  /\ FirstEntry(q, p) \in 1 .. Len(q)
           /\ q[FirstEntry(q, p)] = p
           /\ \A j \in 1 .. FirstEntry(q, p) - 1 : q[j] # p
           /\ Removed(q, p) \in Seq(S)
           /\ Len(Removed(q, p)) = Len(q) - 1
           /\ \A j \in 1 .. Len(q) - 1 :
                Removed(q, p)[j] = IF j < FirstEntry(q, p) THEN q[j] ELSE q[j + 1]
  <1>0. Len(q) \in Nat /\ \A i \in 1 .. Len(q) : q[i] \in S
    BY LenProperties
  <1> DEFINE k == FirstEntry(q, p)
  <1>1. k \in Entries(q, p) /\ \A i \in Entries(q, p) : k <= i
    <2>1. Entries(q, p) \subseteq Nat
      BY <1>0 DEF Entries
    <2>2. \E i \in Entries(q, p) : \A j \in Entries(q, p) : i <= j
      BY <2>1, LeastNat
    <2> QED
      BY <2>2 DEF FirstEntry, Min
  <1>2. Removed(q, p) = RemoveAt(q, k)
    BY DEF Removed
  <1> HIDE DEF k
  <1>3. /\ k \in 1 .. Len(q)
        /\ q[k] = p
        /\ \A j \in 1 .. k - 1 : q[j] # p
    <2>1. k \in 1 .. Len(q) /\ q[k] = p
      BY <1>1 DEF Entries
    <2>2. ASSUME NEW j \in 1 .. k - 1 PROVE q[j] # p
      <3>1. j \in 1 .. Len(q) /\ ~(k <= j)
        BY <1>0, <2>1
      <3> QED
        BY <1>1, <3>1 DEF Entries
    <2> QED
      BY <2>1, <2>2
  <1> DEFINE front == SubSeq(q, 1, k - 1)
             back == SubSeq(q, k + 1, Len(q))
  <1>4. /\ front \in Seq(S)
        /\ Len(front) = k - 1
        /\ \A i \in 1 .. k - 1 : front[i] = q[i]
    <2>1. 1 \in Int /\ k - 1 \in Int /\ \A i \in 1 .. k - 1 : q[i] \in S
      BY <1>0, <1>3
    <2> QED
      BY <1>3, <2>1, SubSeqProperties
  <1>5. /\ back \in Seq(S)
        /\ Len(back) = Len(q) - k
        /\ \A i \in 1 .. Len(q) - k : back[i] = q[k + i]
    <2>1. k + 1 \in Int /\ Len(q) \in Int /\ \A i \in k + 1 .. Len(q) : q[i] \in S
      BY <1>0, <1>3
    <2>2. /\ back \in Seq(S)
          /\ Len(back) = IF k + 1 <= Len(q) THEN Len(q) - (k + 1) + 1 ELSE 0
          /\ \A i \in 1 .. Len(q) - (k + 1) + 1 : back[i] = q[k + 1 + i - 1]
      BY <2>1, SubSeqProperties
    <2> QED
      BY <1>0, <1>3, <2>2
  <1>6. Removed(q, p) = front \o back
    <2>1. RemoveAt(q, k) = SubSeq(q, 1, k - 1) \o SubSeq(q, k + 1, Len(q))
      BY Zenon DEF RemoveAt
    <2> QED
      BY <1>2, <2>1
  <1> HIDE DEF front, back
  <1>7. /\ front \o back \in Seq(S)
        /\ Len(front \o back) = Len(front) + Len(back)
        /\ \A i \in 1 .. Len(front) + Len(back) :
             (front \o back)[i] = IF i <= Len(front) THEN front[i]
                                                    ELSE back[i - Len(front)]
    BY <1>4, <1>5, ConcatProperties
  <1>8. \A j \in 1 .. Len(q) - 1 :
          Removed(q, p)[j] = IF j < k THEN q[j] ELSE q[j + 1]
    <2> TAKE j \in 1 .. Len(q) - 1
    <2>1. CASE j < k
      BY <1>0, <1>3, <1>4, <1>5, <1>6, <1>7, <2>1
    <2>2. CASE ~(j < k)
      <3>1. /\ j - (k - 1) \in 1 .. Len(q) - k
            /\ k + (j - (k - 1)) = j + 1
            /\ j \in 1 .. Len(front) + Len(back)
            /\ ~(j <= Len(front))
        BY <1>0, <1>3, <1>4, <1>5, <2>2
      <3>2. back[j - (k - 1)] = q[j + 1]
        BY <1>5, <3>1
      <3>3. (front \o back)[j] = back[j - (k - 1)]
        BY <1>4, <1>7, <3>1
      <3> QED
        BY <1>6, <2>2, <3>2, <3>3
    <2> QED
      BY <2>1, <2>2
  <1>9. Removed(q, p) \in Seq(S) /\ Len(Removed(q, p)) = Len(q) - 1
    BY <1>0, <1>3, <1>4, <1>5, <1>6, <1>7
  <1> QED
    BY <1>3, <1>8, <1>9 DEF k

-----------------------------------------------------------------------------
\* How many places a PCB occupies after each operation.
LEMMA EntriesFinite ==
    ASSUME NEW S, NEW q \in Seq(S), NEW p
    PROVE  /\ IsFiniteSet(Entries(q, p))
           /\ Cardinality(Entries(q, p)) \in Nat
           /\ Cardinality(Entries(q, p)) = 0 <=> Entries(q, p) = {}
  <1>1. Len(q) \in Nat
    BY LenProperties
  <1>2. IsFiniteSet(1 .. Len(q)) /\ Entries(q, p) \in SUBSET (1 .. Len(q))
    BY <1>1, FS_Interval DEF Entries
  <1>3. IsFiniteSet(Entries(q, p))
    BY <1>2, FS_Subset
  <1> QED
    BY <1>3, FS_CardinalityType, FS_EmptySet

LEMMA EntriesEnqued ==
    ASSUME NEW S, NEW q \in Seq(S), NEW p \in S, NEW r,
           PCB_QUEUE_MAX \in Nat, Len(q) < PCB_QUEUE_MAX
    PROVE  Cardinality(Entries(Enqued(q, p), r)) =
             Cardinality(Entries(q, r)) + (IF p = r THEN 1 ELSE 0)
  <1>1. Len(q) \in Nat
    BY LenProperties
  <1>2. /\ Len(Enqued(q, p)) = Len(q) + 1
        /\ Enqued(q, p)[Len(q) + 1] = p
        /\ \A i \in 1 .. Len(q) : Enqued(q, p)[i] = q[i]
    <2>1. /\ Enqued(q, p) \in Seq(S)
          /\ Len(q) <= PCB_QUEUE_MAX => Len(Enqued(q, p)) <= PCB_QUEUE_MAX
          /\ Len(q) < PCB_QUEUE_MAX =>
               /\ Len(Enqued(q, p)) = Len(q) + 1
               /\ Enqued(q, p)[Len(q) + 1] = p
               /\ \A i \in 1 .. Len(q) : Enqued(q, p)[i] = q[i]
      BY EnquedProperties, SMT
    <2> QED
      BY <2>1
  <1>3. IsFiniteSet(Entries(q, r)) /\ Cardinality(Entries(q, r)) \in Nat
    BY EntriesFinite
  <1>4. CASE p = r
    <2>1. Entries(Enqued(q, p), r) = Entries(q, r) \cup {Len(q) + 1}
      BY <1>1, <1>2, <1>4 DEF Entries
    <2>2. Len(q) + 1 \notin Entries(q, r)
      BY <1>1 DEF Entries
    <2> QED
      BY <1>3, <1>4, <2>1, <2>2, FS_AddElement
  <1>5. CASE p # r
    <2>1. Entries(Enqued(q, p), r) = Entries(q, r)
      BY <1>1, <1>2, <1>5 DEF Entries
    <2> QED
      BY <1>3, <1>5, <2>1
  <1> QED
    BY <1>4, <1>5

\* Taking out place k and closing the gap: r loses an entry when it was there.
LEMMA EntriesWithout ==
    ASSUME NEW S, NEW q \in Seq(S), NEW t \in Seq(S), NEW k \in 1 .. Len(q), NEW r,
           Len(t) = Len(q) - 1,
           \A j \in 1 .. Len(q) - 1 : t[j] = IF j < k THEN q[j] ELSE q[j + 1]
    PROVE  Cardinality(Entries(t, r)) =
             Cardinality(Entries(q, r)) - (IF q[k] = r THEN 1 ELSE 0)
  <1>1. Len(q) \in Nat
    BY LenProperties
  <1> DEFINE T == Entries(t, r)
             Q == Entries(q, r) \ {k}
             f == [i \in T |-> IF i < k THEN i ELSE i + 1]
  <1>2. f \in Bijection(T, Q)
    <2>1. \A i \in T : f[i] \in Q
      BY <1>1 DEF Entries
    <2>2. \A i, j \in T : f[i] = f[j] => i = j
      BY <1>1 DEF Entries
    <2>3. ASSUME NEW j \in Q PROVE \E i \in T : f[i] = j
      <3>1. CASE j < k
        BY <1>1, <3>1 DEF Entries
      <3>2. CASE j > k
        <4>1. j - 1 \in T
          BY <1>1, <3>2 DEF Entries
        <4>2. f[j - 1] = j
          BY <1>1, <3>2, <4>1 DEF Entries
        <4> QED
          BY <4>1, <4>2
      <3>3. j \in Nat /\ k \in Nat /\ j # k
        BY <1>1 DEF Entries
      <3>4. j < k \/ j > k
        BY <3>3
      <3> QED
        BY <3>1, <3>2, <3>4
    <2> QED
      BY <2>1, <2>2, <2>3, Fun_IsBij
  <1>3. IsFiniteSet(T) /\ Cardinality(Q) = Cardinality(T)
    <2>1. ExistsBijection(T, Q)
      BY <1>2 DEF ExistsBijection
    <2> QED
      BY <2>1, EntriesFinite, FS_Bijection
  <1>4. Cardinality(Q) = IF k \in Entries(q, r) THEN Cardinality(Entries(q, r)) - 1
                                               ELSE Cardinality(Entries(q, r))
    BY EntriesFinite, FS_RemoveElement
  <1>5. Cardinality(Entries(q, r)) \in Nat
    BY EntriesFinite
  <1> QED
    BY <1>3, <1>4, <1>5 DEF Entries

LEMMA EntriesDequed ==
    ASSUME NEW S, NEW q \in Seq(S), q # <<>>, NEW r
    PROVE  Cardinality(Entries(Dequed(q), r)) =
             Cardinality(Entries(q, r)) - (IF First(q) = r THEN 1 ELSE 0)
  <1>1. Len(q) \in Nat \ {0}
    BY EmptySeq, LenProperties
  <1>2. /\ Dequed(q) \in Seq(S) /\ First(q) = q[1]
        /\ Len(Dequed(q)) = Len(q) - 1
        /\ \A i \in 1 .. Len(q) - 1 : Dequed(q)[i] = q[i + 1]
    BY DequedProperties
  <1>3. 1 \in 1 .. Len(q)
    BY <1>1
  <1>4. \A j \in 1 .. Len(q) - 1 : Dequed(q)[j] = IF j < 1 THEN q[j] ELSE q[j + 1]
    BY <1>1, <1>2
  <1>5. Cardinality(Entries(Dequed(q), r)) =
          Cardinality(Entries(q, r)) - (IF q[1] = r THEN 1 ELSE 0)
    BY <1>2, <1>3, <1>4, EntriesWithout
  <1> QED
    BY <1>2, <1>5

LEMMA EntriesRemoved ==
    ASSUME NEW S, NEW q \in Seq(S), NEW p, Entries(q, p) # {}, NEW r
    PROVE  /\ Removed(q, p) \in Seq(S)
           /\ Len(Removed(q, p)) = Len(q) - 1
           /\ Cardinality(Entries(Removed(q, p), r)) =
                Cardinality(Entries(q, r)) - (IF p = r THEN 1 ELSE 0)
  <1> DEFINE k == FirstEntry(q, p)
  <1>1. /\ k \in 1 .. Len(q)
        /\ q[k] = p
        /\ Removed(q, p) \in Seq(S)
        /\ Len(Removed(q, p)) = Len(q) - 1
        /\ \A j \in 1 .. Len(q) - 1 :
             Removed(q, p)[j] = IF j < k THEN q[j] ELSE q[j + 1]
    BY RemovedProperties
  <1>2. Cardinality(Entries(Removed(q, p), r)) =
          Cardinality(Entries(q, r)) - (IF q[k] = r THEN 1 ELSE 0)
    <2> HIDE DEF k
    <2> QED
      BY <1>1, EntriesWithout
  <1> QED
    BY <1>1, <1>2

-----------------------------------------------------------------------------
\* The constants as numbers, and what the sets built from them contain.
LEMMA Constants ==
    /\ PROCESS_COUNT_MAX \in Nat \ {0}
    /\ PAGE_FRAME_MAX_COUNT \in Nat \ {0}
    /\ PAGING_DIRECTORY_TABLE_MAX_COUNT \in Nat \ {0}
    /\ PCB_QUEUE_MAX \in Nat
    /\ Slots \subseteq Nat /\ NullPcb \notin Slots /\ 0 \in Slots
    /\ Dirs \subseteq Nat /\ NullDir \notin Dirs /\ KernelDir \notin Dirs
    /\ Frames \subseteq Nat /\ NoFrame \notin Frames /\ 0 \in Frames
    /\ 0 \in UserPages /\ UserPages \subseteq Nat
    /\ PROCESS_COUNT_MAX < PAGE_FRAME_MAX_COUNT
    /\ KernelDir # NullDir
    /\ \A s \in Slots : s + 1 \in Pids /\ s + 1 # 0
  BY KernelAssumption, PagingAssumption
     DEF Slots, NullPcb, Dirs, NullDir, KernelDir, Frames, NoFrame, Pids, UserPages

\* Slots and Frames are finite, and so is every subset of them.
LEMMA FiniteSlotsAndFrames ==
    /\ \A S \in SUBSET Slots : /\ IsFiniteSet(S)
                               /\ Cardinality(S) \in 0 .. PROCESS_COUNT_MAX
    /\ \A S \in SUBSET Frames : /\ IsFiniteSet(S)
                                /\ Cardinality(S) \in 0 .. PAGE_FRAME_MAX_COUNT
  <1>1. /\ IsFiniteSet(Slots) /\ Cardinality(Slots) = PROCESS_COUNT_MAX
        /\ IsFiniteSet(Frames) /\ Cardinality(Frames) = PAGE_FRAME_MAX_COUNT
    BY Constants, FS_Interval DEF Slots, Frames
  <1>2. ASSUME NEW S \in SUBSET Slots
        PROVE  IsFiniteSet(S) /\ Cardinality(S) \in 0 .. PROCESS_COUNT_MAX
    <2>1. IsFiniteSet(S) /\ Cardinality(S) <= Cardinality(Slots)
      BY <1>1, FS_Subset
    <2>2. Cardinality(S) \in Nat
      BY <2>1, FS_CardinalityType
    <2> QED
      BY <1>1, <2>1, <2>2, Constants
  <1>3. ASSUME NEW S \in SUBSET Frames
        PROVE  IsFiniteSet(S) /\ Cardinality(S) \in 0 .. PAGE_FRAME_MAX_COUNT
    <2>1. IsFiniteSet(S) /\ Cardinality(S) <= Cardinality(Frames)
      BY <1>1, FS_Subset
    <2>2. Cardinality(S) \in Nat
      BY <2>1, FS_CardinalityType
    <2> QED
      BY <1>1, <2>1, <2>2, Constants
  <1> QED
    BY <1>2, <1>3

\* The running PCB is one of those marked RUNNING, and NULL when none is.
LEMMA CurrentPcbRuns ==
    /\ Running # {} => CurrentPcb \in Running /\ CurrentPcb # NullPcb
    /\ Running = {} => CurrentPcb = NullPcb
  <1>1. Running \subseteq Nat /\ NullPcb \notin Running
    BY Constants DEF Running
  <1>2. Running # {} => \E s \in Running : \A t \in Running : s <= t
    BY <1>1, LeastNat
  <1> QED
    BY <1>1, <1>2 DEF CurrentPcb

-----------------------------------------------------------------------------
\* The boot path loads the shell in page 0.
LEMMA ShellPage == 0 \in UserPages /\ MayLoad(0)
  BY Constants DEF MayLoad

\* What claiming a slot, a directory and a frame preserves.
LEMMA ClaimPreserves ==
    ASSUME KernelInv, NEW s \in Slots, NEW d \in Dirs, NEW page \in UserPages,
           active_process_count < PROCESS_COUNT_MAX, MayLoad(page),
           ClaimProcess(s, d, page)
    PROVE  /\ process_map' \in [Slots -> BOOLEAN]
           /\ active_process_count' \in 0 .. PROCESS_COUNT_MAX
           /\ active_process_count' = active_process_count + 1
           /\ pcb_pid' \in [Slots -> Pids \cup {0}]
           /\ pcb_dir' \in [Slots -> Dirs \cup {NullDir}]
           /\ page_frame_map' \in [Frames -> BOOLEAN]
           /\ free_page_frame_count' \in 0 .. PAGE_FRAME_MAX_COUNT
           /\ free_page_frame_count' = free_page_frame_count - 1
           /\ page_directory_used' \in [Dirs -> BOOLEAN]
           /\ user_page' \in [Dirs -> UserPages]
           /\ user_entry' \in [Dirs -> Frames \cup {NoFrame}]
           /\ kernel_entry' \in [Dirs -> BOOLEAN]
           /\ s \notin Live /\ Live' = Live \cup {s}
           /\ pcb_state[s] = "READY"
           /\ pcb_dir' = [pcb_dir EXCEPT ![s] = d]
           /\ \A t \in Live : pcb_dir[t] # d
           /\ \A e \in Dirs : e # d => Runnable(e)' = Runnable(e)
           /\ Runnable(d)'
           /\ ProcessAccounting' /\ FrameAccounting' /\ FramesExclusive' /\ InPlace'
           /\ \A e \in Dirs : ~page_directory_used'[e] =>
                user_entry'[e] = NoFrame /\ \A t \in Slots : pcb_dir'[t] # e
  <1> USE DEF KernelInv, TypeOK, PagingTypeOK
  <1>1. PICK f \in Frames :
          /\ free_page_frame_count > 0
          /\ ~page_frame_map[f]
          /\ page_frame_map' = [page_frame_map EXCEPT ![f] = TRUE]
          /\ user_entry' = [user_entry EXCEPT ![d] = f]
          /\ user_page' = [user_page EXCEPT ![d] = page]
          /\ free_page_frame_count' = free_page_frame_count - 1
    BY DEF ClaimProcess, AllocateUserPageFrame, FirstFreeFrame
  <1>2. /\ ~process_map[s]
        /\ ~page_directory_used[d]
        /\ process_map' = [process_map EXCEPT ![s] = TRUE]
        /\ active_process_count' = active_process_count + 1
        /\ pcb_pid' = [pcb_pid EXCEPT ![s] = s + 1]
        /\ pcb_dir' = [pcb_dir EXCEPT ![s] = d]
        /\ page_directory_used' = [page_directory_used EXCEPT ![d] = TRUE]
        /\ kernel_entry' = [kernel_entry EXCEPT ![d] = TRUE]
    BY DEF ClaimProcess, FirstInactive, FirstUnusedDir, CreateNewPageDirectory
  <1>3. s + 1 \in Pids /\ s + 1 # 0 /\ d # NullDir /\ f # NoFrame /\ f # 0
    <2>1. page_frame_map[0]
      BY Constants DEF FramesExclusive
    <2> QED
      BY <1>1, <2>1, Constants
  <1>4. /\ process_map' \in [Slots -> BOOLEAN]
        /\ active_process_count' \in 0 .. PROCESS_COUNT_MAX
        /\ pcb_pid' \in [Slots -> Pids \cup {0}]
        /\ pcb_dir' \in [Slots -> Dirs \cup {NullDir}]
    BY <1>2, <1>3, Constants
  <1>5. /\ page_frame_map' \in [Frames -> BOOLEAN]
        /\ free_page_frame_count' \in 0 .. PAGE_FRAME_MAX_COUNT
        /\ page_directory_used' \in [Dirs -> BOOLEAN]
        /\ user_page' \in [Dirs -> UserPages]
        /\ user_entry' \in [Dirs -> Frames \cup {NoFrame}]
        /\ kernel_entry' \in [Dirs -> BOOLEAN]
    BY <1>1, <1>2, Constants
  <1>6. s \notin Live /\ Live' = Live \cup {s} /\ pcb_state[s] = "READY"
    <2>1. pcb_pid[s] = 0
      BY <1>2 DEF ProcessAccounting
    <2>2. s \notin Live /\ s \notin Running
      BY <2>1 DEF Live, NothingLeftOver
    <2>3. pcb_state[s] = "READY"
      BY <2>2 DEF Running, ProcessStates
    <2> QED
      BY <1>2, <1>3, <2>2, <2>3 DEF Live
  <1>7. \A t \in Slots : pcb_dir[t] # d
    BY <1>2 DEF NothingLeftOver
  <1>8. ProcessAccounting'
    <2>1. active_process_count' = Cardinality(Live')
      <3>1. IsFiniteSet(Live)
        BY FiniteSlotsAndFrames DEF Live
      <3>2. Cardinality(Live \cup {s}) = Cardinality(Live) + 1
        BY <1>6, <3>1, FS_AddElement
      <3> QED
        BY <1>2, <1>6, <3>2 DEF ProcessAccounting
    <2>2. ASSUME NEW t \in Slots
          PROVE  /\ pcb_pid'[t] = IF process_map'[t] THEN t + 1 ELSE 0
                 /\ pcb_dir'[t] = NullDir <=> ~process_map'[t]
      BY <1>2, <1>3 DEF ProcessAccounting
    <2> QED
      BY <2>1, <2>2 DEF ProcessAccounting
  <1>9. FrameAccounting'
    <2> DEFINE Free == {g \in Frames : ~page_frame_map[g]}
    <2>1. {g \in Frames : ~page_frame_map'[g]} = Free \ {f}
      BY <1>1
    <2>2. IsFiniteSet(Free) /\ f \in Free
      BY <1>1, FiniteSlotsAndFrames
    <2>3. Cardinality(Free \ {f}) = Cardinality(Free) - 1
      BY <2>2, FS_RemoveElement
    <2> QED
      BY <1>1, <2>1, <2>3 DEF FrameAccounting
  <1>10. FramesExclusive'
    <2>1. \A e \in Dirs : user_entry[e] # f
      BY <1>1, <1>3 DEF FramesExclusive
    <2>2. \A e \in Dirs : user_entry'[e] = IF e = d THEN f ELSE user_entry[e]
      BY <1>1
    <2>3. user_entry[d] = NoFrame
      BY <1>2 DEF NothingLeftOver
    <2>4. \A g \in Frames : page_frame_map'[g] <=> g = f \/ page_frame_map[g]
      BY <1>1
    <2>5. ASSUME NEW e \in Dirs, user_entry'[e] # NoFrame
          PROVE  page_frame_map'[user_entry'[e]] /\ user_entry'[e] # 0
      <3>1. CASE e = d
        BY <1>3, <2>2, <2>4, <3>1
      <3>2. CASE e # d
        <4>1. user_entry'[e] = user_entry[e] /\ user_entry[e] \in Frames
          BY <2>2, <2>5, <3>2
        <4> QED
          BY <2>4, <2>5, <4>1 DEF FramesExclusive
      <3> QED
        BY <3>1, <3>2
    <2>6. page_frame_map'[0] /\ NoFrame # 0
      BY <2>4, Constants DEF FramesExclusive
    <2>7. \A e, g \in Dirs :
            user_entry'[e] # NoFrame /\ user_entry'[e] = user_entry'[g] => e = g
      BY <2>1, <2>2 DEF FramesExclusive
    <2> QED
      BY <2>5, <2>6, <2>7 DEF FramesExclusive
  <1>13. InPlace'
    <2> SUFFICES ASSUME "loaded_elsewhere" \notin Misuse
                 PROVE  UsedFramesAreMapped' /\ \A e \in Dirs : user_page'[e] = 0
      BY DEF InPlace
    <2>1. page = 0
      BY DEF MayLoad
    <2>2. /\ \A e \in Dirs : user_page'[e] = IF e = d THEN page ELSE user_page[e]
          /\ \A e \in Dirs : user_entry'[e] = IF e = d THEN f ELSE user_entry[e]
          /\ \A g \in Frames : page_frame_map'[g] <=> g = f \/ page_frame_map[g]
      BY <1>1
    <2>3. user_entry[d] = NoFrame /\ NoFrame \notin Frames
      BY <1>2, Constants DEF NothingLeftOver
    <2>4. UsedFramesAreMapped'
      BY <2>2, <2>3 DEF InPlace, UsedFramesAreMapped
    <2> QED
      BY <2>1, <2>2, <2>4 DEF InPlace
  <1>11. \A e \in Dirs : /\ e # d => Runnable(e)' = Runnable(e)
                         /\ Runnable(d)'
    BY <1>1, <1>2, <1>3 DEF Runnable
  <1>12. \A e \in Dirs : ~page_directory_used'[e] =>
            user_entry'[e] = NoFrame /\ \A t \in Slots : pcb_dir'[t] # e
    BY <1>1, <1>2 DEF NothingLeftOver
  <1> QED
    BY <1>1, <1>2, <1>4, <1>5, <1>6, <1>7, <1>8, <1>9, <1>10, <1>11, <1>12, <1>13 DEF Live

\* What destroying a live process preserves.
LEMMA DestroyPreserves ==
    ASSUME KernelInv, NEW s \in Live, Destroy(s)
    PROVE  /\ process_map' \in [Slots -> BOOLEAN]
           /\ active_process_count' \in 0 .. PROCESS_COUNT_MAX
           /\ active_process_count' = active_process_count - 1
           /\ pcb_pid' \in [Slots -> Pids \cup {0}]
           /\ pcb_state' \in [Slots -> ProcessStates]
           /\ pcb_dir' \in [Slots -> Dirs \cup {NullDir}]
           /\ pcb_queue' \in Seq(Slots \cup {NullPcb})
           /\ Len(pcb_queue') <= PCB_QUEUE_MAX
           /\ page_frame_map' \in [Frames -> BOOLEAN]
           /\ free_page_frame_count' \in 0 .. PAGE_FRAME_MAX_COUNT
           /\ page_directory_used' \in [Dirs -> BOOLEAN]
           /\ user_page' \in [Dirs -> UserPages]
           /\ user_entry' \in [Dirs -> Frames \cup {NoFrame}]
           /\ kernel_entry' \in [Dirs -> BOOLEAN]
           /\ pcb_dir[s] \in Dirs
           /\ Live' = Live \ {s} /\ Running' = Running \ {s}
           /\ pcb_dir' = [pcb_dir EXCEPT ![s] = NullDir]
           /\ free_page_frame_count' = free_page_frame_count +
                (IF user_entry[pcb_dir[s]] # NoFrame /\ user_page[pcb_dir[s]] = 0
                 THEN 1 ELSE 0)
           /\ \A e \in Dirs : e # pcb_dir[s] => Runnable(e)' = Runnable(e)
           /\ ProcessAccounting' /\ FrameAccounting' /\ FramesExclusive' /\ InPlace'
           /\ \A e \in Dirs : ~page_directory_used'[e] =>
                user_entry'[e] = NoFrame /\ \A t \in Slots : pcb_dir'[t] # e
  <1> USE DEF KernelInv, TypeOK, PagingTypeOK
  <1> DEFINE d == pcb_dir[s]
  <1>1. s \in Slots /\ process_map[s] /\ d \in Dirs
    BY DEF Live, ProcessAccounting
  <1>2. /\ process_map' = [process_map EXCEPT ![s] = FALSE]
        /\ active_process_count' = active_process_count - 1
        /\ pcb_pid' = [pcb_pid EXCEPT ![s] = 0]
        /\ pcb_state' = [pcb_state EXCEPT ![s] = "READY"]
        /\ pcb_dir' = [pcb_dir EXCEPT ![s] = NullDir]
        /\ page_directory_used' = [page_directory_used EXCEPT ![d] = TRUE]
        /\ user_page' = [user_page EXCEPT ![d] = 0]
        /\ user_entry' = [user_entry EXCEPT ![d] = NoFrame]
        /\ kernel_entry' = [kernel_entry EXCEPT ![d] = FALSE]
        /\ pcb_queue' = Removed(pcb_queue, s)
    BY DEF Destroy, FreePageDirectory
  <1> DEFINE freed == user_entry[d] # NoFrame /\ user_page[d] = 0
  <1>3. /\ freed =>
             /\ page_frame_map' = [page_frame_map EXCEPT ![user_entry[d]] = FALSE]
             /\ free_page_frame_count' = free_page_frame_count + 1
        /\ ~freed =>
             /\ page_frame_map' = page_frame_map
             /\ free_page_frame_count' = free_page_frame_count
    BY DEF Destroy, FreeUserPageFrame
  <1>4. Live' = Live \ {s} /\ Running' = Running \ {s}
    BY <1>1, <1>2 DEF Live, Running
  <1>5. ProcessAccounting' /\ active_process_count' \in 0 .. PROCESS_COUNT_MAX
    <2>1. IsFiniteSet(Live) /\ Live' \subseteq Slots
      BY <1>4, FiniteSlotsAndFrames DEF Live
    <2>2. Cardinality(Live \ {s}) = Cardinality(Live) - 1
      BY <2>1, FS_RemoveElement
    <2>3. active_process_count' = Cardinality(Live')
      BY <1>2, <1>4, <2>2 DEF ProcessAccounting
    <2>4. Cardinality(Live') \in 0 .. PROCESS_COUNT_MAX
      BY <2>1, FiniteSlotsAndFrames
    <2>5. ASSUME NEW t \in Slots
          PROVE  /\ pcb_pid'[t] = IF process_map'[t] THEN t + 1 ELSE 0
                 /\ pcb_dir'[t] = NullDir <=> ~process_map'[t]
      BY <1>1, <1>2 DEF ProcessAccounting
    <2> QED
      BY <2>3, <2>4, <2>5 DEF ProcessAccounting
  <1>6. /\ FrameAccounting'
        /\ page_frame_map' \in [Frames -> BOOLEAN]
        /\ free_page_frame_count' \in 0 .. PAGE_FRAME_MAX_COUNT
    <2> DEFINE Free == {g \in Frames : ~page_frame_map[g]}
    <2>1. CASE ~freed
      BY <1>3, <2>1 DEF FrameAccounting
    <2>2. CASE freed
      <3> DEFINE f == user_entry[d]
      <3>1. f \in Frames /\ f \notin Free
        BY <1>1, <2>2 DEF FramesExclusive
      <3>2. {g \in Frames : ~page_frame_map'[g]} = Free \cup {f}
        BY <1>3, <2>2, <3>1
      <3>3. IsFiniteSet(Free) /\ Cardinality(Free \cup {f}) \in 0 .. PAGE_FRAME_MAX_COUNT
        BY <3>1, FiniteSlotsAndFrames
      <3>4. Cardinality(Free \cup {f}) = Cardinality(Free) + 1
        BY <3>1, <3>3, FS_AddElement
      <3>5. page_frame_map' \in [Frames -> BOOLEAN]
        BY <1>3, <2>2, <3>1
      <3>6. free_page_frame_count' = Cardinality(Free \cup {f})
        BY <1>3, <2>2, <3>4 DEF FrameAccounting
      <3>7. FrameAccounting'
        BY <3>2, <3>6 DEF FrameAccounting
      <3> QED
        BY <3>3, <3>5, <3>6, <3>7
    <2> QED
      BY <2>1, <2>2
  <1>7. FramesExclusive'
    <2>1. \A e \in Dirs : user_entry'[e] = IF e = d THEN NoFrame ELSE user_entry[e]
      BY <1>1, <1>2
    <2>2. \A g \in Frames :
            page_frame_map'[g] <=> page_frame_map[g] /\ ~(freed /\ g = user_entry[d])
      BY <1>1, <1>3, Constants
    <2>3. user_entry[d] # 0 /\ NoFrame # 0 /\ NoFrame \notin Frames /\ 0 \in Frames
      BY <1>1, Constants DEF FramesExclusive
    <2> QED
      BY <1>1, <2>1, <2>2, <2>3 DEF FramesExclusive
  <1>12. InPlace'
    <2> SUFFICES ASSUME "loaded_elsewhere" \notin Misuse
                 PROVE  UsedFramesAreMapped' /\ \A e \in Dirs : user_page'[e] = 0
      BY DEF InPlace
    <2>1. /\ \A e \in Dirs : user_entry'[e] = IF e = d THEN NoFrame ELSE user_entry[e]
          /\ \A e \in Dirs : user_page'[e] = 0
      BY <1>1, <1>2 DEF InPlace
    <2>2. ASSUME NEW g \in Frames, page_frame_map'[g]
          PROVE  page_frame_map[g] /\ g # user_entry[d]
      <3>1. user_page[d] = 0 /\ NoFrame \notin Frames
        BY <1>1, Constants DEF InPlace
      <3> QED
        BY <1>1, <1>3, <2>2, <3>1
    <2> QED
      BY <1>1, <2>1, <2>2 DEF InPlace, UsedFramesAreMapped
  <1>8. pcb_queue' \in Seq(Slots \cup {NullPcb}) /\ Len(pcb_queue') <= PCB_QUEUE_MAX
    <2>1. CASE Entries(pcb_queue, s) # {}
      <3>1. Removed(pcb_queue, s) \in Seq(Slots \cup {NullPcb})
            /\ Len(Removed(pcb_queue, s)) = Len(pcb_queue) - 1
        BY <2>1, RemovedProperties
      <3> QED
        BY <1>2, <3>1, Constants
    <2>2. CASE Entries(pcb_queue, s) = {}
      <3>1. Removed(pcb_queue, s) = pcb_queue
        BY <2>2 DEF Removed
      <3> QED
        BY <1>2, <3>1
    <2> QED
      BY <2>1, <2>2
  <1>9. \A e \in Dirs : e # d => Runnable(e)' = Runnable(e)
    BY <1>1, <1>2 DEF Runnable
  <1>10. \A e \in Dirs : ~page_directory_used'[e] =>
            user_entry'[e] = NoFrame /\ \A t \in Slots : pcb_dir'[t] # e
    BY <1>1, <1>2, Constants DEF NothingLeftOver
  <1>11. /\ process_map' \in [Slots -> BOOLEAN]
         /\ pcb_pid' \in [Slots -> Pids \cup {0}]
         /\ pcb_state' \in [Slots -> ProcessStates]
         /\ pcb_dir' \in [Slots -> Dirs \cup {NullDir}]
         /\ page_directory_used' \in [Dirs -> BOOLEAN]
         /\ user_page' \in [Dirs -> UserPages]
         /\ user_entry' \in [Dirs -> Frames \cup {NoFrame}]
         /\ kernel_entry' \in [Dirs -> BOOLEAN]
    BY <1>1, <1>2, Constants DEF ProcessStates
  <1>13. free_page_frame_count' = free_page_frame_count +
            (IF user_entry[pcb_dir[s]] # NoFrame /\ user_page[pcb_dir[s]] = 0
             THEN 1 ELSE 0)
    BY <1>3
  <1> HIDE DEF freed
  <1> QED
    BY <1>1, <1>2, <1>4, <1>5, <1>6, <1>7, <1>8, <1>9, <1>10, <1>11, <1>12, <1>13

-----------------------------------------------------------------------------
\* The state the loader leaves, at power-on and after a power cycle.
LEMMA InitKernelInv == Init => KernelInv
  <1> SUFFICES ASSUME Init PROVE KernelInv
    OBVIOUS
  <1> USE DEF Init, PagingInit, ProcessInit
  <1>1. Live = {} /\ Running = {}
    BY DEF Live, Running
  <1>2. TypeOK
    <2>1. PagingTypeOK
      BY Constants DEF PagingTypeOK
    <2>2. <<>> \in Seq(Slots \cup {NullPcb}) /\ Len(<<>>) = 0
      BY EmptySeq
    <2> QED
      BY <2>1, <2>2, Constants DEF TypeOK, ProcessStates, NoReply
  <1>3. ProcessAccounting
    BY <1>1, FS_EmptySet DEF ProcessAccounting
  <1>4. FrameAccounting
    <2>1. {f \in Frames : ~page_frame_map[f]} = 1 .. PAGE_FRAME_MAX_COUNT - 1
      <3>1. \A f \in Frames : page_frame_map[f] <=> f = 0
        OBVIOUS
      <3>2. {f \in Frames : ~page_frame_map[f]} = {f \in Frames : f # 0}
        BY <3>1, Zenon
      <3>3. {f \in Frames : f # 0} = 1 .. PAGE_FRAME_MAX_COUNT - 1
        BY Constants DEF Frames
      <3> QED
        BY <3>2, <3>3
    <2>2. Cardinality(1 .. PAGE_FRAME_MAX_COUNT - 1) = PAGE_FRAME_MAX_COUNT - 1
      BY Constants, FS_Interval
    <2> QED
      BY <2>1, <2>2 DEF FrameAccounting
  <1>5. /\ FramesExclusive /\ InPlace
        /\ CpuStaysMapped /\ OneRunning /\ NothingLeftOver
    BY <1>1, Constants
       DEF FramesExclusive, InPlace, UsedFramesAreMapped, CpuStaysMapped,
           OneRunning, NothingLeftOver
  <1> QED
    BY <1>2, <1>3, <1>4, <1>5 DEF KernelInv

\* A handler that changes nothing but mode, cr3 and reply keeps the accounts.
LEMMA HaltPreserves == KernelInv /\ Halt => KernelInv'
  <1> SUFFICES ASSUME KernelInv, Halt PROVE KernelInv'
    OBVIOUS
  <1> USE DEF KernelInv, Halt, pagingVars, processVars
  <1>1. Live' = Live /\ Running' = Running
    BY DEF Live, Running
  <1>2. TypeOK'
    BY DEF TypeOK, PagingTypeOK
  <1>3. ProcessAccounting' /\ FrameAccounting' /\ FramesExclusive' /\ InPlace'
    BY <1>1 DEF ProcessAccounting, FrameAccounting, FramesExclusive,
                InPlace, UsedFramesAreMapped
  <1>4. CpuStaysMapped' /\ OneRunning' /\ NothingLeftOver'
    BY <1>1 DEF CpuStaysMapped, OneRunning, NothingLeftOver
  <1> QED
    BY <1>2, <1>3, <1>4

LEMMA RefusePreserves ==
    ASSUME KernelInv, NEW code \in -1 .. 4, Refuse(code)
    PROVE  KernelInv'
  <1> USE DEF KernelInv, Refuse, pagingVars, processVars
  <1>1. Live' = Live /\ Running' = Running /\ \A d : Runnable(d)' = Runnable(d)
    BY DEF Live, Running, Runnable
  <1>2. TypeOK'
    BY DEF TypeOK, PagingTypeOK
  <1>3. ProcessAccounting' /\ FrameAccounting' /\ FramesExclusive' /\ InPlace'
    BY <1>1 DEF ProcessAccounting, FrameAccounting, FramesExclusive,
                InPlace, UsedFramesAreMapped
  <1>4. CpuStaysMapped' /\ OneRunning' /\ NothingLeftOver'
    BY <1>1 DEF CpuStaysMapped, OneRunning, NothingLeftOver
  <1> QED
    BY <1>2, <1>3, <1>4

\* kernel_setup up to the first switch: one claim, then the shell runs.
LEMMA BootPreserves == KernelInv /\ BootShell => KernelInv'
  <1> SUFFICES ASSUME KernelInv, BootShell PROVE KernelInv'
    OBVIOUS
  <1> USE DEF KernelInv
  <1>1. PICK s \in Slots, d \in Dirs :
          /\ ClaimProcess(s, d, 0)
          /\ pcb_state' = [pcb_state EXCEPT ![s] = "RUNNING"]
          /\ pcb_queue' = Enqued(Dequed(Enqued(Dequed(Enqued(pcb_queue, s)), s)), s)
          /\ cr3' = d
    BY DEF BootShell, UsePageDirectory
  <1>2. mode = "boot" /\ mode' = "up" /\ reply' = reply
        /\ active_process_count < PROCESS_COUNT_MAX
    BY DEF BootShell, Admitted
  <1>3. /\ process_map' \in [Slots -> BOOLEAN]
        /\ active_process_count' \in 0 .. PROCESS_COUNT_MAX
        /\ pcb_pid' \in [Slots -> Pids \cup {0}]
        /\ pcb_dir' \in [Slots -> Dirs \cup {NullDir}]
        /\ page_frame_map' \in [Frames -> BOOLEAN]
        /\ free_page_frame_count' \in 0 .. PAGE_FRAME_MAX_COUNT
        /\ page_directory_used' \in [Dirs -> BOOLEAN]
        /\ user_page' \in [Dirs -> UserPages]
        /\ user_entry' \in [Dirs -> Frames \cup {NoFrame}]
        /\ kernel_entry' \in [Dirs -> BOOLEAN]
        /\ Live' = Live \cup {s}
        /\ Runnable(d)'
        /\ ProcessAccounting' /\ FrameAccounting' /\ FramesExclusive' /\ InPlace'
        /\ \A e \in Dirs : ~page_directory_used'[e] =>
             user_entry'[e] = NoFrame /\ \A t \in Slots : pcb_dir'[t] # e
    BY <1>1, <1>2, ShellPage, ClaimPreserves
  <1>4. Running' = {s}
    <2>1. Running = {}
      BY <1>2 DEF NothingLeftOver
    <2> QED
      BY <1>1, <2>1 DEF Running, TypeOK
  <1>5. pcb_queue' \in Seq(Slots \cup {NullPcb}) /\ Len(pcb_queue') <= PCB_QUEUE_MAX
    <2> DEFINE S == Slots \cup {NullPcb}
               OK(q) == q \in Seq(S) /\ Len(q) <= PCB_QUEUE_MAX
    <2>1. \A q \in Seq(S) : OK(q) => OK(Enqued(q, s))
      BY Constants, EnquedProperties
    <2>2. \A q \in Seq(S) : OK(q) => OK(Dequed(q))
      <3> TAKE q \in Seq(S)
      <3>1. Dequed(q) \in Seq(S) /\ Len(Dequed(q)) <= Len(q)
        BY DequedProperties
      <3>2. Len(Dequed(q)) \in Nat /\ Len(q) \in Nat
        BY <3>1, LenProperties
      <3> QED
        BY <3>1, <3>2, Constants
    <2>3. OK(pcb_queue)
      BY DEF TypeOK
    <2> QED
      BY <1>1, <2>1, <2>2, <2>3
  <1>6. TypeOK'
    BY <1>1, <1>2, <1>3, <1>5 DEF TypeOK, PagingTypeOK, ProcessStates
  <1>7. CpuStaysMapped' /\ OneRunning' /\ NothingLeftOver'
    BY <1>1, <1>2, <1>3, <1>4 DEF CpuStaysMapped, OneRunning, NothingLeftOver, Runnable
  <1> QED
    BY <1>3, <1>6, <1>7

LEMMA PowerCyclePreserves == PowerCycle => KernelInv'
  <1> SUFFICES ASSUME PowerCycle PROVE KernelInv'
    OBVIOUS
  <1>1. Init'
    BY DEF PowerCycle, PagingReset, Init, PagingInit, ProcessInit
  <1>2. Init' => KernelInv'
    BY InitKernelInv, PTL
  <1> QED
    BY <1>1, <1>2

LEMMA ExecProcessPreserves ==
    ASSUME KernelInv, NEW size \in ExecSizes, NEW page \in UserPages,
           ExecProcess(size, page)
    PROVE  KernelInv'
  <1> USE DEF KernelInv
  <1>1. PICK s \in Slots, d \in Dirs :
          /\ ClaimProcess(s, d, page)
          /\ pcb_state' = [pcb_state EXCEPT ![s] = "READY"]
          /\ pcb_queue' = Enqued(pcb_queue, s)
    BY DEF ExecProcess
  <1>2. mode = "up" /\ mode' = mode /\ reply' = 0 /\ cr3' = cr3
        /\ active_process_count < PROCESS_COUNT_MAX /\ MayLoad(page)
    BY DEF ExecProcess, Admitted
  <1>3. /\ process_map' \in [Slots -> BOOLEAN]
        /\ active_process_count' \in 0 .. PROCESS_COUNT_MAX
        /\ pcb_pid' \in [Slots -> Pids \cup {0}]
        /\ pcb_dir' \in [Slots -> Dirs \cup {NullDir}]
        /\ page_frame_map' \in [Frames -> BOOLEAN]
        /\ free_page_frame_count' \in 0 .. PAGE_FRAME_MAX_COUNT
        /\ page_directory_used' \in [Dirs -> BOOLEAN]
        /\ user_page' \in [Dirs -> UserPages]
        /\ user_entry' \in [Dirs -> Frames \cup {NoFrame}]
        /\ kernel_entry' \in [Dirs -> BOOLEAN]
        /\ Live' = Live \cup {s} /\ pcb_state[s] = "READY"
        /\ \A e \in Dirs : e # d => Runnable(e)' = Runnable(e)
        /\ Runnable(d)'
        /\ ProcessAccounting' /\ FrameAccounting' /\ FramesExclusive' /\ InPlace'
        /\ \A e \in Dirs : ~page_directory_used'[e] =>
             user_entry'[e] = NoFrame /\ \A t \in Slots : pcb_dir'[t] # e
    BY <1>1, <1>2, ClaimPreserves
  <1>4. Running' = Running /\ pcb_state' \in [Slots -> ProcessStates]
    BY <1>1, <1>3 DEF Running, TypeOK, ProcessStates
  <1>5. pcb_queue' \in Seq(Slots \cup {NullPcb}) /\ Len(pcb_queue') <= PCB_QUEUE_MAX
    BY <1>1, Constants, EnquedProperties DEF TypeOK
  <1>6. TypeOK'
    BY <1>2, <1>3, <1>4, <1>5 DEF TypeOK, PagingTypeOK
  <1>7. CpuStaysMapped'
    <2>1. Runnable(cr3) /\ cr3 \in Dirs
      BY <1>2 DEF CpuStaysMapped, Runnable
    <2>2. Runnable(cr3)'
      BY <1>2, <1>3, <2>1 DEF Runnable
    <2> QED
      BY <2>2 DEF CpuStaysMapped
  <1>8. OneRunning' /\ NothingLeftOver'
    BY <1>2, <1>3, <1>4 DEF OneRunning, NothingLeftOver
  <1> QED
    BY <1>3, <1>6, <1>7, <1>8

LEMMA ExecReadFailurePreserves ==
    ASSUME KernelInv, NEW size \in ExecSizes, NEW page \in UserPages,
           ExecReadFailure(size, page)
    PROVE  KernelInv'
  <1> USE DEF KernelInv
  <1>1. PICK s \in Slots, d \in Dirs : ClaimProcess(s, d, page) /\ cr3' = d
    BY DEF ExecReadFailure, UsePageDirectory
  <1>2. /\ mode = "up" /\ mode' = mode /\ reply' = 4
        /\ pcb_state' = pcb_state /\ pcb_queue' = pcb_queue
        /\ active_process_count < PROCESS_COUNT_MAX /\ MayLoad(page)
    BY DEF ExecReadFailure, Admitted
  <1>3. /\ process_map' \in [Slots -> BOOLEAN]
        /\ active_process_count' \in 0 .. PROCESS_COUNT_MAX
        /\ pcb_pid' \in [Slots -> Pids \cup {0}]
        /\ pcb_dir' \in [Slots -> Dirs \cup {NullDir}]
        /\ page_frame_map' \in [Frames -> BOOLEAN]
        /\ free_page_frame_count' \in 0 .. PAGE_FRAME_MAX_COUNT
        /\ page_directory_used' \in [Dirs -> BOOLEAN]
        /\ user_page' \in [Dirs -> UserPages]
        /\ user_entry' \in [Dirs -> Frames \cup {NoFrame}]
        /\ kernel_entry' \in [Dirs -> BOOLEAN]
        /\ Live' = Live \cup {s}
        /\ Runnable(d)'
        /\ ProcessAccounting' /\ FrameAccounting' /\ FramesExclusive' /\ InPlace'
        /\ \A e \in Dirs : ~page_directory_used'[e] =>
             user_entry'[e] = NoFrame /\ \A t \in Slots : pcb_dir'[t] # e
    BY <1>1, <1>2, ClaimPreserves
  <1>4. Running' = Running
    BY <1>2 DEF Running
  <1>5. TypeOK'
    BY <1>1, <1>2, <1>3 DEF TypeOK, PagingTypeOK
  <1>6. CpuStaysMapped' /\ OneRunning' /\ NothingLeftOver'
    BY <1>1, <1>2, <1>3, <1>4 DEF CpuStaysMapped, OneRunning, NothingLeftOver, Runnable
  <1> QED
    BY <1>3, <1>5, <1>6

LEMMA KillPreserves ==
    ASSUME KernelInv, NEW s \in Slots, KillProcess(s)
    PROVE  KernelInv'
  <1> USE DEF KernelInv
  <1>1. /\ mode = "up" /\ mode' = mode /\ reply' = 0 /\ cr3' = cr3
        /\ s \in Live /\ pcb_dir[s] # cr3 /\ Destroy(s)
    BY DEF KillProcess
  <1>2. /\ process_map' \in [Slots -> BOOLEAN]
        /\ active_process_count' \in 0 .. PROCESS_COUNT_MAX
        /\ pcb_pid' \in [Slots -> Pids \cup {0}]
        /\ pcb_state' \in [Slots -> ProcessStates]
        /\ pcb_dir' \in [Slots -> Dirs \cup {NullDir}]
        /\ pcb_queue' \in Seq(Slots \cup {NullPcb})
        /\ Len(pcb_queue') <= PCB_QUEUE_MAX
        /\ page_frame_map' \in [Frames -> BOOLEAN]
        /\ free_page_frame_count' \in 0 .. PAGE_FRAME_MAX_COUNT
        /\ page_directory_used' \in [Dirs -> BOOLEAN]
        /\ user_page' \in [Dirs -> UserPages]
        /\ user_entry' \in [Dirs -> Frames \cup {NoFrame}]
        /\ kernel_entry' \in [Dirs -> BOOLEAN]
        /\ Live' = Live \ {s} /\ Running' = Running \ {s}
        /\ \A e \in Dirs : e # pcb_dir[s] => Runnable(e)' = Runnable(e)
        /\ ProcessAccounting' /\ FrameAccounting' /\ FramesExclusive' /\ InPlace'
        /\ \A e \in Dirs : ~page_directory_used'[e] =>
             user_entry'[e] = NoFrame /\ \A t \in Slots : pcb_dir'[t] # e
    BY <1>1, DestroyPreserves
  <1>3. TypeOK'
    BY <1>1, <1>2 DEF TypeOK, PagingTypeOK
  <1>4. CpuStaysMapped'
    <2>1. Runnable(cr3) /\ cr3 \in Dirs
      BY <1>1 DEF CpuStaysMapped, Runnable
    <2>2. Runnable(cr3)'
      BY <1>1, <1>2, <2>1 DEF Runnable
    <2> QED
      BY <2>2 DEF CpuStaysMapped
  <1>5. OneRunning' /\ NothingLeftOver'
    BY <1>1, <1>2 DEF OneRunning, NothingLeftOver
  <1> QED
    BY <1>2, <1>3, <1>4, <1>5

-----------------------------------------------------------------------------
\* The timer.  What every switch leaves alone, and what it needs to know of the
\* PCB it resumes.
LEMMA SwitchPreserves ==
    ASSUME KernelInv, mode = "up", mode' = mode, reply' = NoReply,
           UNCHANGED <<process_map, active_process_count, pcb_pid,
                       page_frame_map, free_page_frame_count,
                       page_directory_used, user_page, user_entry, kernel_entry>>,
           pcb_queue' \in Seq(Slots \cup {NullPcb}),
           Len(pcb_queue') <= PCB_QUEUE_MAX,
           pcb_state' \in [Slots -> ProcessStates],
           NEW current \in Slots \cup {NullPcb},
           current # NullPcb => current \in Live,
           pcb_dir' = IF current = NullPcb THEN pcb_dir
                      ELSE [pcb_dir EXCEPT ![current] = cr3],
           Runnable(cr3'),
           OneRunning', Running' \subseteq Live
    PROVE  KernelInv'
  <1> USE DEF KernelInv
  <1>1. /\ cr3 \in Dirs /\ cr3' \in Dirs /\ page_directory_used[cr3]
    BY DEF CpuStaysMapped, Runnable, NothingLeftOver
  <1>2. Live' = Live
    BY DEF Live
  <1>3. pcb_dir' \in [Slots -> Dirs \cup {NullDir}]
    BY <1>1 DEF TypeOK
  <1>4. TypeOK'
    BY <1>1, <1>3 DEF TypeOK, PagingTypeOK, NoReply
  <1>5. ProcessAccounting'
    <2>1. current # NullPcb => current \in Slots /\ process_map[current]
      BY Constants DEF Live, ProcessAccounting
    <2>2. ASSUME NEW t \in Slots PROVE pcb_dir'[t] = NullDir <=> ~process_map[t]
      BY <1>1, <2>1, Constants DEF ProcessAccounting, TypeOK
    <2> QED
      BY <1>2, <2>2 DEF ProcessAccounting
  <1>6. FrameAccounting' /\ FramesExclusive' /\ InPlace'
    BY DEF FrameAccounting, FramesExclusive, InPlace, UsedFramesAreMapped
  <1>7. CpuStaysMapped'
    BY DEF CpuStaysMapped, Runnable
  <1>8. NothingLeftOver'
    BY <1>1, <1>2 DEF NothingLeftOver, TypeOK
  <1> QED
    BY <1>4, <1>5, <1>6, <1>7, <1>8

LEMMA QueueRotates ==
    ASSUME KernelInv, NEW p \in Slots \cup {NullPcb}
    PROVE  /\ Enqued(Dequed(pcb_queue), p) \in Seq(Slots \cup {NullPcb})
           /\ Len(Enqued(Dequed(pcb_queue), p)) <= PCB_QUEUE_MAX
           /\ First(pcb_queue) \in Slots \cup {NullPcb}
  <1> DEFINE S == Slots \cup {NullPcb}
  <1>1. pcb_queue \in Seq(S) /\ Len(pcb_queue) <= PCB_QUEUE_MAX
    BY DEF KernelInv, TypeOK
  <1>2. /\ Dequed(pcb_queue) \in Seq(S)
        /\ Len(Dequed(pcb_queue)) <= Len(pcb_queue)
        /\ pcb_queue # <<>> => First(pcb_queue) \in S
    BY <1>1, DequedProperties
  <1>3. Len(Dequed(pcb_queue)) \in Nat /\ Len(pcb_queue) \in Nat
    BY <1>1, <1>2, LenProperties
  <1>4. First(pcb_queue) \in S
    BY <1>2 DEF First
  <1>5. Len(Dequed(pcb_queue)) <= PCB_QUEUE_MAX
    BY <1>1, <1>2, <1>3, Constants
  <1>6. /\ Enqued(Dequed(pcb_queue), p) \in Seq(S)
        /\ Len(Enqued(Dequed(pcb_queue), p)) <= PCB_QUEUE_MAX
    BY <1>2, <1>5, Constants, EnquedProperties
  <1> QED
    BY <1>4, <1>6

LEMMA TimerPreserves == KernelInv /\ TimerTick => KernelInv'
  <1> SUFFICES ASSUME KernelInv, TimerTick PROVE KernelInv'
    OBVIOUS
  <1> DEFINE current == CurrentPcb
             next == First(pcb_queue)
  <1>1. /\ pcb_state \in [Slots -> ProcessStates]
        /\ Running \subseteq Live /\ Live \subseteq Slots /\ NullPcb \notin Slots
        /\ \A s \in Slots : pcb_dir[s] # NullDir => s \in Live
    BY Constants
       DEF KernelInv, TypeOK, NothingLeftOver, Live, ProcessAccounting
  <1>2. CASE TimerSwitch
    <2>1. /\ mode = "up" /\ mode' = mode /\ reply' = NoReply
          /\ current # NullPcb /\ next # NullPcb
          /\ Runnable(ResumeDir(next))
          /\ pcb_dir' = [pcb_dir EXCEPT ![current] = cr3]
          /\ pcb_state' = [[pcb_state EXCEPT ![current] = "READY"]
                                      EXCEPT ![next] = "RUNNING"]
          /\ pcb_queue' = Enqued(Dequed(pcb_queue), current)
          /\ cr3' = ResumeDir(next)
          /\ UNCHANGED <<process_map, active_process_count, pcb_pid,
                         page_frame_map, free_page_frame_count,
                         page_directory_used, user_page, user_entry, kernel_entry>>
      BY <1>2 DEF TimerSwitch, UsePageDirectory
    <2>2. Running = {current} /\ current \in Live
      BY <1>1, <2>1, CurrentPcbRuns DEF KernelInv, OneRunning
    <2>3. next \in Slots
      BY <2>1, QueueRotates
    <2>4. next \in Live
      BY <1>1, <2>1, <2>2, <2>3, Constants DEF ResumeDir, Runnable
    <2>5. /\ Running' = {next}
          /\ pcb_state' \in [Slots -> ProcessStates]
      BY <1>1, <2>1, <2>2, <2>3 DEF Running, ProcessStates
    <2>6. OneRunning' /\ Running' \subseteq Live
      BY <2>4, <2>5 DEF OneRunning
    <2> QED
      <3> HIDE DEF current, next
      <3> QED
        BY <1>1, <2>1, <2>2, <2>5, <2>6, QueueRotates, SwitchPreserves
  <1>3. CASE TimerSwitchDetached
    <2>1. /\ mode = "up" /\ mode' = mode /\ reply' = NoReply
          /\ current = NullPcb /\ next # NullPcb
          /\ Runnable(pcb_dir[next])
          /\ pcb_dir' = pcb_dir
          /\ pcb_state' = [pcb_state EXCEPT ![next] = "RUNNING"]
          /\ pcb_queue' = Enqued(Dequed(pcb_queue), NullPcb)
          /\ cr3' = pcb_dir[next]
          /\ UNCHANGED <<process_map, active_process_count, pcb_pid,
                         page_frame_map, free_page_frame_count,
                         page_directory_used, user_page, user_entry, kernel_entry>>
      BY <1>3 DEF TimerSwitchDetached, UsePageDirectory
    <2>2. Running = {}
      BY <2>1, CurrentPcbRuns
    <2>3. next \in Slots /\ next \in Live
      BY <1>1, <2>1, QueueRotates, Constants DEF Runnable
    <2>4. Running' = {next} /\ pcb_state' \in [Slots -> ProcessStates]
      BY <1>1, <2>1, <2>2, <2>3 DEF Running, ProcessStates
    <2>5. OneRunning' /\ Running' \subseteq Live
      BY <2>3, <2>4 DEF OneRunning
    <2> QED
      <3> HIDE DEF current, next
      <3> QED
        BY <2>1, <2>4, <2>5, QueueRotates, SwitchPreserves
  <1>4. CASE TimerResumeDetached
    <2>1. /\ mode = "up" /\ mode' = mode /\ reply' = NoReply
          /\ pcb_queue' = Enqued(Dequed(pcb_queue), NullPcb)
          /\ pcb_dir' = pcb_dir /\ pcb_state' = pcb_state /\ cr3' = cr3
          /\ UNCHANGED <<process_map, active_process_count, pcb_pid,
                         page_frame_map, free_page_frame_count,
                         page_directory_used, user_page, user_entry, kernel_entry>>
      BY <1>4 DEF TimerResumeDetached, pagingVars, processVars
    <2>2. Running' = Running
      BY <2>1 DEF Running
    <2>3. OneRunning' /\ Running' \subseteq Live /\ Runnable(cr3')
      BY <1>1, <2>1, <2>2 DEF OneRunning, KernelInv, CpuStaysMapped
    <2> QED
      BY <1>1, <2>1, <2>3, QueueRotates, SwitchPreserves
  <1>5. CASE TimerCrash
    BY <1>5, HaltPreserves DEF TimerCrash
  <1> QED
    BY <1>2, <1>3, <1>4, <1>5 DEF TimerTick

-----------------------------------------------------------------------------
\* Every step keeps the invariant.
LEMMA NextKernelInv == KernelInv /\ [Next]_vars => KernelInv'
  <1> SUFFICES ASSUME KernelInv, [Next]_vars PROVE KernelInv'
    OBVIOUS
  <1>1. CASE BootShell
    BY <1>1, BootPreserves
  <1>2. CASE BootWithoutShell
    BY <1>2, HaltPreserves DEF BootWithoutShell
  <1>3. CASE PowerCycle
    BY <1>3, PowerCyclePreserves
  <1>4. CASE TimerTick
    BY <1>4, TimerPreserves
  <1>5. CASE Exec
    <2>1. CASE ExecTooManyProcesses
      BY <2>1, RefusePreserves DEF ExecTooManyProcesses
    <2>2. CASE ExecInvalidEntrypoint
      BY <2>2, RefusePreserves DEF ExecInvalidEntrypoint
    <2>3. ASSUME NEW size \in ExecSizes, ExecNotEnoughMemory(size)
          PROVE  KernelInv'
      BY <2>3, RefusePreserves DEF ExecNotEnoughMemory
    <2>4. ASSUME NEW size \in ExecSizes,
                 ExecWithoutDirectory(size) \/ ExecUnmapped(size)
          PROVE  KernelInv'
      BY <2>4, HaltPreserves DEF ExecWithoutDirectory, ExecUnmapped
    <2>5. ASSUME NEW size \in ExecSizes, NEW page \in UserPages,
                 ExecReadCrash(size, page)
          PROVE  KernelInv'
      BY <2>5, HaltPreserves DEF ExecReadCrash
    <2> QED
      BY <1>5, <2>1, <2>2, <2>3, <2>4, <2>5, ExecProcessPreserves,
         ExecReadFailurePreserves DEF Exec
  <1>6. CASE Kill
    <2>1. ASSUME NEW p, KillUnknown(p) PROVE KernelInv'
      BY <2>1, RefusePreserves DEF KillUnknown
    <2>2. CASE KillZero
      BY <2>2, RefusePreserves DEF KillZero
    <2>3. ASSUME NEW s \in Slots, KillCrash(s) PROVE KernelInv'
      BY <2>3, HaltPreserves DEF KillCrash
    <2> QED
      BY <1>6, <2>1, <2>2, <2>3, KillPreserves DEF Kill
  <1>7. CASE UNCHANGED vars
    <2> USE <1>7 DEF vars, pagingVars, processVars
    <2>1. Live' = Live /\ Running' = Running /\ \A d : Runnable(d)' = Runnable(d)
      BY DEF Live, Running, Runnable
    <2>2. TypeOK'
      BY DEF KernelInv, TypeOK, PagingTypeOK
    <2>3. /\ ProcessAccounting' /\ FrameAccounting' /\ FramesExclusive' /\ InPlace'
          /\ CpuStaysMapped' /\ OneRunning' /\ NothingLeftOver'
      BY <2>1 DEF KernelInv, ProcessAccounting, FrameAccounting,
                  FramesExclusive, InPlace, UsedFramesAreMapped,
                  CpuStaysMapped, OneRunning, NothingLeftOver
    <2> QED
      BY <2>2, <2>3 DEF KernelInv
  <1>8. CASE StackFault
    BY <1>8, HaltPreserves DEF StackFault
  <1> QED
    BY <1>1, <1>2, <1>3, <1>4, <1>5, <1>6, <1>7, <1>8 DEF Next

\* Types, accounts and ownership hold in every reachable state, of programs
\* that keep to the contract and of programs that do not.
THEOREM KernelInvariant == Spec => []KernelInv
  <1>1. Init => KernelInv
    BY InitKernelInv
  <1>2. KernelInv /\ [Next]_vars => KernelInv'
    BY NextKernelInv
  <1> QED
    BY <1>1, <1>2, PTL DEF Spec

\* Every value stays in its range, the ready queue within its array.
THEOREM TypesHold == Spec => []TypeOK
  BY KernelInvariant, PTL DEF KernelInv

\* The slot map, the process counter and the PCBs never drift apart, whatever
\* is executed, killed or refused, in whatever order.
THEOREM ProcessAccountsAgree == Spec => []ProcessAccounting
  BY KernelInvariant, PTL DEF KernelInv

\* The free-frame counter is the number of free frames, always: nothing is freed
\* twice and no handler forgets to count.
THEOREM FrameAccountsAgree == Spec => []FrameAccounting
  BY KernelInvariant, PTL DEF KernelInv

\* No two directories map one frame, none maps the kernel's, and a frame that is
\* mapped is marked used.
THEOREM FramesAreExclusive == Spec => []FramesExclusive
  BY KernelInvariant, PTL DEF KernelInv

\* Of programs that load in page 0, a frame that is marked used is mapped: no
\* sequence of failed execs and kills, of oneself and of half-created processes
\* too, loses one.
THEOREM UsedFramesStayMapped ==
    "loaded_elsewhere" \notin Misuse /\ Spec => []UsedFramesAreMapped
  <1>1. "loaded_elsewhere" \notin Misuse /\ KernelInv => UsedFramesAreMapped
    BY DEF KernelInv, InPlace
  <1>2. CASE "loaded_elsewhere" \notin Misuse
    <2>1. KernelInv => UsedFramesAreMapped
      BY <1>1, <1>2
    <2> QED
      BY <2>1, KernelInvariant, PTL
  <1>3. CASE "loaded_elsewhere" \in Misuse
    BY <1>3
  <1> QED
    BY <1>2, <1>3

\* While the machine is up, the directory in CR3 maps the kernel and a program.
THEOREM CpuIsMapped == Spec => []CpuStaysMapped
  BY KernelInvariant, PTL DEF KernelInv

\* There are never two RUNNING PCBs.
THEOREM AtMostOneRuns == Spec => []OneRunning
  BY KernelInvariant, PTL DEF KernelInv

\* Nothing of a destroyed process outlives it in a PCB or an unused directory.
THEOREM NothingIsLeftOver == Spec => []NothingLeftOver
  BY KernelInvariant, PTL DEF KernelInv

-----------------------------------------------------------------------------
\* Whatever Misuse allows, which frames a step loses.

\* A claim marks the frame it maps.
LEMMA ClaimLosesNone ==
    ASSUME KernelInv, NEW s \in Slots, NEW d \in Dirs, NEW page,
           ClaimProcess(s, d, page)
    PROVE  Lost' \subseteq Lost
  <1>1. PICK f \in Frames :
          /\ page_frame_map' = [page_frame_map EXCEPT ![f] = TRUE]
          /\ user_entry' = [user_entry EXCEPT ![d] = f]
    BY DEF ClaimProcess, AllocateUserPageFrame
  <1>2. user_entry[d] = NoFrame /\ NoFrame \notin Frames
    BY Constants DEF ClaimProcess, FirstUnusedDir, KernelInv, NothingLeftOver
  <1>3. /\ \A g \in Frames : page_frame_map'[g] <=> g = f \/ page_frame_map[g]
        /\ \A e \in Dirs : user_entry'[e] = IF e = d THEN f ELSE user_entry[e]
    BY <1>1 DEF KernelInv, TypeOK, PagingTypeOK
  <1> QED
    BY <1>2, <1>3 DEF Lost

\* A kill loses the frame of its target if that was loaded elsewhere, and no
\* other.
LEMMA KillLosesOwn ==
    ASSUME KernelInv, NEW s \in Slots, KillProcess(s)
    PROVE  FramesLostToKills
  <1> DEFINE d == pcb_dir[s]
  <1>1. s \in Live /\ Destroy(s)
    BY DEF KillProcess
  <1>2. d \in Dirs /\ Live' = Live \ {s}
    BY <1>1, DestroyPreserves
  <1>3. /\ user_entry' = [user_entry EXCEPT ![d] = NoFrame]
        /\ user_entry[d] # NoFrame /\ user_page[d] = 0 =>
             page_frame_map' = [page_frame_map EXCEPT ![user_entry[d]] = FALSE]
        /\ ~(user_entry[d] # NoFrame /\ user_page[d] = 0) =>
             page_frame_map' = page_frame_map
    BY <1>1 DEF Destroy, FreeUserPageFrame, FreePageDirectory
  <1>4. ASSUME NEW f \in Lost' \ Lost
        PROVE  user_entry[d] = f /\ user_page[d] # 0
    <2>1. f \in Frames /\ f # 0 /\ page_frame_map'[f] /\ NoFrame \notin Frames
      BY <1>4, Constants DEF Lost
    <2>2. page_frame_map[f] /\ (user_page[d] = 0 => user_entry[d] # f)
      BY <1>2, <1>3, <2>1 DEF KernelInv, TypeOK, PagingTypeOK
    <2>3. PICK e \in Dirs : user_entry[e] = f
      BY <1>4, <2>1, <2>2 DEF Lost
    <2>4. user_entry'[e] # f
      BY <1>4 DEF Lost
    <2>5. e = d
      BY <1>2, <1>3, <2>3, <2>4 DEF KernelInv, TypeOK, PagingTypeOK
    <2> QED
      BY <2>2, <2>3, <2>5
  <1> QED
    BY <1>1, <1>2, <1>4 DEF FramesLostToKills

LEMMA QuietLosesNone ==
    ASSUME UNCHANGED <<page_frame_map, user_entry>>
    PROVE  Lost' \subseteq Lost
  BY DEF Lost

LEMMA NextLosesToKills == KernelInv /\ [Next]_vars => FramesLostToKills
  <1> SUFFICES ASSUME KernelInv, [Next]_vars PROVE FramesLostToKills
    OBVIOUS
  <1>0. Lost' \subseteq Lost => FramesLostToKills
    BY DEF FramesLostToKills
  <1>1. Halt => Lost' \subseteq Lost
    BY QuietLosesNone DEF Halt, pagingVars
  <1>2. \A code : Refuse(code) => Lost' \subseteq Lost
    BY QuietLosesNone DEF Refuse, pagingVars
  <1>3. CASE BootShell
    BY <1>0, <1>3, ClaimLosesNone DEF BootShell
  <1>4. CASE PowerCycle
    BY <1>0, <1>4 DEF PowerCycle, PagingReset, Lost
  <1>5. CASE BootWithoutShell \/ StackFault \/ TimerCrash
    BY <1>0, <1>1, <1>5 DEF BootWithoutShell, StackFault, TimerCrash
  <1>6. CASE TimerSwitch \/ TimerSwitchDetached \/ TimerResumeDetached
    <2>1. UNCHANGED <<page_frame_map, user_entry>>
      BY <1>6 DEF TimerSwitch, TimerSwitchDetached, TimerResumeDetached, pagingVars
    <2> QED
      BY <1>0, <2>1, QuietLosesNone
  <1>7. CASE Exec
    <2>1. CASE ExecTooManyProcesses \/ ExecInvalidEntrypoint
      BY <1>0, <1>2, <2>1 DEF ExecTooManyProcesses, ExecInvalidEntrypoint
    <2>2. ASSUME NEW size \in ExecSizes,
                 ExecNotEnoughMemory(size) \/ ExecUnmapped(size)
                 \/ ExecWithoutDirectory(size)
          PROVE  FramesLostToKills
      BY <1>0, <1>1, <1>2, <2>2
         DEF ExecNotEnoughMemory, ExecUnmapped, ExecWithoutDirectory
    <2>3. ASSUME NEW size \in ExecSizes, NEW page \in UserPages,
                 ExecProcess(size, page) \/ ExecReadFailure(size, page)
          PROVE  FramesLostToKills
      BY <1>0, <2>3, ClaimLosesNone DEF ExecProcess, ExecReadFailure
    <2>4. ASSUME NEW size \in ExecSizes, NEW page \in UserPages,
                 ExecReadCrash(size, page)
          PROVE  FramesLostToKills
      BY <1>0, <1>1, <2>4 DEF ExecReadCrash
    <2> QED
      BY <1>7, <2>1, <2>2, <2>3, <2>4 DEF Exec
  <1>8. CASE Kill
    <2>1. ASSUME NEW p, KillUnknown(p) PROVE FramesLostToKills
      BY <1>0, <1>2, <2>1 DEF KillUnknown
    <2>2. CASE KillZero
      BY <1>0, <1>2, <2>2 DEF KillZero
    <2>3. ASSUME NEW s \in Slots, KillCrash(s) PROVE FramesLostToKills
      BY <1>0, <1>1, <2>3 DEF KillCrash
    <2> QED
      BY <1>8, <2>1, <2>2, <2>3, KillLosesOwn DEF Kill
  <1>9. CASE UNCHANGED vars
    BY <1>0, <1>9, QuietLosesNone DEF vars, pagingVars
  <1> QED
    BY <1>3, <1>4, <1>5, <1>6, <1>7, <1>8, <1>9 DEF Next, TimerTick

\* A frame is lost only with the process that had it, by a kill, and only when
\* that process was loaded in another page than page 0: the one hole in the
\* accounts of the frames, whatever programs do.
THEOREM FramesLostOnlyToKills == Spec => NoFrameIsLost
  <1>1. KernelInv /\ [Next]_vars => [FramesLostToKills]_vars
    BY NextLosesToKills
  <1> QED
    BY <1>1, KernelInvariant, PTL DEF Spec, NoFrameIsLost

-----------------------------------------------------------------------------
\* What the kernel gives programs that keep to its contract, Misuse = {}: it never
\* halts, every process holds its turns in the queue, its frame and its address space,
\* and whatever a process held comes back.

\* In terms of turns: who is queued, and for how long the queue is.
LEMMA TurnFacts ==
    ASSUME ContractInv, mode = "up"
    PROVE  /\ CurrentPcb \in Live /\ Running = {CurrentPcb}
           /\ InitSlot \in Live
           /\ pcb_queue \in Seq(Slots \cup {NullPcb})
           /\ Len(pcb_queue) \in 1 .. PROCESS_COUNT_MAX
           /\ pcb_queue # <<>>
           /\ First(pcb_queue) \in Live
           /\ \A p \in Slots \cup {NullPcb} :
                /\ Cardinality(Entries(pcb_queue, p)) \in Nat
                /\ p \in Live /\ p # CurrentPcb => Entries(pcb_queue, p) # {}
           /\ NullPcb \notin Live
  <1> USE DEF ContractInv
  <1>1. CurrentPcb \in Running /\ NullPcb \notin Live /\ Live \subseteq Slots
    BY CurrentPcbRuns, Constants DEF AddressSpacesPrivate, Live
  <1>2. CurrentPcb \in Live /\ Running = {CurrentPcb}
    BY <1>1 DEF KernelInv, NothingLeftOver, OneRunning
  <1>3. pcb_queue \in Seq(Slots \cup {NullPcb})
    BY DEF KernelInv, TypeOK
  <1>4. ASSUME NEW p \in Slots \cup {NullPcb}
        PROVE  /\ Cardinality(Entries(pcb_queue, p)) \in Nat
               /\ Cardinality(Entries(pcb_queue, p)) = 0 <=> Entries(pcb_queue, p) = {}
    BY <1>3, EntriesFinite
  <1>5. ASSUME NEW p \in Slots \cup {NullPcb}, p \in Live, p # CurrentPcb
        PROVE  Entries(pcb_queue, p) # {}
    BY <1>4, <1>5 DEF TurnsConserved, Turns
  <1>6. ASSUME NEW p \in Slots \cup {NullPcb}, p \notin Live
        PROVE  Entries(pcb_queue, p) = {}
    <2>1. Turns(p) = 0
      BY <1>6 DEF TurnsConserved
    <2> QED
      BY <1>2, <1>4, <1>6, <2>1 DEF Turns
  <1>7. Len(pcb_queue) = active_process_count /\ active_process_count = Cardinality(Live)
    BY DEF EnqueNeverDrops, KernelInv, ProcessAccounting
  <1>8. Len(pcb_queue) \in 1 .. PROCESS_COUNT_MAX
    <2>1. IsFiniteSet(Live) /\ Cardinality(Live) \in 0 .. PROCESS_COUNT_MAX
      BY <1>1, FiniteSlotsAndFrames
    <2>2. Cardinality(Live) # 0
      BY <1>2, <2>1, FS_EmptySet
    <2> QED
      BY <1>7, <2>1, <2>2, Constants
  <1>9. pcb_queue # <<>>
    BY <1>3, <1>8, EmptySeq
  <1>10. First(pcb_queue) \in Live
    <2>1. First(pcb_queue) = pcb_queue[1] /\ First(pcb_queue) \in Slots \cup {NullPcb}
      BY <1>3, <1>9, DequedProperties
    <2>2. 1 \in Entries(pcb_queue, First(pcb_queue))
      BY <1>8, <2>1, Constants DEF Entries
    <2> QED
      BY <1>6, <2>1, <2>2
  <1>11. InitSlot \in Live
    BY DEF AddressSpacesPrivate
  <1> QED
    BY <1>1, <1>2, <1>3, <1>4, <1>5, <1>8, <1>9, <1>10, <1>11

-----------------------------------------------------------------------------
LEMMA ContractBoot == ContractInv /\ BootShell => ContractInv'
  <1> SUFFICES ASSUME ContractInv, BootShell PROVE ContractInv'
    OBVIOUS
  <1> USE DEF ContractInv
  <1>1. PICK s \in Slots, d \in Dirs :
          /\ ClaimProcess(s, d, 0)
          /\ pcb_state' = [pcb_state EXCEPT ![s] = "RUNNING"]
          /\ pcb_queue' = Enqued(Dequed(Enqued(Dequed(Enqued(pcb_queue, s)), s)), s)
          /\ cr3' = d
    BY DEF BootShell, UsePageDirectory
  <1>2. /\ mode = "boot" /\ mode' = "up"
        /\ active_process_count = 0 /\ active_process_count < PROCESS_COUNT_MAX
        /\ free_page_frame_count = PAGE_FRAME_MAX_COUNT - 1
        /\ pcb_queue = <<>> /\ Running = {}
    BY DEF BootShell, Admitted, KernelInv, NothingLeftOver
  <1>3. /\ active_process_count' = 1
        /\ free_page_frame_count' = free_page_frame_count - 1
        /\ Live' = Live \cup {s}
        /\ pcb_dir' = [pcb_dir EXCEPT ![s] = d]
        /\ Runnable(d)'
    BY <1>1, <1>2, ShellPage, ClaimPreserves
  <1>4. Live = {}
    <2>1. IsFiniteSet(Live) /\ Cardinality(Live) = 0
      BY <1>2, FiniteSlotsAndFrames DEF Live, KernelInv, ProcessAccounting
    <2> QED
      BY <2>1, FS_EmptySet
  <1>5. s = InitSlot
    <2>1. \A t \in Slots : ~process_map[t]
      BY <1>4, Constants DEF Live, KernelInv, ProcessAccounting
    <2> QED
      BY <1>1, <2>1, Constants DEF ClaimProcess, FirstInactive, InitSlot, Slots
  <1>6. KernelInv'
    BY BootPreserves
  <1>7. Running' = {s} /\ CurrentPcb' = s
    <2>1. Running' = {s}
      BY <1>1, <1>2 DEF Running, KernelInv, TypeOK
    <2>2. (Running # {} => CurrentPcb \in Running)'
      <3>1. Running # {} => CurrentPcb \in Running
        BY CurrentPcbRuns
      <3> QED
        BY CurrentPcbRuns, PTL
    <2> QED
      BY <2>1, <2>2
  <1>8. pcb_queue' = <<s>>
    <2>1. PCB_QUEUE_MAX >= 1
      BY KernelAssumption
    <2>2. Enqued(<<>>, s) = <<s>>
      <3>1. Len(<<>>) = 0 /\ Append(<<>>, s) = <<s>>
        OBVIOUS
      <3> QED
        BY <2>1, <3>1, Constants DEF Enqued
    <2>3. Dequed(<<s>>) = <<>>
      <3>1. <<s>> # <<>> /\ Tail(<<s>>) = <<>>
        OBVIOUS
      <3> QED
        BY <3>1 DEF Dequed
    <2> QED
      BY <1>1, <1>2, <2>2, <2>3
  <1>9. NeverHalts' /\ FramesFollowProcesses' /\ EnqueNeverDrops'
    BY <1>2, <1>3, <1>8, Constants
       DEF NeverHalts, FramesFollowProcesses, EnqueNeverDrops
  <1>10. TurnsConserved'
    <2> SUFFICES ASSUME NEW p \in Slots \cup {NullPcb}
                 PROVE  Turns(p)' = IF p \notin Live' THEN 0
                                    ELSE IF p = InitSlot THEN 2 ELSE 1
      BY DEF TurnsConserved
    <2>1. Live' = {s}
      BY <1>3, <1>4
    <2>2. Entries(<<s>>, p) = IF p = s THEN {1} ELSE {}
      BY DEF Entries
    <2>3. Turns(p)' = Cardinality(Entries(<<s>>, p)) + (IF p = s THEN 1 ELSE 0)
      BY <1>7, <1>8 DEF Turns
    <2>4. Cardinality(Entries(<<s>>, p)) = IF p = s THEN 1 ELSE 0
      BY <2>2, FS_EmptySet, FS_Singleton
    <2> QED
      BY <1>5, <2>1, <2>3, <2>4
  <1>11. AddressSpacesPrivate'
    BY <1>1, <1>3, <1>4, <1>5, <1>7, Constants
       DEF AddressSpacesPrivate, KernelInv, TypeOK
  <1> QED
    BY <1>6, <1>9, <1>10, <1>11

LEMMA ContractExec ==
    ASSUME ContractInv, NEW size \in ExecSizes, NEW page \in UserPages,
           ExecProcess(size, page)
    PROVE  ContractInv'
  <1> USE DEF ContractInv
  <1>1. PICK s \in Slots, d \in Dirs :
          /\ ClaimProcess(s, d, page)
          /\ pcb_state' = [pcb_state EXCEPT ![s] = "READY"]
          /\ pcb_queue' = Enqued(pcb_queue, s)
    BY DEF ExecProcess
  <1>2. /\ mode = "up" /\ mode' = mode /\ cr3' = cr3
        /\ active_process_count < PROCESS_COUNT_MAX /\ MayLoad(page)
    BY DEF ExecProcess, Admitted
  <1>3. /\ active_process_count' = active_process_count + 1
        /\ free_page_frame_count' = free_page_frame_count - 1
        /\ s \notin Live /\ Live' = Live \cup {s}
        /\ pcb_state[s] = "READY"
        /\ pcb_dir' = [pcb_dir EXCEPT ![s] = d]
        /\ \A t \in Live : pcb_dir[t] # d
        /\ \A e \in Dirs : e # d => Runnable(e)' = Runnable(e)
        /\ Runnable(d)'
    BY <1>1, <1>2, ClaimPreserves
  <1>4. KernelInv'
    BY ExecProcessPreserves
  <1>5. Running' = Running /\ CurrentPcb' = CurrentPcb
    <2>1. Running' = Running
      BY <1>1, <1>3 DEF Running, KernelInv, TypeOK, ProcessStates
    <2> QED
      BY <2>1 DEF CurrentPcb
  <1>6. Len(pcb_queue) < PCB_QUEUE_MAX /\ Len(pcb_queue) \in Nat
    BY <1>2, KernelAssumption, Constants
       DEF EnqueNeverDrops, KernelInv, TypeOK
  <1>7. pcb_queue \in Seq(Slots \cup {NullPcb})
    BY DEF KernelInv, TypeOK
  <1>8. NeverHalts' /\ FramesFollowProcesses' /\ EnqueNeverDrops'
    <2>1. Len(pcb_queue') = Len(pcb_queue) + 1
      BY <1>1, <1>6, <1>7, Constants, EnquedProperties
    <2> QED
      BY <1>2, <1>3, <2>1, Constants
         DEF NeverHalts, FramesFollowProcesses, EnqueNeverDrops, KernelInv,
             TypeOK, PagingTypeOK
  <1>9. TurnsConserved'
    <2> SUFFICES ASSUME NEW p \in Slots \cup {NullPcb}
                 PROVE  Turns(p)' = IF p \notin Live' THEN 0
                                    ELSE IF p = InitSlot THEN 2 ELSE 1
      BY DEF TurnsConserved
    <2>1. Cardinality(Entries(pcb_queue', p)) =
            Cardinality(Entries(pcb_queue, p)) + (IF s = p THEN 1 ELSE 0)
      BY <1>1, <1>6, <1>7, Constants, EntriesEnqued
    <2>2. Turns(p) = IF p \notin Live THEN 0 ELSE IF p = InitSlot THEN 2 ELSE 1
      BY <1>2 DEF TurnsConserved
    <2>3. /\ s # CurrentPcb /\ s # InitSlot
          /\ Cardinality(Entries(pcb_queue, p)) \in Nat
      BY <1>2, <1>3, TurnFacts
    <2>4. Turns(p)' = Turns(p) + (IF s = p THEN 1 ELSE 0)
      BY <1>5, <2>1, <2>3 DEF Turns
    <2> QED
      BY <1>3, <2>2, <2>3, <2>4
  <1>10. AddressSpacesPrivate'
    <2>1. /\ CurrentPcb \in Live /\ InitSlot \in Live /\ cr3 = pcb_dir[CurrentPcb]
          /\ CurrentPcb # NullPcb
          /\ \A t, u \in Live : pcb_dir[t] = pcb_dir[u] => t = u
          /\ \A t \in Live : Runnable(pcb_dir[t]) /\ pcb_dir[t] \in Dirs
      BY <1>2, TurnFacts DEF AddressSpacesPrivate, Runnable
    <2>2. \A t \in Slots : pcb_dir'[t] = IF t = s THEN d ELSE pcb_dir[t]
      BY <1>3 DEF KernelInv, TypeOK
    <2>3. Live \subseteq Slots
      BY DEF Live
    <2>4. cr3' = pcb_dir'[CurrentPcb']
      BY <1>2, <1>3, <1>5, <2>1, <2>2, <2>3
    <2>5. ASSUME NEW t \in Live' PROVE Runnable(pcb_dir[t])'
      BY <1>3, <2>1, <2>2, <2>3
    <2>6. ASSUME NEW t \in Live', NEW u \in Live', pcb_dir'[t] = pcb_dir'[u]
          PROVE  t = u
      BY <1>3, <2>1, <2>2, <2>3, <2>6
    <2> QED
      BY <1>3, <1>5, <2>1, <2>4, <2>5, <2>6 DEF AddressSpacesPrivate
  <1> QED
    BY <1>4, <1>8, <1>9, <1>10

LEMMA ContractKill ==
    ASSUME ContractInv, Misuse = {}, NEW s \in Slots, KillProcess(s)
    PROVE  ContractInv'
  <1> USE DEF ContractInv
  <1>1. /\ mode = "up" /\ mode' = mode /\ cr3' = cr3
        /\ s \in Live /\ pcb_dir[s] # cr3 /\ Destroy(s)
        /\ s # CurrentPcb /\ s # InitSlot
    BY DEF KillProcess, MayKill
  <1>2. /\ CurrentPcb \in Live /\ InitSlot \in Live
        /\ pcb_queue \in Seq(Slots \cup {NullPcb})
        /\ Entries(pcb_queue, s) # {}
        /\ Len(pcb_queue) \in 1 .. PROCESS_COUNT_MAX
    BY <1>1, TurnFacts
  <1>3. /\ active_process_count' = active_process_count - 1
        /\ pcb_dir[s] \in Dirs
        /\ Live' = Live \ {s} /\ Running' = Running \ {s}
        /\ pcb_dir' = [pcb_dir EXCEPT ![s] = NullDir]
        /\ free_page_frame_count' = free_page_frame_count +
             (IF user_entry[pcb_dir[s]] # NoFrame /\ user_page[pcb_dir[s]] = 0
              THEN 1 ELSE 0)
        /\ \A e \in Dirs : e # pcb_dir[s] => Runnable(e)' = Runnable(e)
    BY <1>1, DestroyPreserves
  <1>4. KernelInv'
    BY KillPreserves
  <1>5. CurrentPcb' = CurrentPcb
    <2>1. Running' = Running
      BY <1>1, <1>3, TurnFacts
    <2> QED
      BY <2>1 DEF CurrentPcb
  <1>6. pcb_queue' = Removed(pcb_queue, s)
    BY <1>1 DEF Destroy
  <1>7. NeverHalts' /\ FramesFollowProcesses' /\ EnqueNeverDrops'
    <2>1. user_entry[pcb_dir[s]] # NoFrame /\ user_page[pcb_dir[s]] = 0
      BY <1>1, <1>3 DEF AddressSpacesPrivate, Runnable, KernelInv, InPlace
    <2>2. Len(pcb_queue') = Len(pcb_queue) - 1
      BY <1>2, <1>6, EntriesRemoved
    <2> QED
      BY <1>1, <1>3, <2>1, <2>2, Constants
         DEF NeverHalts, FramesFollowProcesses, EnqueNeverDrops, KernelInv,
             TypeOK, PagingTypeOK
  <1>8. TurnsConserved'
    <2> SUFFICES ASSUME NEW p \in Slots \cup {NullPcb}
                 PROVE  Turns(p)' = IF p \notin Live' THEN 0
                                    ELSE IF p = InitSlot THEN 2 ELSE 1
      BY DEF TurnsConserved
    <2>1. Cardinality(Entries(pcb_queue', p)) =
            Cardinality(Entries(pcb_queue, p)) - (IF s = p THEN 1 ELSE 0)
      BY <1>2, <1>6, EntriesRemoved
    <2>2. Turns(p) = IF p \notin Live THEN 0 ELSE IF p = InitSlot THEN 2 ELSE 1
      BY <1>1 DEF TurnsConserved
    <2>3. Cardinality(Entries(pcb_queue, p)) \in Nat
      BY <1>1, TurnFacts
    <2>4. Turns(p)' = Turns(p) - (IF s = p THEN 1 ELSE 0)
      BY <1>1, <1>5, <2>1, <2>3 DEF Turns
    <2> QED
      BY <1>1, <1>3, <2>2, <2>3, <2>4
  <1>9. AddressSpacesPrivate'
    <2>1. /\ cr3 = pcb_dir[CurrentPcb] /\ CurrentPcb # NullPcb
          /\ \A t, u \in Live : pcb_dir[t] = pcb_dir[u] => t = u
          /\ \A t \in Live : Runnable(pcb_dir[t]) /\ pcb_dir[t] \in Dirs
      BY <1>1 DEF AddressSpacesPrivate, Runnable
    <2>2. /\ Live \subseteq Slots
          /\ \A t \in Slots : t # s => pcb_dir'[t] = pcb_dir[t]
      BY <1>3 DEF Live, KernelInv, TypeOK
    <2>3. cr3' = pcb_dir'[CurrentPcb']
      BY <1>1, <1>2, <1>5, <2>1, <2>2
    <2>4. ASSUME NEW t \in Live' PROVE Runnable(pcb_dir[t])'
      <3>1. t \in Live /\ t # s /\ pcb_dir'[t] = pcb_dir[t] /\ pcb_dir[t] # pcb_dir[s]
        BY <1>1, <1>3, <2>1, <2>2
      <3>2. PICK e \in Dirs : e = pcb_dir[t] /\ e # pcb_dir[s] /\ Runnable(e)
        BY <2>1, <3>1
      <3>3. Runnable(e)'
        BY <1>3, <3>2
      <3>4. /\ e \in Dirs
            /\ kernel_entry'[e]
            /\ user_entry'[e] # NoFrame
        BY <3>3 DEF Runnable
      <3>5. pcb_dir'[t] = e
        BY <3>1, <3>2
      <3> QED
        BY <3>4, <3>5 DEF Runnable
    <2>5. \A t, u \in Live' : pcb_dir'[t] = pcb_dir'[u] => t = u
      BY <1>3, <2>1, <2>2
    <2>6. InitSlot \in Live' /\ CurrentPcb' # NullPcb
      BY <1>1, <1>2, <1>3, <1>5, <2>1
    <2> QED
      BY <2>3, <2>4, <2>5, <2>6 DEF AddressSpacesPrivate
  <1> QED
    BY <1>4, <1>7, <1>8, <1>9

\* Under the contract every tick is a plain switch to a live process.
LEMMA ContractTick ==
    ASSUME ContractInv, TimerTick
    PROVE  TimerSwitch /\ First(pcb_queue) \in Live
  <1>1. mode = "up"
    BY DEF TimerTick, TimerSwitch, TimerSwitchDetached, TimerResumeDetached, TimerCrash
  <1>2. /\ CurrentPcb # NullPcb /\ First(pcb_queue) \in Live
        /\ First(pcb_queue) # NullPcb
        /\ Runnable(ResumeDir(First(pcb_queue)))
    BY <1>1, TurnFacts
       DEF ContractInv, AddressSpacesPrivate, ResumeDir
  <1> QED
    BY <1>1, <1>2
       DEF TimerTick, TimerSwitchDetached, TimerResumeDetached, TimerCrash

LEMMA ContractTimer ==
    ASSUME ContractInv, TimerTick
    PROVE  ContractInv'
  <1> USE DEF ContractInv
  <1> DEFINE current == CurrentPcb
             next == First(pcb_queue)
  <1>1. /\ mode = "up" /\ mode' = mode
        /\ pcb_dir' = [pcb_dir EXCEPT ![current] = cr3]
        /\ pcb_state' = [[pcb_state EXCEPT ![current] = "READY"]
                                    EXCEPT ![next] = "RUNNING"]
        /\ pcb_queue' = Enqued(Dequed(pcb_queue), current)
        /\ cr3' = ResumeDir(next)
        /\ UNCHANGED <<process_map, active_process_count, pcb_pid,
                       page_frame_map, free_page_frame_count,
                       page_directory_used, user_page, user_entry, kernel_entry>>
    BY ContractTick DEF TimerSwitch, UsePageDirectory
  <1>2. /\ current \in Live /\ Running = {current} /\ next \in Live
        /\ Live \subseteq Slots /\ NullPcb \notin Live
        /\ pcb_queue \in Seq(Slots \cup {NullPcb}) /\ pcb_queue # <<>>
        /\ Len(pcb_queue) \in 1 .. PROCESS_COUNT_MAX
    BY <1>1, TurnFacts DEF Live
  <1>3. KernelInv'
    BY TimerPreserves
  <1>4. Live' = Live /\ Running' = {next} /\ CurrentPcb' = next
    <2>1. Live' = Live
      BY <1>1 DEF Live
    <2>2. Running' = {next}
      BY <1>1, <1>2 DEF Running, KernelInv, TypeOK
    <2>3. (Running # {} => CurrentPcb \in Running)'
      BY CurrentPcbRuns, PTL
    <2> QED
      BY <2>1, <2>2, <2>3
  <1>5. pcb_dir' = pcb_dir /\ cr3' = pcb_dir[next]
    BY <1>1, <1>2 DEF AddressSpacesPrivate, ResumeDir, KernelInv, TypeOK
  <1>6. /\ Dequed(pcb_queue) \in Seq(Slots \cup {NullPcb})
        /\ Len(Dequed(pcb_queue)) = Len(pcb_queue) - 1
        /\ Len(Dequed(pcb_queue)) < PCB_QUEUE_MAX
    <2>1. /\ Dequed(pcb_queue) \in Seq(Slots \cup {NullPcb})
          /\ Len(Dequed(pcb_queue)) = Len(pcb_queue) - 1
      BY <1>2, DequedProperties
    <2> QED
      BY <1>2, <2>1, Constants DEF KernelInv, TypeOK
  <1>7. NeverHalts' /\ FramesFollowProcesses' /\ EnqueNeverDrops'
    <2>1. Len(pcb_queue') = Len(pcb_queue)
      <3>1. current \in Slots \cup {NullPcb}
        BY <1>2
      <3>2. Len(pcb_queue') = Len(Dequed(pcb_queue)) + 1
        <4>1. pcb_queue' = Enqued(Dequed(pcb_queue), current)
          BY <1>1
        <4>2. PCB_QUEUE_MAX \in Nat
          BY Constants
        <4> HIDE DEF current
        <4> QED
          BY <1>6, <3>1, <4>1, <4>2, EnquedProperties
      <3> QED
        BY <1>2, <1>6, <3>2, Constants
    <2> QED
      BY <1>1, <2>1 DEF NeverHalts, FramesFollowProcesses, EnqueNeverDrops
  <1>8. TurnsConserved'
    <2> SUFFICES ASSUME NEW p \in Slots \cup {NullPcb}
                 PROVE  Turns(p)' = IF p \notin Live' THEN 0
                                    ELSE IF p = InitSlot THEN 2 ELSE 1
      BY DEF TurnsConserved
    <2>1. Cardinality(Entries(Dequed(pcb_queue), p)) =
            Cardinality(Entries(pcb_queue, p)) - (IF next = p THEN 1 ELSE 0)
      BY <1>2, EntriesDequed
    <2>2. Cardinality(Entries(pcb_queue', p)) =
            Cardinality(Entries(Dequed(pcb_queue), p)) + (IF current = p THEN 1 ELSE 0)
      <3>1. current \in Slots \cup {NullPcb}
        BY <1>2
      <3> HIDE DEF current
      <3> QED
        BY <1>1, <1>6, <3>1, Constants, EntriesEnqued
    <2>3. Turns(p) = IF p \notin Live THEN 0 ELSE IF p = InitSlot THEN 2 ELSE 1
      BY <1>1 DEF TurnsConserved
    <2>4. Cardinality(Entries(pcb_queue, p)) \in Nat
      BY <1>1, TurnFacts
    <2>5. Turns(p)' = Turns(p)
      BY <1>4, <2>1, <2>2, <2>4 DEF Turns
    <2> QED
      BY <1>4, <2>3, <2>5
  <1>9. AddressSpacesPrivate'
    <2>1. \A t \in Live : Runnable(pcb_dir[t])' = Runnable(pcb_dir[t])
      BY <1>1, <1>5 DEF Runnable
    <2> QED
      BY <1>1, <1>2, <1>4, <1>5, <2>1 DEF AddressSpacesPrivate
  <1> QED
    BY <1>3, <1>7, <1>8, <1>9

\* A handler that only replies, and a step that changes nothing.
LEMMA ContractRefuse ==
    ASSUME ContractInv,
           UNCHANGED <<pagingVars, mode, processVars, pcb_queue>>, KernelInv'
    PROVE  ContractInv'
  <1> USE DEF ContractInv, pagingVars, processVars
  <1>1. Live' = Live /\ CurrentPcb' = CurrentPcb /\ \A d : Runnable(d)' = Runnable(d)
    BY DEF Live, CurrentPcb, Running, Runnable
  <1>2. \A p : Turns(p)' = Turns(p)
    BY <1>1 DEF Turns
  <1>3. TurnsConserved' /\ AddressSpacesPrivate'
    BY <1>1, <1>2 DEF TurnsConserved, AddressSpacesPrivate, Runnable
  <1> QED
    BY <1>1, <1>3 DEF NeverHalts, FramesFollowProcesses, EnqueNeverDrops

\* Under the contract every program is in page 0, where its stack is.
LEMMA StacksMapped ==
    ASSUME ContractInv, Misuse = {}, mode = "up"
    PROVE  user_page[cr3] = 0
  BY DEF ContractInv, KernelInv, InPlace, CpuStaysMapped, Runnable

\* Under the contract an exec that is admitted finds a free frame, also when its
\* size wraps and the check of free memory lets everything pass.
LEMMA MemoryLeft ==
    ASSUME ContractInv, NEW size \in ExecSizes, Admitted(size)
    PROVE  free_page_frame_count # 0
  BY Constants
     DEF Admitted, ContractInv, FramesFollowProcesses, KernelInv, TypeOK, PagingTypeOK

LEMMA ContractNext == Misuse = {} /\ ContractInv /\ [Next]_vars => ContractInv'
  <1> SUFFICES ASSUME Misuse = {}, ContractInv, [Next]_vars PROVE ContractInv'
    OBVIOUS
  <1>0. KernelInv'
    BY NextKernelInv DEF ContractInv
  <1>1. CASE BootShell
    BY <1>1, ContractBoot
  <1>2. CASE BootWithoutShell
    BY <1>2 DEF BootWithoutShell
  <1>3. CASE PowerCycle
    BY <1>3 DEF PowerCycle, ContractInv, NeverHalts
  <1>4. CASE TimerTick
    BY <1>4, ContractTimer
  <1>5. CASE Exec
    <2>1. CASE ExecTooManyProcesses \/ ExecInvalidEntrypoint
      BY <1>0, <2>1, ContractRefuse
         DEF ExecTooManyProcesses, ExecInvalidEntrypoint, Refuse
    <2>2. ASSUME NEW size \in ExecSizes, ExecNotEnoughMemory(size)
          PROVE  ContractInv'
      BY <1>0, <2>2, ContractRefuse DEF ExecNotEnoughMemory, Refuse
    <2>3. ASSUME NEW size \in ExecSizes, ExecWithoutDirectory(size) \/ ExecUnmapped(size)
          PROVE  FALSE
      BY <2>3, MemoryLeft DEF ExecWithoutDirectory, ExecUnmapped
    <2>4. ASSUME NEW size \in ExecSizes, NEW page \in UserPages,
                 ExecReadFailure(size, page) \/ ExecReadCrash(size, page)
          PROVE  FALSE
      BY <2>4 DEF ExecReadFailure, ExecReadCrash
    <2> QED
      BY <1>5, <2>1, <2>2, <2>3, <2>4, ContractExec DEF Exec
  <1>6. CASE Kill
    <2>1. ASSUME NEW p, KillUnknown(p) PROVE ContractInv'
      BY <1>0, <2>1, ContractRefuse DEF KillUnknown, Refuse
    <2>2. CASE KillZero
      BY <1>0, <2>2, ContractRefuse DEF KillZero, Refuse
    <2>3. ASSUME NEW s \in Slots, KillCrash(s) PROVE FALSE
      <3>1. /\ mode = "up" /\ s \in Live /\ s # CurrentPcb
            /\ pcb_dir[s] = cr3
        BY <2>3 DEF KillCrash, MayKill
      <3> QED
        BY <3>1, TurnFacts DEF ContractInv, AddressSpacesPrivate
    <2> QED
      BY <1>6, <2>1, <2>2, <2>3, ContractKill DEF Kill
  <1>7. CASE UNCHANGED vars
    BY <1>0, <1>7, ContractRefuse DEF vars
  <1>8. CASE StackFault
    BY <1>8, StacksMapped DEF StackFault
  <1> QED
    BY <1>1, <1>2, <1>3, <1>4, <1>5, <1>6, <1>7, <1>8 DEF Next

LEMMA ContractInit == Init => ContractInv
  <1> SUFFICES ASSUME Init PROVE ContractInv
    OBVIOUS
  <1>1. KernelInv
    BY InitKernelInv
  <1>2. mode = "boot" /\ active_process_count = 0
        /\ free_page_frame_count = PAGE_FRAME_MAX_COUNT - 1
    BY DEF Init, PagingInit, ProcessInit
  <1> QED
    BY <1>1, <1>2, Constants
       DEF ContractInv, NeverHalts, FramesFollowProcesses, EnqueNeverDrops,
           TurnsConserved, AddressSpacesPrivate

\* Programs that keep to the contract never lose the CPU, for every number of
\* processes, frames and directories; and with it every part of ContractInv:
\* one frame per process, a queue that never drops a PCB, one turn for every
\* process (two for process 0), one address space each.
THEOREM ContractKept == Misuse = {} /\ Spec => []ContractInv
  <1>1. Init => ContractInv
    BY ContractInit
  <1>2. Misuse = {} /\ ContractInv /\ [Next]_vars => ContractInv'
    BY ContractNext
  <1>3. CASE Misuse = {}
    <2>1. ContractInv /\ [Next]_vars => ContractInv'
      BY <1>2, <1>3
    <2> QED
      BY <1>1, <2>1, PTL DEF Spec
  <1>4. CASE Misuse # {}
    BY <1>4
  <1> QED
    BY <1>3, <1>4

\* The CPU is never lost.
THEOREM CpuNeverLost == Misuse = {} /\ Spec => []NeverHalts
  BY ContractKept, PTL DEF ContractInv

\* A process costs one frame and gives it back, through every history of execs
\* and kills.
THEOREM FramesComeBack == Misuse = {} /\ Spec => []FramesFollowProcesses
  BY ContractKept, PTL DEF ContractInv

\* The queue holds one entry for every process, so enque always has room.
THEOREM QueueNeverDrops == Misuse = {} /\ Spec => []EnqueNeverDrops
  BY ContractKept, PTL DEF ContractInv

\* Every live process holds its turns, and nothing else holds any.
THEOREM TurnsAreConserved == Misuse = {} /\ Spec => []TurnsConserved
  BY ContractKept, PTL DEF ContractInv

\* The CPU runs in the RUNNING process's own directory, and every live process
\* has one of its own that the CPU can run in.
THEOREM AddressSpacesArePrivate == Misuse = {} /\ Spec => []AddressSpacesPrivate
  BY ContractKept, PTL DEF ContractInv

-----------------------------------------------------------------------------
(***************************************************************************)
(* What a step does to the processes it is not about, and what it is in    *)
(* terms of ProcessService.                                                *)
(***************************************************************************)
ServiceStep == [Service!Next]_(Service!service)

LEMMA BootServes ==
    ASSUME ContractInv, BootShell
    PROVE  ProgramsStayPut /\ ServiceStep
  <1>1. PICK s \in Slots, d \in Dirs :
          /\ ClaimProcess(s, d, 0)
          /\ pcb_state' = [pcb_state EXCEPT ![s] = "RUNNING"]
    BY DEF BootShell
  <1>2. /\ mode = "boot" /\ active_process_count = 0
        /\ active_process_count < PROCESS_COUNT_MAX /\ Running = {}
    BY DEF BootShell, Admitted, ContractInv, KernelInv, NothingLeftOver
  <1>3. Live' = Live \cup {s}
    BY <1>1, <1>2, ShellPage, ClaimPreserves DEF ContractInv
  <1>4. Live = {}
    <2>1. IsFiniteSet(Live) /\ Cardinality(Live) = 0
      BY <1>2, FiniteSlotsAndFrames DEF Live, ContractInv, KernelInv, ProcessAccounting
    <2> QED
      BY <2>1, FS_EmptySet
  <1>5. CurrentPcb' = s
    <2>1. Running' = {s}
      BY <1>1, <1>2 DEF Running, ContractInv, KernelInv, TypeOK
    <2>2. (Running # {} => CurrentPcb \in Running)'
      BY CurrentPcbRuns, PTL
    <2> QED
      BY <2>1, <2>2
  <1>6. Service!Start(s)
    BY <1>3, <1>4, <1>5 DEF Service!Start
  <1> QED
    BY <1>4, <1>6 DEF ProgramsStayPut, ServiceStep, Service!Next

LEMMA ExecServes ==
    ASSUME ContractInv, NEW size \in ExecSizes, NEW page \in UserPages,
           ExecProcess(size, page)
    PROVE  ProgramsStayPut /\ ServiceStep
  <1>1. PICK s \in Slots, d \in Dirs :
          /\ ClaimProcess(s, d, page)
          /\ pcb_state' = [pcb_state EXCEPT ![s] = "READY"]
    BY DEF ExecProcess
  <1>2. mode = "up" /\ active_process_count < PROCESS_COUNT_MAX /\ MayLoad(page)
    BY DEF ExecProcess, Admitted
  <1>3. /\ s \notin Live /\ Live' = Live \cup {s}
        /\ pcb_state[s] = "READY"
        /\ pcb_dir' = [pcb_dir EXCEPT ![s] = d]
        /\ \A t \in Live : pcb_dir[t] # d
    BY <1>1, <1>2, ClaimPreserves DEF ContractInv
  <1>4. \A e \in Dirs : e # d => user_entry'[e] = user_entry[e]
    <2>1. PICK f \in Frames : user_entry' = [user_entry EXCEPT ![d] = f]
      BY <1>1 DEF ClaimProcess, AllocateUserPageFrame
    <2> QED
      BY <2>1 DEF ContractInv, KernelInv, TypeOK, PagingTypeOK
  <1>5. ProgramsStayPut
    <2> SUFFICES ASSUME NEW t \in Slots, t \in Live
                 PROVE  user_entry'[pcb_dir'[t]] = user_entry[pcb_dir[t]]
      BY DEF ProgramsStayPut
    <2>1. pcb_dir'[t] = pcb_dir[t] /\ pcb_dir[t] # d
      BY <1>3 DEF ContractInv, KernelInv, TypeOK
    <2>2. pcb_dir[t] \in Dirs
      BY <1>2 DEF ContractInv, AddressSpacesPrivate, Runnable
    <2> QED
      BY <1>4, <2>1, <2>2
  <1>6. Running' = Running
    BY <1>1, <1>3 DEF Running, ContractInv, KernelInv, TypeOK
  <1>7. CurrentPcb' = CurrentPcb
    BY <1>6 DEF CurrentPcb
  <1>8. Service!Create(s)
    BY <1>2, <1>3, <1>7 DEF Service!Create, ContractInv, AddressSpacesPrivate
  <1> QED
    BY <1>5, <1>8 DEF ServiceStep, Service!Next

LEMMA KillServes ==
    ASSUME ContractInv, Misuse = {}, NEW s \in Slots, KillProcess(s)
    PROVE  ProgramsStayPut /\ ServiceStep
  <1>1. mode = "up" /\ s \in Live /\ s # CurrentPcb /\ Destroy(s)
    BY DEF KillProcess, MayKill
  <1>2. /\ Live' = Live \ {s} /\ Running' = Running \ {s}
        /\ pcb_dir' = [pcb_dir EXCEPT ![s] = NullDir]
    BY <1>1, DestroyPreserves DEF ContractInv
  <1>3. user_entry' = [user_entry EXCEPT ![pcb_dir[s]] = NoFrame]
    BY <1>1 DEF Destroy, FreePageDirectory
  <1>4. ProgramsStayPut
    <2> SUFFICES ASSUME NEW t \in Slots, t \in Live, t \in Live'
                 PROVE  user_entry'[pcb_dir'[t]] = user_entry[pcb_dir[t]]
      BY DEF ProgramsStayPut
    <2>1. pcb_dir'[t] = pcb_dir[t]
      BY <1>2 DEF ContractInv, KernelInv, TypeOK
    <2>2. pcb_dir[t] \in Dirs /\ pcb_dir[t] # pcb_dir[s]
      BY <1>1, <1>2 DEF ContractInv, AddressSpacesPrivate, Runnable
    <2> QED
      BY <1>3, <2>1, <2>2 DEF ContractInv, KernelInv, TypeOK, PagingTypeOK
  <1>5. CurrentPcb' = CurrentPcb
    <2>1. Running' = Running
      BY <1>1, <1>2, TurnFacts
    <2> QED
      BY <2>1 DEF CurrentPcb
  <1>6. Service!Destroy(s)
    BY <1>1, <1>2, <1>5 DEF Service!Destroy
  <1> QED
    BY <1>4, <1>6 DEF ServiceStep, Service!Next

LEMMA TickServes ==
    ASSUME ContractInv, TimerTick
    PROVE  ProgramsStayPut /\ ServiceStep
  <1> DEFINE current == CurrentPcb
             next == First(pcb_queue)
  <1>1. /\ mode = "up" /\ next \in Live
        /\ pcb_dir' = [pcb_dir EXCEPT ![current] = cr3]
        /\ pcb_state' = [[pcb_state EXCEPT ![current] = "READY"]
                                    EXCEPT ![next] = "RUNNING"]
        /\ UNCHANGED <<pcb_pid, user_entry>>
    BY ContractTick DEF TimerSwitch
  <1>2. current \in Live /\ Running = {current}
    BY <1>1, TurnFacts
  <1>3. pcb_dir' = pcb_dir
    BY <1>1, <1>2 DEF ContractInv, AddressSpacesPrivate, KernelInv, TypeOK
  <1>4. Live' = Live
    BY <1>1 DEF Live
  <1>5. CurrentPcb' = next
    <2>1. Running' = {next}
      BY <1>1, <1>2 DEF Running, Live, ContractInv, KernelInv, TypeOK
    <2>2. (Running # {} => CurrentPcb \in Running)'
      BY CurrentPcbRuns, PTL
    <2> QED
      BY <2>1, <2>2
  <1>6. next \in Slots /\ Service!Dispatch(next)
    BY <1>1, <1>4, <1>5 DEF Service!Dispatch, Live
  <1> QED
    BY <1>1, <1>3, <1>6 DEF ProgramsStayPut, ServiceStep, Service!Next

LEMMA QuietServes ==
    ASSUME UNCHANGED <<pagingVars, processVars>>
    PROVE  ProgramsStayPut /\ ServiceStep
  <1>1. UNCHANGED <<user_entry, pcb_dir, pcb_pid, pcb_state>>
    BY DEF pagingVars, processVars
  <1>2. Live' = Live /\ Running' = Running
    BY <1>1 DEF Live, Running
  <1>3. CurrentPcb' = CurrentPcb
    BY <1>2 DEF CurrentPcb
  <1> QED
    BY <1>1, <1>2, <1>3 DEF ProgramsStayPut, ServiceStep, Service!service

LEMMA NextServes ==
    ASSUME Misuse = {}, ContractInv, [Next]_vars
    PROVE  ProgramsStayPut /\ ServiceStep
  <1>1. CASE BootShell
    BY <1>1, BootServes
  <1>2. CASE BootWithoutShell
    BY <1>2 DEF BootWithoutShell
  <1>3. CASE PowerCycle
    BY <1>3 DEF PowerCycle, ContractInv, NeverHalts
  <1>4. CASE TimerTick
    BY <1>4, TickServes
  <1>5. CASE Exec
    <2>1. CASE ExecTooManyProcesses \/ ExecInvalidEntrypoint
      BY <2>1, QuietServes DEF ExecTooManyProcesses, ExecInvalidEntrypoint, Refuse
    <2>2. ASSUME NEW size \in ExecSizes, ExecNotEnoughMemory(size)
          PROVE  ProgramsStayPut /\ ServiceStep
      BY <2>2, QuietServes DEF ExecNotEnoughMemory, Refuse
    <2>3. ASSUME NEW size \in ExecSizes, ExecWithoutDirectory(size) \/ ExecUnmapped(size)
          PROVE  FALSE
      BY <2>3, MemoryLeft DEF ExecWithoutDirectory, ExecUnmapped
    <2>4. ASSUME NEW size \in ExecSizes, NEW page \in UserPages,
                 ExecReadFailure(size, page) \/ ExecReadCrash(size, page)
          PROVE  FALSE
      BY <2>4 DEF ExecReadFailure, ExecReadCrash
    <2> QED
      BY <1>5, <2>1, <2>2, <2>3, <2>4, ExecServes DEF Exec
  <1>6. CASE Kill
    <2>1. ASSUME NEW p, KillUnknown(p) PROVE ProgramsStayPut /\ ServiceStep
      BY <2>1, QuietServes DEF KillUnknown, Refuse
    <2>2. CASE KillZero
      BY <2>2, QuietServes DEF KillZero, Refuse
    <2>3. ASSUME NEW s \in Slots, KillCrash(s)
          PROVE  ProgramsStayPut /\ ServiceStep
      BY <2>3, QuietServes DEF KillCrash, Halt
    <2> QED
      BY <1>6, <2>1, <2>2, <2>3, KillServes DEF Kill
  <1>7. CASE UNCHANGED vars
    BY <1>7, QuietServes DEF vars
  <1>8. CASE StackFault
    BY <1>8, StacksMapped DEF StackFault
  <1> QED
    BY <1>1, <1>2, <1>3, <1>4, <1>5, <1>6, <1>7, <1>8 DEF Next

\* Under the contract a program's frame never moves while its process lives.
THEOREM ProgramsAreNotMoved == Misuse = {} /\ Spec => MemoryStays
  <1>1. Misuse = {} /\ ContractInv /\ [Next]_vars => ProgramsStayPut
    BY NextServes
  <1>2. CASE Misuse = {}
    <2>1. ContractInv /\ [Next]_vars => [ProgramsStayPut]_vars
      BY <1>1, <1>2
    <2>2. Spec => []ContractInv
      BY <1>2, ContractKept
    <2> QED
      BY <2>1, <2>2, PTL DEF Spec, MemoryStays
  <1>3. CASE Misuse # {}
    BY <1>3
  <1> QED
    BY <1>2, <1>3

\* Under the contract the kernel implements ProcessService: every step creates,
\* destroys or dispatches one process as the service allows, or is a stutter.
THEOREM KernelImplementsService == Misuse = {} /\ Spec => ImplementsService
  <1>1. Init => Service!Init
    <2> SUFFICES ASSUME Init PROVE Service!Init
      OBVIOUS
    <2>1. Live = {} /\ Running = {}
      BY DEF Init, ProcessInit, Live, Running
    <2> QED
      BY <2>1 DEF Service!Init, CurrentPcb
  <1>2. CASE Misuse = {}
    <2>1. ContractInv /\ [Next]_vars => [Service!Next]_(Service!service)
      BY <1>2, NextServes DEF ServiceStep
    <2>2. Spec => []ContractInv
      BY <1>2, ContractKept
    <2> QED
      BY <1>1, <2>1, <2>2, PTL DEF Spec, ImplementsService, Service!Spec
  <1>3. CASE Misuse # {}
    BY <1>3
  <1> QED
    BY <1>2, <1>3
=============================================================================
