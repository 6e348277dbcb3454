------------------------------ MODULE PcbQueue ------------------------------
(***************************************************************************)
(* The scheduler's ready queue, src/src/scheduler/pcbqueue.c: an array of  *)
(* PCB pointers filled from the front.  A PCB pointer is the index of its  *)
(* slot in _process_list, or NullPcb.                                      *)
(***************************************************************************)
EXTENDS Integers, Sequences, SequencesExt, FiniteSets

CONSTANT PCB_QUEUE_MAX   \* length of PCBQueue.element, and enque's limit (16)

NullPcb == -1

\* The places a PCB occupies in the queue.
Entries(queue, pcb) == {i \in 1 .. Len(queue) : queue[i] = pcb}

\* Mutants of pcbqueue_enque: no limit, off by one at the limit.
EnquedUnbounded(queue, pcb) == Append(queue, pcb)

EnquedOffByOne(queue, pcb) ==
    IF Len(queue) < PCB_QUEUE_MAX - 1 THEN Append(queue, pcb) ELSE queue

\* pcbqueue_enque: a full queue drops the PCB without telling the caller.
Enqued(queue, pcb) ==
    IF Len(queue) < PCB_QUEUE_MAX THEN Append(queue, pcb) ELSE queue

\* pcbqueue_deque: what it returns, and what it leaves.
First(queue) == IF queue = <<>> THEN NullPcb ELSE Head(queue)
Dequed(queue) == IF queue = <<>> THEN <<>> ELSE Tail(queue)

\* process_destroy's search: the first occurrence goes, the rest moves up.
FirstEntry(queue, pcb) == Min(Entries(queue, pcb))

\* A mutant of the search: it starts past the front.
RemovedPastFront(queue, pcb) ==
    LET later == Entries(queue, pcb) \ {1}
    IN  IF later = {} THEN queue ELSE RemoveAt(queue, Min(later))

Removed(queue, pcb) ==
    IF Entries(queue, pcb) = {} THEN queue
                                ELSE RemoveAt(queue, FirstEntry(queue, pcb))
=============================================================================
