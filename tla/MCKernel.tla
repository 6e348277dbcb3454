------------------------------ MODULE MCKernel ------------------------------
(***************************************************************************)
(* Small instances of Kernel for TLC.  Three process slots, enough that a  *)
(* queue with a running process, a waiting one and one to be killed        *)
(* exists; five frames, so that two processes and the kernel leave enough  *)
(* for one more exec and not for two; frames of four bytes, so that a      *)
(* program of one byte needs two frames and one of five bytes needs three, *)
(* one more than a process may ask for; words of four bits, so that a size *)
(* of twelve wraps and needs none; two pages to load a program in.         *)
(***************************************************************************)
EXTENDS Kernel

MCExecSizes == {1, 5, 12}
MCShellSize == 1
NoMisuse == {}
=============================================================================
