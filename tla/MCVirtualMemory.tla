-------------------------- MODULE MCVirtualMemory --------------------------
(***************************************************************************)
(* Instances of the virtual memory manager for TLC.                        *)
(***************************************************************************)
EXTENDS VirtualMemoryProps

=============================================================================
