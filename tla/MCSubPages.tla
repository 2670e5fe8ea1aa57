----------------------------- MODULE MCSubPages -----------------------------
(***************************************************************************)
(* Instances of the allocator of small areas for TLC.                      *)
(***************************************************************************)
EXTENDS SubPagesProps

=============================================================================
