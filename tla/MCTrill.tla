------------------------------- MODULE MCTrill -------------------------------
(* Small instances of Trill for TLC. *)
EXTENDS TrillProps

MCPriority == 0 .. 1

=============================================================================
