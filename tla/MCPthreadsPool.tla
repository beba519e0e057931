---------------------------- MODULE MCPthreadsPool ----------------------------
(* Small instances of PthreadsPool for TLC. *)
EXTENDS PthreadsPool

\* No element, fewer elements than workers, and more chunks than workers.
MCSizes == {0, 2, 4}
=============================================================================
