----------------------------- MODULE MCJthreadPool -----------------------------
(* Small instances of JthreadPool for TLC. *)
EXTENDS JthreadPool

\* No element, fewer elements than workers, and more chunks than workers.
MCSizes == {0, 2, 4}
=============================================================================
