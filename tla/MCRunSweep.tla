----------------------------- MODULE MCRunSweep -----------------------------
(* A small instance of RunSweep for TLC. *)
EXTENDS RunSweep

\* Three configurations.  The device path ignores the schedule it is asked for
\* and prints "static" (main.cpp:557), while the script predicts the schedule
\* asked for: "b" and "c" are one device run under either schedule, printed
\* with one identity, and that of "c" is predicted wrong.
MCMatrix == <<"a", "b", "c">>
MCKey == [c \in {"a", "b", "c"} |-> IF c = "a" THEN "ka" ELSE "kb"]
MCPredicted ==
    [c \in {"a", "b", "c"} |-> CASE c = "a" -> "ka" [] c = "b" -> "kb" [] OTHER -> "kc"]

=============================================================================
