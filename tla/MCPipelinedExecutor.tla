-------------------------- MODULE MCPipelinedExecutor --------------------------
(* PipelinedExecutor on small instances. *)
EXTENDS PipelinedExecutor

AllOps == {"cpu", "kernel", "scatter", "write_slice", "alloc", "zero_fill", "view",
           "contiguize", "slot_own", "download", "upload", "copy", "release"}

\* Three items of any kind, or four of the kinds that keep the device busiest.
MixedWorkloads == {[ops |-> AllOps, nodes |-> 3],
                   [ops |-> {"kernel", "write_slice", "release"}, nodes |-> 4]}

\* Enough for every way a realize can block and end.
ShortWorkloads == {[ops |-> {"cpu", "kernel", "write_slice", "download", "release",
                             "zero_fill", "copy"}, nodes |-> 2]}
================================================================================
