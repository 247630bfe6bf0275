-------------------------- MODULE MCExecutionManager --------------------------
(***************************************************************************)
(* Two file paths and a directory.  The requests are one of each kind that *)
(* behaves differently; the second file receives what is copied and moved. *)
(***************************************************************************)
EXTENDS ExecutionManager

CONSTANTS f, g, d, text

On(action, path, to, content) ==
    [action |-> action, path |-> path, to |-> to, content |-> content]

AllRequests ==
    {On("write_file", f, g, text), On("delete_file", f, g, Empty),
     On("copy", f, g, Empty), On("move", f, g, Empty),
     On("create_directory", d, d, Empty), On("delete_directory", d, d, Empty),
     On("command", d, d, Empty), On("unknown", d, d, Empty)}
=============================================================================
