----------------------------- MODULE MCMcpTools -----------------------------
EXTENDS McpTools, TLC
\* A tool that comes in a file of another name, and one that is generated.
MCNames == {"fs-list-dir", "fs_list_dir", "generated-1", "generated_1"}
MCSanitize == [n \in MCNames |->
                 CASE n = "fs-list-dir" -> "fs_list_dir"
                   [] n = "generated-1" -> "generated_1"
                   [] OTHER -> n]
MCGeneratedId == [t \in Tasks |-> "generated-1"]
MCShipped == [n \in MCNames |-> IF n = "fs-list-dir" THEN "fs_list_dir" ELSE NoName]
MCSymmetry == Permutations(Jobs)
=============================================================================
