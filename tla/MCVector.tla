------------------------------ MODULE MCVector ------------------------------
(* Small instances of Vector for TLC.                                      *)
EXTENDS VectorInvariant, TLC

AllSelfArg == {"push_back", "emplace_back", "resize_v", "insert", "emplace",
               "insert_n"}

(* Without insert(pos, count, value), whose self-reference is a finding.   *)
NotInsertFill == AllSelfArg \ {"insert_n"}

(* Operations that use their argument before they move any element.        *)
EndSelfArg == {"push_back", "emplace_back", "resize_v"}

(* The operations of the runs that look at a few of them.                  *)
Growing == {"reserve", "push_back", "resize"}
Inserting == {"push_back", "insert"}
Filling == {"reserve", "push_back", "insert_n"}
Assigning == {"reserve", "push_back", "pop_back", "destroy", "resize"}
             \cup BuildOps \cup AssignOps
AssigningOver == {"reserve", "push_back", "assign_range"}

(* All but the call that destroys unused slots, a finding.                 *)
FaultlessOps == Ops \ {"assign_range"}
FillSelf == {"insert_n"}
None == {}

Symmetric == Permutations(Block)

=============================================================================
