--------------------------- MODULE MCStreamPlans ---------------------------
(***************************************************************************)
(* Streams for TLC, with what its surroundings may do restricted in one of *)
(* two ways, so that each interesting case is reached by an instance that  *)
(* is small in the other directions: much data in both directions of one   *)
(* stream on a wire that works; or two streams with little data, over a    *)
(* restart of the server and a failure of the wire.                        *)
(***************************************************************************)
EXTENDS MCStreams

VARIABLE plan  \* "data" or "restart"

DataPlan == opens' <= 1 /\ gen' = 0 /\ breaks' = 0

RestartPlan ==
  \A x \in Side, i \in Ids :
    /\ app'[x][i].sent <= 1
    /\ app'[x][i].end \in {"open"} \cup ClientCloses[x]

PlansInit == Init /\ plan \in {"data", "restart"}

PlansNext ==
  /\ Next
  /\ plan = "data" => DataPlan
  /\ plan = "restart" => RestartPlan
  /\ UNCHANGED plan

PlansSpec == PlansInit /\ [][PlansNext]_<<vars, plan>>
=============================================================================
