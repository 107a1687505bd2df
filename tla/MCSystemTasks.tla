---------------------------- MODULE MCSystemTasks ----------------------------
(* Workflow definitions for model checking SystemTasks.                        *)
EXTENDS SystemTasks, TLC

(* A person, an event, a wait, a switch that may end the workflow, a worker, and   *)
(* a switch that may bring one more task.                                        *)
FlowTop  == <<"human", "event", "wait", "switch", "work", "last">>
FlowKind == "human" :> "HUMAN" @@ "event" :> "EVENT" @@ "wait" :> "WAIT" @@
            "switch" :> "SWITCH" @@ "work" :> "SIMPLE" @@ "stop" :> "TERMINATE" @@
            "last" :> "SWITCH" @@ "extra" :> "SIMPLE"
FlowBranches == "switch" :> {<<>>, <<"stop">>} @@ "last" :> {<<>>, <<"extra">>}

(* Four branches, of a worker, a wait, a timed wait and a transformation, and their  *)
(* join.                                                                        *)
ForkTop  == <<"fork", "join", "after">>
ForkKind == "fork" :> "FORK" @@ "work" :> "SIMPLE" @@ "wait" :> "WAIT" @@
            "timed" :> "TIMED" @@ "jq" :> "PROMISE" @@ "join" :> "JOIN" @@ "after" :> "SIMPLE"
ForkBranches == "fork" :> {<<"work">>, <<"wait">>, <<"timed">>, <<"jq">>}
==============================================================================
