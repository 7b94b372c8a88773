------------------------------ MODULE MCApply ------------------------------
(* A plan of four units: the host is configured, then a router in two      *)
(* units, the second of which needs what the first captures, then a        *)
(* workload.                                                               *)
EXTENDS Apply

CONSTANTS a1, a2, a3

MCPlan == <<"chassis", "ports", "routes", "container">>
MCScopeOf == [chassis |-> "configure", ports |-> "router", routes |-> "router",
              container |-> "workload"]
MCFoundation == {"configure", "cluster"}
MCSteps == [chassis |-> <<"bridge">>, ports |-> <<"port", "mac">>,
            routes |-> <<"route">>, container |-> <<"run">>]
MCCaptures == {"mac"}
MCUses == [o \in {"bridge", "port", "mac", "route", "run"} |->
             IF o = "route" THEN {"mac"} ELSE {}]
=============================================================================
