----------------------------- MODULE MCJobTree -----------------------------
(* Trees for TLC: those of generated deployers, and others that use what   *)
(* the runtime offers beyond that.                                         *)
EXTENDS DeployerTrees

\* The jobs of a generated deployer; the other trees borrow their names.
MCJob == {"root", "install-packages", "configure", "uplink", "host", "cluster"}
MCEvent == {"ovn", "ovs", "ip", "iptables", "configure",
            "create-ready", "cluster-deleted"}

Uplink == [name |-> "uplink", kind |-> "router", apps |-> {}, images |-> {}]

Chassis == [ovn |-> "chassis", services |-> {Uplink}]
Central == [ovn |-> "central", services |-> {}]

Nothing == RootJob.kids
Plain == RootJob

\* A start hook adds a child that waits for what is there already; another
\* job starts after its parent only.
GrowingTree ==
    [Plain EXCEPT
        !.kids = [Nothing EXCEPT !["root"] = <<"configure", "host">>],
        !.parent["uplink"] = "configure",
        !.initiate = {"uplink"}, !.late = {"uplink"},
        !.hook["configure"] = <<<<"emit", "ip">>, <<"add", "uplink">>, <<"run", "configure">>>>,
        !.hook["host"] = <<<<"run", "host">>>>,
        !.waits = {"uplink"}, !.holds = {"uplink"}, !.deps["uplink"] = {"ip"},
        !.act["uplink"] = <<<<"run", "uplink">>>>,
        !.down = {"configure", "uplink"}]

\* Two hooks stop jobs: host its own, and uplink the one above host.
StoppingTree ==
    [Plain EXCEPT
        !.kids = [Nothing EXCEPT !["root"] = <<"configure", "uplink">>, !["configure"] = <<"host", "cluster">>],
        !.parent["host"] = "configure", !.parent["cluster"] = "configure",
        !.initiate = {"uplink", "host"},
        !.hook["uplink"] = <<<<"run", "uplink">>, <<"stop", "configure">>>>,
        !.hook["host"] = <<<<"run", "host">>, <<"stop", "host">>>>,
        !.down = {"configure", "cluster"}]

\* A hook (uplink) adds a child to a job (configure) that run() has taken for completed.
OrphanTree ==
    [Plain EXCEPT
        !.kids["root"] = <<"configure", "uplink">>,
        !.parent["host"] = "configure",
        !.initiate = {"uplink", "host"}, !.late = {"host"},
        !.hook["uplink"] = <<<<"run", "uplink">>, <<"add", "host">>>>,
        !.hook["host"] = <<<<"run", "host">>>>]

\* The event hook of configure runs a command without holding its job.
EarTree ==
    [Plain EXCEPT
        !.kids = [Nothing EXCEPT !["root"] = <<"configure">>, !["configure"] = <<"uplink">>],
        !.parent["uplink"] = "configure",
        !.initiate = {"configure", "uplink"},
        !.hook["uplink"] = <<<<"emit", "ip">>>>,
        !.waits = {"configure"}, !.deps["configure"] = {"ip"},
        !.act["configure"] = <<<<"run", "configure">>>>]

\* Two hooks that stop their own jobs when their processes have ended: run()
\* does not wait for the stop that begins last.
RacingTree ==
    [Plain EXCEPT
        !.kids["root"] = <<"configure", "host">>,
        !.initiate = {"configure", "host"},
        !.hook["configure"] = <<<<"run", "configure">>, <<"stop", "configure">>>>,
        !.hook["host"] = <<<<"run", "host">>, <<"stop", "host">>>>,
        !.down = {"configure", "host"}]

MCTrees ==
    {RunTree(Chassis), CreateTree(Chassis), DeleteTree(Central), GrowingTree, StoppingTree}

LateTrees == {RunTree(Chassis)}
StarvingTrees == {RunTree(Central)}
OrphanTrees == {OrphanTree}
RacingTrees == {RacingTree}
EarTrees == {EarTree}

\* The trees are ones the theorems of JobTreeProofs are about.
ASSUME HooksStopLast == StopsLast /\ AddsToOwn
ASSUME RegisterHolds == WaitersHeld
=============================================================================
