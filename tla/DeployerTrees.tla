---------------------------- MODULE DeployerTrees ----------------------------
(***************************************************************************)
(* The job trees a generated deployer runs on a host, built from what the  *)
(* network says of that host: deployer/ir_to_python.py declares the jobs,  *)
(* deployer/ir_common.py what each waits for, and src/ir.ts which          *)
(* dependencies the host is said to have, the only ones that are installed. *)
(*                                                                         *)
(* A host is [ovn, services]: its role, and its kernel routers and         *)
(* containers, each [name, kind, apps, images] with the dependencies its   *)
(* apps need and the docker images it runs.                                *)
(***************************************************************************)
EXTENDS JobTree

Routers(h) == {s \in h.services : s.kind = "router"}

Images(h) == UNION {s.images : s \in h.services}

\* Left out are the tools for everyday debugging, which every host has.
HostDependencies(h) ==
    (IF h.ovn = "none" THEN {} ELSE {"ovn", "ovs"})
      \cup (IF Routers(h) = {} THEN {} ELSE {"ip", "iptables"})
      \cup (UNION {s.apps : s \in Routers(h)})
      \cup (IF \E s \in h.services : s.kind = "container" THEN {"docker"} ELSE {})

ConfigureDependencies(h) ==
    IF h.ovn # "none" THEN {"ovn", "ovs", "ip"}
    ELSE IF h.services # {} THEN {"ovs", "ip"} ELSE {}

JobDependencies(s) ==
    {"configure"} \cup s.images
      \cup (IF s.kind = "router" THEN {"ip", "iptables"} \cup s.apps ELSE {"docker"})

---------------------------------------------------------------------------
(* Declaring jobs.                                                         *)

RootJob ==
    [kids |-> [j \in Job |-> <<>>], initiate |-> {}, late |-> {},
     hook |-> [j \in Job |-> <<>>], waits |-> {}, deps |-> [j \in Job |-> {}],
     holds |-> {}, act |-> [j \in Job |-> <<>>], keep |-> {}, down |-> {},
     parent |-> [j \in Job |-> Root], ends |-> "itself"]

\* parent.job(j, initiate=True)
Child(t, parent, j) ==
    [t EXCEPT !.kids[parent] = Append(@, j), !.parent[j] = parent,
              !.initiate = @ \cup {j}]

\* ... and register: the job waits for deps and then acts.
Gated(t, parent, j, deps, action) ==
    [Child(t, parent, j) EXCEPT !.waits = @ \cup {j}, !.holds = @ \cup {j},
                                !.deps[j] = deps, !.act[j] = action]

Install(deps, repeat) ==
    <<<<"run", "install-packages">>>>
      \o FoldSet(LAMBDA d, p : Append(p, <<"emit", d>>), <<>>, deps)
      \o (IF repeat THEN <<<<"sleep", "install-packages">>>> ELSE <<>>)

\* The packages of the host, and a job for each image.
ResolveDependencyJob(h, repeat, images) ==
    FoldSet(LAMBDA i, t : Gated(t, Root, i, {"docker"}, <<<<"run", i>>, <<"emit", i>>>>),
            [Child(RootJob, Root, "install-packages") EXCEPT
                !.hook["install-packages"] = Install(HostDependencies(h), repeat)],
            images)

\* A router or container: brought up, kept, and taken down with the tree.
ServiceJob(s, t) ==
    [Gated(t, "configure", s.name, JobDependencies(s), <<<<"run", s.name>>>>) EXCEPT
        !.keep = @ \cup {s.name}, !.down = @ \cup {s.name}]

---------------------------------------------------------------------------
(* The trees.                                                              *)

\* --action run, under systemd: it ends by a signal.
RunTree(h) ==
    [FoldSet(ServiceJob,
             Gated(ResolveDependencyJob(h, TRUE, Images(h)), Root, "configure",
                   ConfigureDependencies(h),
                   <<<<"run", "configure">>, <<"emit", "configure">>>>),
             h.services) EXCEPT !.ends = "signal"]

\* --action create: the host, then, on the central, the cluster.
CreateTree(h) ==
    LET host == Gated(ResolveDependencyJob(h, FALSE, {}), Root, "host", HostDependencies(h),
                      <<<<"run", "host">>, <<"emit", "create-ready">>>>)
        all == IF h.ovn # "central" THEN host
               ELSE Gated(host, Root, "cluster", {"ovn", "create-ready"}, <<<<"run", "cluster">>>>)
    IN [all EXCEPT !.ends = "timeout"]

\* --action delete: the cluster first.
DeleteTree(h) ==
    LET packages == ResolveDependencyJob(h, FALSE, {})
        cluster == Gated(packages, Root, "cluster", {"ovn"},
                         <<<<"run", "cluster">>, <<"emit", "cluster-deleted">>>>)
        all == IF h.ovn = "central"
               THEN Gated(cluster, Root, "host", HostDependencies(h) \cup {"cluster-deleted"},
                          <<<<"run", "host">>>>)
               ELSE Gated(packages, Root, "host", HostDependencies(h), <<<<"run", "host">>>>)
    IN [all EXCEPT !.ends = "timeout"]

---------------------------------------------------------------------------

\* Violated: what a job waits for is emitted by some job of its tree, so
\* that a job can only be kept waiting by a failure ("an OVN-cluster host
\* needs ovn+ovs, any kernel router's netns needs ip+iptables", src/ir.ts:
\* 118-120, against "Deps the configure job itself needs: OVN/OVS CLI + ip",
\* ir_common.py:2261).
NobodyStarves ==
    \A j \in tree.waits \cap Present : \A e \in tree.deps[j] :
        e \in queue \/ \E t \in Task : \E n \in DOMAIN Program(t) : Program(t)[n] = <<"emit", e>>
=============================================================================
