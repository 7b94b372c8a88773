------------------------------- MODULE Declare ------------------------------
(***************************************************************************)
(* What an IR declares on a host (deployer/ir_common.py): the operations   *)
(* of its scopes, in create order, as fabric/plan.py asks for them.        *)
(*                                                                         *)
(* IR is a record of sequences, the nodes of one kind each, in the order   *)
(* the code sorts them by.  A name the code derives from another (a digest *)
(* for a leg, a prefix for a container) is given with the node, and what   *)
(* an operation does not look at (MACs, metrics, tags) is left out.        *)
(*   hosts       name, central, encap, ipfix                               *)
(*   switches, bridges                                                     *)
(*               name, ifaces: host, kind, xdp, dev, parent, bridge, flow, *)
(*                             trunk, seg (the legs of an AF_XDP segment)  *)
(*   ports       name, router, switch, gateway (a host or ""), faces       *)
(*   groups      name, rules: kind, family, chain, cases, action,          *)
(*                            external, logicals;  defaults: the chains    *)
(*   routers     name, groups     routes  router, prefix, metric, nexthop  *)
(*   kernels     name, host, sides: side, kind, dev, parent, leg, addrs,   *)
(*                                  routes, groups, apps                   *)
(*   containers  name, host, image, build, files (their directories)       *)
(***************************************************************************)
EXTENDS Primitives

CONSTANT IR

Each(s, F(_)) == FoldLeft(LAMBDA all, x : all \o F(x), <<>>, s)
Only(s, Test(_)) == SelectSeq(s, Test)
Named(s, names) == Only(s, LAMBDA n : n.name \in names)
-----------------------------------------------------------------------------
(* The host: chassis registration, interface bindings, flow export *)

IsBindable(i) == i.kind \in {"physical", "vlan", "veth", "xdp"}

(* The interfaces of host h: those of its segments, then of its bridges. *)
Bindings(h) ==
  LET of(nodes) == Each(nodes, LAMBDA n :
        Each(Only(n.ifaces, LAMBDA i : i.host = h.name),
             LAMBDA i : <<[domain |-> n.name, iface |-> i]>>))
  IN of(IR.switches) \o of(IR.bridges)

GatewayHosts == {p.gateway : p \in ToSet(IR.ports)} \ {""}

Registration(h) ==
  If(h.central, <<ConnectionOp("nb"), ConnectionOp("sb")>>)
  \o <<ExternalIdOp("ovn-remote"), ExternalIdOp("hostname")>>
  \o If(h.encap, <<ExternalIdOp("ovn-encap-type"), ExternalIdOp("ovn-encap-ip")>>)
  \o If(h.name \in GatewayHosts, <<ExternalIdOp("ovn-cms-options")>>)

(* One bridge for all AF_XDP ports, each port once however many VLANs it   *)
(* carries; a segment gets a veth pair between that bridge and its own.    *)
XdpTrunk(h) ==
  LET nics == {IF b.iface.kind = "xdp" THEN b.iface.dev ELSE b.iface.parent :
                 b \in {b \in ToSet(Bindings(h)) : b.iface.xdp}}
  IN If(nics # {}, <<BridgeOp("br-xdp")>>)
     \o Each(SetToSeq(nics), LAMBDA nic : <<PortOp("br-xdp", nic)>>)

XdpLeg(i) ==
  <<LinkPairOp(i.trunk, i.seg), PortOp("br-xdp", i.trunk), PortOp(i.bridge, i.seg)>>

(* The root leg of a transit veth belongs to its kernel router. *)
InterfaceOps(i) ==
  If(i.kind = "vlan" /\ ~ i.xdp, <<VlanOp(i.parent, i.dev)>>)
  \o CASE i.xdp -> XdpLeg(i)
       [] i.kind = "veth" -> <<>>
       [] OTHER -> <<PortOp(i.bridge, i.dev)>>

InterfaceBindings(h) ==
  LET bound == Only(Bindings(h), LAMBDA b : IsBindable(b.iface))
      bridges == SetToSeq({b.iface.bridge : b \in ToSet(bound)})
      mapped == \E b \in ToSet(bound), s \in ToSet(IR.switches) :
                  s.name = b.domain /\ \E i \in ToSet(s.ifaces) : i.host = h.name
  IN <<NetnsOp(RootNs)>> \o XdpTrunk(h)
     \o Each(bridges, LAMBDA br : <<BridgeOp(br)>> \o
          Each(Only(bound, LAMBDA b : b.iface.bridge = br), LAMBDA b : InterfaceOps(b.iface)))
     \o If(mapped, <<MappingOp>>)

(* A bridge is sampled unless one of its interfaces opted out. *)
FlowExport(h) ==
  LET segments == {i \in UNION {ToSet(s.ifaces) : s \in ToSet(IR.switches)} :
                     i.host = h.name /\ IsBindable(i)}
      sampled == {i.bridge : i \in segments} \ {i.bridge : i \in {j \in segments : ~ j.flow}}
  IN If(h.ipfix, Each(SetToSeq(sampled), LAMBDA br : <<IpfixOp(br)>>))

Configure(h) == Registration(h) \o InterfaceBindings(h) \o FlowExport(h)
-----------------------------------------------------------------------------
(* The cluster, declared on the central host *)

LogicalSwitch(s) ==
  <<LsOp(s.name)>>
  \o If(\E i \in ToSet(s.ifaces) : IsBindable(i), <<LspOp(s.name, <<"localnet", s.name>>)>>)

ChassisVar(host) == <<"chassis", host>>
GatewayChassis == Each(SetToSeq(GatewayHosts), LAMBDA host : <<ChassisCapture(ChassisVar(host), host)>>)

RouterPortOps(p) ==
  <<LrpOp(p.router, p.name, IF p.gateway = "" THEN {} ELSE {ChassisVar(p.gateway)}),
    LspOp(p.switch, <<"router", p.name>>)>>

RulesOf(groups, kind) ==
  Each(groups, LAMBDA g : Only(g.rules, LAMBDA r : r.kind = kind))

RouterNat(r, groups) ==
  Each(RulesOf(groups, "snat"), LAMBDA rule :
    Each(rule.logicals, LAMBDA ip : <<NatOp(r, rule.external, ip)>>))

AclDirection(chain) == IF chain = "OUTPUT" THEN "from-lport" ELSE "to-lport"

(* Per switch: replies first, then each filter and default once.  Nothing  *)
(* when no group has a rule that gives cause for it.                       *)
RouterAcl(switches, groups) ==
  LET filters == ToSet(RulesOf(groups, "filter"))
      defaults == UNION {g.defaults : g \in ToSet(groups)}
      wanted == filters # {} \/ \E g \in ToSet(groups) : g.defaults # {} /\ g.rules # <<>>
      used == {AclDirection(f.chain) : f \in filters}
              \cup IF defaults = {} THEN {} ELSE {"to-lport", "from-lport"}
      acls == (UNION {{<<AclDirection(f.chain), c, f.action>> : c \in ToSet(f.cases)} :
                        f \in filters})
              \cup {<<AclDirection(d[1]), "default", d[2]>> : d \in defaults}
      on(s) == Each(SetToSeq(used), LAMBDA d : <<AclOp(s, <<d, "replies">>)>>)
               \o Each(SetToSeq(acls), LAMBDA acl : <<AclOp(s, <<acl[1], acl[2]>>)>>)
  IN If(wanted, Each(SetToSeq(switches), on))

(* One route per prefix, whatever the number of domains that learn it. *)
RouterRoutes(r) ==
  Each(SetToSeq({n.prefix : n \in {n \in ToSet(IR.routes) : n.router = r}}),
       LAMBDA prefix : <<OvnRouteOp(r, prefix)>>)

RouterOps(r) ==
  LET ports == Only(IR.ports, LAMBDA p : p.router = r)
      groups == Each(Named(IR.routers, {r}), LAMBDA lr : Named(IR.groups, lr.groups))
  IN <<LrOp(r)>> \o Each(ports, RouterPortOps) \o RouterNat(r, groups)
     \o RouterAcl({p.switch : p \in ToSet(ports)}, groups) \o RouterRoutes(r)

(* A router without a port is not declared. *)
Cluster ==
  Each(IR.switches, LogicalSwitch) \o GatewayChassis
  \o Each(SetToSeq({p.router : p \in ToSet(IR.ports)}), RouterOps)
-----------------------------------------------------------------------------
(* A kernel router *)

GroupRules(groups, dev) ==
  LET filters(g) == {r \in ToSet(g.rules) : r.kind = "filter"}
      replies(g) == {<<f.family, f.chain, "replies", "ACCEPT">> : f \in filters(g)}
      rule(r) == IF r.kind = "masq" THEN <<<<r.family, "POSTROUTING", dev, "MASQUERADE">>>>
                 ELSE Each(r.cases, LAMBDA c : <<<<r.family, r.chain, c, r.action>>>>)
      defaults(g) == {<<f, d[1], "default", d[2]>> : f \in {"ipv4", "ipv6"}, d \in g.defaults}
  IN Each(groups, LAMBDA g :
       SetToSeq(replies(g)) \o Each(g.rules, rule) \o SetToSeq(defaults(g)))

(* The same for a router's namespace and for that of its container. *)
SideNetwork(ns, dev, addrs, routes, groups) ==
  Each(addrs, LAMBDA a : <<AddrOp(ns, dev, a)>>)
  \o Each(routes, LAMBDA r : <<RouteOp(ns, dev, r)>>)
  \o Each(GroupRules(groups, dev), LAMBDA rule : <<IptablesOp(ns, rule)>>)

(* The bridge the root leg of a transit veth is plugged into. *)
VethRootBridge(leg) ==
  LET at == {i \in UNION {ToSet(n.ifaces) : n \in ToSet(IR.switches \o IR.bridges)} :
               i.kind = "veth" /\ i.dev = leg}
  IN IF at = {} THEN "" ELSE (CHOOSE i \in at : TRUE).bridge

SideLink(ns, s) ==
  CASE s.kind = "vlan" -> <<NetnsVlanOp(ns, s.dev, s.parent)>>
    [] s.kind = "veth" -> <<NetnsVethOp(ns, s.dev, s.dev, s.leg, VethRootBridge(s.leg))>>
    [] s.kind = "physical" -> <<NetnsPhysicalOp(ns, s.dev)>>
    [] s.kind = "dummy" -> <<NetnsDummyOp(ns, s.dev)>>

BuildDir(name) == <<"var", "lib", "ovn-fabric", "build", name>>
ImageOps(image, build, dir) ==
  IF build THEN <<DirOp(dir), WriteFileOp(dir, "Dockerfile"), ImageOp(image, {File(dir, "Dockerfile")})>>
           ELSE <<ImageOp(image, {})>>

PidVar(c) == <<"pid", c>>
LeaseDir == <<"var", "lib", "dhcp">>
DhcpClient(ns, dev) == <<DirOp(LeaseDir), DhclientOp(ns, dev)>>

WireguardDir == <<"etc", "wireguard">>
WireguardApp(ns, app) ==
  <<DirOp(WireguardDir), WriteFileOp(WireguardDir, app.name), ChmodOp(WireguardDir, app.name),
    WireguardOp(ns, app.name, File(WireguardDir, app.name))>>
  \o Each(SetToSeq({r.family : r \in ToSet(RulesOf(Named(IR.groups, app.groups), "masq"))}),
          LAMBDA f : <<IptablesOp(ns, <<f, "POSTROUTING", app.name, "MASQUERADE">>)>>)

(* The container becomes the router: it is lent the legs, the transit one  *)
(* of the left side first, and gets their addresses anew.                  *)
DockerApp(ns, k, s, app) ==
  LET c == ContainerNs(app.name)
      transit == Only(k.sides, LAMBDA l : l.side = "left" /\ l.kind = "veth")
  IN ImageOps(app.image, app.build, BuildDir(app.name))
     \o Each(app.volumes, LAMBDA dir : <<StateDirOp(dir)>>)
     \o Each(app.identity, LAMBDA dir :
          <<WriteFileOp(dir, "identity.public"), WriteFileOp(dir, "identity.secret"),
            ChmodOp(dir, "identity.public"), ChmodOp(dir, "identity.secret")>>)
     \o <<DockerOp(app.name), Capture(PidVar(app.name), {c}),
          SymlinkNetnsOp(app.name, PidVar(app.name)), NetnsOp(c)>>
     \o Each(transit, LAMBDA l : <<LinkMoveOp(ns, l.dev, c)>>)
     \o <<LinkMoveOp(ns, s.dev, c), SysctlOp(c, {}), SysctlOp(c, {})>>
     \o Each(transit, LAMBDA l : SideNetwork(c, l.dev, l.addrs, l.routes, <<>>))
     \o SideNetwork(c, s.dev, s.addrs, s.routes, Named(IR.groups, s.groups))
     \o <<DockerExecOp(app.name)>>

AppOps(ns, k, s, app) ==
  CASE app.kind = "dhclient" -> DhcpClient(ns, s.dev)
    [] app.kind = "docker" -> DockerApp(ns, k, s, app)
    [] app.kind = "wireguard" -> WireguardApp(ns, app)

SideOps(k, s) ==
  LET ns == KernelNs(k.name)
  IN SideLink(ns, s)
     \o If(s.side = "right", <<SysctlOp(ns, {Link(ns, s.dev)})>>)
     \o SideNetwork(ns, s.dev, s.addrs, s.routes, Named(IR.groups, s.groups))
     \o Each(s.apps, LAMBDA app : AppOps(ns, k, s, app))

KernelRouter(k) ==
  <<NetnsOp(RootNs), NetnsOp(KernelNs(k.name))>> \o Each(k.sides, LAMBDA s : SideOps(k, s))
-----------------------------------------------------------------------------
(* A workload *)

SegmentBridge(host, switch) ==
  LET at == {i \in UNION {ToSet(s.ifaces) : s \in ToSet(Named(IR.switches, {switch}))} :
               i.host = host /\ i.bridge # ""}
  IN (CHOOSE i \in at : TRUE).bridge

(* Its NICs: one per router port that refers to it. *)
Faces(w) ==
  Each(IR.ports, LAMBDA p : Each(Only(p.faces, LAMBDA f : f.service = w.name),
    LAMBDA f : <<[face |-> f, bridge |-> SegmentBridge(w.host, p.switch)]>>))

(* A route goes to the table of the NIC, which a rule on the source        *)
(* enters; a default route to the main table as well.                      *)
NicRoutes(c, f) ==
  Each(f.routes, LAMBDA r :
    <<RouteOp(c, f.nic, [r EXCEPT !.dst = <<r.dst, f.nic>>])>>
    \o If(r.dst = "default", <<RouteOp(c, f.nic, [r EXCEPT !.dst = <<r.dst, "main">>])>>))
  \o If(f.routes # <<>>, Each(f.addrs, LAMBDA a : <<IpRuleOp(c, a)>>))

Nic(c, n) ==
  <<NetnsVethOp(c, n.face.peer, n.face.nic, n.face.leg, n.bridge)>>
  \o Each(n.face.addrs, LAMBDA a : <<AddrOp(c, n.face.nic, a)>>)
  \o NicRoutes(c, n.face)

Workload(w) ==
  LET c == ContainerNs(w.name)
  IN Each(w.files, LAMBDA dir : <<DirOp(dir), WriteFileOp(dir, "file")>>)
     \o ImageOps(w.image, w.build, BuildDir(w.name))
     \o <<DockerOp(w.name), Capture(PidVar(w.name), {c}), DirOp(<<"var", "run", "netns">>),
          SymlinkNetnsOp(w.name, PidVar(w.name)), NetnsOp(c)>>
     \o Each(Faces(w), LAMBDA n : Nic(c, n))
-----------------------------------------------------------------------------
(* The plan of a host: the operations of its scopes, in create order *)

InScope(scope, ops) == [i \in DOMAIN ops |-> [scope |-> scope, op |-> ops[i]]]

PlanUnits(h) ==
  InScope("configure", Configure(h))
  \o If(h.central, InScope("cluster", Cluster))
  \o Each(Only(IR.kernels, LAMBDA k : k.host = h.name), LAMBDA k : InScope(k.name, KernelRouter(k)))
  \o Each(Only(IR.containers, LAMBDA w : w.host = h.name), LAMBDA w : InScope(w.name, Workload(w)))

(* Refused: two next hops of a prefix at the lowest metric, two scopes of  *)
(* the same name, a NIC on a segment the host does not bind.               *)
IsPlannable ==
  /\ \A n \in ToSet(IR.routes) :
       LET same == {m \in ToSet(IR.routes) : m.router = n.router /\ m.prefix = n.prefix}
           best == {m \in same : \A l \in same : m.metric <= l.metric}
       IN Cardinality({m.nexthop : m \in best}) = 1
  /\ \A h \in ToSet(IR.hosts) :
       LET scopes == [i \in DOMAIN IR.kernels |-> IR.kernels[i].name]
                     \o [i \in DOMAIN IR.containers |-> IR.containers[i].name]
       IN IsInjective(scopes) /\ ToSet(scopes) \cap {"configure", "cluster"} = {}
  /\ \A w \in ToSet(IR.containers), p \in ToSet(IR.ports) :
       (\E f \in ToSet(p.faces) : f.service = w.name) =>
         \E s \in ToSet(IR.switches) : \E i \in ToSet(s.ifaces) :
           s.name = p.switch /\ i.host = w.host /\ i.bridge # ""
=============================================================================
