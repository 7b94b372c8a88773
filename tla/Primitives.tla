----------------------------- MODULE Primitives ------------------------------
(***************************************************************************)
(* The operations a host is declared with (deployer/primitives_*.py and    *)
(* the operations of deployer/lifecycle.py): each is the commands that     *)
(* create its object and those that delete it.  Labels, option values and  *)
(* the nodes of the raw graph are left out: nothing reads them back.       *)
(*   gets: the value the operation captures   uses: the values it refers to *)
(*   waits: the chassis whose registration it waits for                    *)
(***************************************************************************)
EXTENDS HostObjects

Op(key, create, delete) ==
  [key |-> key, create |-> create, delete |-> delete, gets |-> {}, uses |-> {}, waits |-> {}]
If(condition, cmds) == IF condition THEN cmds ELSE <<>>
-----------------------------------------------------------------------------
(* Namespaces and links *)

RootNs == <<>>
KernelNs(n) == Top("netns", n)
ContainerNs(c) == Top("container", c)
NsLink(c) == Top("nslink", c)          \* /var/run/netns/<container>
Link(ns, l) == In(ns, "link", l)

(* `ip netns exec`: a container's namespace is reached by its link. *)
Enter(ns) == IF ns = RootNs THEN {} ELSE {ns} \cup
             IF ns[1][1] = "container" THEN {NsLink(ns[1][2])} ELSE {}

(* The root namespace and a container's are never created or deleted. *)
NetnsOp(ns) ==
  IF ns = RootNs \/ ns[1][1] = "container" THEN Op(ns, <<>>, <<>>)
  ELSE Op(ns, <<Add(ns, {}), Check({ns})>>, <<Delete(ns, {})>>)

LinkPairOp(l, peer) ==
  Op(Link(RootNs, l),
     <<AddPair(Link(RootNs, l), Link(RootNs, peer)), Check({Link(RootNs, l)}),
       Check({Link(RootNs, peer)})>>,
     <<Delete(Link(RootNs, l), {})>>)

VlanOp(parent, l) ==
  Op(Link(RootNs, l),
     <<Add(Link(RootNs, l), {Link(RootNs, parent)}), Check({Link(RootNs, l)})>>,
     <<Delete(Link(RootNs, l), {})>>)

BridgePort(b, p) == In(Top("bridge", b), "port", p)

(* A link made in the root namespace and moved to ns, where it is called   *)
(* final.  The root leg of a veth is plugged into a bridge first.          *)
InnerLinkDeleted(ns, l) == <<Delete(Link(ns, l), Enter(ns))>>
MovedIn(ns, l, final) ==
  <<Move(Link(RootNs, l), Link(ns, l), Enter(ns))>>
  \o If(final # l, <<Move(Link(ns, l), Link(ns, final), Enter(ns))>>)
  \o <<Check({Link(ns, final)} \cup Enter(ns))>>

PairIn(ns, l, final, leg, bridge, port) ==
  <<AddPair(Link(RootNs, leg), Link(RootNs, l)), Check({Link(RootNs, leg)})>>
  \o If(bridge # "", <<Add(BridgePort(bridge, port), {})>>)
  \o MovedIn(ns, l, final)
Unplugged(bridge, port) == If(bridge # "", <<DeleteIfExists(BridgePort(bridge, port))>>)

NetnsVethOp(ns, l, final, leg, bridge) ==
  Op(Link(ns, final), PairIn(ns, l, final, leg, bridge, leg),
     Unplugged(bridge, leg) \o <<Delete(Link(RootNs, leg), {})>>)

NetnsVlanOp(ns, l, parent) ==
  Op(Link(ns, l), <<Add(Link(RootNs, l), {Link(RootNs, parent)})>> \o MovedIn(ns, l, l),
     InnerLinkDeleted(ns, l))

NetnsDummyOp(ns, l) ==
  Op(Link(ns, l), <<Add(Link(RootNs, l), {})>> \o MovedIn(ns, l, l), InnerLinkDeleted(ns, l))

(* Nothing moves the device of a physical side in. *)
NetnsPhysicalOp(ns, l) ==
  Op(Link(ns, l), <<Check({Link(ns, l)} \cup Enter(ns))>>, InnerLinkDeleted(ns, l))

(* A link lent to another namespace, and given back. *)
LinkMoveOp(ns, l, to) ==
  Op(Link(to, l),
     <<Move(Link(ns, l), Link(to, l), Enter(ns) \cup Enter(to)), Check({Link(to, l)})>>,
     <<Optional(Move(Link(to, l), Link(ns, l), Enter(ns) \cup Enter(to)))>>)
-----------------------------------------------------------------------------
(* What is set in a namespace *)

(* One object, added and deleted in ns. *)
OneInNs(ns, o) == Op(o, <<Add(o, Enter(ns))>>, <<Delete(o, Enter(ns))>>)
AddrOp(ns, l, addr) == OneInNs(ns, In(Link(ns, l), "addr", addr))
IpRuleOp(ns, source) == OneInNs(ns, In(ns, "rule", source))

(* A next hop must be reachable: through an address of the link. *)
RouteOp(ns, l, r) ==
  LET route == In(Link(ns, l), "route", r.dst)
      reach == IF r.via = "" THEN {} ELSE {In(Link(ns, l), "addr", r.via)}
  IN Op(route, <<Add(route, Enter(ns) \cup reach)>>, <<Delete(route, Enter(ns))>>)

(* iptables -A takes a rule that is there already. *)
IptablesOp(ns, rule) ==
  LET o == In(ns, "iptables", rule)
  IN Op(o, <<Put(o, Enter(ns))>>, <<Delete(o, Enter(ns))>>)

(* Never undone: the setting goes with the namespace. *)
SysctlOp(ns, needs) == Op(ns, <<Check(Enter(ns) \cup needs)>>, <<>>)

WireguardOp(ns, iface, conf) ==
  Op(Link(ns, iface), <<Add(Link(ns, iface), Enter(ns) \cup {conf})>>,
     <<Delete(Link(ns, iface), Enter(ns) \cup {conf})>>)

(* dhclient -d stays in the foreground: the command never ends by itself. *)
DhclientOp(ns, l) ==
  Op(Link(ns, l), <<Endless(Check({Link(ns, l)} \cup Enter(ns)))>>,
     <<Check({Link(ns, l)} \cup Enter(ns))>>)
-----------------------------------------------------------------------------
(* Open vSwitch *)

BridgeOp(b) ==
  LET o == Top("bridge", b)
  IN Op(o, <<Add(o, {}), Check({o})>>, <<DeleteIfExists(o)>>)

PortOp(b, p) ==
  LET o == BridgePort(b, p)
  IN Op(o, <<Add(o, {}), Check({o})>>, <<DeleteIfExists(o)>>)

ExternalIdOp(k) ==
  LET o == Top("ovs", k) IN Op(o, <<Put(o, {})>>, <<DeleteIfExists(o)>>)
MappingOp == ExternalIdOp("ovn-bridge-mappings")

IpfixOp(b) ==
  LET o == In(Top("bridge", b), "ipfix", b) IN Op(o, <<Put(o, {})>>, <<DeleteIfExists(o)>>)
-----------------------------------------------------------------------------
(* OVN's northbound database *)

Switch(s) == Top("ls", s)
SwitchPort(s, p) == In(Switch(s), "lsp", p)
Router(r) == Top("lr", r)
RouterPort(r, p) == In(Router(r), "lrp", p)

(* Made by one command, set up by others, deleted with --if-exists. *)
Logical(o) == Op(o, <<Add(o, {}), Check({o})>>, <<DeleteIfExists(o)>>)
LsOp(s) == LET o == Switch(s) IN Op(o, <<Add(o, {})>>, <<DeleteIfExists(o)>>)
LspOp(s, p) == Logical(SwitchPort(s, p))
LrOp(r) == Logical(Router(r))
OvnRouteOp(r, prefix) == Logical(In(Router(r), "route", prefix))
ConnectionOp(db) == LET o == Top("connection", db) IN Op(o, <<Put(o, {})>>, <<DeleteIfExists(o)>>)

(* A gateway port is pinned to a chassis whose id was captured. *)
LrpOp(r, p, chassis) == [Logical(RouterPort(r, p)) EXCEPT !.uses = chassis]

(* lr-nat-del drops every mapping of the external address. *)
NatOp(r, external, logical) ==
  LET of == In(Router(r), "nat", external)
      o == In(of, "to", logical)
  IN Op(o, <<[Add(o, {}) EXCEPT !.needs = {Router(r)}, !.adds = {of, o}]>>,
        <<[Nothing EXCEPT !.needs = {Router(r)}, !.drop = {of}]>>)

AclOp(s, acl) ==
  LET o == In(Switch(s), "acl", acl)
  IN Op(o, <<Add(o, {})>>, <<[DeleteIfExists(o) EXCEPT !.needs = {Switch(s)}]>>)
-----------------------------------------------------------------------------
(* Docker and files *)

ImageOp(image, needs) ==
  LET o == Top("image", image) IN Op(o, <<Put(o, needs)>>, <<Delete(o, {})>>)

DockerOp(c) ==
  LET o == ContainerNs(c)
  IN Op(o, <<Optional(Delete(o, {})), Add(o, {})>>, <<Delete(o, {})>>)

DockerExecOp(c) == Op(ContainerNs(c), <<Check({ContainerNs(c)})>>, <<>>)

(* A directory is the sequence of its names; it and its parents, as        *)
(* objects. A path of directories is made, and removed, in one step.       *)
DirObject(path) == [i \in DOMAIN path |-> <<"dir", path[i]>>]
UpTo(path) == {DirObject(SubSeq(path, 1, i)) : i \in DOMAIN path}
File(path, name) == In(DirObject(path), "file", name)
TmpFile(path, name) == In(DirObject(path), "tmp", name)   \* .<name>.tmp

DirOp(path) == Op(DirObject(path), <<Ensure(UpTo(path))>>, <<Prune(UpTo(path))>>)

StateDirOp(path) ==
  Op(DirObject(path), <<Ensure(UpTo(path))>>, <<DeleteIfExists(DirObject(path))>>)

(* Written next to the file, then renamed over it; deleted by its name only. *)
WriteFileOp(path, name) ==
  LET o == File(path, name)
      tmp == TmpFile(path, name)
  IN Op(o, <<Ensure(UpTo(path)), Put(tmp, {}), Rename(tmp, o, {})>>, <<DeleteIfExists(o)>>)
ChmodOp(path, name) == Op(File(path, name), <<Check({File(path, name)})>>, <<>>)

Capture(name, needs) == [Op(Top("value", name), <<Check(needs)>>, <<>>) EXCEPT !.gets = {name}]

(* Answered once the chassis of host h is in the southbound database. *)
ChassisCapture(name, h) == [Capture(name, {}) EXCEPT !.waits = {h}]

(* The container must run; the link must not exist. *)
SymlinkNetnsOp(c, pid) ==
  [Op(NsLink(c), <<Add(NsLink(c), {ContainerNs(c)})>>, <<DeleteIfExists(NsLink(c))>>)
     EXCEPT !.uses = {pid}]
=============================================================================
