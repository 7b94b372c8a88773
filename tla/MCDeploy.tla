------------------------------ MODULE MCDeploy ------------------------------
(* A central host with a segment on a NIC, one on an AF_XDP VLAN and a     *)
(* workload on the first, and an edge with two kernel routers: one in the  *)
(* namespace itself with a tunnel, one whose container takes the legs.     *)
EXTENDS DeployPlans

Iface(h, kind, xdp, dev, parent, bridge) ==
  [host |-> h, kind |-> kind, xdp |-> xdp, dev |-> dev, parent |-> parent, bridge |-> bridge,
   flow |-> TRUE, trunk |-> "veth-xdp", seg |-> "veth-seg"]

Side(side, kind, dev, parent, leg, groups, apps) ==
  [side |-> side, kind |-> kind, dev |-> dev, parent |-> parent, leg |-> leg,
   addrs |-> <<dev>>, routes |-> <<[dst |-> <<"default", "main">>, via |-> dev]>>,
   groups |-> groups, apps |-> apps]

MCSwitches == <<
  [name |-> "lan", ifaces |-> <<Iface("c", "vlan", FALSE, "eth0.5", "eth0", "br-lan"),
                               Iface("e", "physical", FALSE, "eth1", "", "br-lan")>>],
  [name |-> "dmz", ifaces |-> <<Iface("c", "vlan", TRUE, "", "eth1", "br-dmz")>>],
  [name |-> "up", ifaces |-> <<Iface("e", "veth", FALSE, "veth-ovn-1", "", "br-up"),
                              Iface("e", "veth", FALSE, "veth-ovn-2", "", "br-up")>>]>>

Face(service, nic, leg, peer) ==
  [service |-> service, nic |-> nic, leg |-> leg, peer |-> peer, addrs |-> <<"10.0.0.9">>,
   routes |-> <<[dst |-> "default", via |-> "10.0.0.9"]>>]

MCPorts == <<
  [name |-> "lrp-lan", router |-> "r1", switch |-> "lan", gateway |-> "e",
   faces |-> <<Face("web", "lan0", "sc-0", "sc-0c")>>],
  [name |-> "lrp-dmz", router |-> "r1", switch |-> "dmz", gateway |-> "", faces |-> <<>>]>>

Rule(kind, family, chain, cases, external, logicals) ==
  [kind |-> kind, family |-> family, chain |-> chain, cases |-> cases, action |-> "allow",
   external |-> external, logicals |-> logicals]

MCGroups == <<
  [name |-> "edge", defaults |-> {<<"INPUT", "deny">>},
   rules |-> <<Rule("filter", "ipv4", "INPUT", <<"ssh">>, "", <<>>),
               Rule("snat", "ipv4", "", <<>>, "1.2.3.4", <<"10.0.0.0", "10.0.1.0">>)>>],
  [name |-> "masq", defaults |-> {}, rules |-> <<Rule("masq", "ipv4", "", <<>>, "", <<>>)>>]>>

Tunnel == [kind |-> "wireguard", name |-> "wg0", groups |-> {"masq"}]
RouterContainer ==
  [kind |-> "docker", name |-> "k2-docker", image |-> "zt", build |-> TRUE,
   volumes |-> <<<<"var", "lib", "zt">>>>, identity |-> <<<<"var", "lib", "zt">>>>]
Dhclient == [kind |-> "dhclient"]

Hosts(flow) == <<
  [name |-> "c", central |-> TRUE, encap |-> TRUE, ipfix |-> flow],
  [name |-> "e", central |-> FALSE, encap |-> TRUE, ipfix |-> FALSE]>>
OvnRoutes == <<
  [router |-> "r1", prefix |-> "10.9", nexthop |-> "a", metric |-> 1],
  [router |-> "r1", prefix |-> "10.9", nexthop |-> "b", metric |-> 2]>>
Web == [name |-> "web", host |-> "c", image |-> "web", build |-> FALSE,
        files |-> <<<<"var", "lib", "ovn-fabric", "web">>>>]

MCIR == [
  hosts |-> Hosts(TRUE), switches |-> MCSwitches, bridges |-> <<>>, ports |-> MCPorts,
  groups |-> MCGroups, routers |-> <<[name |-> "r1", groups |-> {"edge"}]>>, routes |-> OvnRoutes,
  kernels |-> <<
    [name |-> "k1", host |-> "e", sides |-> <<
       Side("left", "veth", "veth-krn-1", "", "veth-ovn-1", {}, <<>>),
       Side("right", "vlan", "eth0.7", "eth0", "", {"masq"}, <<Tunnel>>)>>],
    [name |-> "k2", host |-> "e", sides |-> <<
       Side("left", "veth", "veth-krn-2", "", "veth-ovn-2", {}, <<>>),
       Side("right", "dummy", "dummy-right", "", "", {"masq"}, <<RouterContainer>>)>>]>>,
  containers |-> <<Web>>]

(* One kernel router with a DHCP client, or on a physical NIC: their create *)
(* does not complete, see the README.                                      *)
OneRouter(right) == [
  MCIR EXCEPT !.hosts = <<Hosts(FALSE)[1]>>, !.ports = <<>>, !.containers = <<>>, !.routes = <<>>,
              !.kernels = <<[name |-> "k1", host |-> "c", sides |-> <<right>>]>>]
DhclientIR == OneRouter(Side("right", "vlan", "eth0.7", "eth0", "", {}, <<Dhclient>>))
PhysicalIR == OneRouter(Side("right", "physical", "eth1", "", "", {}, <<>>))

(* NICs, a tunnel and a bridge of someone else. *)
MCBefore == [
  objs |-> {Link(RootNs, "eth0"), Link(RootNs, "eth1"), Top("bridge", "br-other"),
            BridgePort("br-other", "eth0"), File(WireguardDir, "other"),
            File(<<"var", "lib">>, "dpkg"), File(<<"var", "run">>, "dbus")}
           \cup UpTo(WireguardDir) \cup UpTo(<<"var", "lib">>) \cup UpTo(<<"var", "run">>),
  ties |-> {}]

(* The theorems of DeployProofs are about such a declaration. *)
ASSUME ForeignIsKept == KeepsToItself
ASSUME ChassisIsCaptured == CapturedBefore
ASSUME CreatesInOrder == InOrder
ASSUME PortsAreDevices == PortsHaveDevices
ASSUME AllIsUndone == DeletesAll
ASSUME UndoneInOrder == DeletesInOrder
=============================================================================
