------------------------------- MODULE Deploy -------------------------------
(***************************************************************************)
(* Creating and deleting on a host what an IR declares: the operations of  *)
(* Declare run, one after the other, as commands on the objects of the     *)
(* host (lifecycle.py, fabric/services/unit.py and apply.py).              *)
(*                                                                         *)
(* A create is strict: a command that fails ends its operation and its     *)
(* scope.  A delete rewinds the plan and is lenient.  Commands fail, the   *)
(* service dies and the host reboots; the host's other users have objects  *)
(* of their own.  Other hosts register their chassis when they please.     *)
(***************************************************************************)
EXTENDS Declare

CONSTANTS Before,      \* the objects on the host before the first run
          MaxRuns,     \* bound: runs of the service
          MaxFaults    \* bound: commands that fail by themselves, deaths, reboots

ASSUME IRAssumption == IsPlannable
ASSUME BoundAssumption == MaxRuns \in Nat /\ MaxFaults \in Nat

(* A plan is a sequence of units, and what an operation runs a sequence of *)
(* commands.                                                               *)
IsSequence(s) == s \in Seq(ToSet(s))

ASSUME PlanAssumption ==
  \A h \in ToSet(IR.hosts) :
    LET units == PlanUnits(h)
    IN  /\ IsSequence(units)
        /\ \A i \in DOMAIN units :
              IsSequence(units[i].op.create) /\ IsSequence(units[i].op.delete)

VARIABLES
  plan,        \* the units of the host, in create order: scope and operation
  host,        \* its objects, and which are tied
  act,         \* what runs: create, delete, or nothing
  at,          \* how far it is: an index of the plan, or of its reverse
  broken,      \* the scopes it can no longer create
  store,       \* the values it has captured
  registered,  \* the hosts whose chassis the southbound database knows
  noise,       \* history: the objects this delete reported a failure for
  did,         \* history: the last run, or that it was struck by a fault
  fresh,       \* history: nothing is created (clean), all is (whole), all was
               \* when this create began (again), neither
  runs, faults

vars == <<plan, host, act, at, broken, store, registered, noise, did, fresh, runs, faults>>

Foundation == {"configure", "cluster"}

(* The hosts whose chassis an operation of the plan waits for. *)
Awaited == UNION {plan[i].op.waits : i \in DOMAIN plan}

ScopeAt(i) == plan[i].scope
OpInPlanOrder(i) == plan[i].op   \* mutant: a delete does not rewind

OpAt(i) == plan[IF act = "delete" THEN Len(plan) + 1 - i ELSE i].op

(* Where a create goes on: a broken scope, or all after a broken foundation *)
(* is skipped.                                                              *)
Blocked(i, scopes) == ScopeAt(i) \in scopes \/ scopes \cap Foundation # {}
NextAt(i, scopes) ==
  LET open == {j \in i..Len(plan) : ~ Blocked(j, scopes)}
  IN IF open = {} THEN Len(plan) + 1 ELSE CHOOSE j \in open : \A k \in open : j <= k

NoHit == [at |-> 0, took |-> FALSE]
Hits(cmds) == [at : DOMAIN cmds, took : BOOLEAN]

TypeOK ==
  /\ \E h \in ToSet(IR.hosts) : plan = PlanUnits(h)
  /\ act \in {"idle", "create", "delete"}
  /\ at \in 1..(Len(plan) + 1)
  /\ broken \subseteq {ScopeAt(i) : i \in DOMAIN plan}
  /\ store \subseteq UNION {plan[i].op.gets : i \in DOMAIN plan}
  /\ registered \subseteq Awaited
  /\ \A o \in host.objs : Holder(o) \subseteq host.objs
  /\ \A t \in host.ties : t \subseteq host.objs
  /\ did \in {"none", "create", "delete", "struck"}
  /\ fresh \in {"clean", "whole", "again", "neither"}
  /\ runs \in 0..MaxRuns /\ faults \in 0..MaxFaults

Init ==
  /\ \E h \in ToSet(IR.hosts) : plan = PlanUnits(h)
  /\ host = Before
  /\ act = "idle" /\ at = 1
  /\ broken = {} /\ store = {} /\ noise = {}
  /\ registered = {}
  /\ did = "none" /\ fresh = "clean"
  /\ runs = 0 /\ faults = 0
-----------------------------------------------------------------------------
(* ovn-controller of a host comes up and registers. *)
Register(h) ==
  /\ h \notin registered
  /\ registered' = registered \cup {h}
  /\ UNCHANGED <<plan, host, act, at, broken, store, noise, did, fresh, runs, faults>>

AfreshButFailed == store' = {} /\ noise' = {} /\ UNCHANGED broken   \* mutant: keeps what failed

(* Each run of the service starts with objects of its own. *)
Afresh == broken' = {} /\ store' = {} /\ noise' = {}

Begin(action) ==
  /\ act = "idle" /\ runs < MaxRuns
  /\ act' = action /\ at' = 1 /\ runs' = runs + 1
  /\ Afresh
  /\ did' = "none"
  /\ fresh' = CASE action = "delete" \/ fresh = "clean" -> fresh
                [] action = "create" /\ fresh = "whole" -> "again"
                [] OTHER -> "neither"
  /\ UNCHANGED <<plan, host, registered, faults>>

(* What can strike an operation of cmds, within the bound. *)
Strokes(cmds) == {NoHit} \cup IF faults < MaxFaults THEN Hits(cmds) ELSE {}

Struck(hit) ==
  IF hit = NoHit THEN UNCHANGED <<faults, did, fresh>>
  ELSE faults' = faults + 1 /\ did' = "struck" /\ fresh' = "neither"

CreateStepRegardless ==   \* mutant: does not wait for what it refers to
  /\ act = "create" /\ at <= Len(plan)
  /\ \E hit \in Strokes(OpAt(at).create) :
       LET run == Strict(host, OpAt(at).create, hit)
           scopes == IF run.go THEN broken ELSE broken \cup {ScopeAt(at)}
       IN  /\ Struck(hit)
           /\ host' = run.host /\ broken' = scopes
           /\ store' = IF run.go THEN store \cup OpAt(at).gets ELSE store
           /\ at' = NextAt(at + 1, scopes)
  /\ UNCHANGED <<plan, act, registered, noise, runs>>

(* Primitive.create of the operation at hand: when all of its commands go  *)
(* through the plan goes on, else without the scope.                       *)
CreateStep ==
  /\ act = "create" /\ at <= Len(plan)
  /\ OpAt(at).waits \subseteq registered
  /\ \E hit \in Strokes(OpAt(at).create) :
       LET resolved == OpAt(at).uses \subseteq store
           run == Strict(host, OpAt(at).create, hit)
           good == resolved /\ run.go
           scopes == IF good THEN broken ELSE broken \cup {ScopeAt(at)}
       IN  /\ Struck(hit)
           /\ host' = IF resolved THEN run.host ELSE host
           /\ broken' = scopes
           /\ store' = IF good THEN store \cup OpAt(at).gets ELSE store
           /\ at' = NextAt(at + 1, scopes)
  /\ UNCHANGED <<plan, act, registered, noise, runs>>

(* wait_capture: the chassis is not there after the last retry. *)
GiveUp ==
  /\ act = "create" /\ at <= Len(plan)
  /\ ~ OpAt(at).waits \subseteq registered
  /\ broken' = broken \cup {ScopeAt(at)}
  /\ at' = NextAt(at + 1, broken')
  /\ fresh' = "neither"
  /\ UNCHANGED <<plan, host, act, store, registered, noise, did, runs, faults>>

(* Primitive.delete: every command is tried, a failure is reported. *)
DeleteStep ==
  /\ act = "delete" /\ at <= Len(plan)
  /\ \E hit \in Strokes(OpAt(at).delete) :
       LET run == Lenient(host, OpAt(at).delete, hit)
       IN  /\ Struck(hit)
           /\ host' = run.host
           /\ noise' = IF run.ok THEN noise ELSE noise \cup {OpAt(at).key}
  /\ at' = at + 1
  /\ UNCHANGED <<plan, act, broken, store, registered, runs>>

Finish ==
  /\ act # "idle" /\ at > Len(plan)
  /\ act' = "idle"
  /\ did' = IF did = "struck" THEN did ELSE act
  /\ fresh' = IF host = Before THEN "clean"
              ELSE IF act = "create" /\ fresh = "clean" /\ broken = {} THEN "whole" ELSE "neither"
  /\ UNCHANGED <<plan, host, at, broken, store, registered, noise, runs, faults>>

(* The service dies in the middle of an operation, at a command that may   *)
(* have taken effect.                                                      *)
Die ==
  /\ act # "idle" /\ at <= Len(plan) /\ faults < MaxFaults
  /\ LET cmds == IF act = "create" THEN OpAt(at).create ELSE OpAt(at).delete
     IN \E hit \in Hits(cmds) :
          host' = (IF act = "create" THEN Strict(host, SubSeq(cmds, 1, hit.at), hit)
                   ELSE Lenient(host, SubSeq(cmds, 1, hit.at), hit)).host
  /\ act' = "idle" /\ did' = "struck" /\ fresh' = "neither" /\ faults' = faults + 1
  /\ UNCHANGED <<plan, at, broken, store, registered, noise, runs>>

(* Namespaces, links and what is set in them go, and so do the insides of  *)
(* a container and what is in a file system in memory.                     *)
IsVolatile(o) ==
  \/ o[1][1] \in {"netns", "nslink", "link", "rule", "iptables"}
  \/ o[1][1] = "container" /\ Len(o) > 1
  \/ IsPrefix(DirObject(<<"var", "run", "netns">>), o)

Reboot ==
  /\ faults < MaxFaults /\ runs > 0
  /\ LET kept == {o \in host.objs : ~ IsVolatile(o)} \cup Before.objs
     IN host' = [objs |-> kept, ties |-> {}]
  /\ act' = "idle" /\ did' = "struck" /\ fresh' = "neither" /\ faults' = faults + 1
  /\ UNCHANGED <<plan, at, broken, store, registered, noise, runs>>

AllOver == act = "idle" /\ runs = MaxRuns /\ UNCHANGED vars

Next ==
  \/ \E h \in Awaited : Register(h)
  \/ \E action \in {"create", "delete"} : Begin(action)
  \/ CreateStep \/ GiveUp \/ DeleteStep
  \/ Finish \/ Die \/ Reboot \/ AllOver

Spec == Init /\ [][Next]_vars
-----------------------------------------------------------------------------
(* Properties *)

Known == {plan[i].op.key : i \in DOMAIN plan}

(* What a plan declares can be created on a host that has none of it: no   *)
(* operation relies on something a later one makes or an earlier one takes *)
(* away.                                                                   *)
CreateCompletes == act = "create" /\ fresh = "clean" => broken = {}

(* "Re-running it is always safe" (README.md:11-12), a create of what is   *)
(* there too. It is not: the operations on OVS, tunnels and links add       *)
(* strictly, and their scope breaks.                                        *)
CreateRepeats == act = "create" /\ fresh = "again" => broken = {}

(* What an operation makes on its own and only then moves to where the     *)
(* delete looks for it: a link made in the root namespace, the .<name>.tmp *)
(* a file is written to (lifecycle.py:148-153).                            *)
HalfMovedOf(units) ==
  UNION {{c.moves[1] : c \in {c \in ToSet(units[i].op.create) :
            c.moves # <<>> /\ \E d \in ToSet(units[i].op.create) : d.adds = {c.moves[1]}}}
           : i \in DOMAIN units}

HalfMoved == HalfMovedOf(plan)

(* However far a create got, in however many attempts, what a later delete *)
(* leaves was there before, or is a link or a file that was not moved yet  *)
(* when the create was struck, or a directory such a file keeps from being *)
(* pruned: nothing else is there, and no directory without such a file.    *)
NothingLeft ==
  act = "idle" /\ did = "delete" =>
    \A o \in host.objs : o \in Before.objs \/ \E f \in host.objs \cap HalfMoved : IsPrefix(o, f)

(* What others have on the host stays. *)
ForeignUntouched == \A o \in Before.objs \ Known : o \in host.objs

(* Nothing of the plan refers to what is not there: no port is pinned to a *)
(* chassis that has not registered, which would get none of the traffic;   *)
(* and when all is created every port of a bridge is a device of the host. *)
Refers(units, i, j) == units[j].op.gets \cap units[i].op.uses # {}

PinnedIsRegistered ==
  \A i, j \in DOMAIN plan :
    plan[i].op.key \in host.objs /\ Refers(plan, i, j) => plan[j].op.waits \subseteq registered

NothingDangles ==
  /\ PinnedIsRegistered
  /\ act = "idle" /\ fresh = "whole" =>
        \A o \in host.objs : Last(o)[1] = "port" => Link(RootNs, Last(o)[2]) \in host.objs

(* Deleting what was created runs into nothing unexpected: only into the   *)
(* addresses and routes a link lost when it was lent to a container, and   *)
(* into a NAT mapping that went with another of its external address.      *)
LostOf(units) ==
  LET keys == {units[i].op.key : i \in DOMAIN units}
      moved == {c.moves[1] : c \in {c \in UNION {ToSet(units[i].op.create) : i \in DOMAIN units} :
                                      c.moves # <<>>}}
  IN {o \in keys : \/ \E link \in moved : IsStrictPrefix(link, o)
                   \/ Len(o) = 3 /\ \E p \in keys \ {o} : Len(p) = 3 /\ Front(o) = Front(p) /\ o[2][1] = "nat"}

LostOnTheWay == LostOf(plan)

DeleteIsQuiet == act = "delete" /\ fresh = "whole" => noise \subseteq LostOnTheWay
=============================================================================
