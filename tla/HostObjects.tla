----------------------------- MODULE HostObjects -----------------------------
(***************************************************************************)
(* What a command does to a host.  An object is named by its place: the    *)
(* sequence of <<kind, name>> from the outermost object that holds it, so  *)
(* an address is in a link, a link in a namespace, a port in a bridge.     *)
(* What goes away takes everything in it along, and one leg of a veth pair *)
(* takes the other.                                                        *)
(*                                                                         *)
(* A command is a record: the objects it needs, those that must not exist, *)
(* what it drops and adds, the pair it ties, and the directories it prunes *)
(* as long as they are empty.  ladops/*.py builds these commands; what     *)
(* they do is the kernel's, Open vSwitch's, OVN's and Docker's business    *)
(* and is taken from how the code relies on it.                            *)
(***************************************************************************)
EXTENDS Integers, SequencesExt

In(place, kind, name) == Append(place, <<kind, name>>)
Top(kind, name) == <<<<kind, name>>>>

(* An object needs what holds it. *)
Holder(o) == IF Len(o) = 1 THEN {} ELSE {Front(o)}

Nothing == [needs |-> {}, absent |-> {}, drop |-> {}, adds |-> {}, tie |-> {},
            moves |-> <<>>, prune |-> {}, optional |-> FALSE, ends |-> TRUE]

(* The commands.  An add fails when the object is there (no --may-exist),  *)
(* a delete when it is not, unless it is one of the --if-exists kind.      *)
Check(needs) == [Nothing EXCEPT !.needs = needs]
Add(o, needs) == [Nothing EXCEPT !.needs = needs \cup Holder(o), !.absent = {o}, !.adds = {o}]
AddPair(o, p) == [Nothing EXCEPT !.needs = Holder(o) \cup Holder(p), !.absent = {o, p},
                                 !.adds = {o, p}, !.tie = {{o, p}}]
Put(o, needs) == [Nothing EXCEPT !.needs = needs \cup Holder(o), !.adds = {o}]
Ensure(dirs) == [Nothing EXCEPT !.adds = dirs]
Delete(o, needs) == [Nothing EXCEPT !.needs = needs \cup {o}, !.drop = {o}]
DeleteIfExists(o) == [Nothing EXCEPT !.drop = {o}]
Move(o, to, needs) ==
  [Nothing EXCEPT !.needs = needs \cup {o} \cup Holder(to), !.absent = {to}, !.moves = <<o, to>>]
Rename(o, to, needs) ==   \* over what is there
  [Nothing EXCEPT !.needs = needs \cup {o} \cup Holder(to), !.moves = <<o, to>>]
Prune(dirs) == [Nothing EXCEPT !.prune = dirs]
Optional(c) == [c EXCEPT !.optional = TRUE]
Endless(c) == [c EXCEPT !.ends = FALSE]

Within(objs, tops) == {o \in objs : \E t \in tops : IsPrefix(t, o)}

Gone(host, tops) ==
  LET held == Within(host.objs, tops)
      peers == {p \in host.objs : \E o \in held : {o, p} \in host.ties}
  IN held \cup Within(host.objs, peers)

RemovedUpwards(host, dirs) ==   \* mutant: with what is in them
  IF dirs \subseteq host.objs THEN dirs ELSE {}

(* os.removedirs: the directory, then its parents, as long as each is empty *)
EmptyUpwards(host, dirs) ==
  IF dirs \subseteq host.objs
    THEN {d \in dirs : \A o \in host.objs : IsPrefix(d, o) => o \in dirs}
    ELSE {}

Applies(host, c) == c.needs \subseteq host.objs /\ c.absent \cap host.objs = {}

(* A link that moves to another namespace loses its addresses and routes;  *)
(* what a file is renamed over is gone.                                    *)
Moved(host, from, to) ==
  [objs |-> (host.objs \ Within(host.objs, {from})) \cup {to},
   ties |-> {IF from \in t THEN (t \ {from}) \cup {to} ELSE t : t \in host.ties}]

Dropped(host, c) ==
  LET gone == Gone(host, c.drop \cup EmptyUpwards(host, c.prune))
  IN [objs |-> (host.objs \ gone) \cup c.adds,
      ties |-> {t \in host.ties : t \cap gone = {}} \cup c.tie]

Effect(host, c) == IF c.moves = <<>> THEN Dropped(host, c) ELSE Moved(host, c.moves[1], c.moves[2])

(***************************************************************************)
(* A sequence of commands, one of which (hit.at; 0: none) may fail for a   *)
(* reason of its own: it is reported as failed, whether or not it took     *)
(* effect (hit.took), as when it ran into its timeout.  Strict: the first  *)
(* failure of a command that is not optional ends the sequence.  Lenient:  *)
(* every command is tried.                                                 *)
(***************************************************************************)
Ran(run, c, hit) ==
  LET works == Applies(run.host, c)
      took == works /\ (run.n = hit.at => hit.took)
      fine == works /\ c.ends /\ run.n # hit.at
  IN [host |-> IF took THEN Effect(run.host, c) ELSE run.host,
      ok |-> run.ok /\ fine, go |-> fine \/ c.optional, n |-> run.n + 1]

Started(host) == [host |-> host, ok |-> TRUE, go |-> TRUE, n |-> 1]

(* How a run of several commands goes. *)
RunOf(host, cmds, hit, lenient) ==
  LET run[n \in 0..Len(cmds)] ==
        IF n = 0 THEN Started(host)
        ELSE LET before == run[n - 1]
             IN IF lenient \/ before.go THEN Ran(before, cmds[n], hit) ELSE before
  IN run[Len(cmds)]

Strict(host, cmds, hit) == RunOf(host, cmds, hit, FALSE)
Lenient(host, cmds, hit) == RunOf(host, cmds, hit, TRUE)
=============================================================================
