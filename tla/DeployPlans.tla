---------------------------- MODULE DeployPlans -----------------------------
(***************************************************************************)
(* What a declaration has to be for the theorems of DeployProofs: each     *)
(* condition is one on the plans of its hosts, and on what is on a host    *)
(* before, never on how a run goes.  MCDeploy has TLC evaluate them for    *)
(* its declaration.                                                        *)
(***************************************************************************)
EXTENDS Deploy

CommandsOf(units) ==
  UNION {ToSet(units[i].op.create) \cup ToSet(units[i].op.delete) : i \in DOMAIN units}

(* The objects a command takes away, with all that is in them, or ties. *)
Takes(c) ==
  c.drop \cup (UNION c.tie) \cup IF c.moves = <<>> THEN {} ELSE {c.moves[1], c.moves[2]}

(* The objects it makes. *)
Brings(c) == IF c.moves = <<>> THEN c.adds ELSE {c.moves[2]}

Others(units) == Before.objs \ {units[i].op.key : i \in DOMAIN units}
Holds(o, objs) == \E f \in objs : IsPrefix(o, f)

(* It or what it is in may be taken away or pruned by the plan. *)
Exposed(o, units) ==
  \E c \in CommandsOf(units) : \E q \in Takes(c) \cup c.prune : q = o \/ IsStrictPrefix(q, o)

(* What others have is not in what the plan takes away or ties, nor tied to *)
(* it; and where they have something in a directory that is pruned, they   *)
(* have something there besides pruned directories: what is empty is gone. *)
KeepsToItself ==
  \A h \in ToSet(IR.hosts) :
    LET units == PlanUnits(h)
        others == Others(units)
    IN  /\ \A c \in CommandsOf(units) :
              /\ \A o \in Takes(c) : ~ Holds(o, others)
              /\ \A d \in c.prune : Holds(d, others) => Holds(d, others \ c.prune)
        /\ \A t \in Before.ties : \A o, p \in t : Exposed(o, units) => ~ Holds(p, others)

(* A value is captured before what refers to it is created, in the same    *)
(* scope; and what refers to the chassis of a host is new, and made by     *)
(* operations only that refer to it too.                                   *)
CapturedBefore ==
  \A h \in ToSet(IR.hosts) :
    LET units == PlanUnits(h)
    IN \A i, j \in DOMAIN units : Refers(units, i, j) =>
         /\ j < i /\ units[j].scope = units[i].scope
         /\ units[j].op.waits # {} =>
              /\ units[i].op.key \notin Before.objs
              /\ \A k \in DOMAIN units :
                   /\ \A c \in ToSet(units[k].op.create) :
                        units[i].op.key \in Brings(c) => Refers(units, k, j)
                   /\ \A c \in ToSet(units[k].op.delete) : units[i].op.key \notin Brings(c)

-----------------------------------------------------------------------------
(* Creating *)

(* The steps of a create are the commands of its operations; a step        *)
(* displaces what it moves elsewhere or what is lost on the way.           *)
Steps(units) == UNION {{i} \X DOMAIN units[i].op.create : i \in DOMAIN units}
Command(units, s) == units[s[1]].op.create[s[2]]
Precedes(r, s) == r[1] < s[1] \/ (r[1] = s[1] /\ r[2] < s[2])
Earlier(units, s) == {r \in Steps(units) : Precedes(r, s)}
Complete(units) == <<Len(units) + 1, 1>>   \* the step after the last

Displaces(c, o) == c.moves # <<>> /\ IsPrefix(c.moves[1], o) /\ o # c.moves[2]

(* A create on the host as it was comes to step s with object o there: the *)
(* object was there before or a step has brought it, and none has moved it *)
(* since; or without: nothing has brought it, or not since it was moved.   *)
Stands(o, units, s) ==
  \/ o \in Before.objs /\ \A r \in Earlier(units, s) : ~ Displaces(Command(units, r), o)
  \/ \E q \in Earlier(units, s) :
        /\ o \in Brings(Command(units, q)) /\ ~ Command(units, q).optional
        /\ \A r \in Earlier(units, s) : Precedes(q, r) => ~ Displaces(Command(units, r), o)

Lacks(o, units, s) ==
  \/ o \notin Before.objs /\ \A r \in Earlier(units, s) : o \notin Brings(Command(units, r))
  \/ \E q \in Earlier(units, s) :
        /\ Displaces(Command(units, q), o) /\ ~ Command(units, q).optional
        /\ \A r \in Earlier(units, s) : Precedes(q, r) => o \notin Brings(Command(units, r))

(* What a command needs is there when its turn comes, what must not be     *)
(* there is not, and it ends by itself; one that is optional, the only     *)
(* kind that drops or prunes something, finds nothing to do.               *)
Timely(units, s) ==
  LET c == Command(units, s)
  IN IF c.optional THEN \E o \in c.needs : Lacks(o, units, s)
     ELSE /\ c.ends /\ c.drop = {} /\ c.prune = {}
          /\ \A o \in c.needs : Stands(o, units, s)
          /\ \A o \in c.absent : Lacks(o, units, s)

InOrder ==
  \A h \in ToSet(IR.hosts) :
    LET units == PlanUnits(h)
    IN  /\ \A s \in Steps(units) : Timely(units, s)
        /\ \A i \in DOMAIN units :
             units[i].op.uses \subseteq UNION {units[j].op.gets : j \in 1..(i - 1)}

(* A port that is there when all is created is called as a link that is.   *)
PortsHaveDevices ==
  \A h \in ToSet(IR.hosts) :
    LET units == PlanUnits(h)
        end == Complete(units)
    IN \A o \in Before.objs \cup UNION {Brings(Command(units, s)) : s \in Steps(units)} :
         Last(o)[1] = "port" =>
           Lacks(o, units, end) \/ Stands(Link(RootNs, Last(o)[2]), units, end)
-----------------------------------------------------------------------------
(* Deleting *)

(* An object and all that hold it. *)
Places(o) == {SubSeq(o, 1, i) : i \in DOMAIN o}

Made(units) == UNION {Brings(c) : c \in CommandsOf(units)}
Movers(units) == {c \in CommandsOf(units) : c.moves # <<>>}

(* What can be tied to something, ever. *)
Ends(units) ==
  (UNION (Before.ties \cup UNION {c.tie : c \in CommandsOf(units)}))
  \cup {c.moves[2] : c \in Movers(units)}

(* Two ends that may ever be tied: those a command ties, wherever they are *)
(* moved to.                                                               *)
Retied(t, c) == IF c.moves[1] \in t THEN (t \ {c.moves[1]}) \cup {c.moves[2]} ELSE t

Tethers(units) ==
  LET movers == Movers(units)
      after[n \in 0..Len(units)] ==
        IF n = 0 THEN Before.ties \cup UNION {c.tie : c \in CommandsOf(units)}
        ELSE LET ties == after[n - 1] IN ties \cup {Retied(t, c) : t \in ties, c \in movers}
  IN after[Len(units)]

(* Nothing is made without what holds it, and what is dropped, moved or    *)
(* tied is what the command says: one pair at a time, of new objects, none *)
(* of them in another that is moved; nothing tied is moved over another.   *)
Placed(units) ==
  /\ \A o \in Before.objs \cup Made(units) \cup UNION {Takes(c) \cup c.prune : c \in CommandsOf(units)} :
       IsSequence(o) /\ o # <<>>
  /\ \A o \in Before.objs : Places(o) \subseteq Before.objs
  /\ \A t \in Before.ties : t \subseteq Before.objs /\ \A u \in Before.ties : t \cap u # {} => t = u
  /\ \A c \in CommandsOf(units) :
       /\ \A o \in Brings(c) : \A p \in Places(o) : p \in Brings(c) \/ \E f \in c.needs : p \in Places(f)
       /\ c.drop \cup c.prune # {} => c.moves = <<>> /\ c.adds = {} /\ c.tie = {}
       /\ \A t \in c.tie : t \subseteq c.adds \cap c.absent /\ c.tie = {t}
  /\ LET tethers == Tethers(units)
     IN  /\ Before.ties \cup UNION {c.tie : c \in CommandsOf(units)} \subseteq tethers
         /\ \A t \in tethers : \A c \in Movers(units) : Retied(t, c) \in tethers
  /\ \A c \in Movers(units) :
       /\ c.tie = {}
       /\ c.moves[2] \in c.absent \/ \A t \in Tethers(units) : c.moves[1] \notin t
       /\ \A o \in Ends(units) : ~ IsStrictPrefix(c.moves[1], o)

(* The directories that are pruned: each a path from the root, made as a   *)
(* whole, with all that holds a file; none is taken away otherwise, or in  *)
(* part by a reboot.                                                       *)
Prunes(units) == {c.prune : c \in CommandsOf(units)} \ {{}}
NewDirs(units) == (UNION Prunes(units)) \ Before.objs

PrunedUpwards(units) ==
  /\ \A P \in Prunes(units) :
       /\ \E leaf \in P : P = Places(leaf)
       /\ \A d \in P \ Before.objs : \A e \in P : IsVolatile(e) => IsVolatile(d)
  /\ \A c \in CommandsOf(units) :
       /\ c.prune # {} => c.drop = {}
       /\ \A d \in Brings(c) \cap NewDirs(units) : \E P \in Prunes(units) : d \in P /\ P \subseteq c.adds
       /\ \A q \in Takes(c) : \A d \in UNION Prunes(units) : ~ IsPrefix(q, d)
  /\ \A e \in Ends(units) : \A d \in UNION Prunes(units) : ~ IsPrefix(e, d)
  /\ \A o \in Made(units) \ (Before.objs \cup NewDirs(units)) :
       Len(o) > 1 /\ Front(o) \in NewDirs(units) => Places(Front(o)) \in Prunes(units)

(* The steps of a delete, and their order: the plan is rewound. *)
Undoings(units) == UNION {{i} \X DOMAIN units[i].op.delete : i \in DOMAIN units}
Undoing(units, k) == units[k[1]].op.delete[k[2]]
Rewinds(k, l) == k[1] > l[1] \/ (k[1] = l[1] /\ k[2] < l[2])

(* A command that takes o whenever o is there. *)
DropsAny(c, o) ==
  /\ c.absent = {} /\ c.needs \subseteq Places(o)
  /\ \E t \in c.drop : IsPrefix(t, o)

(* Object o comes tied to p, which stays where it is: p is there, tied to  *)
(* o, as long as o is.                                                     *)
TiedTo(units, o, p) ==
  /\ o \notin Before.objs /\ IsVolatile(o)
  /\ \A c \in CommandsOf(units) : o \in Brings(c) => {o, p} \in c.tie
  /\ \A c \in Movers(units) : ~ IsPrefix(c.moves[1], p)
  /\ \A e \in Ends(units) : ~ IsStrictPrefix(e, p)

(* Step k takes o, or what o is tied to, and no later one brings it back.  *)
Clears(units, k, o) ==
  LET c == Undoing(units, k)
  IN  /\ DropsAny(c, o) \/ \E p \in Made(units) : DropsAny(c, p) /\ TiedTo(units, o, p)
      /\ \A l \in Undoings(units) : Rewinds(k, l) => o \notin Brings(Undoing(units, l))

LastPrune(units, P, k) ==
  /\ Undoing(units, k).prune = P
  /\ \A l \in Undoings(units) : Undoing(units, l).prune = P => l = k \/ Rewinds(l, k)

(* From step k on nothing takes o. *)
Stays(units, k, o) ==
  /\ \A e \in Ends(units) : ~ IsPrefix(e, o)
  /\ \A l \in Undoings(units) : l = k \/ Rewinds(k, l) =>
       LET c == Undoing(units, l) IN o \notin c.prune /\ \A q \in Takes(c) : ~ IsPrefix(q, o)

(* All that a create makes is cleared by some step of the delete, but for  *)
(* what is half moved; a directory is pruned when all in it is gone, or    *)
(* what is half moved in it is there to stay.                              *)
Undone(units) ==
  /\ \A o \in Made(units) \ (Before.objs \cup NewDirs(units) \cup HalfMovedOf(units)) :
       \E k \in Undoings(units) : Clears(units, k, o)
  /\ \A k \in Undoings(units) : Brings(Undoing(units, k)) \cap UNION Prunes(units) = {}
  /\ \A P \in Prunes(units) : P \subseteq Before.objs \/
       \E k \in Undoings(units) :
         /\ LastPrune(units, P, k)
         /\ Undoing(units, k).needs = {} /\ Undoing(units, k).absent = {}
         /\ \A o \in Made(units) \ (Before.objs \cup P) : P \subseteq Places(o) =>
              IF o \in NewDirs(units)
                THEN \A Q \in Prunes(units) : o \in Q =>
                       \E l \in Undoings(units) : LastPrune(units, Q, l) /\ Rewinds(l, k)
                ELSE \/ \E l \in Undoings(units) : Clears(units, l, o) /\ Rewinds(l, k)
                     \/ o \in HalfMovedOf(units) /\ Stays(units, k, o)

DeletesAll ==
  \A h \in ToSet(IR.hosts) :
    LET units == PlanUnits(h) IN Placed(units) /\ PrunedUpwards(units) /\ Undone(units)
-----------------------------------------------------------------------------
(* Deleting what was created *)

Quiet(units, k) == units[k[1]].op.key \notin LostOf(units)

(* A command removes o; or may: because it is empty, or with what is tied  *)
(* to something that goes.                                                 *)
Removes(c, o) ==
  IF c.moves = <<>> THEN o \notin c.adds /\ \E t \in c.drop : IsPrefix(t, o) ELSE Displaces(c, o)

(* Like Stands and Lacks, when a delete of all that was created comes to k. *)
LacksThen(o, units, k) ==
  \/ /\ Lacks(o, units, Complete(units))
     /\ \A l \in Undoings(units) : Rewinds(l, k) => o \notin Brings(Undoing(units, l))
  \/ \E l \in Undoings(units) :
        /\ Rewinds(l, k) /\ Quiet(units, l) /\ Removes(Undoing(units, l), o)
        /\ \A m \in Undoings(units) : Rewinds(l, m) /\ Rewinds(m, k) => o \notin Brings(Undoing(units, m))

MayRemove(units, k, o) ==
  LET c == Undoing(units, k)
  IN  \/ Removes(c, o)
      \/ o \in c.prune
      \/ \E d \in c.drop \cup c.prune : \E t \in Tethers(units) : \E p, q \in t :
            IsPrefix(d, p) /\ IsPrefix(q, o) /\ ~ LacksThen(p, units, k)

StandsThen(o, units, k) ==
  \/ /\ Stands(o, units, Complete(units))
     /\ \A l \in Undoings(units) : Rewinds(l, k) => ~ MayRemove(units, l, o)
  \/ \E l \in Undoings(units) :
        /\ Rewinds(l, k) /\ Quiet(units, l) /\ o \in Brings(Undoing(units, l))
        /\ \A m \in Undoings(units) : Rewinds(l, m) /\ Rewinds(m, k) => ~ MayRemove(units, m, o)

UndoneInTime(units, k) ==
  LET c == Undoing(units, k)
  IN  /\ c.ends
      /\ \A o \in c.needs : StandsThen(o, units, k)
      /\ \A o \in c.absent : LacksThen(o, units, k)

DeletesInOrder ==
  \A h \in ToSet(IR.hosts) :
    LET units == PlanUnits(h)
    IN \A k \in Undoings(units) : Quiet(units, k) => UndoneInTime(units, k)
=============================================================================
