------------------------------ MODULE Prepare ------------------------------
(***************************************************************************)
(* Making a host ready: abstract dependencies (services/abstract_deps.py)  *)
(* resolved through what sysdeps promises, and docker prepare              *)
(* (services/docker.py) on top of them: dependencies, daemon, images.      *)
(*                                                                         *)
(* sysdeps is taken at its word: it makes the steps of DepPromise, which   *)
(* Sysdeps implements.  What it has reported travels over the runtime's    *)
(* internal connection, so status is what it said and settled what the     *)
(* handler has read of it.                                                 *)
(***************************************************************************)
EXTENDS Naturals, Sequences, FiniteSets, SequencesExt

CONSTANTS Req,      \* requests; each asks for abstract dependencies first
          Abs,      \* abstract dependencies
          Dep,      \* system dependencies
          Image,
          Asks,     \* the abstract dependencies a request names, in order
          Packages, \* what an abstract dependency means on this host
          Unknown,  \* those the table has no packages for
          HasUnits, \* those whose services must be started
          Images,   \* the images a prepare names, in order; <<>>: not a prepare
          NamesManager, \* the requests that name the host's package manager
          NeedsDocker, \* the abstract dependency behind docker's daemon
          MayLeave, \* requests whose client may go away
          Teams     \* bound: the sets of requests that may meet

ASSUME PrepareAssumption ==
    /\ Asks \in [Req -> Seq(Abs)]
    /\ Packages \in [Abs -> SUBSET Dep]
    /\ Unknown \subseteq Abs /\ HasUnits \subseteq Abs
    /\ Images \in [Req -> Seq(Image)]
    /\ MayLeave \subseteq Req /\ NamesManager \subseteq Req
    /\ \A r \in Req \ NamesManager : Images[r] # <<>>

VARIABLES
    team,                             \* the requests that may come
    asked, status, present, closed,   \* what sysdeps keeps, see DepPromise
    apc,        \* where the handler of the abstract dependencies is
    settled,    \* the system dependencies whose status it has read
    announced,  \* what it has announced of each abstract dependency
    units,      \* the abstract dependencies whose services run
    pc,         \* where docker prepare is
    nth,        \* the image it is at
    got,        \* the statuses of the images behind it
    line,       \* per image, who holds its lock and who waits for it
    images      \* the images on the host

sysdeps == <<asked, status, present, closed>>
abstract == <<apc, settled, announced, units>>
docker == <<pc, nth, got, line, images>>
vars == <<team, sysdeps, abstract, docker>>

Sys == INSTANCE DepPromise

States == {"none", "ready", "failed", "timeout"}

Wanted(r) == ToSet(Asks[r]) \ Unknown

Of(r) == UNION {Packages[a] : a \in Wanted(r)}

Init ==
    /\ team \in Teams
    /\ Sys!Init
    /\ apc = [r \in Req |-> "idle"]
    /\ settled = [r \in Req |-> {}]
    /\ announced = [r \in Req |-> [a \in Abs |-> "none"]]
    /\ units \in SUBSET HasUnits
    /\ pc = [r \in Req |-> "idle"]
    /\ nth = [r \in Req |-> 1]
    /\ got = [r \in Req |-> <<>>]
    /\ line = [i \in Image |-> <<>>]
    /\ images \in SUBSET Image

---------------------------------------------------------------------------
(* AbstractDeps.resolve.                                                   *)

\* The unknown ones fail; the packages of the rest go to sysdeps at once.
Ask(r) ==
    /\ apc[r] = "asked"
    /\ announced' = [announced EXCEPT ![r] = [a \in Abs |->
          IF a \in ToSet(Asks[r]) \cap Unknown THEN "failed" ELSE "none"]]
    /\ apc' = [apc EXCEPT ![r] = "resolving"]
    /\ asked' = [asked EXCEPT ![r] = Of(r)]
    /\ UNCHANGED <<team, status, present, closed, settled, units, docker>>

\* Mutant: one of them has.
IsBegun(r, a) == Packages[a] = {} \/ Packages[a] \cap settled[r] # {}

\* All of its packages have a status.
IsSettled(r, a) == Packages[a] \subseteq settled[r]

\* The next one to announce, in the order of the request.
IsNext(r, a) ==
    /\ a \in Wanted(r) /\ announced[r][a] = "none" /\ IsSettled(r, a)
    /\ \A n \in DOMAIN Asks[r] : Asks[r][n] = a =>
          \A i \in 1..(n - 1) :
             LET b == Asks[r][i]
             IN b \notin Wanted(r) \/ announced[r][b] # "none" \/ ~IsSettled(r, b)

\* The worst of the states of its packages.
Worst(r, a) ==
    IF \E d \in Packages[a] : status[r][d] = "failed" THEN "failed"
    ELSE IF \E d \in Packages[a] : status[r][d] = "timeout" THEN "timeout" ELSE "ready"

\* One status is read at a time, and all it settles announced before the next.
Read(r) ==
    /\ apc[r] = "resolving"
    /\ \A a \in Abs : ~IsNext(r, a)
    /\ \E d \in asked[r] \ settled[r] :
          /\ status[r][d] # "none"
          /\ settled' = [settled EXCEPT ![r] = @ \cup {d}]
    /\ UNCHANGED <<team, sysdeps, apc, announced, units, docker>>

Announce(r) ==
    /\ apc[r] = "resolving"
    /\ \E a \in Abs :
          /\ IsNext(r, a)
          /\ IF Worst(r, a) = "ready" /\ a \in HasUnits
             THEN apc' = [apc EXCEPT ![r] = "starting"] /\ UNCHANGED announced
             ELSE /\ announced' = [announced EXCEPT ![r][a] = Worst(r, a)]
                  /\ UNCHANGED apc
    /\ UNCHANGED <<team, sysdeps, settled, units, docker>>

\* systemctl enable --now has ended.
UnitsStarted(r) ==
    /\ apc[r] = "starting"
    /\ apc' = [apc EXCEPT ![r] = "resolving"]
    /\ \E a \in Abs, ok \in BOOLEAN :
          /\ IsNext(r, a)
          /\ announced' = [announced EXCEPT ![r][a] = IF ok THEN "ready" ELSE "failed"]
          /\ units' = IF ok THEN units \cup {a} ELSE units
    /\ UNCHANGED <<team, sysdeps, settled, docker>>

\* Mutant: the answer comes with that of sysdeps.
AnswerEarly(r) ==
    /\ apc[r] = "resolving"
    /\ closed[r] = "answered"
    /\ apc' = [apc EXCEPT ![r] = "over"]
    /\ UNCHANGED <<team, sysdeps, settled, announced, units, docker>>

Answer(r) ==
    /\ apc[r] = "resolving"
    /\ \A a \in ToSet(Asks[r]) : announced[r][a] # "none"
    /\ asked[r] = {} \/ closed[r] = "answered"
    /\ apc' = [apc EXCEPT ![r] = "over"]
    /\ UNCHANGED <<team, sysdeps, settled, announced, units, docker>>

\* sysdeps answers with an error.
Raise(r) ==
    /\ apc[r] = "resolving"
    /\ closed[r] = "dropped"
    /\ apc' = [apc EXCEPT ![r] = "error"]
    /\ UNCHANGED <<team, sysdeps, settled, announced, units, docker>>

AllReady(r) == \A a \in ToSet(Asks[r]) : announced[r][a] = "ready"

---------------------------------------------------------------------------
(* Docker.prepare.                                                         *)

Goto(r, p) == pc' = [pc EXCEPT ![r] = p]

\* A request comes in.  A prepare that does not name the host's package
\* manager expects docker to be there.
Arrive(r) ==
    /\ pc[r] = "idle" /\ r \in team
    /\ IF r \in NamesManager
       THEN Goto(r, "deps") /\ apc' = [apc EXCEPT ![r] = "asked"]
       ELSE Goto(r, "daemon") /\ UNCHANGED apc
    /\ UNCHANGED <<team, sysdeps, settled, announced, units, nth, got, line, images>>

DepsAnswered(r) ==
    /\ pc[r] = "deps"
    /\ apc[r] \in {"over", "error"}
    /\ IF apc[r] = "over" /\ AllReady(r) /\ Images[r] # <<>>
       THEN Goto(r, "daemon") ELSE Goto(r, "over")
    /\ UNCHANGED <<team, sysdeps, abstract, nth, got, line, images>>

\* The daemon is asked until it answers or the time is up.  It can answer
\* only while docker is installed and its services run.
DaemonCanRun ==
    /\ Packages[NeedsDocker] \subseteq present
    /\ NeedsDocker \in HasUnits => NeedsDocker \in units

DaemonAnswers(r) ==
    /\ pc[r] = "daemon"
    /\ DaemonCanRun
    /\ Goto(r, "line")
    /\ line' = [line EXCEPT ![Images[r][1]] = Append(@, r)]
    /\ UNCHANGED <<team, sysdeps, abstract, nth, got, images>>

DaemonSilent(r) ==
    /\ pc[r] = "daemon"
    /\ Goto(r, "over")
    /\ UNCHANGED <<team, sysdeps, abstract, nth, got, line, images>>

Here(r) == Images[r][nth[r]]

\* The lock of an image is asyncio's: first come, first served.
MayWork(r) == Head(line[Here(r)]) = r

\* Mutant: no lock.
MayWorkAnyway(r) == line[Here(r)] # <<>>

IsAtWork(r) == MayWork(r)

Look(r) ==
    /\ pc[r] = "line"
    /\ IsAtWork(r)
    /\ Goto(r, IF Here(r) \in images THEN "present" ELSE "fetch")
    /\ UNCHANGED <<team, sysdeps, abstract, nth, got, line, images>>

\* The image is pulled or built.
Fetched(r) ==
    /\ pc[r] = "fetch"
    /\ \E ok \in BOOLEAN :
          /\ images' = IF ok THEN images \cup {Here(r)} ELSE images
          /\ Goto(r, IF ok THEN "present" ELSE "absent")
    /\ UNCHANGED <<team, sysdeps, abstract, nth, got, line>>

\* Who leaves a line stands in it once.
Without(i, r) == RemoveFirst(line[i], r)

\* Mutant: the lock is kept.
NextImageHeld(r) ==
    /\ pc[r] \in {"present", "absent"}
    /\ got' = [got EXCEPT ![r] = Append(@, pc[r])]
    /\ nth' = [nth EXCEPT ![r] = @ + 1]
    /\ IF nth[r] = Len(Images[r])
       THEN Goto(r, "over") /\ UNCHANGED line
       ELSE /\ Goto(r, "line")
            /\ line' = [line EXCEPT ![Images[r][nth[r] + 1]] = Append(@, r)]
    /\ UNCHANGED <<team, sysdeps, abstract, images>>

\* The image has its status, the lock is left, and the next one is begun.
NextImage(r) ==
    /\ pc[r] \in {"present", "absent"}
    /\ got' = [got EXCEPT ![r] = Append(@, pc[r])]
    /\ nth' = [nth EXCEPT ![r] = @ + 1]
    /\ IF nth[r] = Len(Images[r])
       THEN /\ Goto(r, "over")
            /\ line' = [line EXCEPT ![Here(r)] = Without(Here(r), r)]
       ELSE /\ Goto(r, "line")
            /\ line' = [i \in Image |->
                  IF i = Images[r][nth[r] + 1] THEN Append(Without(i, r), r)
                  ELSE IF i = Here(r) THEN Without(i, r) ELSE line[i]]
    /\ UNCHANGED <<team, sysdeps, abstract, images>>

\* The client goes away: prepare is cancelled at the await it is in, what it
\* asked for over the internal connection goes on.  A pull the daemon has
\* begun may still end well.
Leave(r) ==
    /\ r \in MayLeave
    /\ pc[r] \in {"deps", "daemon", "line", "fetch"}
    /\ Goto(r, "left")
    /\ line' = [i \in Image |-> Without(i, r)]
    /\ images' \in {images, IF pc[r] = "fetch" THEN images \cup {Here(r)} ELSE images}
    /\ UNCHANGED <<team, sysdeps, abstract, nth, got>>

\* Somebody removes an image.
RemoveImage(i) ==
    /\ i \in images
    /\ images' = images \ {i}
    /\ UNCHANGED <<team, sysdeps, abstract, pc, nth, got, line>>

SysStep ==
    /\ \/ Sys!Install
       \/ \E r \in Req : asked[r] # {} /\ Sys!Report(r)
       \/ Sys!Drop
    /\ UNCHANGED <<team, abstract, docker>>

AbstractStep(r) ==
    Ask(r) \/ Read(r) \/ Announce(r) \/ UnitsStarted(r) \/ Answer(r) \/ Raise(r)

DockerStep(r) ==
    \/ DepsAnswered(r) \/ DaemonAnswers(r) \/ DaemonSilent(r) \/ Look(r)
    \/ Fetched(r) \/ NextImage(r)

Quiet == (\A r \in team : pc[r] \in {"over", "left"}) /\ UNCHANGED vars

Next ==
    \/ SysStep
    \/ \E r \in Req : Arrive(r) \/ AbstractStep(r) \/ DockerStep(r) \/ Leave(r)
    \/ \E i \in Image : RemoveImage(i)
    \/ Quiet

Spec == Init /\ [][Next]_vars

\* sysdeps answers every request (Sysdeps!EveryRequestAnswered), and each
\* handler goes on; arrivals, clients and removals are left to chance.
FairSpec ==
    /\ Spec
    /\ \A r \in Req :
          /\ WF_vars(asked[r] # {} /\ Sys!Report(r) /\ UNCHANGED <<team, abstract, docker>>)
          /\ WF_vars(AbstractStep(r) \/ DockerStep(r))

---------------------------------------------------------------------------
(* Properties.                                                             *)

\* Types; an answer comes with a state for every dependency asked for and
\* no status left unread; who is at an image stands in its line, once.
TypeOK ==
    /\ apc \in [Req -> {"idle", "asked", "resolving", "starting", "over", "error"}]
    /\ pc \in [Req -> {"idle", "deps", "daemon", "line", "fetch", "present", "absent",
                       "over", "left"}]
    /\ announced \in [Req -> [Abs -> States]]
    /\ units \subseteq HasUnits /\ images \subseteq Image
    /\ \A r \in Req : apc[r] = "over" =>
          /\ \A a \in ToSet(Asks[r]) : announced[r][a] # "none"
          /\ asked[r] \subseteq settled[r]
    /\ \A i \in Image : \A r \in Req :
          Cardinality({n \in DOMAIN line[i] : line[i][n] = r}) =
             IF pc[r] \in {"line", "fetch", "present", "absent"} /\ Here(r) = i THEN 1 ELSE 0

\* A dependency announced as ready is: its packages are on the host and its
\* services were started, in whatever pieces the statuses came
\* (announce_settled, abstract_deps.py:152-169).
ReadyIsBacked ==
    \A r \in Req : \A a \in Abs : announced[r][a] = "ready" =>
        /\ Packages[a] \subseteq present
        /\ a \in HasUnits => a \in units

\* Two requests never pull or build the same image at once, and the second
\* finds it present (docker.py:13-15): who fetches one has its lock, and it
\* is not there.
OneFetch ==
    \A r \in Req : pc[r] = "fetch" =>
        /\ Here(r) \notin images
        /\ \A q \in Req \ {r} : pc[q] = "fetch" => Here(q) # Here(r)

\* Every request ends, whoever leaves the lines it waits in, and whatever
\* fails.
PrepareEnds ==
    \A r \in Req : pc[r] # "idle" ~> pc[r] \in {"over", "left"}
=============================================================================
