-------------------------- MODULE DockerRunProofs --------------------------
(***************************************************************************)
(* One request at a time works under a name, and it starts its container   *)
(* when the books hold nobody else's, for any number of requests whatever  *)
(* clients leave, and whenever the runtime stops.                          *)
(*                                                                         *)
(* The lock alone does not give the second: a follower leaves the lock     *)
(* before it leaves the books, and a watcher never had it.  What does is   *)
(* that a request in the lock waits for the one it found there.            *)
(***************************************************************************)
EXTENDS DockerRun, TLAPS

Alive == {"watching", "stopping", "removing", "clearing"}
Registered == {"following", "removing", "stopping", "dropping", "cleaning", "over"}

(* The watcher in the books is the one alive. *)
OwnedIsAlive == \A t \in Req : owned = t <=> wpc[t] \in Alive

(* A follower in the books is past docker run and has not set its event. *)
FollowerIsPast ==
  /\ \A t \in done : pc[t] = "over"
  /\ following # None => pc[following] \in Registered /\ following \notin done

(* A request that waits for another to end: nobody else is in the books. *)
WaitsForOne ==
  /\ \A r \in Req : pc[r] = "gathering"
       => whom[r] \in Req /\ owned \in {None, whom[r]} /\ following = None
  /\ \A r \in Req : pc[r] \in {"evicting", "awaiting"}
       => whom[r] \in Req /\ following \in {None, whom[r]} /\ owned = None

BookTypes ==
  /\ pc \in [Req -> InSection \cup {"idle", "preparing", "waiting", "following",
                                    "removing", "stopping", "dropping", "cleaning", "over"}]
  /\ wpc \in [Req -> Alive \cup {"none", "done"}]
  /\ whom \in [Req -> Req \cup {None}]
  /\ lock \in Req \cup {None}
  /\ done \subseteq Req
  /\ owned \in Req \cup {None} /\ following \in Req \cup {None}

BookInv ==
  /\ BookTypes
  /\ owned = None \/ following = None
  /\ SectionIsExclusive
  /\ OwnedIsAlive
  /\ FollowerIsPast
  /\ WaitsForOne
  /\ NameIsFree
-----------------------------------------------------------------------------

USE ReqAssumption

LEMMA BookInit == Init => BookInv
  BY DEF Init, BookInv, BookTypes, SectionIsExclusive, OwnedIsAlive, FollowerIsPast,
         WaitsForOne, NameIsFree, InSection, Alive

(* A watcher goes on, or ends and leaves the books. *)
LEMMA WatcherAtKeeps ==
  ASSUME BookInv, NEW t \in Req, NEW l \in Alive \cup {"done"},
         wpc[t] \in Alive, WatcherAt(t, l)
  PROVE  /\ OwnedIsAlive'
         /\ wpc' \in [Req -> Alive \cup {"none", "done"}]
         /\ owned' \in {owned, None}
  BY DEF WatcherAt, BookInv, BookTypes, OwnedIsAlive, Alive

LEMMA CancelWatcherKeeps ==
  ASSUME BookInv, NEW t \in Req, CancelWatcher(t)
  PROVE  /\ OwnedIsAlive'
         /\ wpc' \in [Req -> Alive \cup {"none", "done"}]
         /\ owned' \in {owned, None}
<1>1. CASE wpc[t] = "watching"
  BY <1>1, WatcherAtKeeps DEF CancelWatcher, Alive
<1>2. CASE wpc[t] = "stopping"
  BY <1>2, WatcherAtKeeps DEF CancelWatcher, Alive
<1>3. CASE wpc[t] = "removing"
  BY <1>3, WatcherAtKeeps DEF CancelWatcher, Alive
<1>4. CASE wpc[t] = "clearing"
  BY <1>4, WatcherAtKeeps DEF CancelWatcher, Alive
<1>5. CASE wpc[t] \notin Alive
  <2>1. UNCHANGED <<wpc, owned>>
    BY <1>5 DEF CancelWatcher, Alive
  <2> QED
    BY <2>1 DEF BookInv, BookTypes, OwnedIsAlive
<1> QED
  BY <1>1, <1>2, <1>3, <1>4, <1>5 DEF Alive

(* Whatever a step does to the watcher, while the requests and the rest of *)
(* the books stay as they are, keeps the invariant.                        *)
LEMMA OwnedLeaves ==
  ASSUME BookInv, OwnedIsAlive', wpc' \in [Req -> Alive \cup {"none", "done"}],
         owned' \in {owned, None},
         UNCHANGED <<pc, whom, lock, done, following>>
  PROVE  BookInv'
  BY DEF BookInv, BookTypes, SectionIsExclusive, FollowerIsPast, WaitsForOne, NameIsFree

LEMMA WatcherStep == ASSUME BookInv, NEW t \in Req, Watcher(t) PROVE BookInv'
<1>1. CASE WatchEnds(t)
  BY <1>1, WatcherAtKeeps, OwnedLeaves DEF WatchEnds, Alive, reqVars, lockVars
<1>2. CASE WatcherStops(t)
  BY <1>2, WatcherAtKeeps, OwnedLeaves DEF WatcherStops, Alive, reqVars, lockVars
<1>3. CASE WatcherRemoves(t)
  BY <1>3, WatcherAtKeeps, OwnedLeaves DEF WatcherRemoves, Alive, reqVars, lockVars
<1>4. CASE WatcherClears(t)
  BY <1>4, WatcherAtKeeps, OwnedLeaves DEF WatcherClears, Alive, reqVars, lockVars
<1> QED
  BY <1>1, <1>2, <1>3, <1>4 DEF Watcher

LEMMA KeepStep == ASSUME BookInv, Keep PROVE BookInv'
<1>1. CASE owned = None
  BY <1>1, OwnedLeaves DEF Keep, BookInv, BookTypes, OwnedIsAlive, reqVars, lockVars
<1>2. CASE owned # None
  BY <1>2, CancelWatcherKeeps, OwnedLeaves
     DEF Keep, BookInv, BookTypes, reqVars, lockVars
<1> QED
  BY <1>1, <1>2
(* A step of r alone: it moves on, and leaves or keeps the lock.           *)
LEMMA MovesOn ==
  ASSUME BookInv, NEW r \in Req, NEW l,
         pc' = [pc EXCEPT ![r] = l],
         l \in {"preparing", "waiting", "removing", "dropping", "cleaning", "stopping", "over"},
         l \in Registered \/ pc[r] \in {"idle", "preparing"},
         pc[r] # "over",
         lock' = lock \/ (lock = r /\ lock' = None),
         UNCHANGED <<whom, bookVars>>
  PROVE  BookInv'
<1>1. BookTypes' /\ SectionIsExclusive'
  BY DEF BookInv, BookTypes, SectionIsExclusive, InSection, bookVars
<1>2. FollowerIsPast'
  BY DEF BookInv, BookTypes, FollowerIsPast, Registered, bookVars
<1>3. WaitsForOne' /\ NameIsFree' /\ OwnedIsAlive'
  BY DEF BookInv, BookTypes, WaitsForOne, NameIsFree, OwnedIsAlive, bookVars
<1> QED
  BY <1>1, <1>2, <1>3 DEF BookInv, bookVars

(* r goes on within the section, to a place where the books must be empty. *)
LEMMA GoesOn ==
  ASSUME BookInv, NEW r \in Req, NEW l,
         pc' = [pc EXCEPT ![r] = l], l \in {"writing", "purging", "running"},
         pc[r] \in InSection, owned = None, following = None,
         UNCHANGED <<lock, whom, bookVars>>
  PROVE  BookInv'
  BY DEF BookInv, BookTypes, SectionIsExclusive, OwnedIsAlive, FollowerIsPast,
         WaitsForOne, NameIsFree, InSection, bookVars

LEMMA EnterStep == ASSUME BookInv, NEW r \in Req, Enter(r) PROVE BookInv'
<1>1. pc[r] = "waiting" /\ lock = None /\ lock' = r
  BY DEF Enter
<1>2. /\ \A q \in Req : pc[q] \notin InSection
      /\ whom' = [whom EXCEPT ![r] = IF owned # None THEN owned ELSE following]
      /\ UNCHANGED <<following, done>>
  BY <1>1 DEF Enter, BookInv, SectionIsExclusive
<1>3. CASE owned # None
  <2>1. pc' = [pc EXCEPT ![r] = "gathering"] /\ CancelWatcher(owned)
    BY <1>3 DEF Enter, Goto
  <2>2. /\ OwnedIsAlive'
        /\ wpc' \in [Req -> Alive \cup {"none", "done"}]
        /\ owned' \in {owned, None}
    BY <1>3, <2>1, CancelWatcherKeeps DEF BookInv, BookTypes
  <2> QED
    BY <1>1, <1>2, <1>3, <2>1, <2>2
       DEF BookInv, BookTypes, SectionIsExclusive, FollowerIsPast, WaitsForOne, NameIsFree,
           InSection, Registered
<1>4. CASE owned = None
  BY <1>1, <1>2, <1>4
     DEF Enter, Goto, BookInv, BookTypes, SectionIsExclusive, OwnedIsAlive, FollowerIsPast,
         WaitsForOne, NameIsFree, InSection, Registered
<1> QED
  BY <1>3, <1>4

(* The one step that enters the books. *)
LEMMA StartedStep == ASSUME BookInv, NEW r \in Req, Started(r) PROVE BookInv'
<1>1. /\ pc[r] = "running" /\ lock = r /\ owned = None /\ following = None
      /\ lock' = None /\ UNCHANGED <<whom, done>>
  BY DEF Started, Step, BookInv, SectionIsExclusive, NameIsFree, InSection
<1>2. /\ \A q \in Req \ {r} : pc[q] \notin InSection
      /\ r \notin done
  BY <1>1 DEF BookInv, SectionIsExclusive, FollowerIsPast
<1>3. CASE follow[r]
  BY <1>1, <1>2, <1>3
     DEF Started, Step, Goto, BookInv, BookTypes, SectionIsExclusive, OwnedIsAlive,
         FollowerIsPast, WaitsForOne, NameIsFree, InSection, Registered
<1>4. CASE ~ follow[r]
  BY <1>1, <1>2, <1>4
     DEF Started, Step, Goto, BookInv, BookTypes, SectionIsExclusive, OwnedIsAlive,
         FollowerIsPast, WaitsForOne, NameIsFree, InSection, Registered, Alive
<1> QED
  BY <1>3, <1>4

LEMMA CleanStep == ASSUME BookInv, NEW r \in Req, Clean(r) PROVE BookInv'
  BY DEF Clean, Step, Goto, Unlock, BookInv, BookTypes, SectionIsExclusive, OwnedIsAlive,
         FollowerIsPast, WaitsForOne, NameIsFree, InSection, Registered

(* The one waited for has ended, so the books are empty. *)
LEMMA WaitIsOver ==
  ASSUME BookInv, NEW r \in Req, OwnerEnded(r) \/ FollowerCleaned(r)
  PROVE  BookInv'
<1>1. CASE OwnerEnded(r)
  <2>1. owned = None /\ following = None
    BY <1>1 DEF OwnerEnded, Moves, Step, BookInv, OwnedIsAlive, WaitsForOne, Alive
  <2> QED
    BY <1>1, <2>1, GoesOn DEF OwnerEnded, Moves, Step, Goto, InSection, lockVars
<1>2. CASE FollowerCleaned(r)
  <2>1. owned = None /\ following = None
    BY <1>2 DEF FollowerCleaned, Moves, Step, BookInv, FollowerIsPast, WaitsForOne
  <2> QED
    BY <1>2, <2>1, GoesOn DEF FollowerCleaned, Moves, Step, Goto, InSection, lockVars
<1> QED
  BY <1>1, <1>2

LEMMA RequestStep == ASSUME BookInv, NEW r \in Req, Request(r) PROVE BookInv'
<1>1. CASE Prepared(r) \/ NotPrepared(r)
  BY <1>1, MovesOn DEF Prepared, NotPrepared, Step, Goto, Registered, lockVars
<1>2. CASE Evict(r)
  BY <1>2 DEF Evict, Moves, Step, Goto, BookInv, BookTypes, SectionIsExclusive, OwnedIsAlive,
              FollowerIsPast, WaitsForOne, NameIsFree, InSection, Registered, lockVars, bookVars
<1>3. CASE Check(r)
  BY <1>3, GoesOn DEF Check, Moves, Step, Goto, BookInv, NameIsFree, InSection, lockVars
<1>4. CASE Purge(r)
  BY <1>4, GoesOn DEF Purge, Moves, Step, Goto, BookInv, NameIsFree, InSection, lockVars
<1>5. CASE Write(r)
  BY <1>5, GoesOn DEF Write, Moves, Step, Goto, BookInv, NameIsFree, InSection, lockVars
<1>6. CASE WriteFails(r)
  BY <1>6, MovesOn DEF WriteFails, Step, Goto, Unlock, Registered
<1>7. CASE RunFails(r)
  BY <1>7, MovesOn DEF RunFails, Step, Goto, Registered, lockVars
<1>8. CASE FollowEnds(r)
  BY <1>8, MovesOn DEF FollowEnds, Moves, Step, Goto, Registered, lockVars
<1>9. CASE RemoveStopped(r) \/ StopFollowed(r) \/ Drop(r)
  BY <1>9, MovesOn DEF RemoveStopped, StopFollowed, Drop, Moves, Step, Goto, Registered, lockVars
<1> QED
  BY <1>1, <1>2, <1>3, <1>4, <1>5, <1>6, <1>7, <1>8, <1>9, EnterStep, StartedStep, CleanStep,
     WaitIsOver DEF Request

(* A request that leaves keeps nothing but its place in the books. *)
LEMMA LeaveStep == ASSUME BookInv, NEW r \in Req, Leave(r) PROVE BookInv'
<1>1. CASE LeaveWaiting(r)
  BY <1>1, MovesOn DEF LeaveWaiting, Leaves, Goto, Unlock, Registered
<1>2. CASE LeaveGathering(r)
  <2>1. whom[r] \in Req
    BY <1>2 DEF LeaveGathering, BookInv, WaitsForOne
  <2>2. /\ OwnedIsAlive'
        /\ wpc' \in [Req -> Alive \cup {"none", "done"}]
        /\ owned' \in {owned, None}
    BY <1>2, <2>1, CancelWatcherKeeps DEF LeaveGathering
  <2> QED
    BY <1>2, <2>2
       DEF LeaveGathering, Leaves, Goto, Unlock, BookInv, BookTypes, SectionIsExclusive,
           FollowerIsPast, WaitsForOne, NameIsFree, InSection, Registered
<1>3. CASE LeaveRemoving(r)
  BY <1>3, MovesOn DEF LeaveRemoving, Leaves, Goto, Unlock, Registered
<1>4. CASE LeaveWriting(r)
  BY <1>4, MovesOn DEF LeaveWriting, Leaves, Goto, Unlock, Registered
<1>5. CASE LeaveRunning(r)
  BY <1>5, MovesOn DEF LeaveRunning, Leaves, Goto, Registered, lockVars
<1>6. CASE LeaveFollowing(r)
  BY <1>6, MovesOn DEF LeaveFollowing, Leaves, Goto, Registered, lockVars
<1>7. CASE LeaveCleaning(r)
  BY <1>7, MovesOn DEF LeaveCleaning, Leaves, Goto, Unlock, Registered
<1> QED
  BY <1>1, <1>2, <1>3, <1>4, <1>5, <1>6, <1>7 DEF Leave

LEMMA BookStep == BookInv /\ [Next]_vars => BookInv'
<1> SUFFICES ASSUME BookInv, [Next]_vars PROVE BookInv'
  OBVIOUS
<1>1. ASSUME NEW r \in Req, Arrive(r) PROVE BookInv'
  BY <1>1, MovesOn DEF Arrive, Step, Goto, lockVars
<1>2. ASSUME UNCHANGED <<pc, whom, lock, done, following, owned, wpc>> PROVE BookInv'
  BY <1>2, OwnedLeaves DEF BookInv, BookTypes, OwnedIsAlive
<1>3. CASE Ends \/ Stray
  BY <1>2, <1>3 DEF Ends, Stray, StrayActs, reqVars, lockVars, bookVars
<1>4. CASE Stop \/ KeepEnds \/ AllOver \/ UNCHANGED vars
  BY <1>2, <1>4 DEF Stop, KeepEnds, AllOver, vars, reqVars, lockVars, bookVars
<1> QED
  BY <1>1, <1>3, <1>4, RequestStep, LeaveStep, WatcherStep, KeepStep DEF Next

THEOREM BooksInvariant == Spec => []BookInv
  BY BookInit, BookStep, PTL DEF Spec

(* From the lock to the books one request works under the name: none       *)
(* releases a lock that is another's.  (docker_run.py:209-259)             *)
THEOREM OneInSection == Spec => []SectionIsExclusive
<1>1. BookInv => SectionIsExclusive
  BY DEF BookInv
<1> QED
  BY <1>1, BooksInvariant, PTL

(* When a request writes its files and starts its container, neither a     *)
(* watcher nor another request is in the books.  (docker_run.py:261-285)   *)
THEOREM StartsOnFreeName == Spec => []NameIsFree
<1>1. BookInv => NameIsFree
  BY DEF BookInv
<1> QED
  BY <1>1, BooksInvariant, PTL
-----------------------------------------------------------------------------
(* What runs is watched.  A container counts as let go when docker run was *)
(* killed, or while a stop goes on without its watcher.                    *)

LEMMA CancelledIsLetGo ==
  ASSUME BookTypes, NEW t \in Req, CancelWatcher(t)
  PROVE  /\ strays \subseteq strays'
         /\ \A r \in Req : wpc[r] \in {"watching", "stopping"}
              => \/ wpc'[r] \in {"watching", "stopping"}
                 \/ <<"stop", r>> \in strays'
  BY DEF CancelWatcher, WatcherAt, Strays, strayVars, BookTypes, Alive

(* A request moves on, its container not running unless it is still watched. *)
LEMMA MovesWatched ==
  ASSUME BookTypes, NothingUnwatched, NEW r \in Req, NEW l,
         pc' = [pc EXCEPT ![r] = l],
         pc[r] \notin {"following", "stopping"} \/ l \in {"following", "stopping"} \/ ~ Runs(r)',
         UNCHANGED <<con, up>> \/ up' = FALSE,
         UNCHANGED wpc, strays \subseteq strays', lost \subseteq lost'
  PROVE  NothingUnwatched'
  BY DEF NothingUnwatched, Watched, Runs, BookTypes

LEMMA RequestWatched ==
  ASSUME BookInv, NothingUnwatched, NEW r \in Req, Request(r)
  PROVE  NothingUnwatched'
<1>1. BookTypes
  BY DEF BookInv
<1>2. CASE Prepared(r) \/ NotPrepared(r) \/ OwnerEnded(r) \/ FollowerCleaned(r) \/ Check(r)
  BY <1>1, <1>2, MovesWatched
     DEF Prepared, NotPrepared, OwnerEnded, FollowerCleaned, Check, Moves, Step, Goto,
         bookVars, hostVars, strayVars
<1>3. CASE Enter(r)
  <2>1. pc[r] = "waiting" /\ UNCHANGED <<con, up, lost>>
    BY <1>3 DEF Enter, hostVars
  <2>2. CASE owned = None
    BY <1>1, <1>3, <2>1, <2>2, MovesWatched DEF Enter, Goto, strayVars
  <2>3. CASE owned # None
    <3>1. pc' = [pc EXCEPT ![r] = "gathering"] /\ CancelWatcher(owned)
      BY <1>3, <2>3 DEF Enter, Goto
    <3>2. /\ strays \subseteq strays'
          /\ \A q \in Req : wpc[q] \in {"watching", "stopping"}
               => wpc'[q] \in {"watching", "stopping"} \/ <<"stop", q>> \in strays'
      BY <1>1, <2>3, <3>1, CancelledIsLetGo DEF BookTypes
    <3> QED
      BY <1>1, <2>1, <3>1, <3>2 DEF NothingUnwatched, Watched, Runs, BookTypes
  <2> QED
    BY <2>2, <2>3
<1>4. CASE Evict(r) \/ Purge(r) \/ RemoveStopped(r) \/ StopFollowed(r) \/ Drop(r)
  BY <1>1, <1>4, MovesWatched
     DEF Evict, Purge, RemoveStopped, StopFollowed, Drop, Removed, Stopped, Runs, Moves, Step, Goto,
         bookVars, strayVars
<1>5. CASE Write(r) \/ WriteFails(r) \/ Clean(r)
  BY <1>1, <1>5, MovesWatched
     DEF Write, WriteFails, Clean, Moves, Step, Goto, Untouched, bookVars, strayVars
<1>6. CASE Started(r)
  BY <1>1, <1>6
     DEF Started, Step, Goto, NothingUnwatched, Watched, Runs, BookTypes, strayVars
<1>7. CASE RunFails(r)
  BY <1>1, <1>7, MovesWatched DEF RunFails, Untouched, Step, Goto, bookVars, strayVars
<1>8. CASE FollowEnds(r)
  BY <1>1, <1>8, MovesWatched
     DEF FollowEnds, Runs, Moves, Step, Goto, bookVars, hostVars, strayVars
<1> QED
  BY <1>2, <1>3, <1>4, <1>5, <1>6, <1>7, <1>8 DEF Request

LEMMA LeaveWatched ==
  ASSUME BookInv, NothingUnwatched, NEW r \in Req, Leave(r)
  PROVE  NothingUnwatched'
<1>1. BookTypes
  BY DEF BookInv
<1>2. CASE LeaveWaiting(r) \/ LeaveFollowing(r)
  BY <1>1, <1>2, MovesWatched
     DEF LeaveWaiting, LeaveFollowing, Leaves, Goto, bookVars, hostVars, strayVars
<1>3. CASE LeaveGathering(r)
  <2>1. whom[r] \in Req
    BY <1>3 DEF LeaveGathering, BookInv, WaitsForOne
  <2>2. /\ pc[r] = "gathering" /\ pc' = [pc EXCEPT ![r] = "over"]
        /\ UNCHANGED <<con, up, lost>>
    BY <1>3 DEF LeaveGathering, Leaves, Goto, hostVars
  <2>3. /\ strays \subseteq strays'
        /\ \A q \in Req : wpc[q] \in {"watching", "stopping"}
             => wpc'[q] \in {"watching", "stopping"} \/ <<"stop", q>> \in strays'
    BY <1>1, <1>3, <2>1, CancelledIsLetGo DEF LeaveGathering
  <2> QED
    BY <1>1, <2>2, <2>3 DEF NothingUnwatched, Watched, Runs, BookTypes
<1>4. CASE LeaveRemoving(r)
  BY <1>1, <1>4, MovesWatched
     DEF LeaveRemoving, Leaves, Goto, Untouched, Removed, bookVars, strayVars
<1>5. CASE LeaveWriting(r) \/ LeaveCleaning(r)
  BY <1>1, <1>5, MovesWatched
     DEF LeaveWriting, LeaveCleaning, Leaves, Goto, Strays, bookVars, hostVars
<1>6. CASE LeaveRunning(r)
  BY <1>1, <1>6
     DEF LeaveRunning, Leaves, Goto, Untouched, NothingUnwatched, Watched, Runs, BookTypes,
         bookVars, strayVars
<1> QED
  BY <1>2, <1>3, <1>4, <1>5, <1>6 DEF Leave

LEMMA WatcherWatched ==
  ASSUME BookInv, NothingUnwatched, NEW t \in Req, Watcher(t)
  PROVE  NothingUnwatched'
<1>1. BookTypes
  BY DEF BookInv
<1>2. CASE WatchEnds(t)
  BY <1>1, <1>2
     DEF WatchEnds, WatcherAt, NothingUnwatched, Watched, Runs, BookTypes, reqVars, hostVars,
         strayVars
<1>3. CASE WatcherStops(t) \/ WatcherRemoves(t)
  BY <1>3 DEF WatcherStops, WatcherRemoves, Stopped, Removed, NothingUnwatched, Runs
<1>4. CASE WatcherClears(t)
  BY <1>1, <1>4
     DEF WatcherClears, WatcherAt, NothingUnwatched, Watched, Runs, BookTypes, reqVars, strayVars
<1> QED
  BY <1>2, <1>3, <1>4 DEF Watcher

LEMMA WatchStep == BookInv /\ NothingUnwatched /\ [Next]_vars => NothingUnwatched'
<1> SUFFICES ASSUME BookInv, NothingUnwatched, [Next]_vars PROVE NothingUnwatched'
  OBVIOUS
<1>1. BookTypes
  BY DEF BookInv
<1>2. ASSUME NEW r \in Req, Arrive(r) PROVE NothingUnwatched'
  BY <1>1, <1>2, MovesWatched DEF Arrive, Step, Goto, bookVars, hostVars, strayVars
<1>3. ASSUME UNCHANGED <<pc, wpc, con, up, lost, strays>> PROVE NothingUnwatched'
  BY <1>3 DEF NothingUnwatched, Watched, Runs
<1>4. CASE Ends
  BY <1>4 DEF Ends, Stopped, NothingUnwatched, Runs
<1>5. CASE Stray
  <2>1. PICK op \in {"stop", "remove", "clear", "write"}, q \in Req : StrayActs(op, q)
    BY <1>5 DEF Stray
  <2>2. CASE op \in {"stop", "remove"}
    BY <2>1, <2>2 DEF StrayActs, Stopped, Removed, NothingUnwatched, Runs
  <2>3. CASE op \in {"clear", "write"}
    <3>1. /\ UNCHANGED <<pc, wpc, con, up, lost>>
          /\ strays' = strays \ {<<op, q>>}
      BY <2>1, <2>3 DEF StrayActs, Untouched, reqVars, bookVars
    <3>2. \A t \in Req : <<"stop", t>> \in strays => <<"stop", t>> \in strays'
      BY <2>3, <3>1
    <3> QED
      BY <3>1, <3>2 DEF NothingUnwatched, Watched, Runs
  <2> QED
    BY <2>2, <2>3
<1>6. CASE Keep
  <2>1. UNCHANGED <<pc, con, up, lost>>
    BY <1>6 DEF Keep, reqVars, hostVars
  <2>2. CASE owned = None
    BY <1>3, <1>6, <2>1, <2>2 DEF Keep, strayVars
  <2>3. CASE owned # None
    <3>1. /\ strays \subseteq strays'
          /\ \A q \in Req : wpc[q] \in {"watching", "stopping"}
               => wpc'[q] \in {"watching", "stopping"} \/ <<"stop", q>> \in strays'
      BY <1>1, <1>6, <2>3, CancelledIsLetGo DEF Keep, BookTypes
    <3> QED
      BY <2>1, <3>1 DEF NothingUnwatched, Watched, Runs
  <2> QED
    BY <2>2, <2>3
<1>7. CASE Stop \/ KeepEnds \/ AllOver \/ UNCHANGED vars
  BY <1>3, <1>7
     DEF Stop, KeepEnds, AllOver, vars, reqVars, bookVars, hostVars, strayVars
<1> QED
  BY <1>2, <1>4, <1>5, <1>6, <1>7, RequestWatched, LeaveWatched, WatcherWatched DEF Next

(* A container of the service runs only while its request or its watcher   *)
(* waits for it or stops it, or it was let go: docker run was killed under *)
(* way, or a stop goes on without its watcher.  (docker_run.py:24)         *)
THEOREM RunningIsWatched == Spec => []NothingUnwatched
<1>1. Init => NothingUnwatched
  BY DEF Init, NothingUnwatched, Runs
<1> QED
  BY <1>1, WatchStep, BooksInvariant, PTL DEF Spec
-----------------------------------------------------------------------------
(* The files of a running container.  While nobody has been let go, the    *)
(* one container that may run is that of whoever is in the books, and none *)
(* runs from the time a request has found its name free until it starts.   *)

NoneRuns == \A r \in Req \ lost : ~ Runs(r)

OnlyRuns(t) == \A r \in Req \ lost : Runs(r) => r = t

OwnerRuns == owned # None =>
  OnlyRuns(owned) /\ (wpc[owned] \in {"removing", "clearing"} => NoneRuns)

FollowerRuns == following # None =>
  OnlyRuns(following) /\ (pc[following] \notin {"following", "stopping"} => NoneRuns)

QuietSection ==
  \A r \in Req : /\ pc[r] \in {"awaiting", "writing", "running", "cleaning"} => NoneRuns
                 /\ pc[r] = "gathering" /\ owned = None => NoneRuns

RunInv == OwnerRuns /\ FollowerRuns /\ QuietSection

(* A request is in the books as long as it has a container, and has the    *)
(* lock while it cleans up what it could not start.                        *)
InTheBooks ==
  \A r \in Req : /\ pc[r] \in {"following", "removing", "stopping", "dropping"} => following = r
                 /\ pc[r] = "cleaning" => following = r \/ lock = r

(* A watcher stops its container for the request that gathers it, or for   *)
(* the runtime that stops.                                                 *)
StopsForOne ==
  /\ \A t \in Req : wpc[t] = "stopping" =>
       runtime \in {"keeping", "over"} \/ \E r \in Req : pc[r] = "gathering" /\ whom[r] = t
  /\ \A r \in Req : pc[r] = "gathering" => wpc[whom[r]] # "watching"
  /\ \A r \in Req : r \in gone => pc[r] \in {"stopping", "dropping", "cleaning", "over"}
  /\ runtime \in {"keeping", "over"} => \A r \in Req : pc[r] \in {"idle", "over"} \/ r \in gone

PlaceInv == InTheBooks /\ StopsForOne

FilesAreThere ==
  /\ \A r \in Req : pc[r] = "running" => files = r \/ strayed
  /\ \A r \in Req : <<"clear", r>> \in strays \/ <<"write", r>> \in strays => strayed

LEMMA PlaceInit == Init => PlaceInv
  BY DEF Init, PlaceInv, InTheBooks, StopsForOne

(* A step of one request that leaves the watchers alone. *)
LEMMA PlaceMoves ==
  ASSUME BookInv, PlaceInv, NEW r \in Req, NEW l,
         pc' = [pc EXCEPT ![r] = l], UNCHANGED <<whom, runtime>>,
         \A t \in Req : wpc'[t] = "stopping" => wpc[t] = "stopping",
         \A t \in Req : wpc'[t] = "watching" => wpc[t] = "watching" \/ lock = r,
         pc[r] # "over", l # "gathering", pc[r] = "idle" => runtime = "up",
         pc[r] = "gathering" => wpc[whom[r]] # "stopping",
         following' = following \/ following \in {None, r},
         lock' = lock \/ lock \in {None, r},
         l \in {"following", "removing", "stopping", "dropping"} => following' = r,
         l = "cleaning" => following' = r \/ lock' = r,
         gone \subseteq gone', gone' \subseteq gone \cup {r},
         r \in gone' => l \in {"stopping", "dropping", "cleaning", "over"}
  PROVE  PlaceInv'
<1>1. pc'[r] = l /\ \A q \in Req \ {r} : pc'[q] = pc[q]
  BY DEF BookInv, BookTypes
<1>2. InTheBooks'
  BY <1>1 DEF PlaceInv, InTheBooks, BookInv, BookTypes
<1>3. \A q \in Req : pc[q] = "gathering" => whom[q] \in Req /\ lock = q
  BY DEF BookInv, WaitsForOne, SectionIsExclusive, InSection
<1>4. StopsForOne'
  BY <1>1, <1>3 DEF PlaceInv, StopsForOne
<1> QED
  BY <1>2, <1>4 DEF PlaceInv

(* The watcher of one, and nobody else, is cancelled or goes on. *)
LEMMA PlaceWatched ==
  ASSUME BookInv, PlaceInv, UNCHANGED <<pc, whom, lock, following, gone>>,
         \A t \in Req : wpc'[t] = "stopping" => wpc[t] = "stopping" \/ runtime' = "keeping",
         \A t \in Req : wpc'[t] = "watching" => wpc[t] = "watching",
         runtime' = runtime \/ runtime' = "over"
           \/ (runtime' \in {"stopping", "keeping"} /\ runtime \in {"up", "stopping"}),
         runtime' = "keeping" \/ runtime' = "over" =>
           runtime' = runtime \/ runtime = "keeping"
             \/ \A r \in Req : pc[r] \in {"idle", "over"} \/ r \in gone
  PROVE  PlaceInv'
<1>1. InTheBooks'
  BY DEF PlaceInv, InTheBooks
<1>2. StopsForOne'
  BY DEF PlaceInv, StopsForOne, BookInv, WaitsForOne
<1> QED
  BY <1>1, <1>2 DEF PlaceInv

LEMMA PlaceEnter ==
  ASSUME BookInv, PlaceInv, NEW r \in Req, Enter(r)
  PROVE  PlaceInv'
<1>1. /\ pc[r] = "waiting" /\ lock = None /\ lock' = r
      /\ whom' = [whom EXCEPT ![r] = IF owned # None THEN owned ELSE following]
      /\ UNCHANGED <<following, gone, runtime>>
  BY DEF Enter
<1>2. \E l \in {"gathering", "evicting", "checking"} : pc' = [pc EXCEPT ![r] = l]
  BY DEF Enter, Goto
<1>3. /\ pc'[r] \in {"gathering", "evicting", "checking"} /\ r \notin gone
      /\ \A q \in Req \ {r} : pc'[q] = pc[q] /\ whom'[q] = whom[q] /\ pc[q] \notin InSection
  BY <1>1, <1>2 DEF BookInv, BookTypes, SectionIsExclusive, PlaceInv, StopsForOne
<1>4. InTheBooks'
  BY <1>1, <1>3 DEF PlaceInv, InTheBooks
<1>5. runtime \notin {"keeping", "over"}
  BY <1>1, <1>3 DEF PlaceInv, StopsForOne
<1>6. ASSUME NEW t \in Req, wpc'[t] = "stopping" PROVE pc'[r] = "gathering" /\ whom'[r] = t
  <2>1. wpc[t] # "stopping"
    BY <1>1, <1>3, <1>5 DEF PlaceInv, StopsForOne, InSection
  <2>2. owned # None /\ CancelWatcher(owned) /\ pc'[r] = "gathering"
    BY <1>1, <1>6, <2>1 DEF Enter, Goto, BookInv, BookTypes
  <2>3. owned = t
    BY <1>6, <2>1, <2>2 DEF CancelWatcher, WatcherAt, BookInv, BookTypes
  <2> QED
    BY <1>1, <2>2, <2>3 DEF BookInv, BookTypes
<1>7. pc'[r] = "gathering" => wpc'[whom'[r]] # "watching"
  <2> SUFFICES ASSUME pc'[r] = "gathering" PROVE wpc'[whom'[r]] # "watching"
    OBVIOUS
  <2>1. owned # None /\ CancelWatcher(owned) /\ whom'[r] = owned /\ owned \in Req
    BY <1>1 DEF Enter, Goto, BookInv, BookTypes
  <2> QED
    BY <2>1 DEF CancelWatcher, WatcherAt, BookInv, BookTypes
<1>8. StopsForOne'
  BY <1>1, <1>3, <1>5, <1>6, <1>7 DEF PlaceInv, StopsForOne, InSection
<1> QED
  BY <1>4, <1>8 DEF PlaceInv

LEMMA PlaceRequest ==
  ASSUME BookInv, PlaceInv, NEW r \in Req, Request(r)
  PROVE  PlaceInv'
<1>0. /\ pc[r] \in {"following", "removing", "stopping", "dropping"} => following = r
      /\ pc[r] = "cleaning" => following = r \/ lock = r
      /\ pc[r] \in InSection => lock = r
      /\ r \in gone => pc[r] \in {"stopping", "dropping", "cleaning", "over"}
  BY DEF PlaceInv, InTheBooks, StopsForOne, BookInv, SectionIsExclusive
<1>1. CASE Prepared(r) \/ NotPrepared(r)
  BY <1>0, <1>1, PlaceMoves DEF Prepared, NotPrepared, Step, Goto, bookVars, lockVars
<1>2. CASE OwnerEnded(r) \/ FollowerCleaned(r) \/ Check(r)
  BY <1>0, <1>2, PlaceMoves DEF OwnerEnded, FollowerCleaned, Check, Moves, Step, Goto, bookVars, lockVars
<1>3. CASE Evict(r) \/ Purge(r) \/ Write(r)
  BY <1>0, <1>3, PlaceMoves DEF Evict, Purge, Write, Moves, Step, Goto, bookVars, lockVars
<1>4. CASE WriteFails(r)
  BY <1>0, <1>4, PlaceMoves DEF WriteFails, Step, Goto, Unlock, bookVars, lockVars, InSection
<1>5. CASE Started(r)
  <2>1. following = None /\ owned = None /\ lock = r
    BY <1>5 DEF Started, Step, BookInv, SectionIsExclusive, NameIsFree, InSection
  <2>2. \A t \in Req : /\ wpc'[t] = "stopping" => wpc[t] = "stopping"
                       /\ wpc'[t] = "watching" => wpc[t] = "watching" \/ lock = r
    BY <1>5, <2>1 DEF Started, BookInv, BookTypes
  <2> QED
    BY <1>0, <1>5, <2>1, <2>2, PlaceMoves DEF Started, Step, Goto
<1>6. CASE RunFails(r)
  BY <1>0, <1>6, PlaceMoves DEF RunFails, Step, Goto, bookVars, lockVars, InSection
<1>7. CASE FollowEnds(r) \/ StopFollowed(r) \/ Drop(r)
  BY <1>0, <1>7, PlaceMoves DEF FollowEnds, StopFollowed, Drop, Moves, Step, Goto, bookVars, lockVars
<1>8. CASE RemoveStopped(r)
  BY <1>0, <1>8, PlaceMoves DEF RemoveStopped, Step, Goto, bookVars, lockVars
<1>9. CASE Clean(r)
  BY <1>0, <1>9, PlaceMoves DEF Clean, Step, Goto, Unlock
<1> QED
  BY <1>1, <1>2, <1>3, <1>4, <1>5, <1>6, <1>7, <1>8, <1>9, PlaceEnter DEF Request

LEMMA PlaceLeave ==
  ASSUME BookInv, PlaceInv, NEW r \in Req, Leave(r)
  PROVE  PlaceInv'
<1>0. /\ pc[r] \in {"following", "removing", "stopping", "dropping"} => following = r
      /\ pc[r] = "cleaning" => following = r \/ lock = r
      /\ pc[r] \in InSection => lock = r
  BY DEF PlaceInv, InTheBooks, BookInv, SectionIsExclusive
<1>1. CASE LeaveWaiting(r) \/ LeaveWriting(r) \/ LeaveCleaning(r)
  BY <1>0, <1>1, PlaceMoves DEF LeaveWaiting, LeaveWriting, LeaveCleaning, Leaves, Goto, Unlock, bookVars
<1>2. CASE LeaveRemoving(r)
  BY <1>0, <1>2, PlaceMoves DEF LeaveRemoving, Leaves, Goto, Unlock, bookVars
<1>3. CASE LeaveRunning(r) \/ LeaveFollowing(r)
  BY <1>0, <1>3, PlaceMoves DEF LeaveRunning, LeaveFollowing, Leaves, Goto, bookVars, lockVars, InSection
<1>4. CASE LeaveGathering(r)
  <2>1. /\ pc[r] = "gathering" /\ pc' = [pc EXCEPT ![r] = "over"] /\ gone' = gone \cup {r}
        /\ UNCHANGED <<whom, runtime, following>> /\ CancelWatcher(whom[r])
        /\ lock' = IF lock = r THEN None ELSE lock
    BY <1>4 DEF LeaveGathering, Leaves, Goto, Unlock
  <2>2. whom[r] \in Req
    BY <2>1 DEF BookInv, WaitsForOne
  <2>3. pc'[r] = "over" /\ \A q \in Req \ {r} : pc'[q] = pc[q]
    BY <2>1 DEF BookInv, BookTypes
  <2>4. InTheBooks'
    BY <2>1, <2>3 DEF PlaceInv, InTheBooks
  <2>5. runtime \notin {"keeping", "over"}
    BY <2>1 DEF PlaceInv, StopsForOne
  <2>6. \A t \in Req : wpc[t] = "stopping" => t = whom[r]
    <3>1. \A q \in Req : pc[q] = "gathering" => q = r
      BY <2>1 DEF BookInv, SectionIsExclusive, InSection
    <3> QED
      BY <2>5, <3>1 DEF PlaceInv, StopsForOne
  <2>7. \A t \in Req : wpc'[t] # "stopping"
    <3>1. wpc[whom[r]] # "watching"
      BY <2>1 DEF PlaceInv, StopsForOne
    <3> QED
      BY <2>1, <2>2, <2>6, <3>1 DEF CancelWatcher, WatcherAt, BookInv, BookTypes
  <2>8. \A q \in Req : pc'[q] # "gathering"
    BY <2>1, <2>3 DEF BookInv, SectionIsExclusive, InSection
  <2>9. StopsForOne'
    BY <2>1, <2>3, <2>5, <2>7, <2>8 DEF PlaceInv, StopsForOne
  <2> QED
    BY <2>4, <2>9 DEF PlaceInv
<1> QED
  BY <1>1, <1>2, <1>3, <1>4 DEF Leave

LEMMA PlaceStep == BookInv /\ PlaceInv /\ [Next]_vars => PlaceInv'
<1> SUFFICES ASSUME BookInv, PlaceInv, [Next]_vars PROVE PlaceInv'
  OBVIOUS
<1>1. ASSUME NEW r \in Req, Arrive(r) PROVE PlaceInv'
  <2>1. pc[r] = "idle" /\ r \notin gone
    BY <1>1 DEF Arrive, Step, PlaceInv, StopsForOne
  <2> QED
    BY <1>1, <2>1, PlaceMoves DEF Arrive, Step, Goto, bookVars, lockVars
<1>2. ASSUME UNCHANGED <<pc, whom, lock, following, gone, wpc, runtime>> PROVE PlaceInv'
  BY <1>2, PlaceWatched
<1>3. CASE Ends \/ Stray \/ AllOver \/ UNCHANGED vars
  BY <1>2, <1>3 DEF Ends, Stray, StrayActs, AllOver, vars, reqVars, lockVars, bookVars
<1>4. ASSUME NEW t \in Req, Watcher(t) PROVE PlaceInv'
  <2>1. UNCHANGED <<pc, whom, lock, following, gone, runtime>>
    BY <1>4 DEF Watcher, WatchEnds, WatcherStops, WatcherRemoves, WatcherClears, reqVars, lockVars
  <2>2. \A s \in Req : /\ wpc'[s] = "stopping" => wpc[s] = "stopping"
                       /\ wpc'[s] = "watching" => wpc[s] = "watching"
    BY <1>4 DEF Watcher, WatchEnds, WatcherStops, WatcherRemoves, WatcherClears, WatcherAt,
                BookInv, BookTypes
  <2> QED
    BY <2>1, <2>2, PlaceWatched
<1>5. CASE Stop \/ KeepEnds
  BY <1>5, PlaceWatched DEF Stop, KeepEnds, reqVars, lockVars, bookVars
<1>6. CASE Keep
  <2>1. /\ UNCHANGED <<pc, whom, lock, following, gone>>
        /\ runtime = "stopping" /\ runtime' = "keeping"
        /\ \A r \in Req : pc[r] \in {"idle", "over"} \/ r \in gone
    BY <1>6 DEF Keep, reqVars, lockVars
  <2>2. \A s \in Req : wpc'[s] = "watching" => wpc[s] = "watching"
    BY <1>6 DEF Keep, CancelWatcher, WatcherAt, BookInv, BookTypes
  <2> QED
    BY <2>1, <2>2, PlaceWatched
<1> QED
  BY <1>1, <1>3, <1>4, <1>5, <1>6, PlaceRequest, PlaceLeave DEF Next
-----------------------------------------------------------------------------

(* No container that was not let go begins to run. *)
Quieter == \A r \in Req \ lost' : Runs(r)' => r \notin lost /\ Runs(r)

LEMMA QuieterStays ==
  ASSUME Quieter
  PROVE  /\ NoneRuns => NoneRuns'
         /\ \A t \in Req : OnlyRuns(t) => OnlyRuns(t)'
  BY DEF Quieter, NoneRuns, OnlyRuns

(* A step of one request that starts nothing. *)
LEMMA RunMoves ==
  ASSUME BookInv, RunInv, NEW r \in Req, NEW l, Quieter,
         pc' = [pc EXCEPT ![r] = l], l # "gathering", UNCHANGED <<wpc, owned>>,
         following' = following \/ following' = None,
         l \in {"awaiting", "writing", "running", "cleaning"} => NoneRuns',
         following' = r /\ l \notin {"following", "stopping"} => NoneRuns'
  PROVE  RunInv'
<1>1. pc'[r] = l /\ \A q \in Req \ {r} : pc'[q] = pc[q]
  BY DEF BookInv, BookTypes
<1>2. OwnerRuns'
  BY QuieterStays DEF RunInv, OwnerRuns, BookInv, BookTypes, NoneRuns, OnlyRuns, Quieter
<1>3. FollowerRuns'
  <2> SUFFICES ASSUME following' # None
               PROVE  /\ OnlyRuns(following)'
                      /\ pc'[following] \notin {"following", "stopping"} => NoneRuns'
    BY DEF FollowerRuns
  <2>1. following' = following /\ following \in Req
    BY DEF BookInv, BookTypes
  <2>2. OnlyRuns(following)'
    BY <2>1 DEF RunInv, FollowerRuns, OnlyRuns, Quieter
  <2>3. pc'[following] \notin {"following", "stopping"} => NoneRuns'
    BY <1>1, <2>1, QuieterStays DEF RunInv, FollowerRuns
  <2> QED
    BY <2>1, <2>2, <2>3
<1>4. QuietSection'
  BY <1>1, QuieterStays DEF RunInv, QuietSection
<1> QED
  BY <1>2, <1>3, <1>4 DEF RunInv

(* A step of a watcher, or of who cancels it. *)
LEMMA RunWatched ==
  ASSUME BookInv, RunInv, Quieter, UNCHANGED following,
         \A r \in Req : pc'[r] = pc[r] \/ (pc[r] = "waiting" /\ pc'[r] = "gathering")
                        \/ (pc[r] = "gathering" /\ pc'[r] = "over"),
         owned' \in {owned, None},
         owned' # None /\ wpc'[owned] \in {"removing", "clearing"} => NoneRuns',
         owned' = None /\ owned # None /\ (\E r \in Req : pc'[r] = "gathering") => NoneRuns',
         \A r \in Req : pc'[r] = "gathering" /\ pc[r] # "gathering" => owned # None
  PROVE  RunInv'
<1>1. OwnerRuns'
  <2> SUFFICES ASSUME owned' # None
               PROVE  /\ OnlyRuns(owned)'
                      /\ wpc'[owned'] \in {"removing", "clearing"} => NoneRuns'
    BY DEF OwnerRuns
  <2>1. owned' = owned
    OBVIOUS
  <2>2. OnlyRuns(owned)'
    BY <2>1 DEF RunInv, OwnerRuns, OnlyRuns, Quieter
  <2> QED
    BY <2>1, <2>2
<1>2. FollowerRuns'
  <2> SUFFICES ASSUME following # None
               PROVE  /\ OnlyRuns(following)'
                      /\ pc'[following] \notin {"following", "stopping"} => NoneRuns'
    BY DEF FollowerRuns
  <2>1. OnlyRuns(following)'
    BY DEF RunInv, FollowerRuns, OnlyRuns, Quieter
  <2>2. following \in Req
    BY DEF BookInv, BookTypes
  <2>3. pc'[following] \notin {"following", "stopping"} => NoneRuns'
    BY <2>2, QuieterStays DEF RunInv, FollowerRuns
  <2> QED
    BY <2>1, <2>3
<1>3. QuietSection'
  <2> SUFFICES ASSUME NEW r \in Req
               PROVE  /\ pc'[r] \in {"awaiting", "writing", "running", "cleaning"} => NoneRuns'
                      /\ pc'[r] = "gathering" /\ owned' = None => NoneRuns'
    BY DEF QuietSection
  <2>1. pc'[r] \in {"awaiting", "writing", "running", "cleaning"} => NoneRuns'
    BY QuieterStays DEF RunInv, QuietSection
  <2>2. pc'[r] = "gathering" /\ owned' = None => NoneRuns'
    BY QuieterStays DEF RunInv, QuietSection
  <2> QED
    BY <2>1, <2>2
<1> QED
  BY <1>1, <1>2, <1>3 DEF RunInv

LEMMA CancelledOwner ==
  ASSUME BookInv, NEW t \in Req, CancelWatcher(t)
  PROVE  /\ wpc'[t] \notin {"removing", "clearing"}
         /\ owned' # owned => owned = t /\ wpc[t] \in {"stopping", "removing", "clearing"}
  BY DEF CancelWatcher, WatcherAt, BookInv, BookTypes, OwnedIsAlive, Alive

LEMMA EnterRuns ==
  ASSUME BookInv, PlaceInv, RunInv, NEW r \in Req, Enter(r)
  PROVE  RunInv'
<1>1. /\ pc[r] = "waiting" /\ lock = None /\ UNCHANGED <<following, lost, con, up>>
  BY DEF Enter, hostVars
<1>2. Quieter
  BY <1>1 DEF Quieter, Runs
<1>3. CASE owned = None
  <2>1. following # r
    BY <1>1 DEF BookInv, FollowerIsPast, Registered
  <2> QED
    BY <1>1, <1>2, <1>3, <2>1, RunMoves DEF Enter, Goto
<1>4. CASE owned # None
  <2>1. pc' = [pc EXCEPT ![r] = "gathering"] /\ CancelWatcher(owned) /\ owned \in Req
    BY <1>4 DEF Enter, Goto, BookInv, BookTypes
  <2>2. wpc[owned] # "stopping"
    <3>1. \A q \in Req : pc[q] # "gathering"
      BY <1>1 DEF BookInv, SectionIsExclusive, InSection
    <3>2. runtime \notin {"keeping", "over"}
      BY <1>1 DEF PlaceInv, StopsForOne
    <3> QED
      BY <2>1, <3>1, <3>2 DEF PlaceInv, StopsForOne
  <2>3. /\ wpc'[owned] \notin {"removing", "clearing"}
        /\ owned' # owned => wpc[owned] \in {"stopping", "removing", "clearing"}
    BY <2>1, CancelledOwner
  <2>4. owned' # owned => NoneRuns'
    BY <1>2, <1>4, <2>2, <2>3, QuieterStays DEF RunInv, OwnerRuns
  <2>5. owned' \in {owned, None}
    BY <2>1, CancelWatcherKeeps
  <2>6. \A q \in Req : pc'[q] = IF q = r THEN "gathering" ELSE pc[q]
    BY <2>1 DEF BookInv, BookTypes
  <2> QED
    BY <1>1, <1>2, <1>4, <2>3, <2>4, <2>5, <2>6, RunWatched
<1> QED
  BY <1>3, <1>4

(* The container that starts is the only one. *)
LEMMA StartedRuns ==
  ASSUME BookInv, PlaceInv, RunInv, NEW r \in Req, Started(r)
  PROVE  RunInv'
<1>1. /\ pc[r] = "running" /\ lock = r /\ owned = None /\ following = None
      /\ con' = r /\ UNCHANGED lost
  BY DEF Started, Step, BookInv, SectionIsExclusive, NameIsFree, InSection
<1>2. OnlyRuns(r)'
  BY <1>1 DEF OnlyRuns, Runs
<1>3. \A q \in Req \ {r} : pc[q] \notin InSection \cup {"cleaning"}
  BY <1>1 DEF BookInv, SectionIsExclusive, PlaceInv, InTheBooks
<1>4. /\ pc'[r] \in {"following", "over"} /\ \A q \in Req \ {r} : pc'[q] = pc[q]
      /\ following' \in {None, r} /\ owned' \in {None, r}
      /\ following' = r => pc'[r] = "following"
      /\ owned' = r => wpc'[r] = "watching"
  BY <1>1 DEF Started, Step, Goto, BookInv, BookTypes
<1>5. OwnerRuns' /\ FollowerRuns'
  BY <1>2, <1>4 DEF OwnerRuns, FollowerRuns
<1>6. QuietSection'
  <2>1. \A q \in Req : pc'[q] \notin {"awaiting", "writing", "running", "cleaning", "gathering"}
    BY <1>3, <1>4 DEF InSection
  <2> QED
    BY <2>1 DEF QuietSection
<1> QED
  BY <1>5, <1>6 DEF RunInv

LEMMA RequestRuns ==
  ASSUME BookInv, PlaceInv, RunInv, NEW r \in Req, Request(r)
  PROVE  RunInv'
<1>0. following = r => pc[r] \in Registered
  BY DEF BookInv, FollowerIsPast
<1>1. CASE Prepared(r) \/ NotPrepared(r)
  <2>1. Quieter /\ following # r /\ UNCHANGED bookVars
    BY <1>0, <1>1 DEF Prepared, NotPrepared, Step, hostVars, Quieter, Runs, Registered
  <2>2. \E l \in {"waiting", "over"} : pc' = [pc EXCEPT ![r] = l]
    BY <1>1 DEF Prepared, NotPrepared, Step, Goto
  <2> QED
    BY <2>1, <2>2, RunMoves DEF bookVars
<1>2. CASE OwnerEnded(r)
  <2>1. owned = None
    BY <1>2 DEF OwnerEnded, Moves, Step, BookInv, OwnedIsAlive, WaitsForOne, Alive
  <2>2. NoneRuns /\ Quieter
    BY <1>2, <2>1 DEF OwnerEnded, Moves, Step, hostVars, Quieter, Runs, RunInv, QuietSection
  <2> QED
    BY <1>0, <1>2, <2>2, QuieterStays, RunMoves
       DEF OwnerEnded, Moves, Step, Goto, bookVars, Registered
<1>3. CASE FollowerCleaned(r)
  <2>1. NoneRuns /\ Quieter
    BY <1>3 DEF FollowerCleaned, Moves, Step, hostVars, Quieter, Runs, RunInv, QuietSection
  <2> QED
    BY <1>0, <1>3, <2>1, QuieterStays, RunMoves
       DEF FollowerCleaned, Moves, Step, Goto, bookVars, Registered
<1>4. CASE Check(r)
  <2>1. con = None => NoneRuns'
    BY <1>4 DEF Check, Moves, hostVars, NoneRuns, Runs
  <2>2. Quieter
    BY <1>4 DEF Check, Moves, hostVars, Quieter, Runs
  <2>3. \E l \in {"writing", "purging"} : pc' = [pc EXCEPT ![r] = l] /\ (l = "writing" => con = None)
    BY <1>4 DEF Check, Moves, Step, Goto
  <2>4. UNCHANGED bookVars /\ pc[r] = "checking"
    BY <1>4 DEF Check, Moves, Step
  <2> QED
    BY <1>0, <2>1, <2>2, <2>3, <2>4, RunMoves DEF bookVars, Registered
<1>5. CASE Evict(r) \/ Purge(r) \/ RemoveStopped(r) \/ Drop(r)
  <2>1. NoneRuns' /\ Quieter
    BY <1>5 DEF Evict, Purge, RemoveStopped, Drop, Removed, NoneRuns, Quieter, Runs
  <2> QED
    BY <1>5, <2>1, RunMoves DEF Evict, Purge, RemoveStopped, Drop, Moves, Step, Goto, bookVars
<1>6. CASE Write(r) \/ WriteFails(r)
  <2>1. NoneRuns /\ Quieter
    BY <1>6 DEF Write, WriteFails, Moves, Step, Untouched, Quieter, Runs, RunInv, QuietSection
  <2> QED
    BY <1>6, <2>1, QuieterStays, RunMoves DEF Write, WriteFails, Moves, Step, Goto, bookVars
<1>7. CASE RunFails(r)
  <2>1. NoneRuns
    BY <1>7 DEF RunFails, Step, RunInv, QuietSection
  <2>2. Quieter
    BY <1>7, <2>1 DEF RunFails, Untouched, Quieter, Runs
  <2> QED
    BY <1>7, <2>1, <2>2, QuieterStays, RunMoves DEF RunFails, Step, Goto, bookVars
<1>8. CASE FollowEnds(r)
  <2>1. following = r /\ ~ Runs(r) /\ Quieter
    BY <1>8 DEF FollowEnds, Moves, Step, PlaceInv, InTheBooks, hostVars, Quieter, Runs
  <2>2. NoneRuns
    BY <2>1 DEF RunInv, FollowerRuns, OnlyRuns, NoneRuns, BookInv, BookTypes
  <2> QED
    BY <1>8, <2>1, <2>2, QuieterStays, RunMoves DEF FollowEnds, Moves, Step, Goto, bookVars
<1>9. CASE StopFollowed(r)
  <2>1. NoneRuns' /\ Quieter
    BY <1>9 DEF StopFollowed, Stopped, NoneRuns, Quieter, Runs
  <2> QED
    BY <1>9, <2>1, RunMoves DEF StopFollowed, Moves, Step, Goto, bookVars
<1>10. CASE Clean(r)
  <2>1. NoneRuns /\ Quieter
    BY <1>10 DEF Clean, Step, Quieter, Runs, RunInv, QuietSection
  <2> QED
    BY <1>10, <2>1, QuieterStays, RunMoves DEF Clean, Step, Goto
<1> QED
  BY <1>1, <1>2, <1>3, <1>4, <1>5, <1>6, <1>7, <1>8, <1>9, <1>10, EnterRuns, StartedRuns
     DEF Request

LEMMA LeaveRuns ==
  ASSUME BookInv, PlaceInv, RunInv, NEW r \in Req, Leave(r)
  PROVE  RunInv'
<1>0. following = r => pc[r] \in Registered
  BY DEF BookInv, FollowerIsPast
<1>1. CASE LeaveWaiting(r) \/ LeaveWriting(r)
  <2>1. Quieter /\ following # r /\ UNCHANGED bookVars
    BY <1>0, <1>1 DEF LeaveWaiting, LeaveWriting, hostVars, Quieter, Runs, Registered
  <2>2. pc' = [pc EXCEPT ![r] = "over"]
    BY <1>1 DEF LeaveWaiting, LeaveWriting, Leaves, Goto
  <2> QED
    BY <2>1, <2>2, RunMoves DEF bookVars
<1>2. CASE LeaveCleaning(r)
  <2>1. NoneRuns /\ Quieter /\ UNCHANGED bookVars
    BY <1>2 DEF LeaveCleaning, hostVars, Quieter, Runs, RunInv, QuietSection
  <2>2. pc' = [pc EXCEPT ![r] = "over"]
    BY <1>2 DEF LeaveCleaning, Leaves, Goto
  <2> QED
    BY <2>1, <2>2, QuieterStays, RunMoves DEF bookVars
<1>3. CASE LeaveRemoving(r)
  <2>1. Quieter /\ UNCHANGED bookVars
    BY <1>3 DEF LeaveRemoving, Untouched, Removed, Quieter, Runs
  <2>2. CASE pc[r] = "removing"
    <3>1. pc' = [pc EXCEPT ![r] = "cleaning"]
      BY <1>3, <2>2 DEF LeaveRemoving, Leaves, Goto
    <3>2. following = r
      BY <2>2 DEF PlaceInv, InTheBooks
    <3>3. NoneRuns
      BY <2>2, <3>2 DEF RunInv, FollowerRuns, BookInv, BookTypes
    <3> QED
      BY <2>1, <3>1, <3>3, QuieterStays, RunMoves DEF bookVars
  <2>3. CASE pc[r] # "removing"
    <3>1. pc' = [pc EXCEPT ![r] = "over"] /\ following # r
      BY <1>0, <1>3, <2>3 DEF LeaveRemoving, Leaves, Goto, Registered
    <3> QED
      BY <2>1, <3>1, RunMoves DEF bookVars
  <2> QED
    BY <2>2, <2>3
<1>4. CASE LeaveRunning(r)
  <2>1. pc[r] = "running" /\ UNCHANGED bookVars /\ pc' = [pc EXCEPT ![r] = "cleaning"]
    BY <1>4 DEF LeaveRunning, Leaves, Goto
  <2>2. NoneRuns
    BY <2>1 DEF RunInv, QuietSection
  <2>3. Quieter
    BY <1>4, <2>2 DEF LeaveRunning, Untouched, NoneRuns, Quieter, Runs
  <2> QED
    BY <2>1, <2>2, <2>3, QuieterStays, RunMoves DEF bookVars
<1>5. CASE LeaveFollowing(r)
  BY <1>5, RunMoves DEF LeaveFollowing, Leaves, Goto, bookVars, hostVars, Quieter, Runs
<1>6. CASE LeaveGathering(r)
  <2>1. /\ pc[r] = "gathering" /\ pc' = [pc EXCEPT ![r] = "over"]
        /\ UNCHANGED <<following, con, up, lost>> /\ CancelWatcher(whom[r])
        /\ whom[r] \in Req /\ owned \in {None, whom[r]}
    BY <1>6 DEF LeaveGathering, Leaves, Goto, hostVars, BookInv, WaitsForOne
  <2>2. Quieter
    BY <2>1 DEF Quieter, Runs
  <2>3. owned' \in {owned, None} /\ wpc'[whom[r]] \notin {"removing", "clearing"}
    BY <2>1, CancelWatcherKeeps, CancelledOwner
  <2>4. \A q \in Req : pc'[q] = IF q = r THEN "over" ELSE pc[q]
    BY <2>1 DEF BookInv, BookTypes
  <2>5. \A q \in Req : pc'[q] # "gathering"
    BY <2>1, <2>4 DEF BookInv, SectionIsExclusive, InSection
  <2> QED
    BY <2>1, <2>2, <2>3, <2>4, <2>5, RunWatched
<1> QED
  BY <1>1, <1>2, <1>3, <1>4, <1>5, <1>6 DEF Leave

LEMMA WatcherRuns ==
  ASSUME BookInv, PlaceInv, RunInv, NEW t \in Req, Watcher(t)
  PROVE  RunInv'
<1>1. /\ owned = t /\ UNCHANGED <<pc, following, lost>> /\ owned' \in {owned, None}
  BY DEF Watcher, WatchEnds, WatcherStops, WatcherRemoves, WatcherClears, WatcherAt,
         BookInv, OwnedIsAlive, Alive, reqVars
<1>2. NoneRuns' /\ Quieter
  <2>1. CASE WatchEnds(t)
    <3>1. ~ Runs(t) /\ UNCHANGED hostVars
      BY <2>1 DEF WatchEnds
    <3>2. NoneRuns
      BY <1>1, <3>1 DEF RunInv, OwnerRuns, OnlyRuns, NoneRuns, BookInv, BookTypes
    <3> QED
      BY <1>1, <3>1, <3>2 DEF NoneRuns, Quieter, Runs, hostVars
  <2>2. CASE WatcherStops(t) \/ WatcherRemoves(t)
    BY <1>1, <2>2 DEF WatcherStops, WatcherRemoves, Stopped, Removed, NoneRuns, Quieter, Runs
  <2>3. CASE WatcherClears(t)
    <3>1. NoneRuns /\ UNCHANGED <<con, up>>
      BY <1>1, <2>3 DEF WatcherClears, RunInv, OwnerRuns, BookInv, BookTypes
    <3> QED
      BY <1>1, <3>1 DEF NoneRuns, Quieter, Runs
  <2> QED
    BY <2>1, <2>2, <2>3 DEF Watcher
<1> QED
  BY <1>1, <1>2, RunWatched

LEMMA RunStep == BookInv /\ PlaceInv /\ RunInv /\ [Next]_vars => RunInv'
<1> SUFFICES ASSUME BookInv, PlaceInv, RunInv, [Next]_vars PROVE RunInv'
  OBVIOUS
<1>1. ASSUME NEW r \in Req, Arrive(r) PROVE RunInv'
  <2>1. pc[r] = "idle" /\ following # r /\ UNCHANGED bookVars /\ Quieter
    BY <1>1 DEF Arrive, Step, BookInv, FollowerIsPast, Registered, hostVars, Quieter, Runs
  <2> QED
    BY <1>1, <2>1, RunMoves DEF Arrive, Step, Goto, bookVars
<1>2. ASSUME UNCHANGED <<pc, following, owned, wpc>>, Quieter PROVE RunInv'
  BY <1>2, RunWatched, QuieterStays DEF RunInv, OwnerRuns
<1>3. CASE Ends
  BY <1>2, <1>3 DEF Ends, Stopped, Quieter, Runs, reqVars, bookVars
<1>4. CASE Stray
  <2>1. PICK op \in {"stop", "remove", "clear", "write"}, q \in Req : StrayActs(op, q)
    BY <1>4 DEF Stray
  <2>2. UNCHANGED <<reqVars, bookVars>> /\ (UNCHANGED <<con, up>> \/ up' = FALSE)
    BY <2>1 DEF StrayActs, Stopped, Removed, Untouched
  <2>3. Quieter
    BY <2>2 DEF Quieter, Runs, reqVars
  <2> QED
    BY <1>2, <2>2, <2>3 DEF reqVars, bookVars
<1>5. CASE Keep
  <2>1. /\ UNCHANGED <<pc, following, con, up, lost>>
        /\ \A r \in Req : pc[r] \in {"idle", "over"} \/ r \in gone
    BY <1>5 DEF Keep, reqVars, hostVars
  <2>2. Quieter
    BY <2>1 DEF Quieter, Runs
  <2>3. CASE owned = None
    BY <1>2, <1>5, <2>1, <2>2, <2>3 DEF Keep
  <2>4. CASE owned # None
    <3>1. owned \in Req /\ CancelWatcher(owned)
      BY <1>5, <2>4 DEF Keep, BookInv, BookTypes
    <3>2. owned' \in {owned, None} /\ wpc'[owned] \notin {"removing", "clearing"}
      BY <3>1, CancelWatcherKeeps, CancelledOwner
    <3>3. \A r \in Req : pc[r] # "gathering"
      BY <2>1 DEF PlaceInv, StopsForOne
    <3> QED
      BY <2>1, <2>2, <3>2, <3>3, RunWatched
  <2> QED
    BY <2>3, <2>4
<1>6. CASE Stop \/ KeepEnds \/ AllOver \/ UNCHANGED vars
  BY <1>2, <1>6
     DEF Stop, KeepEnds, AllOver, vars, reqVars, bookVars, hostVars, Quieter, Runs
<1> QED
  BY <1>1, <1>3, <1>4, <1>5, <1>6, RequestRuns, LeaveRuns, WatcherRuns DEF Next
-----------------------------------------------------------------------------

FilesInv == FilesAreThere /\ FilesWhileRunning

(* A thread that is left behind is never forgotten. *)
StraysTold ==
  /\ strayed => strayed'
  /\ \A r \in Req : <<"clear", r>> \in strays' \/ <<"write", r>> \in strays'
       => <<"clear", r>> \in strays \/ <<"write", r>> \in strays \/ strayed'

LEMMA FilesStay ==
  ASSUME FilesInv, Quieter, UNCHANGED files, StraysTold,
         \A r \in Req : pc'[r] = "running" => pc[r] = "running"
  PROVE  FilesInv'
  BY DEF FilesInv, FilesAreThere, FilesWhileRunning, Quieter, StraysTold

(* The files change while no container runs that could miss them. *)
LEMMA FilesChange ==
  ASSUME FilesInv, NoneRuns, Quieter, StraysTold,
         \A r \in Req : pc'[r] = "running" => files' = r
  PROVE  FilesInv'
  BY DEF FilesInv, FilesAreThere, FilesWhileRunning, Quieter, StraysTold, NoneRuns

LEMMA StraysAreTold ==
  ASSUME NEW op \in {"stop", "remove", "clear", "write"}, NEW t \in Req, Strays(op, t)
  PROVE  StraysTold
<1>1. strays' = strays \cup {<<op, t>>} /\ strayed' = (strayed \/ op \in {"clear", "write"})
  BY DEF Strays
<1>2. strayed => strayed'
  BY <1>1
<1>3. ASSUME NEW r \in Req, <<"clear", r>> \in strays', <<"clear", r>> \notin strays PROVE strayed'
  <2>1. <<op, t>> = <<"clear", r>>
    BY <1>1, <1>3
  <2>2. op = "clear"
    BY <2>1
  <2> QED
    BY <1>1, <2>2
<1>4. ASSUME NEW r \in Req, <<"write", r>> \in strays', <<"write", r>> \notin strays PROVE strayed'
  <2>1. <<op, t>> = <<"write", r>>
    BY <1>1, <1>4
  <2>2. op = "write"
    BY <2>1
  <2> QED
    BY <1>1, <2>2
<1> QED
  BY <1>2, <1>3, <1>4 DEF StraysTold

LEMMA CancelTold == ASSUME NEW t \in Req, CancelWatcher(t) PROVE StraysTold
<1>1. \/ UNCHANGED strayVars
      \/ \E op \in {"stop", "remove", "clear", "write"} : Strays(op, t)
  BY DEF CancelWatcher
<1>2. CASE UNCHANGED strayVars
  BY <1>2 DEF strayVars, StraysTold
<1> QED
  BY <1>1, <1>2, StraysAreTold

LEMMA RequestFiles ==
  ASSUME BookInv, PlaceInv, RunInv, FilesInv, NEW r \in Req, Request(r)
  PROVE  FilesInv'
<1>1. CASE Prepared(r) \/ NotPrepared(r)
  BY <1>1, FilesStay
     DEF Prepared, NotPrepared, Step, Goto, hostVars, strayVars, Quieter, Runs, StraysTold,
         BookInv, BookTypes
<1>2. CASE OwnerEnded(r) \/ FollowerCleaned(r) \/ Check(r) \/ FollowEnds(r)
  BY <1>2, FilesStay
     DEF OwnerEnded, FollowerCleaned, Check, FollowEnds, Moves, Step, Goto, hostVars, strayVars,
         Quieter, Runs, StraysTold, BookInv, BookTypes
<1>3. CASE Evict(r) \/ Purge(r) \/ RemoveStopped(r) \/ Drop(r) \/ StopFollowed(r)
  <2>1. Quieter /\ UNCHANGED <<files, strayVars>>
    BY <1>3 DEF Evict, Purge, RemoveStopped, Drop, StopFollowed, Moves, Removed, Stopped, Quieter, Runs
  <2>2. \A q \in Req : pc'[q] = "running" => pc[q] = "running"
    BY <1>3 DEF Evict, Purge, RemoveStopped, Drop, StopFollowed, Moves, Step, Goto,
                BookInv, BookTypes
  <2> QED
    BY <2>1, <2>2, FilesStay DEF strayVars, StraysTold
<1>4. CASE Write(r) \/ WriteFails(r) \/ Clean(r)
  <2>1. /\ pc[r] \in {"writing", "cleaning"} /\ UNCHANGED <<con, up, lost, strayVars>>
        /\ pc' = [pc EXCEPT ![r] = IF Write(r) THEN "running" ELSE "over"]
        /\ Write(r) => files' = r
    BY <1>4 DEF Write, WriteFails, Clean, Moves, Step, Goto, Untouched
  <2>2. NoneRuns /\ Quieter /\ StraysTold
    BY <2>1 DEF RunInv, QuietSection, Quieter, Runs, StraysTold, strayVars
  <2>3. \A q \in Req \ {r} : pc[q] # "running"
    BY <2>1 DEF BookInv, SectionIsExclusive, NameIsFree, InSection, PlaceInv, InTheBooks
  <2>4. \A q \in Req : pc'[q] = "running" => files' = q
    BY <2>1, <2>3 DEF BookInv, BookTypes
  <2> QED
    BY <2>2, <2>4, FilesChange
<1>5. CASE Started(r)
  <2>1. /\ pc[r] = "running" /\ con' = r /\ UNCHANGED <<files, strayVars>>
        /\ \A q \in Req : pc'[q] = "running" => pc[q] = "running"
    BY <1>5 DEF Started, Step, Goto, BookInv, BookTypes
  <2> QED
    BY <2>1 DEF FilesInv, FilesAreThere, FilesWhileRunning, Runs, strayVars
<1>6. CASE RunFails(r)
  <2>1. Quieter /\ UNCHANGED <<files, strayVars>>
    BY <1>6 DEF RunFails, Step, Untouched, Quieter, Runs
  <2>2. \A q \in Req : pc'[q] = "running" => pc[q] = "running"
    BY <1>6 DEF RunFails, Step, Goto, BookInv, BookTypes
  <2> QED
    BY <2>1, <2>2, FilesStay DEF strayVars, StraysTold
<1>7. CASE Enter(r)
  <2>1. Quieter /\ UNCHANGED files
    BY <1>7 DEF Enter, hostVars, Quieter, Runs
  <2>2. \A q \in Req : pc'[q] = "running" => pc[q] = "running"
    BY <1>7 DEF Enter, Goto, BookInv, BookTypes
  <2>3. StraysTold
    <3>1. CASE owned = None
      BY <1>7, <3>1 DEF Enter, strayVars, StraysTold
    <3>2. CASE owned # None
      BY <1>7, <3>2, CancelTold DEF Enter, BookInv, BookTypes
    <3> QED
      BY <3>1, <3>2
  <2> QED
    BY <2>1, <2>2, <2>3, FilesStay
<1> QED
  BY <1>1, <1>2, <1>3, <1>4, <1>5, <1>6, <1>7 DEF Request

LEMMA LeaveFiles ==
  ASSUME BookInv, PlaceInv, RunInv, FilesInv, NEW r \in Req, Leave(r)
  PROVE  FilesInv'
<1>1. UNCHANGED files
  BY DEF Leave, LeaveWaiting, LeaveGathering, LeaveRemoving, LeaveWriting, LeaveRunning,
         LeaveFollowing, LeaveCleaning, hostVars
<1>2. \A q \in Req : pc'[q] = "running" => pc[q] = "running"
  BY DEF Leave, LeaveWaiting, LeaveGathering, LeaveRemoving, LeaveWriting, LeaveRunning,
         LeaveFollowing, LeaveCleaning, Leaves, Goto, BookInv, BookTypes
<1>3. Quieter
  <2>1. CASE LeaveRunning(r)
    BY <2>1 DEF LeaveRunning, Untouched, Quieter, Runs
  <2>2. CASE ~ LeaveRunning(r)
    BY <2>2 DEF Leave, LeaveWaiting, LeaveGathering, LeaveRemoving, LeaveWriting,
                LeaveFollowing, LeaveCleaning, hostVars, Untouched, Removed, Quieter, Runs
  <2> QED
    BY <2>1, <2>2
<1>4. StraysTold
  <2>1. CASE LeaveGathering(r)
    BY <2>1, CancelTold DEF LeaveGathering, BookInv, WaitsForOne
  <2>2. CASE LeaveWriting(r) \/ LeaveCleaning(r)
    BY <2>2, StraysAreTold DEF LeaveWriting, LeaveCleaning
  <2>3. CASE LeaveWaiting(r) \/ LeaveRemoving(r) \/ LeaveRunning(r) \/ LeaveFollowing(r)
    BY <2>3 DEF LeaveWaiting, LeaveRemoving, LeaveRunning, LeaveFollowing, strayVars, StraysTold
  <2> QED
    BY <2>1, <2>2, <2>3 DEF Leave
<1> QED
  BY <1>1, <1>2, <1>3, <1>4, FilesStay

LEMMA WatcherFiles ==
  ASSUME BookInv, PlaceInv, RunInv, FilesInv, NEW t \in Req, Watcher(t)
  PROVE  FilesInv'
<1>1. UNCHANGED <<pc, lost, strayVars>> /\ Quieter
  BY DEF Watcher, WatchEnds, WatcherStops, WatcherRemoves, WatcherClears, reqVars, hostVars,
         Stopped, Removed, Quieter, Runs
<1>2. StraysTold
  BY <1>1 DEF StraysTold, strayVars
<1>3. CASE WatcherClears(t)
  <2>1. owned = t
    BY <1>3 DEF WatcherClears, BookInv, OwnedIsAlive, Alive
  <2>2. NoneRuns
    BY <1>3, <2>1 DEF WatcherClears, RunInv, OwnerRuns
  <2>3. \A q \in Req : pc'[q] # "running"
    BY <1>1, <2>1 DEF BookInv, NameIsFree
  <2> QED
    BY <1>1, <1>2, <2>2, <2>3, FilesChange
<1>4. CASE ~ WatcherClears(t)
  <2>1. UNCHANGED files
    BY <1>4 DEF Watcher, WatchEnds, WatcherStops, WatcherRemoves, hostVars
  <2> QED
    BY <1>1, <1>2, <2>1, FilesStay
<1> QED
  BY <1>3, <1>4

LEMMA FilesStep == BookInv /\ PlaceInv /\ RunInv /\ FilesInv /\ [Next]_vars => FilesInv'
<1> SUFFICES ASSUME BookInv, PlaceInv, RunInv, FilesInv, [Next]_vars PROVE FilesInv'
  OBVIOUS
<1>1. ASSUME NEW r \in Req, Arrive(r) PROVE FilesInv'
  <2>1. \A q \in Req : pc'[q] = "running" => pc[q] = "running"
    BY <1>1 DEF Arrive, Step, Goto, BookInv, BookTypes
  <2> QED
    BY <1>1, <2>1, FilesStay DEF Arrive, hostVars, strayVars, Quieter, Runs, StraysTold
<1>2. ASSUME UNCHANGED <<pc, lost, con, up, files>>, StraysTold PROVE FilesInv'
  BY <1>2, FilesStay DEF Quieter, Runs
<1>3. CASE Ends
  BY <1>3, FilesStay DEF Ends, Stopped, Quieter, Runs, StraysTold, reqVars, strayVars
<1>4. CASE Stray
  <2>1. PICK op \in {"stop", "remove", "clear", "write"}, q \in Req : StrayActs(op, q)
    BY <1>4 DEF Stray
  <2>2. /\ UNCHANGED <<pc, lost, strayed>> /\ (UNCHANGED <<con, up>> \/ up' = FALSE)
        /\ strays' \subseteq strays
    BY <2>1 DEF StrayActs, Stopped, Removed, Untouched, reqVars
  <2>3. Quieter /\ StraysTold
    BY <2>2 DEF Quieter, Runs, StraysTold
  <2>4. CASE op \in {"stop", "remove"}
    BY <2>1, <2>2, <2>3, <2>4, FilesStay DEF StrayActs
  <2>5. CASE op \in {"clear", "write"}
    <3>1. <<op, q>> \in strays
      BY <2>1 DEF StrayActs
    <3>2. strayed
      BY <2>5, <3>1 DEF FilesInv, FilesAreThere
    <3>3. strayed'
      BY <2>2, <3>2
    <3> QED
      BY <3>3 DEF FilesInv, FilesAreThere, FilesWhileRunning
  <2> QED
    BY <2>4, <2>5
<1>5. CASE Keep
  <2>1. UNCHANGED <<pc, lost, con, up, files>>
    BY <1>5 DEF Keep, reqVars, hostVars
  <2>2. StraysTold
    <3>1. CASE owned = None
      BY <1>5, <3>1 DEF Keep, strayVars, StraysTold
    <3>2. CASE owned # None
      BY <1>5, <3>2, CancelTold DEF Keep, BookInv, BookTypes
    <3> QED
      BY <3>1, <3>2
  <2> QED
    BY <1>2, <2>1, <2>2
<1>6. CASE Stop \/ KeepEnds \/ AllOver \/ UNCHANGED vars
  BY <1>2, <1>6
     DEF Stop, KeepEnds, AllOver, vars, reqVars, bookVars, hostVars, strayVars, StraysTold
<1> QED
  BY <1>1, <1>3, <1>4, <1>5, <1>6, RequestFiles, LeaveFiles, WatcherFiles DEF Next

(* A running container has its files: no cleanup takes them, neither that  *)
(* of a request replaced under the name nor that of a watcher cancelled,   *)
(* but for a thread left behind by a task that was, or a docker run that   *)
(* was killed.  (docker_run.py:35, 251-256)                                *)
THEOREM FilesLastAsLong == Spec => []FilesWhileRunning
<1>1. Init => PlaceInv /\ RunInv /\ FilesInv
  BY PlaceInit
     DEF Init, RunInv, OwnerRuns, FollowerRuns, QuietSection, FilesInv, FilesAreThere,
         FilesWhileRunning, Runs
<1>2. Spec => [](PlaceInv /\ RunInv /\ FilesInv)
  BY <1>1, PlaceStep, RunStep, FilesStep, BooksInvariant, PTL DEF Spec
<1>3. FilesInv => FilesWhileRunning
  BY DEF FilesInv
<1> QED
  BY <1>2, <1>3, PTL
=============================================================================
