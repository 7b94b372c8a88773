----------------------------- MODULE DockerRun -----------------------------
(***************************************************************************)
(* Running containers (fabric/services/docker_run.py) under one name: the  *)
(* books, the lock and the files are kept per name, so names do not meet.  *)
(*                                                                         *)
(* A request replaces what runs under the name, writes its files, starts   *)
(* its container, and then owns it (follow) or hands it to a task of the   *)
(* runtime, its watcher.  A watcher is told from others by the request     *)
(* that started it.                                                        *)
(*                                                                         *)
(* A docker command takes effect at one moment while it is awaited.  One   *)
(* whose process is killed has taken effect, or never does.  What is       *)
(* shielded, or works in a thread, goes on when its task is cancelled: it  *)
(* is then a stray.                                                        *)
(***************************************************************************)
EXTENDS Sequences, SequencesExt, FiniteSetsExt

CONSTANTS Req,       \* the requests for this name
          Leaving,   \* those whose client may go away
          None, Other  \* Other: who ran a container here before

ASSUME ReqAssumption == Leaving \subseteq Req /\ None # Other /\ {None, Other} \cap Req = {}

VARIABLES
  pc,         \* where each request is
  follow,     \* whether it keeps its container itself
  answer,     \* how it ended
  gone,       \* those cancelled
  lock,       \* the request in the name's lock
  queue,      \* those waiting for it, in order
  whom,       \* whose container a request replaces
  owned,      \* _owned: the watcher in the books
  following,  \* _following: the request in the books
  done,       \* the requests that have set their event
  wpc,        \* where each watcher is
  con,        \* the container of that name
  up,         \* ... and whether it runs
  files,      \* whose files the name's directory holds
  strays,     \* operations that go on without their task
  lost,       \* history: those cancelled once their container had started
  strayed,    \* history: a thread went on without its task
  runtime     \* whether the runtime runs

reqVars == <<pc, follow, answer, gone, whom, lost>>
lockVars == <<lock, queue>>
bookVars == <<owned, following, done, wpc>>
hostVars == <<con, up, files>>
strayVars == <<strays, strayed>>
vars == <<reqVars, lockVars, bookVars, hostVars, strayVars, runtime>>

InSection == {"checking", "gathering", "evicting", "awaiting", "purging", "writing", "running"}

TypeOK ==
  /\ pc \in [Req -> InSection \cup {"idle", "preparing", "waiting", "following",
                                    "removing", "stopping", "dropping", "cleaning", "over"}]
  /\ follow \in [Req -> BOOLEAN]
  /\ answer \in [Req -> {"none", "started", "stopped", "failed"}]
  /\ gone \subseteq Req /\ done \subseteq Req /\ lost \subseteq Req
  /\ lock \in Req \cup {None}
  /\ queue \in Seq(Req)
  /\ whom \in [Req -> Req \cup {None}]
  /\ owned \in Req \cup {None} /\ following \in Req \cup {None}
  /\ wpc \in [Req -> {"none", "watching", "stopping", "removing", "clearing", "done"}]
  /\ con \in Req \cup {None, Other} /\ up \in BOOLEAN /\ (con = None => ~ up)
  /\ files \in Req \cup {None, Other}
  /\ strays \subseteq {"stop", "remove", "clear", "write"} \X Req
  /\ strayed \in BOOLEAN
  /\ runtime \in {"up", "stopping", "keeping", "over"}

Init ==
  /\ pc = [r \in Req |-> "idle"]
  /\ follow \in [Req -> BOOLEAN]
  /\ answer = [r \in Req |-> "none"]
  /\ gone = {} /\ done = {} /\ lost = {}
  /\ lock = None /\ queue = <<>>
  /\ whom = [r \in Req |-> None]
  /\ owned = None /\ following = None
  /\ wpc = [r \in Req |-> "none"]
  /\ con \in {None, Other} /\ up \in {FALSE, con = Other}
  /\ files \in {None, Other}
  /\ strays = {} /\ strayed = FALSE
  /\ runtime = "up"
-----------------------------------------------------------------------------
(* The container and its files *)

Runs(r) == con = r /\ up

Untouched == UNCHANGED <<con, up>>

Stopped == up' = FALSE /\ UNCHANGED con

Removed == con' = None /\ up' = FALSE

Goto(r, l) == pc' = [pc EXCEPT ![r] = l]
Step(r, from, to) == pc[r] = from /\ Goto(r, to)

(* A request releases the lock if it still holds it. *)
Unlock(r) == lock' = IF lock = r THEN None ELSE lock

Strays(op, r) ==
  /\ strays' = strays \cup {<<op, r>>}
  /\ strayed' = (strayed \/ op \in {"clear", "write"})

(* A container may end by itself, at any time. *)
Ends ==
  /\ up
  /\ Stopped
  /\ UNCHANGED <<reqVars, lockVars, bookVars, files, strayVars, runtime>>

(* A stray does its work, on whatever has the name by then. *)
StrayActs(op, r) ==
  /\ <<op, r>> \in strays
  /\ strays' = strays \ {<<op, r>>}
  /\ CASE op = "stop" -> Stopped /\ UNCHANGED files
       [] op = "remove" -> Removed /\ UNCHANGED files
       [] op = "clear" -> files' = None /\ Untouched
       [] op = "write" -> files' = r /\ Untouched
  /\ UNCHANGED <<reqVars, lockVars, bookVars, strayed, runtime>>
-----------------------------------------------------------------------------
(* The watcher *)

WatcherAt(t, l) ==
  /\ wpc' = [wpc EXCEPT ![t] = l]
  /\ owned' = IF l = "done" /\ owned = t THEN None ELSE owned

(* Cancelling a watcher: at the wait it turns to stopping the container.   *)
(* In its cleanup the shield keeps the operation it is at, not the ones    *)
(* after it.                                                               *)
CancelWatcher(t) ==
  CASE wpc[t] = "watching" -> WatcherAt(t, "stopping") /\ UNCHANGED strayVars
    [] wpc[t] = "stopping" -> WatcherAt(t, "done") /\ Strays("stop", t)
    [] wpc[t] = "removing" -> WatcherAt(t, "done") /\ Strays("remove", t)
    [] wpc[t] = "clearing" -> WatcherAt(t, "done") /\ Strays("clear", t)
    [] OTHER -> UNCHANGED <<wpc, owned, strayVars>>

(* docker wait returns: the container ended. *)
WatchEnds(t) ==
  /\ wpc[t] = "watching" /\ ~ Runs(t)
  /\ WatcherAt(t, "removing")
  /\ UNCHANGED <<reqVars, lockVars, following, done, hostVars, strayVars, runtime>>

WatcherStops(t) ==
  /\ wpc[t] = "stopping"
  /\ Stopped
  /\ WatcherAt(t, "removing")
  /\ UNCHANGED <<reqVars, lockVars, following, done, files, strayVars, runtime>>

WatcherRemoves(t) ==
  /\ wpc[t] = "removing"
  /\ Removed
  /\ WatcherAt(t, "clearing")
  /\ UNCHANGED <<reqVars, lockVars, following, done, files, strayVars, runtime>>

WatcherClears(t) ==
  /\ wpc[t] = "clearing"
  /\ files' = None
  /\ WatcherAt(t, "done")
  /\ UNCHANGED <<reqVars, lockVars, following, done, con, up, strayVars, runtime>>

Watcher(t) == WatchEnds(t) \/ WatcherStops(t) \/ WatcherRemoves(t) \/ WatcherClears(t)
-----------------------------------------------------------------------------
(* The request *)

(* r moves on; what it has, the books and the lock stay as they are. *)
Moves(r, from, to) ==
  /\ Step(r, from, to)
  /\ UNCHANGED <<follow, answer, gone, whom, lost, lockVars, bookVars, strayVars, runtime>>

Arrive(r) ==
  /\ runtime = "up"
  /\ Step(r, "idle", "preparing")
  /\ UNCHANGED <<follow, answer, gone, whom, lost, lockVars, bookVars, hostVars, strayVars, runtime>>

Prepared(r) ==
  /\ Step(r, "preparing", "waiting")
  /\ queue' = Append(queue, r)
  /\ UNCHANGED <<follow, answer, gone, whom, lost, lock, bookVars, hostVars, strayVars, runtime>>

(* The image cannot be had, or the request is not a valid one. *)
NotPrepared(r) ==
  /\ Step(r, "preparing", "over")
  /\ answer' = [answer EXCEPT ![r] = "failed"]
  /\ UNCHANGED <<follow, gone, whom, lost, lockVars, bookVars, hostVars, strayVars, runtime>>

(* The request gets the lock, and looks in the books whom to replace: the  *)
(* runtime's watcher is cancelled, the container of another request is to  *)
(* be removed.                                                             *)
Enter(r) ==
  /\ pc[r] = "waiting"
  /\ lock = None /\ Head(queue) = r
  /\ lock' = r /\ queue' = Tail(queue)
  /\ whom' = [whom EXCEPT ![r] = IF owned # None THEN owned ELSE following]
  /\ IF owned # None
       THEN Goto(r, "gathering") /\ CancelWatcher(owned)
       ELSE /\ Goto(r, IF following # None THEN "evicting" ELSE "checking")
            /\ UNCHANGED <<wpc, owned, strayVars>>
  /\ UNCHANGED <<follow, answer, gone, lost, following, done, hostVars, runtime>>

OwnerNotAwaited(r) ==   \* mutant: cancels the watcher without gathering it
  Moves(r, "gathering", "writing") /\ UNCHANGED hostVars

(* gather: the watcher has ended. *)
OwnerEnded(r) ==
  Moves(r, "gathering", "writing") /\ wpc[whom[r]] = "done" /\ UNCHANGED hostVars

EvictOnly(r) ==   \* mutant: does not wait for the request to clean up
  Moves(r, "evicting", "writing") /\ Removed /\ UNCHANGED files

Evict(r) ==
  Moves(r, "evicting", "awaiting") /\ Removed /\ UNCHANGED files

(* following.wait(): the request evicted has cleaned up. *)
FollowerCleaned(r) ==
  Moves(r, "awaiting", "writing") /\ whom[r] \in done /\ UNCHANGED hostVars

(* docker container inspect: does anything else have the name? *)
Check(r) ==
  /\ Moves(r, "checking", IF con = None THEN "writing" ELSE "purging")
  /\ UNCHANGED hostVars

Purge(r) ==
  Moves(r, "purging", "writing") /\ Removed /\ UNCHANGED files

Write(r) ==
  Moves(r, "writing", "running") /\ files' = r /\ Untouched

(* OSError: nothing, or part of them, is left on disk. *)
WriteFails(r) ==
  /\ Step(r, "writing", "over")
  /\ answer' = [answer EXCEPT ![r] = "failed"]
  /\ files' \in {None, r}
  /\ Unlock(r)
  /\ UNCHANGED <<follow, gone, whom, lost, queue, bookVars, con, up, strayVars, runtime>>

(* docker run: the container belongs to the runtime, or to the request,    *)
(* which gives the lock up and follows it.                                 *)
Started(r) ==
  /\ con = None
  /\ con' = r /\ up' = TRUE
  /\ lock' = None
  /\ IF follow[r]
       THEN /\ Step(r, "running", "following")
            /\ following' = r
            /\ UNCHANGED <<answer, wpc, owned>>
       ELSE /\ Step(r, "running", "over")
            /\ answer' = [answer EXCEPT ![r] = "started"]
            /\ wpc' = [wpc EXCEPT ![r] = "watching"]
            /\ owned' = r
            /\ UNCHANGED following
  /\ UNCHANGED <<follow, gone, whom, lost, queue, done, files, strayVars, runtime>>

(* docker run fails, with or without a container of that name left over. *)
RunFails(r) ==
  /\ Step(r, "running", "cleaning")
  /\ answer' = [answer EXCEPT ![r] = "failed"]
  /\ Untouched \/ (con = None /\ con' = r /\ up' = FALSE)
  /\ UNCHANGED <<follow, gone, whom, lost, lockVars, bookVars, files, strayVars, runtime>>

(* docker wait returns: the container ended, or was evicted. *)
FollowEnds(r) ==
  Moves(r, "following", "removing") /\ ~ Runs(r) /\ UNCHANGED hostVars

RemoveStopped(r) ==
  /\ Step(r, "removing", "cleaning")
  /\ Removed
  /\ answer' = [answer EXCEPT ![r] = "stopped"]
  /\ UNCHANGED <<follow, gone, whom, lost, lockVars, bookVars, files, strayVars, runtime>>

(* _stop, shielded: the client of a following request is gone. *)
StopFollowed(r) ==
  Moves(r, "stopping", "dropping") /\ Stopped /\ UNCHANGED files

Drop(r) ==
  Moves(r, "dropping", "cleaning") /\ Removed /\ UNCHANGED files

CleanSilently(r) ==   \* mutant: does not set the event
  /\ Step(r, "cleaning", "over")
  /\ files' = None
  /\ following' = IF following = r THEN None ELSE following
  /\ Unlock(r)
  /\ UNCHANGED <<follow, answer, gone, whom, lost, queue, done, wpc, owned, con, up, strayVars, runtime>>

(* The end of a request that did not hand its container over: its files    *)
(* go, then it leaves the books and sets its event.                        *)
Clean(r) ==
  /\ Step(r, "cleaning", "over")
  /\ files' = None
  /\ following' = IF following = r THEN None ELSE following
  /\ done' = done \cup {r}
  /\ Unlock(r)
  /\ UNCHANGED <<follow, answer, gone, whom, lost, queue, wpc, owned, con, up, strayVars, runtime>>

Request(r) ==
  \/ Prepared(r) \/ NotPrepared(r) \/ Enter(r) \/ OwnerEnded(r) \/ Evict(r)
  \/ FollowerCleaned(r) \/ Check(r) \/ Purge(r) \/ Write(r) \/ WriteFails(r)
  \/ Started(r) \/ RunFails(r) \/ FollowEnds(r) \/ RemoveStopped(r)
  \/ StopFollowed(r) \/ Drop(r) \/ Clean(r)
-----------------------------------------------------------------------------
(* A request is cancelled, once, at the await it is in. *)

Leaves(r, to) ==
  /\ r \notin gone
  /\ r \in Leaving \/ runtime = "stopping"
  /\ gone' = gone \cup {r}
  /\ Goto(r, to)
  /\ UNCHANGED <<follow, answer, whom, runtime>>

(* Before it has the lock, or while it waits for another to be gone. *)
LeaveWaiting(r) ==
  /\ pc[r] \in {"preparing", "waiting", "checking", "awaiting"}
  /\ Leaves(r, "over")
  /\ Unlock(r)
  /\ queue' = SelectSeq(queue, LAMBDA q : q # r)
  /\ UNCHANGED <<lost, bookVars, hostVars, strayVars>>

(* gather cancels the watcher once more. *)
LeaveGathering(r) ==
  /\ pc[r] = "gathering"
  /\ Leaves(r, "over")
  /\ Unlock(r)
  /\ CancelWatcher(whom[r])
  /\ UNCHANGED <<lost, queue, following, done, hostVars>>

(* docker rm is killed. *)
LeaveRemoving(r) ==
  /\ pc[r] \in {"evicting", "purging", "removing"}
  /\ IF pc[r] = "removing" THEN Leaves(r, "cleaning") /\ UNCHANGED lock
                           ELSE Leaves(r, "over") /\ Unlock(r)
  /\ Untouched \/ Removed
  /\ UNCHANGED <<lost, queue, bookVars, files, strayVars>>

(* The thread goes on writing, outside the lock. *)
LeaveWriting(r) ==
  /\ pc[r] = "writing"
  /\ Leaves(r, "over")
  /\ Unlock(r)
  /\ Strays("write", r)
  /\ UNCHANGED <<lost, queue, bookVars, hostVars>>

(* docker run is killed: its container may have started. *)
LeaveRunning(r) ==
  /\ pc[r] = "running"
  /\ Leaves(r, "cleaning")
  /\ \/ Untouched /\ UNCHANGED lost
     \/ con = None /\ con' = r /\ up' = TRUE /\ lost' = lost \cup {r}
  /\ UNCHANGED <<lockVars, bookVars, files, strayVars>>

LeaveFollowingQuickly(r) ==   \* mutant: does not stop the container
  /\ pc[r] = "following"
  /\ Leaves(r, "cleaning")
  /\ UNCHANGED <<lost, lockVars, bookVars, hostVars, strayVars>>

LeaveFollowing(r) ==
  /\ pc[r] = "following"
  /\ Leaves(r, "stopping")
  /\ UNCHANGED <<lost, lockVars, bookVars, hostVars, strayVars>>

(* At the rmtree of its own cleanup: the thread goes on, the rest of the   *)
(* cleanup, books and event, is left out.                                  *)
LeaveCleaning(r) ==
  /\ pc[r] = "cleaning"
  /\ Leaves(r, "over")
  /\ Unlock(r)
  /\ Strays("clear", r)
  /\ UNCHANGED <<lost, queue, bookVars, hostVars>>

Leave(r) == \/ LeaveWaiting(r) \/ LeaveGathering(r) \/ LeaveRemoving(r) \/ LeaveWriting(r)
            \/ LeaveRunning(r) \/ LeaveFollowing(r) \/ LeaveCleaning(r)
-----------------------------------------------------------------------------
(* The runtime stops: every connection is closed, then the watcher in the  *)
(* books is cancelled, and waited for.                                     *)
Stop ==
  /\ runtime = "up"
  /\ runtime' = "stopping"
  /\ UNCHANGED <<reqVars, lockVars, bookVars, hostVars, strayVars>>

KeepWaits ==   \* mutant: cancels no watcher
  /\ runtime = "stopping"
  /\ \A r \in Req : pc[r] \in {"idle", "over"} \/ r \in gone
  /\ runtime' = "keeping"
  /\ UNCHANGED <<reqVars, lockVars, bookVars, hostVars, strayVars>>

Keep ==
  /\ runtime = "stopping"
  /\ \A r \in Req : pc[r] \in {"idle", "over"} \/ r \in gone
  /\ runtime' = "keeping"
  /\ IF owned = None THEN UNCHANGED <<wpc, owned, strayVars>> ELSE CancelWatcher(owned)
  /\ UNCHANGED <<reqVars, lockVars, following, done, hostVars>>

KeepEnds ==
  /\ runtime = "keeping"
  /\ \A t \in Req : wpc[t] \in {"none", "done"}
  /\ runtime' = "over"
  /\ UNCHANGED <<reqVars, lockVars, bookVars, hostVars, strayVars>>

AllOver ==
  /\ runtime = "over" /\ strays = {}
  /\ \A r \in Req : pc[r] \in {"idle", "over"}
  /\ UNCHANGED vars

Stray == \E op \in {"stop", "remove", "clear", "write"}, r \in Req : StrayActs(op, r)

Next == \/ \E r \in Req : Arrive(r) \/ Request(r) \/ Leave(r) \/ Watcher(r)
        \/ Ends \/ Stray \/ Stop \/ Keep \/ KeepEnds \/ AllOver

Spec == Init /\ [][Next]_vars

(* Commands and threads end, the lock is given to the one in front, and    *)
(* closing the connections cancels every request; containers need not end, *)
(* clients need not leave.                                                 *)
FairSpec ==
  /\ Spec
  /\ \A r \in Req : /\ WF_vars(Request(r)) /\ WF_vars(Watcher(r))
                     /\ WF_vars(runtime = "stopping" /\ Leave(r))
  /\ WF_vars(Keep) /\ WF_vars(KeepEnds)
-----------------------------------------------------------------------------
(* Properties *)

(* What happens between the lock and the books happens to one request at a *)
(* time, though a follower gives the lock up early and the end of a        *)
(* request may release it: no one releases the lock of another.            *)
(* (docker_run.py:209-213, 248-249, 257-259)                               *)
SectionIsExclusive == \A r \in Req : pc[r] \in InSection => lock = r

(* A request clears, writes and starts under the name only when no one in  *)
(* the books has a container there any more: the one before has ended, and *)
(* registering overwrites nobody.  (docker_run.py:261-285)                 *)
NameIsFree ==
  \A r \in Req : pc[r] \in {"checking", "purging", "writing", "running"}
    => owned = None /\ following = None

Watched(r) == pc[r] \in {"following", "stopping"} \/ wpc[r] \in {"watching", "stopping"}

(* "Either way nothing is left running unwatched": a container runs only   *)
(* while its request or its watcher waits for its end or stops it, except  *)
(* when docker run was killed under way, or while a stop goes on whose     *)
(* watcher was cancelled twice.  (docker_run.py:24)                        *)
NothingUnwatched ==
  \A r \in Req : Runs(r) => Watched(r) \/ r \in lost \/ \E t \in Req : <<"stop", t>> \in strays

(* "They exist exactly as long as the container": a running container has  *)
(* its files, no other's cleanup takes them -- unless a thread was left    *)
(* behind by a cancelled task, or docker run was killed.                   *)
(* (docker_run.py:35, 251-256)                                             *)
FilesWhileRunning == \A r \in Req : Runs(r) => files = r \/ strayed \/ r \in lost

Abandoned == following # None /\ pc[following] = "over"

(* Who waits for the name gets it, or its client leaves, unless a request  *)
(* left the books without saying so.  (docker_run.py:208-215)              *)
NameComesFree == \A r \in Req : pc[r] \in {"waiting"} \cup InSection
                   ~> pc[r] \notin {"waiting"} \cup InSection \/ Abandoned

(* A runtime that is told to stop does: no request and no watcher keeps it *)
(* waiting.  (docker_run.py:185-191)                                       *)
StopEnds == runtime = "stopping" ~> runtime = "over"
=============================================================================
