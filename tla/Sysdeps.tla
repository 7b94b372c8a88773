------------------------------ MODULE Sysdeps ------------------------------
(***************************************************************************)
(* The resolver of one package manager (fabric/services/sysdeps.py): the   *)
(* requests that check and queue dependencies, the queue, the one worker   *)
(* that runs the package manager, and the regular refresh of its index.    *)
(*                                                                         *)
(* A request is one call of _Resolver.resolve, run in a task of its own.   *)
(* Between two awaits the code is atomic, so an action is what runs from   *)
(* one await to the next.  (An emit or a log line is put in the request's  *)
(* outbox, which awaits nothing.)  A future is named by the request that   *)
(* created it, and so is an install job: a request queues at most one, for *)
(* the dependencies it found missing.                                      *)
(***************************************************************************)
EXTENDS Naturals, Sequences, FiniteSets

CONSTANTS Req,          \* the requests
          Dep,          \* the dependencies (package names)
          None,         \* no request, no job, no dependency
          Refresh,      \* the name of a _Refresh job in the queue
          RETRIES,      \* attempts of one package manager command
          Patient,      \* the requests that give no timeout
          Cancellable,  \* the requests whose client may go away
          MayStop       \* whether the host runtime may stop

ASSUME RetriesAssumption == RETRIES \in Nat \ {0}
ASSUME NamesAssumption == /\ None \notin Req \cup Dep
                          /\ Refresh \notin Req \cup {None}
ASSUME ClientAssumption == /\ Patient \subseteq Req
                           /\ Cancellable \subseteq Req
                           /\ MayStop \in BOOLEAN

VARIABLES
  pc,          \* where each request is
  want,        \* the dependencies each request asks for
  todo,        \* those its loop has still to look at
  cur,         \* the one whose version it is checking
  seen,        \* what that check read
  missing,     \* those it found missing: its install job
  waiting,     \* per dependency, the future it waits on
  settled,     \* per dependency, the status it reported
  pending,     \* _pending: per dependency, the future the queue owes
  future,      \* per dependency and creator, the future's state
  watchers,    \* _watchers
  known,       \* _known
  queue,       \* _queue: names of jobs
  installed,   \* the packages on the host
  stale,       \* the index is older than UPDATE_EVERY
  wk,          \* where the worker is
  job,         \* the job it runs
  attempt,     \* attempt of the running command (_retry)
  left,        \* dependencies the job's loop has still to handle
  one,         \* the one being installed on its own
  found,       \* those the check after the install found
  rf           \* where the refresher is

reqVars == <<pc, want, todo, cur, seen, missing, waiting, settled>>
workVars == <<wk, job, attempt, left, one, found>>
vars == <<pc, want, todo, cur, seen, missing, waiting, settled, pending,
          future, watchers, known, queue, installed, stale, wk, job, attempt,
          left, one, found, rf>>

Scanning == {"checking", "checked"}   \* before the job is queued
Active == Scanning \cup {"wait"}
Over == {"done", "cancelled"}
FutureState == {"none", "open", "ready", "failed"}
Busy == {"update", "install", "each", "verify", "upgrade"}

LiveJobs == {r \in Req : job = r \/ \E i \in 1..Len(queue) : queue[i] = r}

TypeOK ==
  /\ pc \in [Req -> Active \cup Over \cup {"idle"}]
  /\ want \in [Req -> SUBSET Dep]
  /\ todo \in [Req -> SUBSET Dep]
  /\ cur \in [Req -> Dep \cup {None}]
  /\ seen \in [Req -> BOOLEAN]
  /\ missing \in [Req -> SUBSET Dep]
  /\ waiting \in [Req -> [Dep -> Req \cup {None}]]
  /\ settled \in [Req -> [Dep -> {"none", "ready", "failed", "timeout"}]]
  /\ pending \in [Dep -> Req \cup {None}]
  /\ future \in [Dep -> [Req -> FutureState]]
  /\ watchers \in [Dep -> SUBSET Req]
  /\ known \subseteq Dep
  /\ queue \in Seq(Req \cup {Refresh})
  /\ installed \subseteq Dep
  /\ stale \in BOOLEAN
  /\ wk \in Busy \cup {"idle", "stopped"}
  /\ job \in Req \cup {Refresh, None}
  /\ attempt \in 1..RETRIES
  /\ left \subseteq Dep
  /\ one \in Dep \cup {None}
  /\ found \subseteq Dep
  /\ rf \in {"wait", "queued", "done", "sleep"}

Init ==
  /\ pc = [r \in Req |-> "idle"]
  /\ want = [r \in Req |-> {}]
  /\ todo = [r \in Req |-> {}]
  /\ cur = [r \in Req |-> None]
  /\ seen = [r \in Req |-> FALSE]
  /\ missing = [r \in Req |-> {}]
  /\ waiting = [r \in Req |-> [d \in Dep |-> None]]
  /\ settled = [r \in Req |-> [d \in Dep |-> "none"]]
  /\ pending = [d \in Dep |-> None]
  /\ future = [d \in Dep |-> [r \in Req |-> "none"]]
  /\ watchers = [d \in Dep |-> {}]
  /\ known = {}
  /\ queue = <<>>
  /\ installed \in SUBSET Dep
  /\ stale \in BOOLEAN
  /\ wk = "idle"
  /\ job = None
  /\ attempt = 1
  /\ left = {}
  /\ one = None
  /\ found = {}
  /\ rf = "wait"

-----------------------------------------------------------------------------
(* The request *)

NewlyMissingUnchecked(r) == {cur[r]}   \* mutant: no second look at _pending

(* The dependency found missing is this request's to queue, unless another *)
(* request queued it during the check.                                     *)
NewlyMissing(r) == IF pending[cur[r]] = None THEN {cur[r]} ELSE {}

(* The finally of resolve: no more package output for this request. *)
UnwatchAll(r) ==   \* mutant: pops the dependency's whole list
  [d \in Dep |-> IF r \in watchers[d] THEN {} ELSE watchers[d]]

Unwatch(r) == [d \in Dep |-> watchers[d] \ {r}]

Watch(r, deps) ==
  [d \in Dep |-> IF d \in deps THEN watchers[d] \cup {r} ELSE watchers[d]]

(* The loop of resolve reaches a dependency that is not pending: its       *)
(* version is checked.                                                     *)
CheckNext(r, rest, joined) ==
  /\ \E d \in rest :
       /\ pending[d] = None
       /\ cur' = [cur EXCEPT ![r] = d]
       /\ todo' = [todo EXCEPT ![r] = rest \ {d}]
  /\ pc' = [pc EXCEPT ![r] = "checking"]
  /\ watchers' = Watch(r, joined)
  /\ UNCHANGED queue

(* The loop ends: the job is queued, and the request waits, or answers if  *)
(* there is nothing to wait on.                                            *)
EndLoop(r, joined) ==
  /\ cur' = [cur EXCEPT ![r] = None]
  /\ todo' = [todo EXCEPT ![r] = {}]
  /\ queue' = IF missing'[r] = {} THEN queue ELSE Append(queue, r)
  /\ IF \A d \in Dep : waiting'[r][d] = None
       THEN pc' = [pc EXCEPT ![r] = "done"] /\ watchers' = Unwatch(r)
       ELSE pc' = [pc EXCEPT ![r] = "wait"] /\ watchers' = Watch(r, joined)

(* What resolve does without awaiting, up to its next await.  new are the  *)
(* dependencies it creates futures for, held those it is now to wait on,   *)
(* rest those its loop has still to look at.  Those of rest that come      *)
(* first and are pending, J, are joined.  (A request may ask in any order, *)
(* so any J will do.)                                                      *)
Proceed(r, new, held, rest) ==
  /\ pending' = [d \in Dep |-> IF d \in new THEN r ELSE pending[d]]
  /\ future' = [d \in Dep |-> IF d \in new THEN [future[d] EXCEPT ![r] = "open"]
                                           ELSE future[d]]
  /\ missing' = [missing EXCEPT ![r] = @ \cup new]
  /\ \E J \in SUBSET {d \in rest : pending[d] # None} :
       /\ waiting' = [waiting EXCEPT ![r] =
             [d \in Dep |-> IF d \in held \cup J THEN pending'[d] ELSE @[d]]]
       /\ \/ CheckNext(r, rest \ J, held \cup J)
          \/ J = rest /\ EndLoop(r, held \cup J)

Arrive(r) ==
  /\ pc[r] = "idle"
  /\ wk # "stopped"
  /\ \E deps \in (SUBSET Dep) \ {{}} :
       /\ want' = [want EXCEPT ![r] = deps]
       /\ Proceed(r, {}, {}, deps)
  /\ UNCHANGED <<seen, settled, known, installed, stale, workVars, rf>>

(* The package manager's query reads the host ... *)
ReadVersion(r) ==
  /\ pc[r] = "checking"
  /\ seen' = [seen EXCEPT ![r] = cur[r] \in installed]
  /\ pc' = [pc EXCEPT ![r] = "checked"]
  /\ UNCHANGED <<want, todo, cur, missing, waiting, settled, pending, future,
                 watchers, known, queue, installed, stale, workVars, rf>>

(* ... and the request resumes with the answer: present, the status is     *)
(* reported at once;                                                       *)
CheckedPresent(r) ==
  /\ pc[r] = "checked"
  /\ seen[r]
  /\ settled' = [settled EXCEPT ![r][cur[r]] = "ready"]
  /\ known' = known \cup {cur[r]}
  /\ seen' = [seen EXCEPT ![r] = FALSE]
  /\ Proceed(r, {}, {}, todo[r])
  /\ UNCHANGED <<want, installed, stale, workVars, rf>>

(* missing, the request waits on its future. *)
CheckedMissing(r) ==
  /\ pc[r] = "checked"
  /\ ~ seen[r]
  /\ Proceed(r, NewlyMissing(r), {cur[r]}, todo[r])
  /\ UNCHANGED <<want, seen, settled, known, installed, stale, workVars, rf>>

(* The dependencies whose future the request waits on is settled. *)
Ripe(r) == {d \in Dep : waiting[r][d] # None /\ future[d][waiting[r][d]] # "open"}

(* deps are reported and no longer waited on; with the last the request    *)
(* answers.                                                                *)
Report(r, deps, status) ==
  /\ settled' = [settled EXCEPT ![r] =
                   [d \in Dep |-> IF d \in deps THEN status[d] ELSE @[d]]]
  /\ waiting' = [waiting EXCEPT ![r] =
                   [d \in Dep |-> IF d \in deps THEN None ELSE @[d]]]
  /\ IF \A d \in Dep : waiting'[r][d] = None
       THEN pc' = [pc EXCEPT ![r] = "done"] /\ watchers' = Unwatch(r)
       ELSE UNCHANGED <<pc, watchers>>
  /\ UNCHANGED <<want, todo, cur, seen, missing, pending, future, known, queue,
                 installed, stale, workVars, rf>>

Deliver(r) ==
  /\ pc[r] = "wait"
  /\ Ripe(r) # {}
  /\ Report(r, Ripe(r), [d \in Ripe(r) |-> future[d][waiting[r][d]]])

(* The deadline passed with nothing settled: the rest is reported as timed *)
(* out; its futures stay with the queue.                                   *)
TimeOut(r) ==
  /\ pc[r] = "wait"
  /\ r \notin Patient
  /\ Ripe(r) = {}
  /\ LET late == {d \in Dep : waiting[r][d] # None}
     IN  Report(r, late, [d \in late |-> "timeout"])

(* Handlers are cancelled at the await they are in, and their locals go:   *)
(* only one inside the try of resolve reaches its finally.                 *)
Abandon(gone) ==
  /\ pc' = [r \in Req |-> IF r \in gone THEN "cancelled" ELSE pc[r]]
  /\ watchers' = [d \in Dep |-> watchers[d] \ {r \in gone : pc[r] = "wait"}]
  /\ todo' = [r \in Req |-> IF r \in gone THEN {} ELSE todo[r]]
  /\ cur' = [r \in Req |-> IF r \in gone THEN None ELSE cur[r]]
  /\ seen' = [r \in Req |-> r \notin gone /\ seen[r]]
  /\ waiting' = [r \in Req |-> IF r \in gone THEN [d \in Dep |-> None]
                                          ELSE waiting[r]]

(* The connection closes, and Peer.run cancels the handler. *)
Cancel(r) ==
  /\ r \in Cancellable
  /\ pc[r] \in Active
  /\ Abandon({r})
  /\ UNCHANGED <<want, missing, settled, pending, future, known, queue, installed,
                 stale, workVars, rf>>

-----------------------------------------------------------------------------
(* The worker *)

(* mutant: the entry is dropped, its future left open. *)
FinishSilently(deps, good) ==
  /\ UNCHANGED future
  /\ pending' = [d \in Dep |-> IF d \in deps THEN None ELSE pending[d]]

(* _finish for each of deps: the future is settled and forgotten. *)
Finish(deps, good) ==
  /\ future' = [d \in Dep |-> [r \in Req |->
       IF d \in deps /\ pending[d] = r
         THEN IF d \in good THEN "ready" ELSE "failed"
         ELSE future[d][r]]]
  /\ pending' = [d \in Dep |-> IF d \in deps THEN None ELSE pending[d]]

JobDone(state) ==
  /\ wk' = state
  /\ job' = None
  /\ attempt' = 1
  /\ left' = {}
  /\ one' = None
  /\ found' = {}
  /\ rf' = IF job = Refresh THEN "done" ELSE rf

Goto(state) == wk' = state /\ attempt' = 1

Take ==
  /\ wk = "idle"
  /\ queue # <<>>
  /\ queue' = Tail(queue)
  /\ IF Head(queue) = Refresh /\ known = {}
       THEN wk' = "idle" /\ job' = None /\ rf' = "done"
       ELSE /\ job' = Head(queue)
            /\ wk' = IF Head(queue) = Refresh \/ stale THEN "update" ELSE "install"
            /\ rf' = rf
  /\ UNCHANGED <<reqVars, pending, future, watchers, known, installed, stale,
                 attempt, left, one, found>>

(* _retry: a transient failure is tried again while attempts remain. *)
TryOnceMore(outcome) == outcome = "transient" /\ attempt <= RETRIES   \* mutant

TryAgain(outcome) == outcome = "transient" /\ attempt < RETRIES

Update(outcome) ==
  /\ wk = "update"
  /\ IF TryAgain(outcome)
       THEN attempt' = attempt + 1 /\ UNCHANGED <<stale, wk, job, left, one, found, rf>>
       ELSE /\ stale' = (stale /\ outcome # "ok")
            /\ IF job = Refresh /\ outcome # "ok"
                 THEN JobDone("idle")
                 ELSE /\ Goto(IF job = Refresh THEN "upgrade" ELSE "install")
                      /\ UNCHANGED <<job, left, one, found, rf>>
  /\ UNCHANGED <<reqVars, pending, future, watchers, known, queue, installed>>

Upgrade(outcome) ==
  /\ wk = "upgrade"
  /\ IF TryAgain(outcome)
       THEN attempt' = attempt + 1 /\ UNCHANGED <<wk, job, left, one, found, rf>>
       ELSE JobDone("idle")
  /\ UNCHANGED <<reqVars, pending, future, watchers, known, queue, installed, stale>>

(* One attempt at the whole batch.  Whatever the manager returns, some of  *)
(* the packages may be on the host afterwards.                             *)
Install(outcome) ==
  /\ wk = "install"
  /\ \E some \in SUBSET missing[job] : installed' = installed \cup some
  /\ IF TryAgain(outcome)
       THEN attempt' = attempt + 1 /\ UNCHANGED <<wk, left, one>>
       ELSE /\ left' = missing[job]
            /\ IF outcome # "ok" /\ Cardinality(missing[job]) > 1
                 THEN Goto("each") /\ one' \in missing[job]
                 ELSE Goto("verify") /\ UNCHANGED one
  /\ UNCHANGED <<reqVars, pending, future, watchers, known, queue, stale, job,
                 found, rf>>

(* One attempt at one package, after the batch was refused. *)
InstallEach(outcome) ==
  /\ wk = "each"
  /\ installed' \in {installed, installed \cup {one}}
  /\ IF TryAgain(outcome)
       THEN attempt' = attempt + 1 /\ UNCHANGED <<wk, left, one>>
       ELSE IF left = {one}
              THEN Goto("verify") /\ left' = missing[job] /\ one' = None
              ELSE Goto("each") /\ left' = left \ {one} /\ one' \in left'
  /\ UNCHANGED <<reqVars, pending, future, watchers, known, queue, stale, job,
                 found, rf>>

PresentUnchecked(d) == {d}   \* mutant: trusts the manager's exit status

Present(d) == {d} \cap installed

(* The check after the install; after the last one every status goes out. *)
Verify ==
  /\ wk = "verify"
  /\ \E d \in left :
       LET here == Present(d)
       IN  /\ known' = known \cup here
           /\ IF left = {d}
                THEN Finish(missing[job], found \cup here) /\ JobDone("idle")
                ELSE /\ found' = found \cup here
                     /\ left' = left \ {d}
                     /\ UNCHANGED <<pending, future, wk, job, attempt, one, rf>>
  /\ UNCHANGED <<reqVars, watchers, queue, installed, stale>>

JobRaisesLoudly ==   \* mutant: logs the exception and fails nothing
  /\ wk \in Busy
  /\ JobDone("idle")
  /\ UNCHANGED <<reqVars, pending, future, watchers, known, queue, installed, stale>>

(* A job that raises fails its dependencies, never the worker. *)
JobRaises ==
  /\ wk \in Busy
  /\ IF job \in Req THEN Finish(missing[job], {}) ELSE UNCHANGED <<pending, future>>
  /\ JobDone("idle")
  /\ UNCHANGED <<reqVars, watchers, known, queue, installed, stale>>

(* The host runtime stops: the requests' handlers and the worker are       *)
(* cancelled, the running install fails its dependencies.                  *)
Stop ==
  /\ MayStop
  /\ wk # "stopped"
  /\ IF job \in Req THEN Finish(missing[job], {}) ELSE UNCHANGED <<pending, future>>
  /\ JobDone("stopped")
  /\ Abandon({r \in Req : pc[r] \in Active})
  /\ UNCHANGED <<want, missing, settled, known, queue, installed, stale>>

-----------------------------------------------------------------------------
(* The refresher, and time *)

QueueRefresh ==
  /\ wk # "stopped"
  /\ rf = "wait"
  /\ known # {}
  /\ stale
  /\ queue' = Append(queue, Refresh)
  /\ rf' = "queued"
  /\ UNCHANGED <<reqVars, pending, future, watchers, known, installed, stale,
                 workVars>>

RefreshWake ==
  /\ wk # "stopped"
  /\ \/ rf = "done" /\ rf' = IF stale THEN "sleep" ELSE "wait"
     \/ rf = "sleep" /\ rf' = "wait"
  /\ UNCHANGED <<reqVars, pending, future, watchers, known, queue, installed,
                 stale, workVars>>

DayPasses ==
  /\ ~ stale
  /\ stale' = TRUE
  /\ UNCHANGED <<reqVars, pending, future, watchers, known, queue, installed,
                 workVars, rf>>

(* Nothing left to do: until another day, or for good. *)
Quiet ==
  /\ \/ wk = "stopped"
     \/ wk = "idle" /\ queue = <<>> /\ \A r \in Req : pc[r] \in Over
  /\ UNCHANGED vars

Outcome == {"ok", "transient", "permanent"}

Request(r) == \/ Arrive(r) \/ ReadVersion(r) \/ CheckedPresent(r)
              \/ CheckedMissing(r) \/ Deliver(r) \/ TimeOut(r) \/ Cancel(r)

Worker == \/ Take \/ Verify \/ JobRaises
          \/ \E o \in Outcome : Update(o) \/ Upgrade(o) \/ Install(o) \/ InstallEach(o)

Next == \/ \E r \in Req : Request(r)
        \/ Worker \/ Stop \/ QueueRefresh \/ RefreshWake \/ DayPasses \/ Quiet

Spec == Init /\ [][Next]_vars

(* The event loop runs every task that can run: the worker, whose commands *)
(* end, and the steps of a request that wait on no one.                    *)
Progress(r) == ReadVersion(r) \/ CheckedPresent(r) \/ CheckedMissing(r) \/ Deliver(r)

FairSpec == Spec /\ WF_vars(Worker) /\ \A r \in Req : WF_vars(Progress(r))

-----------------------------------------------------------------------------
(* Properties *)

(* Every dependency of a job that is queued or running is owed by the      *)
(* future that job's request created.  So no dependency is in two jobs,    *)
(* and a second request for it joins the first.  (sysdeps.py:151, 182)     *)
QueuedIsPending ==
  \A r \in LiveJobs : \A d \in missing[r] : pending[d] = r

(* A request never waits on a future that has left _pending unsettled: no  *)
(* one would ever settle it.                                               *)
WaitsOnPending ==
  \A r \in Req, d \in Dep :
    /\ waiting[r][d] # None
    /\ future[d][waiting[r][d]] = "open"
    => pending[d] = waiting[r][d]

(* A request gets the package manager's output for a dependency as long as *)
(* it waits on it, whatever the other requests for it do, and none once it *)
(* has answered.  (sysdeps.py:153, 194)                                    *)
WatchersAreWaiters ==
  \A r \in Req, d \in Dep :
    /\ pc[r] \in Active /\ waiting[r][d] # None => r \in watchers[d]
    /\ pc[r] = "done" => r \notin watchers[d]

(* Whatever is pending will be settled: a job queued or running owes it,   *)
(* or a request that is about to queue one.  Left over are the futures of  *)
(* a request cancelled between the two, which nobody owes: "Every          *)
(* dependency queued or being installed" (sysdeps.py:151) is not said of   *)
(* those, and whoever joins them waits in vain.                            *)
PendingIsOwed ==
  \A d \in Dep, r \in Req : pending[d] = r =>
    r \in LiveJobs \/ pc[r] \in Scanning \cup {"cancelled"}

(* When no client goes away, every request is answered, without a timeout  *)
(* of its own too: a failing, retried or raising job settles what waits on *)
(* it.                                                                     *)
EveryRequestAnswered ==
  \A r \in Req : pc[r] \in Active ~> pc[r] = "done"

(* The resolver keeps the promise of DepPromise: every dependency gets one *)
(* status, never changed; ready only for what is on the host; an answer    *)
(* only with every status.                                                 *)
Promise == INSTANCE DepPromise WITH
  asked <- want, status <- settled, present <- installed,
  closed <- [r \in Req |-> IF pc[r] = "done" THEN "answered"
                           ELSE IF pc[r] = "cancelled" THEN "dropped" ELSE "no"]

KeepsPromise == Promise!Spec
=============================================================================
