--------------------------- MODULE SysdepsProofs ---------------------------
(***************************************************************************)
(* The safety of the resolver for any number of requests, dependencies and *)
(* retries, proved from one inductive invariant, and that it implements    *)
(* DepPromise.                                                             *)
(***************************************************************************)
EXTENDS Sysdeps, TLAPS

(* What the worker is at says which kind of job it holds. *)
WorkerHolds ==
  /\ wk \in {"install", "each", "verify"} => job \in Req
  /\ wk = "update" => job \in Req \cup {Refresh}
  /\ wk = "upgrade" => job = Refresh
  /\ wk \in {"idle", "stopped"} => job = None
  /\ wk = "each" => one \in Dep

(* _pending names exactly the open futures, *)
PendingIsOpen ==
  \A d \in Dep, r \in Req : pending[d] = r <=> future[d][r] = "open"

(* a future was created exactly for what its request found missing, *)
FutureIsMissing ==
  \A d \in Dep, r \in Req : future[d][r] # "none" <=> d \in missing[r]

(* and only created futures are waited on. *)
WaitsOnFuture ==
  \A r \in Req, d \in Dep :
    waiting[r][d] # None => future[d][waiting[r][d]] # "none"

(* A request that has not finished its loop owes all it found missing. *)
ScanOwes ==
  \A r \in Req : /\ pc[r] = "idle" => missing[r] = {}
                 /\ pc[r] \in Scanning => \A d \in missing[r] : pending[d] = r

(* No job is queued twice or while it runs, nor before its request is done *)
(* with its loop.                                                          *)
JobsDistinct ==
  /\ \A i, j \in 1..Len(queue) : queue[i] \in Req /\ queue[i] = queue[j] => i = j
  /\ \A i \in 1..Len(queue) : queue[i] \in Req => queue[i] # job
  /\ \A r \in LiveJobs : pc[r] \notin Scanning \cup {"idle"}

(* The loop's dependency at hand is one, and only then. *)
CurOk == \A r \in Req : pc[r] \in Scanning => cur[r] \in Dep

(* A request that is not active waits on nothing. *)
OverWaitsOnNothing ==
  \A r \in Req, d \in Dep : pc[r] \notin Active => waiting[r][d] = None

IInv ==
  /\ TypeOK /\ WorkerHolds /\ PendingIsOpen /\ FutureIsMissing /\ WaitsOnFuture
  /\ ScanOwes /\ JobsDistinct /\ CurOk /\ OverWaitsOnNothing
  /\ QueuedIsPending /\ WatchersAreWaiters
-----------------------------------------------------------------------------

USE NamesAssumption, RetriesAssumption, ClientAssumption

LEMMA InitInv == Init => IInv
<1> SUFFICES ASSUME Init PROVE IInv
  OBVIOUS
<1>1. TypeOK
  BY DEF Init, TypeOK, FutureState, Active, Scanning, Over, Busy
<1>2. LiveJobs = {}
  BY DEF Init, LiveJobs
<1>3. JobsDistinct /\ QueuedIsPending
  BY <1>2 DEF Init, JobsDistinct, QueuedIsPending
<1>4. PendingIsOpen /\ FutureIsMissing /\ WaitsOnFuture /\ WorkerHolds
  BY DEF Init, PendingIsOpen, FutureIsMissing, WaitsOnFuture, WorkerHolds
<1>5. ScanOwes /\ CurOk /\ OverWaitsOnNothing /\ WatchersAreWaiters
  BY DEF Init, ScanOwes, CurOk, OverWaitsOnNothing, WatchersAreWaiters, Scanning,
         Active
<1> QED
  BY <1>1, <1>3, <1>4, <1>5 DEF IInv

(* Queueing a job makes that request's job live, and no other. *)
LEMMA AppendLive ==
  ASSUME queue \in Seq(Req \cup {Refresh}), NEW j \in Req \cup {Refresh},
         queue' = Append(queue, j), job' = job
  PROVE  LiveJobs' = LiveJobs \cup ({j} \cap Req)
<1>1. /\ Len(queue') = Len(queue) + 1
      /\ Len(queue) \in Nat
      /\ queue'[Len(queue) + 1] = j
      /\ \A i \in 1..Len(queue) : queue'[i] = queue[i]
  OBVIOUS
<1>2. ASSUME NEW r \in Req, r \in LiveJobs' PROVE r \in LiveJobs \/ r = j
  BY <1>1, <1>2 DEF LiveJobs
<1>3. ASSUME NEW r \in Req, r \in LiveJobs \/ r = j PROVE r \in LiveJobs'
  <2>1. CASE r = j
    <3>1. Len(queue) + 1 \in 1..Len(queue')
      BY <1>1
    <3> QED
      BY <1>1, <2>1, <3>1 DEF LiveJobs
  <2>2. CASE job = r
    BY <2>2 DEF LiveJobs
  <2>3. CASE \E i \in 1..Len(queue) : queue[i] = r
    BY <1>1, <2>3 DEF LiveJobs
  <2> QED
    BY <1>3, <2>1, <2>2, <2>3 DEF LiveJobs
<1> QED
  BY <1>2, <1>3 DEF LiveJobs

(* Whatever a request does up to its next await keeps the invariant. *)
LEMMA ProceedKeepsInv ==
  ASSUME IInv, NEW r \in Req, pc[r] \in Scanning \cup {"idle"},
         NEW new \in SUBSET Dep, NEW held \in SUBSET Dep, NEW rest \in SUBSET Dep,
         \A d \in new : pending[d] = None,
         \A d \in held : d \in new \/ pending[d] # None,
         Proceed(r, new, held, rest),
         want' \in [Req -> SUBSET Dep],
         seen' \in [Req -> BOOLEAN],
         settled' \in [Req -> [Dep -> {"none", "ready", "failed", "timeout"}]],
         known' \subseteq Dep,
         UNCHANGED <<installed, stale, workVars, rf>>
  PROVE  IInv'
<1>0. /\ TypeOK
      /\ pc \in [Req -> Active \cup Over \cup {"idle"}]
      /\ todo \in [Req -> SUBSET Dep] /\ cur \in [Req -> Dep \cup {None}]
      /\ missing \in [Req -> SUBSET Dep]
      /\ waiting \in [Req -> [Dep -> Req \cup {None}]]
      /\ pending \in [Dep -> Req \cup {None}]
      /\ future \in [Dep -> [Req -> FutureState]]
      /\ watchers \in [Dep -> SUBSET Req]
      /\ queue \in Seq(Req \cup {Refresh})
  BY DEF IInv, TypeOK
<1>1. /\ wk' = wk /\ job' = job /\ attempt' = attempt /\ left' = left /\ one' = one
      /\ found' = found /\ rf' = rf /\ installed' = installed /\ stale' = stale
  BY DEF workVars
<1>2. /\ pending' \in [Dep -> Req \cup {None}]
      /\ future' \in [Dep -> [Req -> FutureState]]
      /\ missing' \in [Req -> SUBSET Dep]
      /\ missing'[r] = missing[r] \cup new
      /\ \A q \in Req : q # r => missing'[q] = missing[q]
  BY DEF Proceed, IInv, TypeOK, FutureState
<1>3. PICK J \in SUBSET {d \in rest : pending[d] # None} :
        /\ waiting' = [waiting EXCEPT ![r] =
             [d \in Dep |-> IF d \in held \cup J THEN pending'[d] ELSE @[d]]]
        /\ \/ CheckNext(r, rest \ J, held \cup J)
           \/ J = rest /\ EndLoop(r, held \cup J)
  BY DEF Proceed
<1> DEFINE joined == held \cup J
<1>a. /\ waiting' \in [Req -> [Dep -> Req \cup {None}]]
      /\ \A d \in Dep : waiting'[r][d] = IF d \in joined THEN pending'[d]
                                                     ELSE waiting[r][d]
      /\ \A q \in Req : q # r => waiting'[q] = waiting[q]
  BY <1>2, <1>3 DEF IInv, TypeOK
<1>b. /\ cur' \in [Req -> Dep \cup {None}]
      /\ todo' \in [Req -> SUBSET Dep]
      /\ pc'[r] = "checking" => cur'[r] \in Dep
      /\ \A q \in Req : q # r => cur'[q] = cur[q]
  <2>1. CASE CheckNext(r, rest \ J, joined)
    <3>1. PICK d \in rest \ J : /\ cur' = [cur EXCEPT ![r] = d]
                              /\ todo' = [todo EXCEPT ![r] = (rest \ J) \ {d}]
      BY <2>1 DEF CheckNext
    <3>2. d \in Dep /\ (rest \ J) \ {d} \in SUBSET Dep
      OBVIOUS
    <3> QED
      BY <1>0, <3>1, <3>2
  <2>2. CASE EndLoop(r, joined)
    <3>1. /\ cur' = [cur EXCEPT ![r] = None]
          /\ todo' = [todo EXCEPT ![r] = {}]
          /\ pc' = [pc EXCEPT ![r] = "wait"] \/ pc' = [pc EXCEPT ![r] = "done"]
      BY <2>2 DEF EndLoop
    <3> QED
      BY <1>0, <3>1
  <2> QED
    BY <1>3, <2>1, <2>2
<1>c. \/ /\ pc' = [pc EXCEPT ![r] = "checking"]
         /\ watchers' = Watch(r, joined)
         /\ queue' = queue
      \/ /\ pc' = [pc EXCEPT ![r] = "wait"]
         /\ watchers' = Watch(r, joined)
         /\ queue' = IF missing'[r] = {} THEN queue ELSE Append(queue, r)
      \/ /\ pc' = [pc EXCEPT ![r] = "done"]
         /\ \A d \in Dep : waiting'[r][d] = None
         /\ watchers' = Unwatch(r)
         /\ queue' = IF missing'[r] = {} THEN queue ELSE Append(queue, r)
  BY <1>3 DEF CheckNext, EndLoop
<1>4. /\ pc' \in [Req -> Active \cup Over \cup {"idle"}]
      /\ pc'[r] \in {"checking", "wait", "done"}
      /\ \A q \in Req : q # r => pc'[q] = pc[q]
  <2>1. PICK s \in {"checking", "wait", "done"} : pc' = [pc EXCEPT ![r] = s]
    BY <1>c
  <2>2. pc \in [Req -> Active \cup Over \cup {"idle"}]
    BY <1>0
  <2>3. s \in Active \cup Over \cup {"idle"}
    BY DEF Active, Over, Scanning
  <2> QED
    BY <2>1, <2>2, <2>3
<1>5. TypeOK'
  <2>1. watchers' \in [Dep -> SUBSET Req]
    <3>1. Watch(r, joined) \in [Dep -> SUBSET Req] /\ Unwatch(r) \in [Dep -> SUBSET Req]
      BY <1>0 DEF Unwatch, Watch
    <3> QED
      BY <1>c, <3>1
  <2>2. queue' \in Seq(Req \cup {Refresh})
    <3>1. Append(queue, r) \in Seq(Req \cup {Refresh})
      BY <1>0
    <3>2. queue' \in {queue, Append(queue, r)}
      BY <1>c
    <3> QED
      BY <1>0, <3>1, <3>2
  <2> QED
    BY <1>1, <1>2, <1>4, <1>a, <1>b, <2>1, <2>2 DEF IInv, TypeOK
<1>6. WorkerHolds'
  BY <1>1 DEF IInv, WorkerHolds
<1>7. PendingIsOpen' /\ FutureIsMissing'
  BY <1>2 DEF Proceed, IInv, TypeOK, PendingIsOpen, FutureIsMissing
<1>8. \A d \in Dep, q \in Req : pending[d] = q => pending'[d] = q
  BY DEF Proceed, IInv, TypeOK
<1>9. WaitsOnFuture'
  <2> SUFFICES ASSUME NEW q \in Req, NEW d \in Dep, waiting'[q][d] # None
               PROVE  future'[d][waiting'[q][d]] # "none"
    BY DEF WaitsOnFuture
  <2>0. waiting'[q][d] \in Req
    BY <1>a
  <2>1. CASE q = r /\ d \in joined
    BY <1>7, <1>a, <2>0, <2>1 DEF PendingIsOpen
  <2>2. CASE ~ (q = r /\ d \in joined)
    <3>1. waiting'[q][d] = waiting[q][d]
      BY <1>a, <2>2
    <3>2. future[d][waiting[q][d]] # "none" /\ waiting[q][d] \in Req
      BY <2>0, <3>1 DEF IInv, WaitsOnFuture
    <3>3. d \in missing'[waiting[q][d]]
      BY <1>2, <3>2 DEF IInv, FutureIsMissing
    <3> QED
      BY <1>7, <3>1, <3>2, <3>3 DEF FutureIsMissing
  <2> QED
    BY <2>1, <2>2
<1>10. \A d \in missing'[r] : pending'[d] = r
  BY <1>2, <1>8 DEF Proceed, IInv, ScanOwes, TypeOK
<1>11. ScanOwes'
  <2> SUFFICES ASSUME NEW q \in Req
               PROVE  /\ pc'[q] = "idle" => missing'[q] = {}
                      /\ pc'[q] \in Scanning => \A d \in missing'[q] : pending'[d] = q
    BY DEF ScanOwes
  <2>1. CASE q = r
    BY <1>4, <1>10, <2>1
  <2>2. CASE q # r
    BY <1>0, <1>2, <1>4, <1>8, <2>2 DEF IInv, ScanOwes
  <2> QED
    BY <2>1, <2>2
<1>12. r \notin LiveJobs
  BY DEF IInv, JobsDistinct
<1>13. JobsDistinct' /\ QueuedIsPending'
  <2>1. CASE queue' = queue /\ (pc'[r] = "checking" \/ missing'[r] = {})
    <3>1. LiveJobs' = LiveJobs
      BY <1>1, <2>1 DEF LiveJobs
    <3>2. JobsDistinct'
      BY <1>1, <1>4, <1>12, <2>1, <3>1 DEF IInv, JobsDistinct, LiveJobs
    <3>3. QueuedIsPending'
      <4> SUFFICES ASSUME NEW q \in LiveJobs, NEW d \in missing'[q]
                   PROVE  pending'[d] = q
        BY <3>1 DEF QueuedIsPending
      <4>1. q \in Req /\ q # r
        BY <1>12 DEF LiveJobs
      <4> QED
        BY <1>0, <1>2, <1>8, <4>1 DEF IInv, QueuedIsPending
    <3> QED
      BY <3>2, <3>3
  <2>2. CASE queue' = Append(queue, r) /\ pc'[r] \in {"wait", "done"}
    <3>1. LiveJobs' = LiveJobs \cup {r}
      BY <1>1, <2>2, AppendLive DEF IInv, TypeOK
    <3>2. /\ queue \in Seq(Req \cup {Refresh})
          /\ Len(queue) \in Nat
          /\ Len(queue') = Len(queue) + 1
          /\ queue'[Len(queue) + 1] = r
          /\ \A i \in 1..Len(queue) : queue'[i] = queue[i]
      BY <2>2 DEF IInv, TypeOK
    <3>3. \A i \in 1..Len(queue) : queue[i] # r
      BY <1>12 DEF LiveJobs
    <3>4. JobsDistinct'
      <4>1. ASSUME NEW i \in 1..Len(queue'), NEW j \in 1..Len(queue'),
                   queue'[i] \in Req, queue'[i] = queue'[j]
            PROVE  i = j
        BY <3>2, <3>3, <4>1 DEF IInv, JobsDistinct
      <4>2. ASSUME NEW i \in 1..Len(queue'), queue'[i] \in Req
            PROVE  queue'[i] # job'
        <5>1. CASE i = Len(queue) + 1
          BY <1>1, <1>12, <3>2, <5>1 DEF LiveJobs
        <5>2. CASE i \in 1..Len(queue)
          BY <1>1, <3>2, <4>2, <5>2 DEF IInv, JobsDistinct
        <5> QED
          BY <3>2, <5>1, <5>2
      <4>3. \A q \in LiveJobs' : pc'[q] \notin Scanning \cup {"idle"}
        BY <1>4, <2>2, <3>1 DEF IInv, JobsDistinct, Scanning, LiveJobs
      <4> QED
        BY <4>1, <4>2, <4>3 DEF JobsDistinct
    <3>5. QueuedIsPending'
      <4> SUFFICES ASSUME NEW q \in LiveJobs \cup {r}, NEW d \in missing'[q]
                   PROVE  pending'[d] = q
        BY <3>1 DEF QueuedIsPending
      <4>1. CASE q = r
        BY <1>10, <4>1
      <4>2. CASE q # r
        <5>1. q \in LiveJobs /\ q \in Req
          BY <4>2 DEF LiveJobs
        <5> QED
          BY <1>0, <1>2, <1>8, <4>2, <5>1 DEF IInv, QueuedIsPending
      <4> QED
        BY <4>1, <4>2
    <3> QED
      BY <3>4, <3>5
  <2> QED
    BY <1>4, <1>c, <2>1, <2>2
<1>14. CurOk'
  BY <1>4, <1>b DEF IInv, CurOk, Scanning
<1>15. OverWaitsOnNothing'
  <2> SUFFICES ASSUME NEW q \in Req, NEW d \in Dep, pc'[q] \notin Active
               PROVE  waiting'[q][d] = None
    BY DEF OverWaitsOnNothing
  <2>1. CASE q = r
    BY <1>c, <2>1 DEF IInv, TypeOK, Active, Scanning
  <2>2. CASE q # r
    BY <1>4, <1>a, <2>2 DEF IInv, OverWaitsOnNothing
  <2> QED
    BY <2>1, <2>2
<1>16. WatchersAreWaiters'
  <2> SUFFICES ASSUME NEW q \in Req, NEW d \in Dep
               PROVE  /\ pc'[q] \in Active /\ waiting'[q][d] # None => q \in watchers'[d]
                      /\ pc'[q] = "done" => q \notin watchers'[d]
    BY DEF WatchersAreWaiters
  <2>1. CASE q = r
    <3>1. waiting[r][d] # None => r \in watchers[d]
      BY DEF IInv, WatchersAreWaiters, OverWaitsOnNothing
    <3>2. CASE pc'[r] = "done"
      <4>1. /\ watchers' = Unwatch(r)
            /\ waiting'[r][d] = None
        BY <1>c, <3>2 DEF IInv, TypeOK
      <4> QED
        BY <2>1, <4>1 DEF IInv, TypeOK, Unwatch
    <3>3. CASE pc'[r] # "done"
      <4>1. watchers' = Watch(r, joined)
        BY <1>c, <3>3 DEF IInv, TypeOK
      <4> QED
        BY <1>a, <2>1, <3>1, <3>3, <4>1 DEF IInv, TypeOK, Watch
    <3> QED
      BY <3>2, <3>3
  <2>2. CASE q # r
    <3>1. waiting'[q][d] = waiting[q][d] /\ pc'[q] = pc[q]
      BY <1>4, <1>a, <2>2
    <3>2. watchers'[d] \in {watchers[d], watchers[d] \cup {r}, watchers[d] \ {r}}
      BY <1>c DEF Unwatch, Watch
    <3>3. q \in watchers'[d] <=> q \in watchers[d]
      BY <2>2, <3>2
    <3> QED
      BY <3>1, <3>3 DEF IInv, WatchersAreWaiters
  <2> QED
    BY <2>1, <2>2
<1> QED
  BY <1>5, <1>6, <1>7, <1>9, <1>11, <1>13, <1>14, <1>15, <1>16 DEF IInv

LEMMA ArriveKeepsInv ==
  ASSUME IInv, NEW r \in Req, Arrive(r)
  PROVE  IInv'
<1>1. PICK deps \in SUBSET Dep : /\ want' = [want EXCEPT ![r] = deps]
                                 /\ Proceed(r, {}, {}, deps)
  BY DEF Arrive
<1>2. /\ want' \in [Req -> SUBSET Dep]
      /\ seen' \in [Req -> BOOLEAN]
      /\ settled' \in [Req -> [Dep -> {"none", "ready", "failed", "timeout"}]]
      /\ known' \subseteq Dep
  BY <1>1 DEF IInv, TypeOK, Arrive
<1>3. pc[r] = "idle" /\ UNCHANGED <<installed, stale, workVars, rf>>
  BY DEF Arrive
<1> QED
  BY <1>1, <1>2, <1>3, ProceedKeepsInv

LEMMA CheckedKeepsInv ==
  ASSUME IInv, NEW r \in Req, CheckedPresent(r) \/ CheckedMissing(r)
  PROVE  IInv'
<1>1. pc[r] \in Scanning /\ cur[r] \in Dep /\ todo[r] \in SUBSET Dep
  BY DEF CheckedPresent, CheckedMissing, Scanning, IInv, CurOk, TypeOK
<1>2. /\ want' \in [Req -> SUBSET Dep]
      /\ seen' \in [Req -> BOOLEAN]
      /\ settled' \in [Req -> [Dep -> {"none", "ready", "failed", "timeout"}]]
      /\ known' \subseteq Dep
      /\ UNCHANGED <<installed, stale, workVars, rf>>
  <2>1. want \in [Req -> SUBSET Dep] /\ seen \in [Req -> BOOLEAN] /\ known \subseteq Dep
        /\ settled \in [Req -> [Dep -> {"none", "ready", "failed", "timeout"}]]
    BY DEF IInv, TypeOK
  <2>2. CASE CheckedPresent(r)
    <3>1. /\ settled' = [settled EXCEPT ![r][cur[r]] = "ready"]
          /\ known' = known \cup {cur[r]}
          /\ seen' = [seen EXCEPT ![r] = FALSE]
          /\ UNCHANGED <<want, installed, stale, workVars, rf>>
      BY <2>2 DEF CheckedPresent
    <3> QED
      BY <1>1, <2>1, <3>1
  <2>3. CASE CheckedMissing(r)
    BY <2>1, <2>3 DEF CheckedMissing
  <2> QED
    BY <2>2, <2>3
<1>3. CASE CheckedPresent(r)
  BY <1>1, <1>2, <1>3, ProceedKeepsInv DEF CheckedPresent
<1>4. CASE CheckedMissing(r)
  <2>1. /\ NewlyMissing(r) \in SUBSET Dep
        /\ \A d \in NewlyMissing(r) : pending[d] = None
        /\ \A d \in {cur[r]} : d \in NewlyMissing(r) \/ pending[d] # None
        /\ {cur[r]} \in SUBSET Dep
    BY <1>1 DEF NewlyMissing
  <2> QED
    BY <1>1, <1>2, <1>4, <2>1, ProceedKeepsInv DEF CheckedMissing
<1> QED
  BY <1>3, <1>4

LEMMA ReadVersionKeepsInv ==
  ASSUME IInv, NEW r \in Req, ReadVersion(r)
  PROVE  IInv'
<1>1. /\ seen' \in [Req -> BOOLEAN]
      /\ pc \in [Req -> Active \cup Over \cup {"idle"}]
      /\ pc[r] = "checking" /\ pc' = [pc EXCEPT ![r] = "checked"]
  BY DEF ReadVersion, IInv, TypeOK
<1>2. /\ pc' \in [Req -> Active \cup Over \cup {"idle"}]
      /\ \A q \in Req : /\ pc'[q] \in Scanning <=> pc[q] \in Scanning
                        /\ pc'[q] \in Active <=> pc[q] \in Active
                        /\ pc'[q] = "idle" <=> pc[q] = "idle"
                        /\ pc'[q] = "done" <=> pc[q] = "done"
  BY <1>1 DEF Scanning, Active, Over
<1>3. /\ UNCHANGED <<want, todo, cur, missing, waiting, settled, pending, future>>
      /\ UNCHANGED <<watchers, known, queue, installed, stale, rf>>
      /\ UNCHANGED <<wk, job, attempt, left, one, found>>
  BY DEF ReadVersion, workVars
<1>4. TypeOK'
  BY <1>1, <1>2, <1>3 DEF IInv, TypeOK
<1>5. LiveJobs' = LiveJobs
  BY <1>3 DEF LiveJobs
<1>6. JobsDistinct'
  <2>1. \A q \in LiveJobs : pc[q] \notin Scanning /\ pc[q] # "idle"
    BY DEF IInv, JobsDistinct
  <2>2. \A q \in LiveJobs : pc'[q] \notin Scanning \cup {"idle"}
    BY <1>2, <2>1 DEF LiveJobs
  <2> QED
    BY <1>3, <1>5, <2>2 DEF IInv, JobsDistinct
<1>7. QueuedIsPending' /\ PendingIsOpen' /\ FutureIsMissing' /\ WaitsOnFuture' /\ WorkerHolds'
  BY <1>3, <1>5 DEF IInv, QueuedIsPending, PendingIsOpen, FutureIsMissing,
                    WaitsOnFuture, WorkerHolds
<1>8. ScanOwes' /\ CurOk' /\ OverWaitsOnNothing' /\ WatchersAreWaiters'
  BY <1>2, <1>3 DEF IInv, ScanOwes, CurOk, OverWaitsOnNothing, WatchersAreWaiters
<1> QED
  BY <1>4, <1>6, <1>7, <1>8 DEF IInv

(* Reporting statuses, and answering with the last, disturbs only what the *)
(* request itself waits on.                                                *)
LEMMA ReportKeepsInv ==
  ASSUME IInv, NEW r \in Req, pc[r] = "wait", NEW deps \in SUBSET Dep,
         NEW status, \A d \in deps : status[d] \in {"ready", "failed", "timeout"},
         Report(r, deps, status)
  PROVE  IInv'
<1>1. /\ pc \in [Req -> Active \cup Over \cup {"idle"}]
      /\ waiting \in [Req -> [Dep -> Req \cup {None}]]
      /\ settled \in [Req -> [Dep -> {"none", "ready", "failed", "timeout"}]]
      /\ watchers \in [Dep -> SUBSET Req]
  BY DEF IInv, TypeOK
<1>2. settled' \in [Req -> [Dep -> {"none", "ready", "failed", "timeout"}]]
  BY <1>1 DEF Report
<1>3. /\ waiting' \in [Req -> [Dep -> Req \cup {None}]]
      /\ \A q \in Req : q # r => waiting'[q] = waiting[q]
      /\ \A q \in Req, d \in Dep : waiting'[q][d] # None => waiting'[q][d] = waiting[q][d]
  BY <1>1 DEF Report
<1>4. \/ pc' = pc /\ watchers' = watchers
      \/ /\ pc' = [pc EXCEPT ![r] = "done"]
         /\ \A d \in Dep : waiting'[r][d] = None
         /\ watchers' = Unwatch(r)
  BY DEF Report
<1>5. /\ pc' \in [Req -> Active \cup Over \cup {"idle"}]
      /\ pc'[r] \in {"wait", "done"}
      /\ \A q \in Req : q # r => pc'[q] = pc[q]
  BY <1>1, <1>4 DEF Active, Over, Scanning
<1>6. /\ watchers' \in [Dep -> SUBSET Req]
      /\ \A q \in Req, d \in Dep : q # r => (q \in watchers'[d] <=> q \in watchers[d])
  BY <1>1, <1>4 DEF Unwatch
<1>7. /\ UNCHANGED <<want, todo, cur, seen, missing, pending, future>>
      /\ UNCHANGED <<known, queue, installed, stale, rf>>
      /\ UNCHANGED <<wk, job, attempt, left, one, found>>
  BY DEF Report, workVars
<1>8. TypeOK'
  BY <1>2, <1>3, <1>5, <1>6, <1>7 DEF IInv, TypeOK
<1>9. LiveJobs' = LiveJobs
  BY <1>7 DEF LiveJobs
<1>10. JobsDistinct'
  <2>1. \A q \in LiveJobs : pc[q] \notin Scanning /\ pc[q] # "idle"
    BY DEF IInv, JobsDistinct
  <2>2. \A q \in LiveJobs : pc'[q] \notin Scanning \cup {"idle"}
    BY <1>5, <2>1 DEF LiveJobs, Scanning
  <2> QED
    BY <1>7, <1>9, <2>2 DEF IInv, JobsDistinct
<1>11. QueuedIsPending' /\ PendingIsOpen' /\ FutureIsMissing' /\ WorkerHolds'
  BY <1>7, <1>9 DEF IInv, QueuedIsPending, PendingIsOpen, FutureIsMissing, WorkerHolds
<1>12. WaitsOnFuture'
  BY <1>3, <1>7 DEF IInv, WaitsOnFuture
<1>13. ScanOwes' /\ CurOk'
  BY <1>5, <1>7 DEF IInv, ScanOwes, CurOk, Scanning
<1>14. OverWaitsOnNothing'
  <2> SUFFICES ASSUME NEW q \in Req, NEW d \in Dep, pc'[q] \notin Active
               PROVE  waiting'[q][d] = None
    BY DEF OverWaitsOnNothing
  <2>1. CASE q = r
    BY <1>1, <1>4, <2>1 DEF Active
  <2>2. CASE q # r
    BY <1>3, <1>5, <2>2 DEF IInv, OverWaitsOnNothing
  <2> QED
    BY <2>1, <2>2
<1>15. WatchersAreWaiters'
  <2> SUFFICES ASSUME NEW q \in Req, NEW d \in Dep
               PROVE  /\ pc'[q] \in Active /\ waiting'[q][d] # None => q \in watchers'[d]
                      /\ pc'[q] = "done" => q \notin watchers'[d]
    BY DEF WatchersAreWaiters
  <2>1. CASE q = r
    <3>1. waiting[r][d] # None => r \in watchers[d]
      BY DEF IInv, WatchersAreWaiters, Active
    <3>2. CASE pc' = pc /\ watchers' = watchers
      BY <1>3, <2>1, <3>1, <3>2
    <3>3. CASE waiting'[r][d] = None /\ watchers' = Unwatch(r)
      BY <2>1, <3>3 DEF Unwatch
    <3> QED
      BY <1>4, <3>2, <3>3
  <2>2. CASE q # r
    BY <1>3, <1>5, <1>6, <2>2 DEF IInv, WatchersAreWaiters
  <2> QED
    BY <2>1, <2>2
<1> QED
  BY <1>8, <1>10, <1>11, <1>12, <1>13, <1>14, <1>15 DEF IInv

LEMMA DeliverKeepsInv ==
  ASSUME IInv, NEW r \in Req, Deliver(r) \/ TimeOut(r)
  PROVE  IInv'
<1>1. pc[r] = "wait"
  BY DEF Deliver, TimeOut
<1>2. CASE Deliver(r)
  <2> DEFINE status == [d \in Ripe(r) |-> future[d][waiting[r][d]]]
  <2>1. Ripe(r) \in SUBSET Dep
    BY DEF Ripe
  <2>2. ASSUME NEW d \in Ripe(r)
        PROVE  status[d] \in {"ready", "failed", "timeout"}
    <3>1. /\ d \in Dep /\ waiting[r][d] \in Req
          /\ future[d][waiting[r][d]] # "open"
      BY <2>2 DEF Ripe, IInv, TypeOK
    <3>2. future[d][waiting[r][d]] # "none"
      BY <3>1 DEF IInv, WaitsOnFuture
    <3>3. future[d][waiting[r][d]] \in FutureState
      BY <3>1 DEF IInv, TypeOK
    <3> QED
      BY <3>1, <3>2, <3>3, <2>2 DEF FutureState
  <2>3. Report(r, Ripe(r), status)
    BY <1>2 DEF Deliver
  <2> HIDE DEF status
  <2> QED
    BY <1>1, <2>1, <2>2, <2>3, ReportKeepsInv
<1>3. CASE TimeOut(r)
  <2> DEFINE late == {d \in Dep : waiting[r][d] # None}
             status == [d \in late |-> "timeout"]
  <2>1. \A d \in late : status[d] \in {"ready", "failed", "timeout"}
    OBVIOUS
  <2>2. Report(r, late, status)
    BY <1>3 DEF TimeOut
  <2>3. late \in SUBSET Dep
    OBVIOUS
  <2> HIDE DEF late, status
  <2> QED
    BY <1>1, <2>1, <2>2, <2>3, ReportKeepsInv
<1> QED
  BY <1>2, <1>3

-----------------------------------------------------------------------------

(* Finishing the running job settles exactly what it owes: its own open    *)
(* futures, and no one else's.                                             *)
LEMMA FinishFacts ==
  ASSUME IInv, job \in Req, NEW good, Finish(missing[job], good)
  PROVE  /\ pending' \in [Dep -> Req \cup {None}]
         /\ future' \in [Dep -> [Req -> FutureState]]
         /\ \A d \in Dep : pending'[d] # job
         /\ \A d \in Dep, q \in Req : q # job => (pending'[d] = q <=> pending[d] = q)
         /\ \A d \in Dep : future'[d][job] # "open"
         /\ \A d \in Dep, q \in Req :
              q # job => (future'[d][q] = "open" <=> future[d][q] = "open")
         /\ \A d \in Dep, q \in Req : future'[d][q] = "none" <=> future[d][q] = "none"
<1>1. /\ pending \in [Dep -> Req \cup {None}]
      /\ future \in [Dep -> [Req -> FutureState]]
      /\ missing[job] \in SUBSET Dep
  BY DEF IInv, TypeOK
<1>2. \A d \in missing[job] : pending[d] = job
  BY DEF IInv, QueuedIsPending, LiveJobs
<1>3. \A d \in Dep : pending[d] = job => d \in missing[job]
  BY DEF IInv, PendingIsOpen, FutureIsMissing
<1>4. \A d \in Dep : /\ pending'[d] = IF d \in missing[job] THEN None ELSE pending[d]
                     /\ \A q \in Req : future'[d][q] =
                          IF d \in missing[job] /\ pending[d] = q
                          THEN IF d \in good THEN "ready" ELSE "failed"
                          ELSE future[d][q]
  BY DEF Finish
<1>5. /\ pending' \in [Dep -> Req \cup {None}]
      /\ future' \in [Dep -> [Req -> FutureState]]
  BY <1>1 DEF Finish, FutureState
<1>6. \A d \in Dep, q \in Req : pending[d] = q <=> future[d][q] = "open"
  BY DEF IInv, PendingIsOpen
<1> QED
  BY <1>1, <1>2, <1>3, <1>4, <1>5, <1>6

(* A step of the worker that finishes its job or none, and handlers that   *)
(* are cancelled with it, keep the invariant.                              *)
LEMMA SettleKeepsInv ==
  ASSUME IInv, TypeOK', WorkerHolds', missing' = missing, queue' = queue,
         \/ job \in Req /\ job' = None /\ \E good : Finish(missing[job], good)
         \/ pending' = pending /\ future' = future /\ job' = job
         \/ pending' = pending /\ future' = future /\ job \notin Req /\ job' = None,
         \A q \in Req : pc'[q] = pc[q] \/ pc'[q] = "cancelled",
         \A q \in Req : pc'[q] # pc[q] => \A d \in Dep : waiting'[q][d] = None,
         \A q \in Req : pc'[q] = pc[q] =>
           /\ waiting'[q] = waiting[q]
           /\ cur'[q] = cur[q]
           /\ \A d \in Dep : q \in watchers'[d] <=> q \in watchers[d]
  PROVE  IInv'
<1> DEFINE done == job \in Req /\ job' = None
<1>1. /\ \A d \in Dep, q \in Req : ~ (done /\ q = job) =>
           /\ pending'[d] = q <=> pending[d] = q
           /\ future'[d][q] = "open" <=> future[d][q] = "open"
      /\ done => \A d \in Dep : pending'[d] # job /\ future'[d][job] # "open"
      /\ \A d \in Dep, q \in Req : future'[d][q] = "none" <=> future[d][q] = "none"
  <2>1. CASE job \in Req /\ job' = None /\ \E good : Finish(missing[job], good)
    BY <2>1, FinishFacts
  <2>2. CASE pending' = pending /\ future' = future /\ ~ done
    BY <2>2
  <2> QED
    BY <2>1, <2>2
<1>2. LiveJobs' = IF done THEN LiveJobs \ {job} ELSE LiveJobs
  <2>1. CASE job' = job
    BY <2>1 DEF LiveJobs
  <2>2. CASE job \notin Req /\ job' = None
    BY <2>2 DEF LiveJobs
  <2>3. CASE done
    <3>1. \A i \in 1..Len(queue) : queue[i] # job
      BY <2>3 DEF IInv, JobsDistinct
    <3> QED
      BY <2>3, <3>1 DEF LiveJobs
  <2> QED
    BY <2>1, <2>2, <2>3
<1>3. LiveJobs' \subseteq LiveJobs /\ (done => job \notin LiveJobs') /\ LiveJobs \subseteq Req
  BY <1>2 DEF LiveJobs
<1>4. \A q \in Req : /\ pc'[q] \in Scanning => pc[q] \in Scanning /\ cur'[q] = cur[q]
                     /\ pc'[q] = "idle" => pc[q] = "idle"
  BY DEF Scanning
<1>5. PendingIsOpen'
  <2> SUFFICES ASSUME NEW d \in Dep, NEW q \in Req
               PROVE  pending'[d] = q <=> future'[d][q] = "open"
    BY DEF PendingIsOpen
  <2> QED
    BY <1>1 DEF IInv, PendingIsOpen
<1>6. FutureIsMissing'
  BY <1>1 DEF IInv, FutureIsMissing
<1>7. WaitsOnFuture'
  <2> SUFFICES ASSUME NEW q \in Req, NEW d \in Dep, waiting'[q][d] # None
               PROVE  future'[d][waiting'[q][d]] # "none"
    BY DEF WaitsOnFuture
  <2>1. waiting'[q][d] = waiting[q][d]
    OBVIOUS
  <2>2. waiting[q][d] \in Req \cup {None}
    BY DEF IInv, TypeOK
  <2> QED
    BY <1>1, <2>1, <2>2 DEF IInv, WaitsOnFuture
<1>8. done => job \in LiveJobs /\ pc[job] \notin Scanning
  BY DEF IInv, JobsDistinct, LiveJobs
<1>9. ScanOwes'
  <2> SUFFICES ASSUME NEW q \in Req
               PROVE  /\ pc'[q] = "idle" => missing'[q] = {}
                      /\ pc'[q] \in Scanning => \A d \in missing'[q] : pending'[d] = q
    BY DEF ScanOwes
  <2>1. missing[q] \in SUBSET Dep
    BY DEF IInv, TypeOK
  <2> QED
    BY <1>1, <1>4, <1>8, <2>1 DEF IInv, ScanOwes
<1>10. JobsDistinct'
  <2>1. \A q \in LiveJobs' : pc'[q] \notin Scanning \cup {"idle"}
    BY <1>3, <1>4 DEF IInv, JobsDistinct
  <2>2. \A i \in 1..Len(queue') : queue'[i] \in Req => queue'[i] # job'
    BY DEF IInv, JobsDistinct
  <2> QED
    BY <2>1, <2>2 DEF IInv, JobsDistinct
<1>11. QueuedIsPending'
  <2> SUFFICES ASSUME NEW q \in LiveJobs', NEW d \in missing'[q]
               PROVE  pending'[d] = q
    BY DEF QueuedIsPending
  <2>1. q \in LiveJobs /\ q \in Req /\ ~ (done /\ q = job)
    BY <1>3
  <2>2. d \in Dep /\ pending[d] = q
    BY <2>1 DEF IInv, TypeOK, QueuedIsPending
  <2> QED
    BY <1>1, <2>1, <2>2
<1>12. CurOk' /\ OverWaitsOnNothing'
  BY <1>4 DEF IInv, CurOk, OverWaitsOnNothing
<1>13. WatchersAreWaiters'
  BY DEF IInv, WatchersAreWaiters, Active, Scanning
<1> QED
  BY <1>5, <1>6, <1>7, <1>9, <1>10, <1>11, <1>12, <1>13 DEF IInv

LEMMA CancelKeepsInv ==
  ASSUME IInv, NEW r \in Req, Cancel(r)
  PROVE  IInv'
<1>1. /\ pc' = [q \in Req |-> IF q \in {r} THEN "cancelled" ELSE pc[q]]
      /\ watchers' = [d \in Dep |-> watchers[d] \ {q \in {r} : pc[q] = "wait"}]
      /\ todo' = [q \in Req |-> IF q \in {r} THEN {} ELSE todo[q]]
      /\ cur' = [q \in Req |-> IF q \in {r} THEN None ELSE cur[q]]
      /\ seen' = [q \in Req |-> q \notin {r} /\ seen[q]]
      /\ waiting' = [q \in Req |-> IF q \in {r} THEN [d \in Dep |-> None] ELSE waiting[q]]
  BY DEF Cancel, Abandon
<1>2. /\ UNCHANGED <<want, missing, settled, pending, future, known, queue>>
      /\ UNCHANGED <<installed, stale, rf, wk, job, attempt, left, one, found>>
  BY DEF Cancel, workVars
<1>3. TypeOK'
  <2>1. pc' \in [Req -> Active \cup Over \cup {"idle"}]
    BY <1>1 DEF IInv, TypeOK, Over
  <2>2. waiting' \in [Req -> [Dep -> Req \cup {None}]]
    BY <1>1 DEF IInv, TypeOK
  <2>3. watchers' \in [Dep -> SUBSET Req]
    BY <1>1 DEF IInv, TypeOK
  <2>4. /\ todo' \in [Req -> SUBSET Dep] /\ cur' \in [Req -> Dep \cup {None}]
        /\ seen' \in [Req -> BOOLEAN]
    BY <1>1 DEF IInv, TypeOK
  <2> QED
    BY <1>2, <2>1, <2>2, <2>3, <2>4 DEF IInv, TypeOK
<1>4. WorkerHolds'
  BY <1>2 DEF IInv, WorkerHolds
<1>5. /\ pc[r] \in Active /\ pc'[r] = "cancelled" /\ pc'[r] # pc[r]
      /\ \A d \in Dep : waiting'[r][d] = None
      /\ \A q \in Req : q # r => /\ pc'[q] = pc[q]
                                 /\ waiting'[q] = waiting[q]
                                 /\ cur'[q] = cur[q]
                                 /\ \A d \in Dep : q \in watchers'[d] <=> q \in watchers[d]
  BY <1>1 DEF Cancel, Active, Scanning
<1> QED
  BY <1>2, <1>3, <1>4, <1>5, SettleKeepsInv

(* A step of the worker leaves the requests alone. *)
LEMMA WorkerStepKeepsInv ==
  ASSUME IInv, UNCHANGED reqVars, watchers' = watchers, queue' = queue,
         known' \subseteq Dep, installed' \subseteq Dep, stale' \in BOOLEAN,
         attempt' \in 1..RETRIES, left' \subseteq Dep, one' \in Dep \cup {None},
         found' \subseteq Dep, rf' \in {"wait", "queued", "done", "sleep"},
         wk' \in Busy \cup {"idle", "stopped"}, WorkerHolds',
         \/ job \in Req /\ job' = None /\ \E good : Finish(missing[job], good)
         \/ pending' = pending /\ future' = future /\ job' = job
         \/ pending' = pending /\ future' = future /\ job \notin Req /\ job' = None
  PROVE  IInv'
<1>1. UNCHANGED <<pc, want, todo, cur, seen, missing, waiting, settled>>
  BY DEF reqVars
<1>2. pending' \in [Dep -> Req \cup {None}] /\ future' \in [Dep -> [Req -> FutureState]]
  <2>1. CASE job \in Req /\ job' = None /\ \E good : Finish(missing[job], good)
    BY <2>1, FinishFacts
  <2>2. CASE pending' = pending /\ future' = future
    BY <2>2 DEF IInv, TypeOK
  <2> QED
    BY <2>1, <2>2
<1>3. job' \in Req \cup {Refresh, None}
  BY DEF IInv, TypeOK
<1>4. TypeOK'
  BY <1>1, <1>2, <1>3 DEF IInv, TypeOK
<1> QED
  BY <1>1, <1>4, SettleKeepsInv

LEMMA CommandKeepsInv ==
  ASSUME IInv, NEW o \in Outcome, Update(o) \/ Upgrade(o) \/ Install(o) \/ InstallEach(o)
  PROVE  IInv'
<1>1. /\ 1 \in 1..RETRIES
      /\ attempt < RETRIES => attempt + 1 \in 1..RETRIES
  BY DEF IInv, TypeOK
<1>2. /\ job \in Req => missing[job] \subseteq Dep
      /\ left \subseteq Dep /\ one \in Dep \cup {None} /\ found \subseteq Dep
      /\ installed \subseteq Dep /\ known \subseteq Dep /\ stale \in BOOLEAN
      /\ rf \in {"wait", "queued", "done", "sleep"}
      /\ attempt \in 1..RETRIES
      /\ wk \in Busy \cup {"idle", "stopped"}
  BY DEF IInv, TypeOK
<1>3. CASE Update(o)
  <2>1. wk = "update" /\ job \in Req \cup {Refresh}
    BY <1>3 DEF Update, IInv, WorkerHolds
  <2>2. /\ UNCHANGED reqVars /\ watchers' = watchers /\ queue' = queue
        /\ known' = known /\ installed' = installed
        /\ pending' = pending /\ future' = future
    BY <1>3 DEF Update
  <2>3. CASE TryAgain(o)
    BY <1>1, <1>2, <1>3, <2>1, <2>2, <2>3, WorkerStepKeepsInv
       DEF Update, TryAgain, IInv, WorkerHolds, Busy
  <2>4. CASE ~ TryAgain(o) /\ job = Refresh /\ o # "ok"
    <3>1. /\ stale' \in BOOLEAN /\ wk' = "idle" /\ job' = None /\ attempt' = 1
          /\ left' = {} /\ one' = None /\ found' = {} /\ rf' = "done"
      BY <1>2, <1>3, <2>4 DEF Update, JobDone
    <3>2. WorkerHolds'
      BY <3>1 DEF WorkerHolds
    <3>3. job \notin Req
      BY <2>4
    <3> QED
      BY <1>1, <2>2, <3>1, <3>2, <3>3, <1>2, WorkerStepKeepsInv DEF Busy
  <2>5. CASE ~ TryAgain(o) /\ ~ (job = Refresh /\ o # "ok")
    <3>1. /\ stale' \in BOOLEAN /\ attempt' = 1
          /\ wk' = IF job = Refresh THEN "upgrade" ELSE "install"
          /\ job' = job /\ left' = left /\ one' = one /\ found' = found /\ rf' = rf
      BY <1>2, <1>3, <2>5 DEF Update, Goto
    <3>2. WorkerHolds' /\ wk' \in Busy
      BY <2>1, <3>1 DEF WorkerHolds, Busy
    <3> QED
      BY <1>1, <1>2, <2>2, <3>1, <3>2, WorkerStepKeepsInv
  <2> QED
    BY <2>3, <2>4, <2>5
<1>4. CASE Upgrade(o)
  <2>1. wk = "upgrade" /\ job = Refresh /\ job \notin Req
    BY <1>4 DEF Upgrade, IInv, WorkerHolds
  <2>2. /\ UNCHANGED reqVars /\ watchers' = watchers /\ queue' = queue
        /\ known' = known /\ installed' = installed /\ stale' = stale
        /\ pending' = pending /\ future' = future
    BY <1>4 DEF Upgrade
  <2>3. CASE TryAgain(o)
    BY <1>1, <1>2, <1>4, <2>1, <2>2, <2>3, WorkerStepKeepsInv
       DEF Upgrade, TryAgain, IInv, WorkerHolds, Busy
  <2>4. CASE ~ TryAgain(o)
    <3>1. /\ wk' = "idle" /\ job' = None /\ attempt' = 1
          /\ left' = {} /\ one' = None /\ found' = {} /\ rf' = "done"
      BY <1>4, <2>1, <2>4 DEF Upgrade, JobDone
    <3>2. WorkerHolds'
      BY <3>1 DEF WorkerHolds
    <3> QED
      BY <1>1, <1>2, <2>1, <2>2, <3>1, <3>2, WorkerStepKeepsInv DEF Busy
  <2> QED
    BY <2>3, <2>4
<1>5. CASE Install(o)
  <2>1. wk = "install" /\ job \in Req
    BY <1>5 DEF Install, IInv, WorkerHolds
  <2>2. /\ UNCHANGED reqVars /\ watchers' = watchers /\ queue' = queue
        /\ known' = known /\ stale' = stale /\ pending' = pending /\ future' = future
        /\ job' = job /\ found' = found /\ rf' = rf
    BY <1>5 DEF Install
  <2>3. installed' \subseteq Dep
    BY <1>2, <1>5, <2>1 DEF Install
  <2>4. /\ attempt' \in 1..RETRIES /\ left' \subseteq Dep /\ one' \in Dep \cup {None}
        /\ wk' \in {"install", "each", "verify"}
        /\ wk' = "each" => one' \in Dep
    BY <1>1, <1>2, <1>5, <2>1 DEF Install, Goto, TryAgain
  <2>5. WorkerHolds' /\ wk' \in Busy
    BY <2>1, <2>2, <2>4 DEF WorkerHolds, Busy
  <2> QED
    BY <1>2, <2>2, <2>3, <2>4, <2>5, WorkerStepKeepsInv
<1>6. CASE InstallEach(o)
  <2>1. wk = "each" /\ job \in Req /\ one \in Dep
    BY <1>6 DEF InstallEach, IInv, WorkerHolds
  <2>2. /\ UNCHANGED reqVars /\ watchers' = watchers /\ queue' = queue
        /\ known' = known /\ stale' = stale /\ pending' = pending /\ future' = future
        /\ job' = job /\ found' = found /\ rf' = rf
    BY <1>6 DEF InstallEach
  <2>3. installed' \subseteq Dep
    BY <1>2, <1>6, <2>1 DEF InstallEach
  <2>4. /\ attempt' \in 1..RETRIES /\ left' \subseteq Dep /\ one' \in Dep \cup {None}
        /\ wk' \in {"each", "verify"}
        /\ wk' = "each" => one' \in Dep
    BY <1>1, <1>2, <1>6, <2>1 DEF InstallEach, Goto, TryAgain
  <2>5. WorkerHolds' /\ wk' \in Busy
    BY <2>1, <2>2, <2>4 DEF WorkerHolds, Busy
  <2> QED
    BY <1>2, <2>2, <2>3, <2>4, <2>5, WorkerStepKeepsInv
<1> QED
  BY <1>3, <1>4, <1>5, <1>6

LEMMA VerifyKeepsInv ==
  ASSUME IInv, Verify \/ JobRaises
  PROVE  IInv'
<1>1. /\ missing \in [Req -> SUBSET Dep]
      /\ left \subseteq Dep /\ one \in Dep \cup {None} /\ found \subseteq Dep
      /\ installed \subseteq Dep /\ known \subseteq Dep /\ stale \in BOOLEAN
      /\ rf \in {"wait", "queued", "done", "sleep"}
      /\ attempt \in 1..RETRIES /\ 1 \in 1..RETRIES
  BY DEF IInv, TypeOK
<1>2. job \in Req \cup {Refresh, None}
  BY DEF IInv, TypeOK
<1>3. ASSUME JobDone("idle")
      PROVE  /\ attempt' \in 1..RETRIES /\ left' \subseteq Dep
             /\ one' \in Dep \cup {None} /\ found' \subseteq Dep
             /\ rf' \in {"wait", "queued", "done", "sleep"}
             /\ wk' \in Busy \cup {"idle", "stopped"} /\ job' = None /\ WorkerHolds'
  BY <1>1, <1>3 DEF JobDone, WorkerHolds
<1>4. CASE Verify
  <2>1. wk = "verify" /\ job \in Req
    BY <1>4 DEF Verify, IInv, WorkerHolds
  <2>2. /\ UNCHANGED reqVars /\ watchers' = watchers /\ queue' = queue
        /\ installed' = installed /\ stale' = stale
    BY <1>4 DEF Verify
  <2>3. PICK d \in left :
          /\ known' = known \cup Present(d)
          /\ IF left = {d}
               THEN Finish(missing[job], found \cup Present(d)) /\ JobDone("idle")
               ELSE /\ found' = found \cup Present(d)
                    /\ left' = left \ {d}
                    /\ UNCHANGED <<pending, future, wk, job, attempt, one, rf>>
    BY <1>4 DEF Verify
  <2>4. Present(d) \subseteq Dep /\ known' \subseteq Dep
    BY <1>1, <2>3 DEF Present
  <2>5. CASE left = {d}
    <3>1. Finish(missing[job], found \cup Present(d)) /\ JobDone("idle")
      BY <2>3, <2>5
    <3>2. \E good : Finish(missing[job], good)
      BY <3>1
    <3> QED
      BY <1>1, <1>3, <2>1, <2>2, <2>4, <3>1, <3>2, WorkerStepKeepsInv
  <2>6. CASE left # {d}
    <3>1. /\ found' \subseteq Dep /\ left' \subseteq Dep
          /\ pending' = pending /\ future' = future /\ wk' = wk /\ job' = job
          /\ attempt' = attempt /\ one' = one /\ rf' = rf
      BY <1>1, <2>3, <2>4, <2>6
    <3>2. WorkerHolds' /\ wk' \in Busy
      BY <2>1, <3>1 DEF WorkerHolds, Busy
    <3> QED
      BY <1>1, <2>1, <2>2, <2>4, <3>1, <3>2, WorkerStepKeepsInv
  <2> QED
    BY <2>5, <2>6
<1>5. CASE JobRaises
  <2>1. /\ UNCHANGED reqVars /\ watchers' = watchers /\ queue' = queue
        /\ known' = known /\ installed' = installed /\ stale' = stale
        /\ JobDone("idle")
    BY <1>5 DEF JobRaises
  <2>2. CASE job \in Req
    <3>1. \E good : Finish(missing[job], good)
      BY <1>5, <2>2 DEF JobRaises
    <3> QED
      BY <1>1, <1>3, <2>1, <2>2, <3>1, WorkerStepKeepsInv
  <2>3. CASE job \notin Req
    <3>1. pending' = pending /\ future' = future
      BY <1>5, <2>3 DEF JobRaises
    <3> QED
      BY <1>1, <1>3, <2>1, <2>3, <3>1, WorkerStepKeepsInv
  <2> QED
    BY <2>2, <2>3
<1> QED
  BY <1>4, <1>5

LEMMA StopKeepsInv ==
  ASSUME IInv, Stop
  PROVE  IInv'
<1> DEFINE gone == {q \in Req : pc[q] \in Active}
<1>1. /\ pc' = [q \in Req |-> IF q \in gone THEN "cancelled" ELSE pc[q]]
      /\ watchers' = [d \in Dep |-> watchers[d] \ {q \in gone : pc[q] = "wait"}]
      /\ todo' = [q \in Req |-> IF q \in gone THEN {} ELSE todo[q]]
      /\ cur' = [q \in Req |-> IF q \in gone THEN None ELSE cur[q]]
      /\ seen' = [q \in Req |-> q \notin gone /\ seen[q]]
      /\ waiting' = [q \in Req |-> IF q \in gone THEN [d \in Dep |-> None] ELSE waiting[q]]
  BY DEF Stop, Abandon
<1>2. /\ missing' = missing /\ queue' = queue /\ want' = want /\ settled' = settled
      /\ known' = known /\ installed' = installed /\ stale' = stale
      /\ JobDone("stopped")
  BY DEF Stop
<1>3. /\ wk' = "stopped" /\ job' = None /\ attempt' = 1 /\ left' = {} /\ one' = None
      /\ found' = {} /\ rf' \in {"wait", "queued", "done", "sleep"}
  BY <1>2 DEF JobDone, IInv, TypeOK
<1>4. WorkerHolds'
  BY <1>3 DEF WorkerHolds
<1>5. /\ pending' \in [Dep -> Req \cup {None}] /\ future' \in [Dep -> [Req -> FutureState]]
      /\ \/ job \in Req /\ job' = None /\ \E good : Finish(missing[job], good)
         \/ pending' = pending /\ future' = future /\ job \notin Req /\ job' = None
  <2>1. CASE job \in Req
    <3>1. Finish(missing[job], {})
      BY <2>1 DEF Stop
    <3>2. \E good : Finish(missing[job], good)
      BY <3>1
    <3> QED
      BY <1>3, <2>1, <3>2, FinishFacts
  <2>2. CASE job \notin Req
    <3>1. pending' = pending /\ future' = future
      BY <2>2 DEF Stop
    <3> QED
      BY <1>3, <2>2, <3>1 DEF IInv, TypeOK
  <2> QED
    BY <2>1, <2>2
<1>6. TypeOK'
  <2>1. pc' \in [Req -> Active \cup Over \cup {"idle"}]
    BY <1>1 DEF IInv, TypeOK, Over
  <2>2. waiting' \in [Req -> [Dep -> Req \cup {None}]]
    BY <1>1 DEF IInv, TypeOK
  <2>3. watchers' \in [Dep -> SUBSET Req]
    BY <1>1 DEF IInv, TypeOK
  <2>4. /\ todo' \in [Req -> SUBSET Dep] /\ cur' \in [Req -> Dep \cup {None}]
        /\ seen' \in [Req -> BOOLEAN]
    BY <1>1 DEF IInv, TypeOK
  <2>5. 1 \in 1..RETRIES
    OBVIOUS
  <2> QED
    BY <1>2, <1>3, <1>5, <2>1, <2>2, <2>3, <2>4, <2>5 DEF IInv, TypeOK
<1>7. \A q \in Req : pc'[q] = pc[q] \/ pc'[q] = "cancelled"
  BY <1>1
<1>8. \A q \in Req : pc'[q] # pc[q] => \A d \in Dep : waiting'[q][d] = None
  BY <1>1
<1>9. \A q \in Req : pc'[q] = pc[q] =>
        /\ waiting'[q] = waiting[q]
        /\ cur'[q] = cur[q]
        /\ \A d \in Dep : q \in watchers'[d] <=> q \in watchers[d]
  <2>1. \A q \in Req : q \in gone => pc'[q] # pc[q]
    BY <1>1 DEF Active, Scanning
  <2> QED
    BY <1>1, <2>1
<1> QED
  BY <1>2, <1>4, <1>5, <1>6, <1>7, <1>8, <1>9, SettleKeepsInv

(* Steps that only move jobs about: requests and futures stay. *)
LEMMA QueueStepKeepsInv ==
  ASSUME IInv, UNCHANGED reqVars, UNCHANGED <<pending, future, watchers>>,
         LiveJobs' = LiveJobs, TypeOK', WorkerHolds',
         \A i, j \in 1..Len(queue') :
           queue'[i] \in Req /\ queue'[i] = queue'[j] => i = j,
         \A i \in 1..Len(queue') : queue'[i] \in Req => queue'[i] # job'
  PROVE  IInv'
<1>1. UNCHANGED <<pc, want, todo, cur, seen, missing, waiting, settled>>
  BY DEF reqVars
<1>2. PendingIsOpen' /\ FutureIsMissing' /\ WaitsOnFuture' /\ ScanOwes'
  BY <1>1 DEF IInv, PendingIsOpen, FutureIsMissing, WaitsOnFuture, ScanOwes
<1>3. JobsDistinct'
  BY <1>1 DEF IInv, JobsDistinct
<1>4. CurOk' /\ OverWaitsOnNothing' /\ WatchersAreWaiters' /\ QueuedIsPending'
  BY <1>1 DEF IInv, CurOk, OverWaitsOnNothing, WatchersAreWaiters, QueuedIsPending
<1> QED
  BY <1>2, <1>3, <1>4 DEF IInv

(* Taking a job from the queue keeps it live. *)
LEMMA TakeLive ==
  ASSUME IInv, Take
  PROVE  LiveJobs' = LiveJobs
<1>1. /\ queue \in Seq(Req \cup {Refresh}) /\ queue # <<>> /\ queue' = Tail(queue)
      /\ job = None
  BY DEF Take, IInv, TypeOK, WorkerHolds
<1>3. /\ Len(queue) \in Nat /\ Len(queue) > 0 /\ Len(queue') = Len(queue) - 1
      /\ \A i \in 1..Len(queue') : queue'[i] = queue[i + 1] /\ i + 1 \in 1..Len(queue)
      /\ Head(queue) = queue[1] /\ 1 \in 1..Len(queue)
      /\ \A i \in 1..Len(queue) : i # 1 => /\ i - 1 \in 1..Len(queue')
                                           /\ queue'[i - 1] = queue[i]
  BY <1>1
<1>4. job' \in {Head(queue), None} /\ (Head(queue) # Refresh => job' = Head(queue))
  BY DEF Take
<1>5. ASSUME NEW r \in Req, r \in LiveJobs PROVE r \in LiveJobs'
  <2>1. PICK i \in 1..Len(queue) : queue[i] = r
    BY <1>1, <1>5 DEF LiveJobs
  <2>2. CASE i = 1
    BY <1>3, <1>4, <2>1, <2>2 DEF LiveJobs
  <2>3. CASE i # 1
    BY <1>3, <2>1, <2>3 DEF LiveJobs
  <2> QED
    BY <2>2, <2>3
<1>6. ASSUME NEW r \in Req, r \in LiveJobs' PROVE r \in LiveJobs
  <2>1. CASE job' = r
    BY <1>3, <1>4, <2>1 DEF LiveJobs
  <2>2. CASE \E i \in 1..Len(queue') : queue'[i] = r
    BY <1>3, <2>2 DEF LiveJobs
  <2> QED
    BY <1>6, <2>1, <2>2 DEF LiveJobs
<1> QED
  BY <1>5, <1>6 DEF LiveJobs

LEMMA TakeKeepsInv ==
  ASSUME IInv, Take
  PROVE  IInv'
<1>1. /\ queue \in Seq(Req \cup {Refresh}) /\ queue # <<>> /\ queue' = Tail(queue)
      /\ wk = "idle" /\ job = None
  BY DEF Take, IInv, TypeOK, WorkerHolds
<1>2. /\ UNCHANGED reqVars /\ UNCHANGED <<pending, future, watchers>>
      /\ UNCHANGED <<known, installed, stale, attempt, left, one, found>>
  BY DEF Take
<1>3. /\ Len(queue) \in Nat /\ Len(queue) > 0 /\ Len(queue') = Len(queue) - 1
      /\ \A i \in 1..Len(queue') : queue'[i] = queue[i + 1] /\ i + 1 \in 1..Len(queue)
      /\ Head(queue) = queue[1] /\ 1 \in 1..Len(queue)
      /\ \A i \in 1..Len(queue) : i # 1 => /\ i - 1 \in 1..Len(queue')
                                           /\ queue'[i - 1] = queue[i]
      /\ queue' \in Seq(Req \cup {Refresh}) /\ Head(queue) \in Req \cup {Refresh}
  BY <1>1
<1>4. /\ job' \in {Head(queue), None} /\ (Head(queue) # Refresh => job' = Head(queue))
      /\ wk' \in Busy \cup {"idle"} /\ rf' \in {rf, "done"} /\ WorkerHolds'
  <2>1. CASE Head(queue) = Refresh /\ known = {}
    BY <2>1 DEF Take, WorkerHolds
  <2>2. CASE ~ (Head(queue) = Refresh /\ known = {})
    BY <1>3, <2>2 DEF Take, WorkerHolds, Busy
  <2> QED
    BY <2>1, <2>2
<1>5. TypeOK'
  <2>1. rf' \in {"wait", "queued", "done", "sleep"} /\ job' \in Req \cup {Refresh, None}
    BY <1>3, <1>4 DEF IInv, TypeOK
  <2> QED
    BY <1>2, <1>3, <1>4, <2>1 DEF IInv, TypeOK, reqVars
<1>6. LiveJobs' = LiveJobs
  BY TakeLive
<1>7. \A i, j \in 1..Len(queue') : queue'[i] \in Req /\ queue'[i] = queue'[j] => i = j
  <2> SUFFICES ASSUME NEW i \in 1..Len(queue'), NEW j \in 1..Len(queue'),
                      queue'[i] \in Req, queue'[i] = queue'[j]
               PROVE  i = j
    OBVIOUS
  <2>1. i + 1 = j + 1
    BY <1>3 DEF IInv, JobsDistinct
  <2> QED
    BY <2>1
<1>8. \A i \in 1..Len(queue') : queue'[i] \in Req => queue'[i] # job'
  <2> SUFFICES ASSUME NEW i \in 1..Len(queue'), queue'[i] \in Req, queue'[i] = job'
               PROVE  FALSE
    OBVIOUS
  <2>1. queue[i + 1] = queue[1] /\ queue[i + 1] \in Req
    BY <1>3, <1>4
  <2>2. i + 1 = 1
    BY <1>3, <2>1 DEF IInv, JobsDistinct
  <2> QED
    BY <2>2
<1> QED
  BY <1>2, <1>4, <1>5, <1>6, <1>7, <1>8, QueueStepKeepsInv

LEMMA RefresherKeepsInv ==
  ASSUME IInv, QueueRefresh \/ RefreshWake \/ DayPasses
  PROVE  IInv'
<1>1. /\ UNCHANGED reqVars /\ UNCHANGED <<pending, future, watchers>>
      /\ UNCHANGED <<known, installed, wk, job, attempt, left, one, found>>
  BY DEF QueueRefresh, RefreshWake, DayPasses, workVars
<1>2. /\ rf' \in {"wait", "queued", "done", "sleep"} /\ stale' \in BOOLEAN
      /\ queue \in Seq(Req \cup {Refresh})
  BY DEF IInv, TypeOK, QueueRefresh, RefreshWake, DayPasses
<1>3. WorkerHolds'
  BY <1>1 DEF IInv, WorkerHolds
<1>4. CASE QueueRefresh
  <2>1. queue' = Append(queue, Refresh)
    BY <1>4 DEF QueueRefresh
  <2>2. LiveJobs' = LiveJobs
    <3>1. LiveJobs' = LiveJobs \cup ({Refresh} \cap Req)
      BY <1>1, <1>2, <2>1, AppendLive
    <3>2. {Refresh} \cap Req = {}
      OBVIOUS
    <3> QED
      BY <3>1, <3>2
  <2>3. /\ Len(queue') = Len(queue) + 1 /\ Len(queue) \in Nat
        /\ queue' \in Seq(Req \cup {Refresh})
        /\ \A i \in 1..Len(queue') : queue'[i] \in Req =>
             i \in 1..Len(queue) /\ queue'[i] = queue[i]
    BY <1>2, <2>1
  <2>4. TypeOK'
    BY <1>1, <1>2, <2>3 DEF IInv, TypeOK, reqVars
  <2>5. /\ \A i, j \in 1..Len(queue') :
             queue'[i] \in Req /\ queue'[i] = queue'[j] => i = j
        /\ \A i \in 1..Len(queue') : queue'[i] \in Req => queue'[i] # job'
    BY <1>1, <2>3 DEF IInv, JobsDistinct
  <2> QED
    BY <1>1, <1>3, <2>2, <2>4, <2>5, QueueStepKeepsInv
<1>5. CASE RefreshWake \/ DayPasses
  <2>1. queue' = queue
    BY <1>5 DEF RefreshWake, DayPasses
  <2>2. TypeOK'
    BY <1>1, <1>2, <2>1 DEF IInv, TypeOK, reqVars
  <2>3. LiveJobs' = LiveJobs
    BY <1>1, <2>1 DEF LiveJobs
  <2>4. /\ \A i, j \in 1..Len(queue') :
             queue'[i] \in Req /\ queue'[i] = queue'[j] => i = j
        /\ \A i \in 1..Len(queue') : queue'[i] \in Req => queue'[i] # job'
    BY <1>1, <2>1 DEF IInv, JobsDistinct
  <2> QED
    BY <1>1, <1>3, <2>2, <2>3, <2>4, QueueStepKeepsInv
<1> QED
  BY <1>4, <1>5

LEMMA StutterKeepsInv ==
  ASSUME IInv, UNCHANGED vars
  PROVE  IInv'
<1>1. /\ UNCHANGED reqVars /\ UNCHANGED <<pending, future, watchers>>
      /\ UNCHANGED <<known, installed, stale, queue, wk, job, attempt, left, one,
                     found, rf>>
  BY DEF vars, reqVars
<1>2. TypeOK' /\ WorkerHolds' /\ LiveJobs' = LiveJobs
  BY <1>1 DEF IInv, TypeOK, WorkerHolds, LiveJobs, reqVars
<1>3. /\ \A i, j \in 1..Len(queue') :
           queue'[i] \in Req /\ queue'[i] = queue'[j] => i = j
      /\ \A i \in 1..Len(queue') : queue'[i] \in Req => queue'[i] # job'
  BY <1>1 DEF IInv, JobsDistinct
<1> QED
  BY <1>1, <1>2, <1>3, QueueStepKeepsInv

LEMMA StepKeepsInv == IInv /\ [Next]_vars => IInv'
<1> SUFFICES ASSUME IInv, [Next]_vars PROVE IInv'
  OBVIOUS
<1>1. CASE \E r \in Req : Request(r)
  <2> PICK r \in Req : Request(r)
    BY <1>1
  <2>1. CASE Arrive(r)
    BY <2>1, ArriveKeepsInv
  <2>2. CASE ReadVersion(r)
    BY <2>2, ReadVersionKeepsInv
  <2>3. CASE CheckedPresent(r) \/ CheckedMissing(r)
    BY <2>3, CheckedKeepsInv
  <2>4. CASE Deliver(r) \/ TimeOut(r)
    BY <2>4, DeliverKeepsInv
  <2>5. CASE Cancel(r)
    BY <2>5, CancelKeepsInv
  <2> QED
    BY <2>1, <2>2, <2>3, <2>4, <2>5 DEF Request
<1>2. CASE Worker
  <2>1. CASE Take
    BY <2>1, TakeKeepsInv
  <2>2. CASE Verify \/ JobRaises
    BY <2>2, VerifyKeepsInv
  <2>3. CASE \E o \in Outcome : Update(o) \/ Upgrade(o) \/ Install(o) \/ InstallEach(o)
    BY <2>3, CommandKeepsInv
  <2> QED
    BY <1>2, <2>1, <2>2, <2>3 DEF Worker
<1>3. CASE Stop
  BY <1>3, StopKeepsInv
<1>4. CASE QueueRefresh \/ RefreshWake \/ DayPasses
  BY <1>4, RefresherKeepsInv
<1>5. CASE Quiet \/ UNCHANGED vars
  BY <1>5, StutterKeepsInv DEF Quiet
<1> QED
  BY <1>1, <1>2, <1>3, <1>4, <1>5 DEF Next

(* The inductive invariant holds in every reachable state. *)
THEOREM Invariance == Spec => []IInv
  BY InitInv, StepKeepsInv, PTL DEF Spec

(* Every variable keeps its type: no attempt beyond RETRIES (_retry), no   *)
(* status but the three a request may report.                              *)
THEOREM TypeCorrect == Spec => []TypeOK
<1>1. IInv => TypeOK
  BY DEF IInv
<1> QED
  BY <1>1, Invariance, PTL

(* What a queued or running job owes is pending under its request's        *)
(* future, so a later request joins it (resolve, _ready).                  *)
THEOREM QueuedStaysPending == Spec => []QueuedIsPending
<1>1. IInv => QueuedIsPending
  BY DEF IInv
<1> QED
  BY <1>1, Invariance, PTL

(* No request waits on an open future that _finish will never find.        *)
THEOREM NoLostWait == Spec => []WaitsOnPending
<1>1. IInv => WaitsOnPending
  <2> SUFFICES ASSUME IInv, NEW r \in Req, NEW d \in Dep, waiting[r][d] # None,
                      future[d][waiting[r][d]] = "open"
               PROVE  pending[d] = waiting[r][d]
    BY DEF WaitsOnPending
  <2>1. waiting[r][d] \in Req
    BY DEF IInv, TypeOK
  <2> QED
    BY <2>1 DEF IInv, PendingIsOpen
<1> QED
  BY <1>1, Invariance, PTL

(* Package output goes to exactly the requests still waiting (_wait and    *)
(* the finally of resolve).                                                *)
THEOREM WatchersCorrect == Spec => []WatchersAreWaiters
<1>1. IInv => WatchersAreWaiters
  BY DEF IInv
<1> QED
  BY <1>1, Invariance, PTL

(* No dependency is installed by two jobs: those queued or running owe     *)
(* different dependencies.                                                 *)
JobsAreDisjoint ==
  \A q, r \in LiveJobs : q # r => missing[q] \cap missing[r] = {}

THEOREM NoDoubleInstall == Spec => []JobsAreDisjoint
<1>1. QueuedIsPending => JobsAreDisjoint
  BY DEF QueuedIsPending, JobsAreDisjoint
<1> QED
  BY <1>1, QueuedStaysPending, PTL
-----------------------------------------------------------------------------
(* Whatever is pending is owed *)

HasLeft == Scanning \cup {"cancelled"}

(* A step that neither creates nor abandons what is owed. *)
LEMMA StaysOwed ==
  ASSUME PendingIsOwed,
         \A d \in Dep, q \in Req : pending'[d] = q =>
            pending[d] = q /\ (q \in LiveJobs => q \in LiveJobs'),
         \A q \in Req : pc[q] \in HasLeft => pc'[q] \in HasLeft
  PROVE  PendingIsOwed'
  BY DEF PendingIsOwed, HasLeft

(* A request that goes on owes what it creates: it checks the next one, or *)
(* its job, which is not empty then, is in the queue.                      *)
LEMMA ProceedStaysOwed ==
  ASSUME IInv, PendingIsOwed, NEW r \in Req, pc[r] \in Scanning \cup {"idle"},
         NEW new \in SUBSET Dep, NEW held, NEW rest,
         Proceed(r, new, held, rest), UNCHANGED workVars
  PROVE  PendingIsOwed'
<1>1. /\ pc \in [Req -> Active \cup Over \cup {"idle"}]
      /\ missing \in [Req -> SUBSET Dep]
      /\ pending \in [Dep -> Req \cup {None}]
      /\ queue \in Seq(Req \cup {Refresh})
      /\ job' = job
  BY DEF IInv, TypeOK, workVars
<1>2. /\ missing'[r] = missing[r] \cup new
      /\ \A d \in Dep : pending'[d] = IF d \in new THEN r ELSE pending[d]
  BY <1>1 DEF Proceed
<1>3. \/ pc' = [pc EXCEPT ![r] = "checking"] /\ queue' = queue
      \/ /\ pc' = [pc EXCEPT ![r] = "wait"] \/ pc' = [pc EXCEPT ![r] = "done"]
         /\ queue' = IF missing'[r] = {} THEN queue ELSE Append(queue, r)
  BY DEF Proceed, CheckNext, EndLoop
<1>4. \A q \in Req : q # r => pc'[q] = pc[q]
  BY <1>1, <1>3
<1>5. LiveJobs' = LiveJobs \/ LiveJobs' = LiveJobs \cup {r}
  <2>1. CASE queue' = queue
    BY <1>1, <2>1 DEF LiveJobs
  <2>2. CASE queue' = Append(queue, r)
    BY <1>1, <2>2, AppendLive
  <2> QED
    BY <1>3, <2>1, <2>2
<1> SUFFICES ASSUME NEW d \in Dep, NEW q \in Req, pending'[d] = q
             PROVE  q \in LiveJobs' \/ pc'[q] \in HasLeft
  BY DEF PendingIsOwed, HasLeft
<1>6. CASE q # r
  <2>1. pending[d] = q
    BY <1>2, <1>6
  <2> QED
    BY <1>4, <1>5, <1>6, <2>1 DEF PendingIsOwed, HasLeft
<1>7. CASE q = r
  <2>1. d \in missing'[r]
    <3>1. CASE d \in new
      BY <1>2, <3>1
    <3>2. CASE d \notin new
      <4>1. pending[d] = r
        BY <1>2, <1>7, <3>2
      <4>2. d \in missing[r]
        BY <4>1 DEF IInv, PendingIsOpen, FutureIsMissing
      <4> QED
        BY <1>2, <4>2
    <3> QED
      BY <3>1, <3>2
  <2>2. CASE pc' = [pc EXCEPT ![r] = "checking"]
    BY <1>1, <1>7, <2>2 DEF HasLeft, Scanning
  <2>3. CASE queue' = Append(queue, r)
    <3>1. LiveJobs' = LiveJobs \cup {r}
      BY <1>1, <2>3, AppendLive
    <3> QED
      BY <1>7, <3>1
  <2> QED
    BY <1>3, <2>1, <2>2, <2>3
<1> QED
  BY <1>6, <1>7

LEMMA RequestStaysOwed ==
  ASSUME IInv, PendingIsOwed, NEW r \in Req, Request(r)
  PROVE  PendingIsOwed'
<1>1. pc \in [Req -> Active \cup Over \cup {"idle"}] /\ cur[r] \in Dep \cup {None}
  BY DEF IInv, TypeOK
<1>2. CASE Arrive(r)
  <2>1. PICK deps \in SUBSET Dep : Proceed(r, {}, {}, deps)
    BY <1>2 DEF Arrive
  <2> QED
    BY <1>2, <2>1, ProceedStaysOwed DEF Arrive
<1>3. CASE CheckedPresent(r)
  BY <1>3, ProceedStaysOwed DEF CheckedPresent, Scanning
<1>4. CASE CheckedMissing(r)
  <2>1. pc[r] \in Scanning /\ cur[r] \in Dep
    BY <1>4 DEF CheckedMissing, Scanning, IInv, CurOk
  <2>2. NewlyMissing(r) \in SUBSET Dep
    BY <2>1 DEF NewlyMissing
  <2> QED
    BY <1>4, <2>1, <2>2, ProceedStaysOwed DEF CheckedMissing
<1>5. CASE ReadVersion(r) \/ Deliver(r) \/ TimeOut(r) \/ Cancel(r)
  <2>1. pending' = pending /\ queue' = queue /\ job' = job
    BY <1>5 DEF ReadVersion, Deliver, TimeOut, Report, Cancel, workVars
  <2>2. LiveJobs' = LiveJobs
    BY <2>1 DEF LiveJobs
  <2>3. \A q \in Req : pc[q] \in HasLeft => pc'[q] \in HasLeft
    <3>1. CASE ReadVersion(r)
      BY <1>1, <3>1 DEF ReadVersion, HasLeft, Scanning
    <3>2. CASE Deliver(r) \/ TimeOut(r)
      <4>1. pc[r] = "wait" /\ (pc' = pc \/ pc' = [pc EXCEPT ![r] = "done"])
        BY <3>2 DEF Deliver, TimeOut, Report
      <4> QED
        BY <1>1, <4>1 DEF HasLeft, Scanning
    <3>3. CASE Cancel(r)
      BY <1>1, <3>3 DEF Cancel, Abandon, HasLeft, Scanning
    <3> QED
      BY <1>5, <3>1, <3>2, <3>3
  <2> QED
    BY <2>1, <2>2, <2>3, StaysOwed
<1> QED
  BY <1>2, <1>3, <1>4, <1>5 DEF Request

(* The worker forgets its job when all the job owed is settled. *)
LEMMA SettledIsOwedNoMore ==
  ASSUME IInv, PendingIsOwed, queue' = queue, job' \in {job, None},
         \/ job' = job /\ pending' = pending
         \/ job \in Req /\ \E good : Finish(missing[job], good)
         \/ job \notin Req /\ pending' = pending,
         \A q \in Req : pc[q] \in HasLeft => pc'[q] \in HasLeft
  PROVE  PendingIsOwed'
<1>1. CASE job' = job /\ pending' = pending
  <2>1. LiveJobs' = LiveJobs
    BY <1>1 DEF LiveJobs
  <2> QED
    BY <1>1, <2>1, StaysOwed
<1>2. CASE job \in Req /\ \E good : Finish(missing[job], good)
  <2>1. /\ \A d \in Dep : pending'[d] # job
        /\ \A d \in Dep, q \in Req : q # job => (pending'[d] = q <=> pending[d] = q)
    BY <1>2, FinishFacts
  <2>2. \A q \in Req : q # job /\ q \in LiveJobs => q \in LiveJobs'
    BY DEF LiveJobs
  <2> QED
    BY <2>1, <2>2, StaysOwed
<1>3. CASE job \notin Req /\ pending' = pending
  <2>1. \A q \in Req : q \in LiveJobs => q \in LiveJobs'
    BY <1>3 DEF LiveJobs
  <2> QED
    BY <1>3, <2>1, StaysOwed
<1> QED
  BY <1>1, <1>2, <1>3

LEMMA WorkerStaysOwed ==
  ASSUME IInv, PendingIsOwed, Worker
  PROVE  PendingIsOwed'
<1>1. CASE Take
  <2>1. pending' = pending /\ pc' = pc
    BY <1>1 DEF Take, reqVars
  <2> QED
    BY <1>1, <2>1, TakeLive, StaysOwed
<1>2. CASE ~ Take
  <2>1. pc' = pc /\ queue' = queue
    BY <1>2 DEF Worker, Verify, JobRaises, Update, Upgrade, Install, InstallEach, reqVars
  <2>2. CASE Verify
    <3>1. PICK d \in left : IF left = {d}
             THEN Finish(missing[job], found \cup Present(d)) /\ JobDone("idle")
             ELSE UNCHANGED <<pending, job>>
      BY <2>2 DEF Verify
    <3>2. job \in Req
      BY <2>2 DEF Verify, IInv, WorkerHolds
    <3>3. CASE left = {d}
      BY <2>1, <3>1, <3>2, <3>3, SettledIsOwedNoMore DEF JobDone
    <3>4. CASE left # {d}
      BY <2>1, <3>1, <3>4, SettledIsOwedNoMore
    <3> QED
      BY <3>3, <3>4
  <2>3. CASE JobRaises
    BY <2>1, <2>3, SettledIsOwedNoMore DEF JobRaises, JobDone
  <2>4. CASE \E o \in Outcome : Install(o) \/ InstallEach(o)
    BY <2>1, <2>4, SettledIsOwedNoMore DEF Install, InstallEach
  <2>5. CASE \E o \in Outcome : Update(o)
    <3>1. PICK o \in Outcome : Update(o)
      BY <2>5
    <3>2. pending' = pending
      BY <3>1 DEF Update
    <3>3. CASE ~ TryAgain(o) /\ job = Refresh /\ o # "ok"
      <4>1. job' = None /\ job \notin Req
        BY <3>1, <3>3 DEF Update, JobDone
      <4> QED
        BY <2>1, <3>2, <4>1, SettledIsOwedNoMore
    <3>4. CASE ~ (~ TryAgain(o) /\ job = Refresh /\ o # "ok")
      <4>1. job' = job
        BY <3>1, <3>4 DEF Update
      <4> QED
        BY <2>1, <3>2, <4>1, SettledIsOwedNoMore
    <3> QED
      BY <3>3, <3>4
  <2>6. CASE \E o \in Outcome : Upgrade(o)
    <3>1. /\ pending' = pending /\ job = Refresh /\ job' \in {job, None}
      BY <2>6 DEF Upgrade, JobDone, IInv, WorkerHolds
    <3> QED
      BY <2>1, <3>1, SettledIsOwedNoMore
  <2> QED
    BY <1>2, <2>2, <2>3, <2>4, <2>5, <2>6 DEF Worker
<1> QED
  BY <1>1, <1>2

LEMMA RestStaysOwed ==
  ASSUME IInv, PendingIsOwed,
         Stop \/ QueueRefresh \/ RefreshWake \/ DayPasses \/ UNCHANGED vars
  PROVE  PendingIsOwed'
<1>1. CASE Stop
  <2>1. queue' = queue /\ job' = None
    BY <1>1 DEF Stop, JobDone
  <2>2. \/ job \in Req /\ Finish(missing[job], {})
        \/ job \notin Req /\ pending' = pending
    BY <1>1 DEF Stop
  <2>3. \A q \in Req : pc[q] \in HasLeft => pc'[q] \in HasLeft
    BY <1>1 DEF Stop, Abandon, HasLeft
  <2> QED
    BY <2>1, <2>2, <2>3, SettledIsOwedNoMore
<1>2. CASE QueueRefresh
  <2>1. pc' = pc /\ pending' = pending /\ job' = job /\ queue' = Append(queue, Refresh)
    BY <1>2 DEF QueueRefresh, reqVars, workVars
  <2>2. queue \in Seq(Req \cup {Refresh})
    BY DEF IInv, TypeOK
  <2>3. LiveJobs' = LiveJobs \cup ({Refresh} \cap Req)
    BY <2>1, <2>2, AppendLive
  <2> QED
    BY <2>1, <2>3, StaysOwed
<1>3. CASE RefreshWake \/ DayPasses \/ UNCHANGED vars
  <2>1. pc' = pc /\ pending' = pending /\ job' = job /\ queue' = queue
    BY <1>3 DEF RefreshWake, DayPasses, vars, reqVars, workVars
  <2> QED
    BY <2>1, SettledIsOwedNoMore
<1> QED
  BY <1>1, <1>2, <1>3

(* Whatever is pending will be settled, but for what a request left behind *)
(* that was cancelled before it queued its job.                            *)
THEOREM PendingStaysOwed == Spec => []PendingIsOwed
<1>1. Init => PendingIsOwed
  BY DEF Init, PendingIsOwed
<1>2. IInv /\ PendingIsOwed /\ [Next]_vars => PendingIsOwed'
  BY RequestStaysOwed, WorkerStaysOwed, RestStaysOwed DEF Next, Quiet
<1> QED
  BY <1>1, <1>2, Invariance, PTL DEF Spec
---------------------------------------------------------------------------
(***************************************************************************)
(* The resolver implements DepPromise, for any number of requests,         *)
(* dependencies and retries: a step of a request that reports statuses is  *)
(* a Report, a client that goes away a Drop, a command of the package      *)
(* manager an Install, and all else a stutter.                             *)
(*                                                                         *)
(* Two things have to hold for that.  What a request has not reported yet  *)
(* is exactly what its loop still holds somewhere (Books), so it answers   *)
(* with the last status and not before.  And "ready" is said of what is on *)
(* the host only, wherever the word comes from (Truth).                    *)
(***************************************************************************)

(* What request r holds: still to look at, at hand, or waited on. *)
Held(r) == {d \in Dep : d \in todo[r] \/ d = cur[r] \/ waiting[r][d] # None}

(* What it has still to report. *)
Unsaid(r) == {d \in want[r] : settled[r][d] = "none"}

Book(r) ==
  /\ pc[r] = "idle" => want[r] = {} /\ \A d \in Dep : settled[r][d] = "none"
  /\ pc[r] \in Active => Held(r) = Unsaid(r) /\ want[r] # {}
  /\ pc[r] \in Scanning => /\ cur[r] \notin todo[r]
                           /\ \A d \in todo[r] \cup {cur[r]} : waiting[r][d] = None
  /\ pc[r] = "wait" => /\ todo[r] = {} /\ cur[r] = None
                       /\ \E d \in Dep : waiting[r][d] # None

Books == \A r \in Req : Book(r)

Truth ==
  /\ \A r \in Req : pc[r] = "checked" /\ seen[r] => cur[r] \in installed
  /\ \A d \in Dep, r \in Req : future[d][r] = "ready" => d \in installed
  /\ found \subseteq installed

RInv == Books /\ Truth

closedBar == [r \in Req |-> IF pc[r] = "done" THEN "answered"
                            ELSE IF pc[r] = "cancelled" THEN "dropped" ELSE "no"]
-----------------------------------------------------------------------------

LEMMA InitRefines == Init => RInv /\ Promise!Init
<1> SUFFICES ASSUME Init PROVE RInv /\ Promise!Init
  OBVIOUS
<1>1. Books
  BY DEF Init, Books, Book, Active, Scanning
<1>2. Truth
  BY DEF Init, Truth
<1>3. Promise!Init
  BY DEF Init, Promise!Init
<1> QED
  BY <1>1, <1>2, <1>3 DEF RInv

(* The books of a request no one touches. *)
LEMMA BookStays ==
  ASSUME NEW r \in Req, Book(r), pc'[r] = pc[r], want'[r] = want[r], todo'[r] = todo[r],
         cur'[r] = cur[r], waiting'[r] = waiting[r], settled'[r] = settled[r]
  PROVE  Book(r)'
  BY DEF Book, Held, Unsaid

(* The loop of resolve, from one await to the next: when it goes on with   *)
(* what the request has still to report, so it does at its next await, and *)
(* it ends when that is nothing.                                           *)
LEMMA ProceedKeepsBook ==
  ASSUME IInv, NEW r \in Req, NEW new \in SUBSET Dep, NEW held \in SUBSET Dep,
         NEW rest \in SUBSET Dep, Proceed(r, new, held, rest),
         \A d \in held : d \in new \/ pending[d] # None,
         \A d \in rest : waiting[r][d] = None /\ d \notin held,
         {d \in Dep : d \in rest \cup held \/ waiting[r][d] # None} = Unsaid(r)',
         want'[r] # {}
  PROVE  /\ Book(r)' /\ pc'[r] \in {"checking", "wait", "done"}
         /\ pc'[r] = "done" <=> Unsaid(r)' = {}
         /\ \A q \in Req \ {r} : /\ pc'[q] = pc[q] /\ todo'[q] = todo[q]
                                 /\ cur'[q] = cur[q] /\ waiting'[q] = waiting[q]
<1>0. /\ pc \in [Req -> Active \cup Over \cup {"idle"}]
      /\ todo \in [Req -> SUBSET Dep] /\ cur \in [Req -> Dep \cup {None}]
      /\ waiting \in [Req -> [Dep -> Req \cup {None}]]
      /\ pending \in [Dep -> Req \cup {None}]
  BY DEF IInv, TypeOK
<1>1. PICK J \in SUBSET {d \in rest : pending[d] # None} :
        /\ waiting' = [waiting EXCEPT ![r] =
             [d \in Dep |-> IF d \in held \cup J THEN pending'[d] ELSE @[d]]]
        /\ \/ CheckNext(r, rest \ J, held \cup J)
           \/ J = rest /\ EndLoop(r, held \cup J)
  BY DEF Proceed
<1>2. pending' = [d \in Dep |-> IF d \in new THEN r ELSE pending[d]]
  BY DEF Proceed
<1>3. \A d \in held \cup J : d \in Dep /\ pending'[d] # None
  BY <1>1, <1>2, NamesAssumption
<1>4. /\ \A d \in Dep : waiting'[r][d] = IF d \in held \cup J THEN pending'[d] ELSE waiting[r][d]
      /\ \A q \in Req \ {r} : waiting'[q] = waiting[q]
  BY <1>0, <1>1
<1>5. \A d \in Dep : waiting'[r][d] # None <=> d \in held \cup J \/ waiting[r][d] # None
  BY <1>3, <1>4
<1>6. CASE CheckNext(r, rest \ J, held \cup J)
  <2>1. PICK d \in rest \ J : /\ cur' = [cur EXCEPT ![r] = d]
                              /\ todo' = [todo EXCEPT ![r] = (rest \ J) \ {d}]
    BY <1>6 DEF CheckNext
  <2>2. pc' = [pc EXCEPT ![r] = "checking"]
    BY <1>6 DEF CheckNext
  <2>3. /\ cur'[r] = d /\ todo'[r] = (rest \ J) \ {d} /\ pc'[r] = "checking"
        /\ \A q \in Req \ {r} : pc'[q] = pc[q] /\ todo'[q] = todo[q] /\ cur'[q] = cur[q]
    BY <1>0, <2>1, <2>2
  <2>4. Held(r)' = {e \in Dep : e \in rest \cup held \/ waiting[r][e] # None}
    BY <1>1, <1>5, <2>3 DEF Held
  <2>5. d \in Unsaid(r)'
    BY <2>1
  <2>6. \A e \in todo'[r] \cup {cur'[r]} : waiting'[r][e] = None
    BY <1>5, <2>3
  <2>7. Book(r)'
    BY <2>3, <2>4, <2>6 DEF Book, Active, Scanning
  <2> QED
    BY <1>4, <2>3, <2>5, <2>7
<1>7. CASE J = rest /\ EndLoop(r, held \cup J)
  <2>1. /\ cur' = [cur EXCEPT ![r] = None] /\ todo' = [todo EXCEPT ![r] = {}]
        /\ IF \A d \in Dep : waiting'[r][d] = None
             THEN pc' = [pc EXCEPT ![r] = "done"] ELSE pc' = [pc EXCEPT ![r] = "wait"]
    BY <1>7 DEF EndLoop
  <2>2. /\ cur'[r] = None /\ todo'[r] = {}
        /\ pc'[r] = IF \A d \in Dep : waiting'[r][d] = None THEN "done" ELSE "wait"
        /\ \A q \in Req \ {r} : pc'[q] = pc[q] /\ todo'[q] = todo[q] /\ cur'[q] = cur[q]
    BY <1>0, <2>1
  <2>3. Held(r)' = {d \in Dep : waiting'[r][d] # None}
    BY <2>2, NamesAssumption DEF Held
  <2>4. Held(r)' = Unsaid(r)'
    BY <1>5, <1>7, <2>3
  <2>5. Book(r)'
    BY <2>2, <2>3, <2>4 DEF Book, Active, Scanning
  <2> QED
    BY <1>4, <2>2, <2>3, <2>4, <2>5
<1> QED
  BY <1>1, <1>6, <1>7

(* Nothing that the promise speaks of changes. *)
LEMMA Stutters ==
  ASSUME UNCHANGED <<want, settled, installed>>,
         \A r \in Req : /\ pc'[r] = "done" <=> pc[r] = "done"
                        /\ pc'[r] = "cancelled" <=> pc[r] = "cancelled"
  PROVE  UNCHANGED Promise!vars
<1>1. closedBar' = closedBar
  BY DEF closedBar
<1> QED
  BY <1>1 DEF Promise!vars, closedBar

(* What makes a step a Report of the promise. *)
LEMMA Reports ==
  ASSUME NEW r \in Req, NEW deps \in SUBSET Unsaid(r), deps # {},
         NEW said \in [deps -> {"ready", "failed", "timeout"}],
         \A d \in deps : said[d] = "ready" => d \in installed,
         settled' = [settled EXCEPT ![r] = [d \in Dep |-> IF d \in deps THEN said[d] ELSE @[d]]],
         UNCHANGED <<want, installed>>,
         pc[r] \in Active, pc'[r] \in Active \cup {"done"},
         pc'[r] = "done" <=> Unsaid(r)' = {},
         \A q \in Req \ {r} : pc'[q] = pc[q]
  PROVE  Promise!Report(r)
<1>1. closedBar[r] = "no"
  BY DEF closedBar, Active, Scanning
<1>2. deps \in SUBSET {d \in want[r] : settled[r][d] = "none"}
  BY DEF Unsaid
<1>3. (\A d \in want[r] : settled'[r][d] # "none") <=> Unsaid(r)' = {}
  BY DEF Unsaid
<1>4. closedBar' = [closedBar EXCEPT ![r] =
        IF \A d \in want[r] : settled'[r][d] # "none" THEN "answered" ELSE @]
  BY <1>1, <1>3 DEF closedBar, Active, Scanning
<1>5. \E ds \in SUBSET {d \in want[r] : settled[r][d] = "none"} :
        /\ ds # {}
        /\ \E new \in [ds -> {"ready", "failed", "timeout"}] :
             /\ \A d \in ds : new[d] = "ready" => d \in installed
             /\ settled' = [settled EXCEPT ![r] =
                             [d \in Dep |-> IF d \in ds THEN new[d] ELSE @[d]]]
  <2> WITNESS deps \in SUBSET {d \in want[r] : settled[r][d] = "none"}
  <2> QED
    BY Zenon
<1> QED
  BY <1>1, <1>4, <1>5 DEF Promise!Report, closedBar

LEMMA ArriveRefines ==
  ASSUME IInv, RInv, NEW r \in Req, Arrive(r)
  PROVE  RInv' /\ Promise!Ask(r)
<1>1. PICK deps \in (SUBSET Dep) \ {{}} :
        want' = [want EXCEPT ![r] = deps] /\ Proceed(r, {}, {}, deps)
  BY DEF Arrive
<1>2. /\ pc[r] = "idle" /\ UNCHANGED <<seen, settled, installed, found>>
  BY DEF Arrive, workVars
<1>3. /\ want \in [Req -> SUBSET Dep] /\ want[r] = {}
      /\ \A d \in Dep : settled[r][d] = "none" /\ waiting[r][d] = None
  BY <1>2 DEF IInv, TypeOK, RInv, Books, Book, OverWaitsOnNothing, Active, Scanning
<1>4. want'[r] = deps /\ \A q \in Req \ {r} : want'[q] = want[q]
  BY <1>1, <1>3
<1>5. {d \in Dep : d \in deps \cup {} \/ waiting[r][d] # None} = Unsaid(r)'
  BY <1>2, <1>3, <1>4 DEF Unsaid
<1>6. /\ Book(r)' /\ pc'[r] \in {"checking", "wait", "done"}
      /\ pc'[r] = "done" <=> Unsaid(r)' = {}
      /\ \A q \in Req \ {r} : /\ pc'[q] = pc[q] /\ todo'[q] = todo[q]
                              /\ cur'[q] = cur[q] /\ waiting'[q] = waiting[q]
  <2> DEFINE none == {}
  <2>1. none \in SUBSET Dep /\ (\A d \in none : FALSE) /\ deps \in SUBSET Dep
        /\ Proceed(r, none, none, deps) /\ want'[r] # {}
        /\ {d \in Dep : d \in deps \cup none \/ waiting[r][d] # None} = Unsaid(r)'
        /\ \A d \in deps : waiting[r][d] = None /\ d \notin none
    BY <1>1, <1>3, <1>4, <1>5
  <2> HIDE DEF none
  <2> QED
    BY <2>1, ProceedKeepsBook
<1>7. Books'
  BY <1>2, <1>4, <1>6, BookStays DEF RInv, Books
<1>8. \A d \in Dep : future'[d] = future[d]
  BY <1>1 DEF Proceed
<1>9. Truth'
  BY <1>2, <1>6, <1>8 DEF RInv, Truth
<1>10. pc'[r] \in {"checking", "wait"}
  <2>1. Unsaid(r)' # {}
    BY <1>1, <1>5
  <2> QED
    BY <1>6, <2>1
<1>11. closedBar' = closedBar
  BY <1>2, <1>6, <1>10 DEF closedBar
<1>12. Promise!Ask(r)
  BY <1>1, <1>2, <1>3, <1>11 DEF Promise!Ask, closedBar
<1> QED
  BY <1>7, <1>9, <1>12 DEF RInv

LEMMA ReadVersionRefines ==
  ASSUME IInv, RInv, NEW r \in Req, ReadVersion(r)
  PROVE  RInv' /\ UNCHANGED Promise!vars
<1>1. /\ pc[r] = "checking" /\ pc' = [pc EXCEPT ![r] = "checked"]
      /\ seen' = [seen EXCEPT ![r] = cur[r] \in installed]
      /\ UNCHANGED <<want, todo, cur, waiting, settled, future, installed, found>>
  BY DEF ReadVersion, workVars
<1>2. DOMAIN pc = Req /\ DOMAIN seen = Req
  BY DEF IInv, TypeOK
<1>3. /\ pc'[r] = "checked" /\ seen'[r] = (cur[r] \in installed)
      /\ \A q \in Req \ {r} : pc'[q] = pc[q] /\ seen'[q] = seen[q]
  BY <1>1, <1>2
<1>4. Book(r)'
  BY <1>1, <1>3 DEF RInv, Books, Book, Held, Unsaid, Active, Scanning
<1>5. Books'
  BY <1>1, <1>3, <1>4, BookStays DEF RInv, Books
<1>6. Truth'
  BY <1>1, <1>3 DEF RInv, Truth
<1> QED
  BY <1>1, <1>3, <1>5, <1>6, Stutters DEF RInv
LEMMA CheckedPresentRefines ==
  ASSUME IInv, RInv, NEW r \in Req, CheckedPresent(r)
  PROVE  RInv' /\ Promise!Report(r)
<1>1. /\ pc[r] = "checked" /\ seen[r] /\ settled' = [settled EXCEPT ![r][cur[r]] = "ready"]
      /\ Proceed(r, {}, {}, todo[r])
      /\ seen' = [seen EXCEPT ![r] = FALSE]
      /\ UNCHANGED <<want, installed, found>>
  BY DEF CheckedPresent, workVars
<1> DEFINE c == cur[r]
<1>2. /\ c \in Dep /\ todo[r] \in SUBSET Dep /\ want[r] \in SUBSET Dep
      /\ settled \in [Req -> [Dep -> {"none", "ready", "failed", "timeout"}]]
      /\ DOMAIN seen = Req
  BY <1>1 DEF IInv, TypeOK, CurOk, Scanning
<1>3. /\ Held(r) = Unsaid(r) /\ c \notin todo[r] /\ want[r] # {}
      /\ \A d \in todo[r] \cup {c} : waiting[r][d] = None
  BY <1>1 DEF RInv, Books, Book, Active, Scanning
<1>4. /\ settled'[r] = [settled[r] EXCEPT ![c] = "ready"]
      /\ \A q \in Req \ {r} : settled'[q] = settled[q] /\ seen'[q] = seen[q]
      /\ settled'[r][c] = "ready" /\ \A d \in Dep \ {c} : settled'[r][d] = settled[r][d]
  BY <1>1, <1>2
<1>5. Unsaid(r)' = Unsaid(r) \ {c} /\ c \in Unsaid(r)
  BY <1>1, <1>2, <1>3, <1>4 DEF Unsaid, Held
<1>6. Unsaid(r)' = {d \in Dep : d \in todo[r] \/ waiting[r][d] # None}
  BY <1>2, <1>3, <1>5 DEF Held
<1>7. /\ Book(r)' /\ pc'[r] \in {"checking", "wait", "done"}
      /\ pc'[r] = "done" <=> Unsaid(r)' = {}
      /\ \A q \in Req \ {r} : /\ pc'[q] = pc[q] /\ todo'[q] = todo[q]
                              /\ cur'[q] = cur[q] /\ waiting'[q] = waiting[q]
  <2> DEFINE none == {}
  <2>1. none \in SUBSET Dep /\ (\A d \in none : FALSE) /\ todo[r] \in SUBSET Dep
        /\ Proceed(r, none, none, todo[r]) /\ want'[r] # {}
        /\ {d \in Dep : d \in todo[r] \cup none \/ waiting[r][d] # None} = Unsaid(r)'
        /\ \A d \in todo[r] : waiting[r][d] = None /\ d \notin none
    BY <1>1, <1>2, <1>3, <1>6
  <2> HIDE DEF none
  <2> QED
    BY <2>1, ProceedKeepsBook
<1>8. Books'
  BY <1>1, <1>4, <1>7, BookStays DEF RInv, Books
<1>9. \A d \in Dep : future'[d] = future[d]
  BY <1>1 DEF Proceed
<1>10. Truth'
  BY <1>1, <1>4, <1>7, <1>9 DEF RInv, Truth
<1>11. c \in installed
  BY <1>1 DEF RInv, Truth
<1>12. Promise!Report(r)
  <2> DEFINE deps == {c}
             said == [d \in deps |-> "ready"]
  <2>1. deps \in SUBSET Unsaid(r) /\ deps # {}
    BY <1>5
  <2>2. said \in [deps -> {"ready", "failed", "timeout"}]
        /\ \A d \in deps : said[d] = "ready" => d \in installed
    BY <1>11
  <2>3. settled' = [settled EXCEPT ![r] = [d \in Dep |-> IF d \in deps THEN said[d] ELSE @[d]]]
    <3>1. [settled[r] EXCEPT ![c] = "ready"]
            = [d \in Dep |-> IF d \in deps THEN said[d] ELSE settled[r][d]]
      BY <1>2
    <3> QED
      BY <1>1, <1>2, <3>1
  <2>4. pc[r] \in Active /\ pc'[r] \in Active \cup {"done"}
    BY <1>1, <1>7 DEF Active, Scanning
  <2> HIDE DEF deps, said
  <2> QED
    BY <1>1, <1>7, <2>1, <2>2, <2>3, <2>4, Reports
<1> QED
  BY <1>8, <1>10, <1>12 DEF RInv
LEMMA CheckedMissingRefines ==
  ASSUME IInv, RInv, NEW r \in Req, CheckedMissing(r)
  PROVE  RInv' /\ UNCHANGED Promise!vars
<1> DEFINE c == cur[r]
<1>1. /\ pc[r] = "checked"
      /\ Proceed(r, NewlyMissing(r), {c}, todo[r])
      /\ UNCHANGED <<want, seen, settled, installed, found>>
  BY DEF CheckedMissing, workVars
<1>2. /\ c \in Dep /\ todo[r] \in SUBSET Dep /\ want[r] \in SUBSET Dep
      /\ future \in [Dep -> [Req -> FutureState]]
  BY <1>1 DEF IInv, TypeOK, CurOk, Scanning
<1>3. /\ Held(r) = Unsaid(r) /\ c \notin todo[r] /\ want[r] # {}
      /\ \A d \in todo[r] \cup {c} : waiting[r][d] = None
  BY <1>1 DEF RInv, Books, Book, Active, Scanning
<1>4. Unsaid(r)' = {d \in Dep : d \in todo[r] \cup {c} \/ waiting[r][d] # None}
  BY <1>1, <1>3 DEF Unsaid, Held
<1>5. /\ Book(r)' /\ pc'[r] \in {"checking", "wait", "done"}
      /\ pc'[r] = "done" <=> Unsaid(r)' = {}
      /\ \A q \in Req \ {r} : /\ pc'[q] = pc[q] /\ todo'[q] = todo[q]
                              /\ cur'[q] = cur[q] /\ waiting'[q] = waiting[q]
  <2> DEFINE new == NewlyMissing(r)
             held == {c}
  <2>1. /\ new \in SUBSET Dep /\ held \in SUBSET Dep /\ todo[r] \in SUBSET Dep
        /\ \A d \in held : d \in new \/ pending[d] # None
        /\ \A d \in todo[r] : waiting[r][d] = None /\ d \notin held
        /\ Proceed(r, new, held, todo[r]) /\ want'[r] # {}
        /\ {d \in Dep : d \in todo[r] \cup held \/ waiting[r][d] # None} = Unsaid(r)'
    BY <1>1, <1>2, <1>3, <1>4 DEF NewlyMissing
  <2> HIDE DEF new, held
  <2> QED
    BY <2>1, ProceedKeepsBook
<1>6. Books'
  BY <1>1, <1>5, BookStays DEF RInv, Books
<1>7. \A d \in Dep, q \in Req : future'[d][q] = "ready" => future[d][q] = "ready"
  BY <1>1, <1>2 DEF Proceed
<1>8. Truth'
  BY <1>1, <1>5, <1>7 DEF RInv, Truth
<1>9. pc'[r] \in {"checking", "wait"}
  BY <1>2, <1>4, <1>5
<1> QED
  BY <1>1, <1>5, <1>6, <1>8, <1>9, Stutters DEF RInv

(* Some of what a request waits on is reported. *)
LEMMA ReportRefines ==
  ASSUME IInv, RInv, NEW r \in Req, pc[r] = "wait", NEW deps \in SUBSET Held(r), deps # {},
         NEW said \in [deps -> {"ready", "failed", "timeout"}],
         \A d \in deps : said[d] = "ready" => d \in installed,
         Report(r, deps, said)
  PROVE  RInv' /\ Promise!Report(r)
<1>1. /\ settled' = [settled EXCEPT ![r] = [d \in Dep |-> IF d \in deps THEN said[d] ELSE @[d]]]
      /\ waiting' = [waiting EXCEPT ![r] = [d \in Dep |-> IF d \in deps THEN None ELSE @[d]]]
      /\ IF \A d \in Dep : waiting'[r][d] = None
           THEN pc' = [pc EXCEPT ![r] = "done"] ELSE pc' = pc
      /\ UNCHANGED <<want, todo, cur, seen, future, installed, found>>
  BY DEF Report, workVars
<1>2. /\ pc \in [Req -> Active \cup Over \cup {"idle"}] /\ DOMAIN waiting = Req
      /\ settled \in [Req -> [Dep -> {"none", "ready", "failed", "timeout"}]]
      /\ want[r] \in SUBSET Dep
  BY DEF IInv, TypeOK
<1>3. /\ Held(r) = Unsaid(r) /\ todo[r] = {} /\ cur[r] = None /\ want[r] # {}
  BY DEF RInv, Books, Book, Active
<1>4. /\ \A d \in Dep : /\ settled'[r][d] = IF d \in deps THEN said[d] ELSE settled[r][d]
                        /\ waiting'[r][d] = IF d \in deps THEN None ELSE waiting[r][d]
      /\ pc'[r] = IF \A d \in Dep : waiting'[r][d] = None THEN "done" ELSE "wait"
      /\ \A q \in Req \ {r} : settled'[q] = settled[q] /\ waiting'[q] = waiting[q] /\ pc'[q] = pc[q]
  BY <1>1, <1>2
<1>5. Unsaid(r)' = Unsaid(r) \ deps
  BY <1>1, <1>2, <1>4 DEF Unsaid
<1>6. Held(r)' = Held(r) \ deps /\ Held(r)' = {d \in Dep : waiting'[r][d] # None}
  BY <1>1, <1>3, <1>4, NamesAssumption DEF Held
<1>7. Book(r)'
  BY <1>1, <1>3, <1>4, <1>5, <1>6 DEF Book, Active, Scanning
<1>8. Books'
  BY <1>1, <1>4, <1>7, BookStays DEF RInv, Books
<1>9. Truth'
  BY <1>1, <1>4 DEF RInv, Truth
<1>10. pc'[r] = "done" <=> Unsaid(r)' = {}
  BY <1>3, <1>4, <1>5, <1>6
<1>11. Promise!Report(r)
  <2>1. /\ deps \in SUBSET Unsaid(r) /\ pc[r] \in Active /\ pc'[r] \in Active \cup {"done"}
        /\ UNCHANGED <<want, installed>>
    BY <1>1, <1>3, <1>4 DEF Active
  <2> QED
    BY <1>1, <1>4, <1>10, <2>1, Reports
<1> QED
  BY <1>8, <1>9, <1>11 DEF RInv

LEMMA DeliverRefines ==
  ASSUME IInv, RInv, NEW r \in Req, Deliver(r) \/ TimeOut(r)
  PROVE  RInv' /\ Promise!Report(r)
<1>0. pc[r] = "wait" /\ \A d \in Dep : waiting[r][d] \in Req \cup {None}
  BY DEF Deliver, TimeOut, IInv, TypeOK
<1>1. CASE Deliver(r)
  <2> DEFINE said == [d \in Ripe(r) |-> future[d][waiting[r][d]]]
  <2>1. Ripe(r) # {} /\ Ripe(r) \in SUBSET Held(r) /\ Report(r, Ripe(r), said)
    BY <1>1 DEF Deliver, Ripe, Held
  <2>2. ASSUME NEW d \in Ripe(r)
        PROVE  /\ said[d] \in {"ready", "failed", "timeout"}
               /\ said[d] = "ready" => d \in installed
    <3>1. /\ d \in Dep /\ waiting[r][d] \in Req
          /\ future[d][waiting[r][d]] \notin {"none", "open"}
      BY <1>0 DEF Ripe, IInv, WaitsOnFuture
    <3>2. future[d][waiting[r][d]] \in FutureState
      BY <3>1 DEF IInv, TypeOK
    <3> QED
      BY <3>1, <3>2 DEF FutureState, RInv, Truth
  <2>3. said \in [Ripe(r) -> {"ready", "failed", "timeout"}]
    BY <2>2
  <2> HIDE DEF said
  <2> QED
    BY <1>0, <2>1, <2>2, <2>3, ReportRefines
<1>2. CASE TimeOut(r)
  <2> DEFINE late == {d \in Dep : waiting[r][d] # None}
             said == [d \in late |-> "timeout"]
  <2>1. Report(r, late, said)
    BY <1>2 DEF TimeOut
  <2>2. late # {} /\ late \in SUBSET Held(r)
    BY <1>0 DEF RInv, Books, Book, Held
  <2>3. said \in [late -> {"ready", "failed", "timeout"}]
        /\ \A d \in late : said[d] = "ready" => d \in installed
    OBVIOUS
  <2> HIDE DEF late, said
  <2> QED
    BY <1>0, <2>1, <2>2, <2>3, ReportRefines
<1> QED
  BY <1>1, <1>2

(* Settling futures as failed makes nothing ready. *)
LEMMA FinishTells ==
  ASSUME Truth, NEW deps, NEW good, good \cap Dep \subseteq installed, installed' = installed,
         Finish(deps, good)
  PROVE  \A d \in Dep, r \in Req : future'[d][r] = "ready" => d \in installed'
  BY DEF Finish, Truth

LEMMA AbandonRefines ==
  ASSUME IInv, RInv, NEW gone \in SUBSET {r \in Req : pc[r] \in Active}, Abandon(gone),
         UNCHANGED <<want, settled, installed>>, found' \subseteq installed,
         \A d \in Dep, r \in Req : future'[d][r] = "ready" => d \in installed'
  PROVE  RInv' /\ Promise!Drop
<1>1. /\ \A r \in gone : pc'[r] = "cancelled"
      /\ \A r \in Req \ gone : /\ pc'[r] = pc[r] /\ todo'[r] = todo[r] /\ cur'[r] = cur[r]
                              /\ waiting'[r] = waiting[r] /\ (seen'[r] => seen[r])
  BY DEF Abandon
<1>2. \A r \in gone : Book(r)'
  BY <1>1 DEF Book, Active, Scanning
<1>3. \A r \in Req \ gone : Book(r)'
  BY <1>1, BookStays DEF RInv, Books
<1>4. Truth'
  BY <1>1 DEF RInv, Truth
<1>5. gone \in SUBSET {r \in Req : closedBar[r] = "no" /\ want[r] # {}}
  BY DEF closedBar, Active, Scanning, RInv, Books, Book
<1>6. closedBar' = [r \in Req |-> IF r \in gone THEN "dropped" ELSE closedBar[r]]
  BY <1>1 DEF closedBar
<1>7. Promise!Drop
  <2>1. \E g \in SUBSET {r \in Req : closedBar[r] = "no" /\ want[r] # {}} :
          closedBar' = [r \in Req |-> IF r \in g THEN "dropped" ELSE closedBar[r]]
    BY <1>5, <1>6
  <2> QED
    BY <2>1 DEF Promise!Drop, closedBar
<1> QED
  BY <1>2, <1>3, <1>4, <1>7 DEF RInv, Books
LEMMA CancelRefines ==
  ASSUME IInv, RInv, NEW r \in Req, Cancel(r)
  PROVE  RInv' /\ Promise!Drop
<1>1. /\ pc[r] \in Active /\ Abandon({r})
      /\ UNCHANGED <<want, settled, future, installed, found>>
  BY DEF Cancel, workVars
<1>2. {r} \in SUBSET {q \in Req : pc[q] \in Active}
  BY <1>1
<1>3. /\ found' \subseteq installed
      /\ \A d \in Dep, q \in Req : future'[d][q] = "ready" => d \in installed'
  BY <1>1 DEF RInv, Truth
<1> QED
  BY <1>1, <1>2, <1>3, AbandonRefines

LEMMA StopRefines ==
  ASSUME IInv, RInv, Stop
  PROVE  RInv' /\ Promise!Drop
<1> DEFINE gone == {q \in Req : pc[q] \in Active}
<1>1. Abandon(gone) /\ UNCHANGED <<want, settled, installed>> /\ found' = {}
  BY DEF Stop, JobDone
<1>2. Finish(missing[job], {}) \/ UNCHANGED future
  BY DEF Stop
<1>3. \A d \in Dep, q \in Req : future'[d][q] = "ready" => d \in installed'
  BY <1>1, <1>2, FinishTells DEF RInv, Truth
<1>4. gone \in SUBSET {q \in Req : pc[q] \in Active} /\ found' \subseteq installed
  BY <1>1
<1> HIDE DEF gone
<1> QED
  BY <1>1, <1>3, <1>4, AbandonRefines

(* The worker and the refresher leave the requests alone. *)
LEMMA QuietRequests ==
  ASSUME RInv, UNCHANGED reqVars, installed \subseteq installed', found' \subseteq installed',
         \A d \in Dep, r \in Req : future'[d][r] = "ready" => d \in installed'
  PROVE  RInv' /\ (UNCHANGED installed => UNCHANGED Promise!vars)
<1>1. UNCHANGED <<pc, want, todo, cur, seen, waiting, settled>>
  BY DEF reqVars
<1>2. Books'
  BY <1>1, BookStays DEF RInv, Books
<1>3. Truth'
  BY <1>1 DEF RInv, Truth
<1> QED
  BY <1>1, <1>2, <1>3, Stutters DEF RInv

LEMMA WorkerRefines ==
  ASSUME IInv, RInv, Worker
  PROVE  RInv' /\ (Promise!Install \/ UNCHANGED Promise!vars)
<1>1. CASE Take \/ \E o \in Outcome : Update(o) \/ Upgrade(o)
  <2>1. UNCHANGED <<reqVars, future, installed>> /\ found' \in {found, {}}
    BY <1>1 DEF Take, Update, Upgrade, JobDone
  <2>2. /\ installed \subseteq installed' /\ found' \subseteq installed'
        /\ \A d \in Dep, r \in Req : future'[d][r] = "ready" => d \in installed'
    BY <2>1 DEF RInv, Truth
  <2> QED
    BY <2>1, <2>2, QuietRequests
<1>2. CASE \E o \in Outcome : Install(o) \/ InstallEach(o)
  <2>1. /\ UNCHANGED <<reqVars, future, found>>
        /\ \E some : installed' = installed \cup some
    BY <1>2 DEF Install, InstallEach
  <2>2. installed' \subseteq Dep
    BY <1>2, CommandKeepsInv DEF IInv, TypeOK
  <2>3. /\ installed \subseteq installed' /\ found' \subseteq installed'
        /\ \A d \in Dep, r \in Req : future'[d][r] = "ready" => d \in installed'
    BY <2>1 DEF RInv, Truth
  <2>4. installed' \in {installed \cup new : new \in SUBSET Dep}
    <3>1. installed' = installed \cup installed'
      BY <2>3
    <3> QED
      BY <2>2, <3>1
  <2>5. closedBar' = closedBar /\ UNCHANGED <<want, settled>>
    BY <2>1 DEF closedBar, reqVars
  <2>6. Promise!Install
    BY <2>4, <2>5 DEF Promise!Install, closedBar
  <2> QED
    BY <2>1, <2>3, <2>6, QuietRequests
<1>3. CASE Verify
  <2>1. UNCHANGED <<reqVars, installed>>
    BY <1>3 DEF Verify
  <2>2. PICK d \in left :
          IF left = {d}
            THEN Finish(missing[job], found \cup Present(d)) /\ found' = {}
            ELSE found' = found \cup Present(d) /\ UNCHANGED future
    BY <1>3 DEF Verify, JobDone
  <2>3. found \cup Present(d) \subseteq installed
    BY DEF RInv, Truth, Present
  <2>4. \A e \in Dep, r \in Req : future'[e][r] = "ready" => e \in installed'
    BY <2>1, <2>2, <2>3, FinishTells DEF RInv, Truth
  <2> QED
    BY <2>1, <2>2, <2>3, <2>4, QuietRequests
<1>4. CASE JobRaises
  <2>1. /\ UNCHANGED <<reqVars, installed>> /\ found' = {}
        /\ Finish(missing[job], {}) \/ UNCHANGED future
    BY <1>4 DEF JobRaises, JobDone
  <2>2. \A e \in Dep, r \in Req : future'[e][r] = "ready" => e \in installed'
    BY <2>1, FinishTells DEF RInv, Truth
  <2> QED
    BY <2>1, <2>2, QuietRequests
<1> QED
  BY <1>1, <1>2, <1>3, <1>4 DEF Worker

LEMMA RefresherRefines ==
  ASSUME RInv, QueueRefresh \/ RefreshWake \/ DayPasses \/ UNCHANGED vars
  PROVE  RInv' /\ UNCHANGED Promise!vars
<1>1. UNCHANGED <<reqVars, future, installed, found>>
  BY DEF QueueRefresh, RefreshWake, DayPasses, vars, workVars, reqVars
<1> QED
  BY <1>1, QuietRequests DEF RInv, Truth

LEMMA StepRefines == IInv /\ RInv /\ [Next]_vars => RInv' /\ [Promise!Next]_(Promise!vars)
<1> SUFFICES ASSUME IInv, RInv, [Next]_vars PROVE RInv' /\ [Promise!Next]_(Promise!vars)
  OBVIOUS
<1>1. ASSUME NEW r \in Req, Request(r) PROVE RInv' /\ [Promise!Next]_(Promise!vars)
  <2>1. CASE Arrive(r)
    BY <2>1, ArriveRefines DEF Promise!Next
  <2>2. CASE ReadVersion(r) \/ CheckedMissing(r)
    BY <2>2, ReadVersionRefines, CheckedMissingRefines
  <2>3. CASE CheckedPresent(r) \/ Deliver(r) \/ TimeOut(r)
    BY <2>3, CheckedPresentRefines, DeliverRefines DEF Promise!Next
  <2>4. CASE Cancel(r)
    BY <2>4, CancelRefines DEF Promise!Next
  <2> QED
    BY <1>1, <2>1, <2>2, <2>3, <2>4 DEF Request
<1>2. CASE Worker
  BY <1>2, WorkerRefines DEF Promise!Next
<1>3. CASE Stop
  BY <1>3, StopRefines DEF Promise!Next
<1>4. CASE QueueRefresh \/ RefreshWake \/ DayPasses \/ UNCHANGED vars
  BY <1>4, RefresherRefines
<1> QED
  BY <1>1, <1>2, <1>3, <1>4 DEF Next, Quiet

(* Whatever the queue, the retries and the worker do: each dependency a    *)
(* request asks for gets one status, never changed, "ready" only for what  *)
(* is on the host, and the request answers with the last of them           *)
(* (_Resolver.resolve, _wait, _finish).                                    *)
THEOREM ResolverKeepsPromise == Spec => KeepsPromise
<1>1. Init => RInv /\ Promise!Init
  BY InitRefines
<1>2. IInv /\ RInv /\ [Next]_vars => RInv' /\ [Promise!Next]_(Promise!vars)
  BY StepRefines
<1> QED
  BY <1>1, <1>2, Invariance, PTL DEF Spec, KeepsPromise, Promise!Spec
=============================================================================
