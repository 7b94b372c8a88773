# ovn-fabric in TLA+

Specifications of the host service of ovn-fabric (`src/runtime`,
`src/fabric/services`), of what it declares and runs on a host
(`src/deployer`, `src/fabric/plan.py`) and of the job tree of a generated
deployer (`src/generator/runtime`), the TLC runs that check them, and the TLAPS
proofs of what matters most. Line numbers below refer to the files under `src/`.

## 1. The system

A network is defined in TypeScript (`src/src`), which builds an intermediate
representation (IR). There are two ways onto a host. On each host one asyncio
process, the *host runtime*, serves a small protocol of requests, events and
responses, and applies a stored IR: it installs packages, cuts the IR into units
of work and runs them. Or a script is generated per host, the *deployer*, whose
job tree does the same as processes and hooks that wait for each other's events.
Both take their operations from the same emitters.

| component | state it keeps | operations | talks to |
|---|---|---|---|
| peer, outbox (`runtime/peer.py`, `forward.py`) | `_pending` requests, running handlers, one queue of emitted events per handled request | request, ask, reader loop, handle, emit, close | a connection; handlers |
| transport (`transport.py`) | a stream or an in-memory pair of queues | send, recv, close | the other peer |
| runtime (`runtime.py`) | services, peers, one internal client connection | register, serve, client | every service |
| sysdeps (`sysdeps.py`) | `_pending` futures, `_watchers`, `_known`, `_queue`, the age of the index | ResolveSystemDepsReq; one worker; one refresher | apt or dnf |
| abstract_deps (`abstract_deps.py`) | per request: what is settled and announced | AbstractDepsReq | sysdeps, systemd |
| docker (`docker.py`) | a lock per image | DockerPrepareReq | abstract_deps, docker |
| docker_run (`docker_run.py`) | owned containers, followed containers, a lock per name, files | DockerRunReq, keep | docker prepare, docker |
| ir (`ir.py`) | on disk: contents, sidecars, `refs.json`; a lock | put, get, list, delete | the disk, in threads |
| apply (`apply.py`) | one lock | IrApplyReq | ir, abstract_deps, unit |
| unit (`unit.py`, `deployer/lifecycle.py`) | per request: the captured values | UnitExecReq | commands on the host |
| plan (`fabric/plan.py`, `units.py`), emitters (`deployer/ir_common.py`) | none | an IR cut into the units of one host | |
| primitives (`deployer/primitives_*.py`), `ladops` | the objects of the host | create and delete of one object, as commands | the host |
| job tree (`generator/runtime/service.py`, `deployer/jobtree.py`, `dependency.py`, `ir_to_python.py`) | jobs, hooks, queued events, processes | start, stop, hold, emit, run | subprocesses |
| hydration, reconcilers, raw graph | none | parsing and comparing | |

All of the host runtime runs in one event loop. Between two `await`s nothing
else runs; at each `await` any other task may. A handler is cancelled, at the
await it is in, when the connection its request came on closes
(`peer.py:209`). A request a handler sends to another service goes over the
runtime's own internal connection, so *that* handler is not cancelled with it.
Work in a thread (`asyncio.to_thread`) cannot be cancelled at all. These three
facts are what is hard about this code, and what the models of the runtime are
built around. What is hard about the deployer is order: an operation may rely
only on what an earlier one made, a delete must cope with whatever a create left,
and a tree of jobs that wait for events must neither lose one nor wait for one
that never comes.

### What makes each component correct

- **sysdeps**: a package is never in two jobs at once; whoever waits for one is
  answered, whatever fails; `ready` only for what is installed; one status per
  dependency, never changed; output goes to those who wait and to no one else.
- **abstract_deps, docker**: a dependency is announced as ready only with all its
  packages and services; one image is fetched by one request at a time; each
  prepare ends.
- **apply and unit**: one apply at a time; a failed unit skips exactly what
  needs it; no operation runs on a value nobody captured; the answer says what
  was done; who waits for the lock gets it.
- **ir**: a name always has its content; content without a name goes; no update
  is lost; a reader misses content only if its name has moved on.
- **peer**: a request's events arrive in order with the response last; every
  request ends.
- **docker_run**: a container is started on a free name only; nothing runs
  unwatched; files live as long as their container; a stopping runtime leaves
  none of its containers running.
- **plan, emitters, primitives**: what is declared can be created in its order;
  a delete removes what any create left and nothing else; nothing refers to
  what is not there.
- **job tree**: a queued event reaches a late waiter; what needs a held job does
  not run before it; no hook or process outlives its job; `run` returns.

PROJECT.json lists the hazards behind these, each at its line.

## 2. Modules

| module | what it is |
|---|---|
| `Sysdeps` | the resolver of one package manager |
| `DepPromise` | abstract: what resolving promises, without queue, worker or retries |
| `SysdepsProofs` | type correctness and safety of `Sysdeps`, and that it implements `DepPromise`, proved |
| `Prepare` | abstract dependencies and docker prepare, composed with `DepPromise` |
| `PrepareProofs` | what is announced as ready is there, one fetch of an image at a time, proved |
| `Apply` | applying, composed with the unit executor |
| `ApplyProofs` | the lock, the executor, failures, captured values and answers, proved |
| `IrStore` | the IR manager, its threads and its disk |
| `IrNames` | abstract: the names are a register |
| `IrStoreProofs` | contents, sidecars and names agree, a reader misses only what has moved, `IrStore` implements `IrNames`, proved |
| `Peer` | two peers on a connection |
| `PeerProofs` | the order of a request's frames and their routing, proved |
| `DockerRun` | running containers under one name |
| `DockerRunProofs` | the books, the watch over containers and their files, proved |
| `HostObjects` | what a command does to the objects of a host |
| `Primitives` | the operations, each as the commands of its create and its delete |
| `Declare` | the emitters: the operations an IR declares on a host, cut into units |
| `Deploy` | creating and deleting a host's plan, with faults |
| `DeployPlans` | the conditions on a declaration under which the theorems about `Deploy` hold |
| `DeployProofs` | what others have stays, nothing dangles, creates complete, deletes leave nothing and run quietly, proved |
| `JobTree` | the job tree runtime with dependency waiters |
| `JobTreeProofs` | types, events, flags, the quiet of stopped jobs, that none is skipped and all is torn down, in any tree, proved |
| `DeployerTrees` | the trees a generated deployer builds for a host |
| `MC*` | instances for TLC |

`HostObjects`, `Primitives`, `Declare` and `Deploy` extend each other in that
order, `DeployPlans` extends `Deploy`, and `DeployerTrees` extends `JobTree`.

### Sysdeps

A request is one call of `_Resolver.resolve` (164-231). `pc` is the await it is
in: `checking` until the package manager's query has read the host, `checked`
until the request resumes with the answer (so the two may be apart, and the
answer old), `wait` in `_wait`. What the code does between two awaits is one
action: `Proceed` is the loop of `resolve` from one await to the next, which
joins pending dependencies, stops at the next check, or queues the job and
waits. A request may list its dependencies in any order, so the model takes any.
`pending`, `watchers`, `known` and `queue` are the attributes of the resolver;
a future is named by the request that created it, and so is a job.

`Take`, `Update`, `Install`, `InstallEach`, `Verify` and `Upgrade` are the steps
of the worker, with the retries of `_retry`; an attempt ends ok, with a
transient failure or with a permanent one, and whatever it says, some of the
packages may be on the host. `JobRaises` is the handler of line 282, `Stop` the
cancellation at 278 together with that of all handlers. `QueueRefresh` and
`RefreshWake` are the refresher; `DayPasses` makes the index old.

A dependency's name, version and message, the backoff between attempts and the
stamp file are abstracted. `version` is taken to answer always, as the two
managers do.

### Prepare

`apc` is the handler of an AbstractDepsReq (`Ask` to `Answer` or `Raise`), `pc`
that of a docker prepare. The resolver is not modelled a second time: sysdeps
makes the steps of `DepPromise`, which `Sysdeps` is shown to implement, so its
statuses come in any order and any groups that promise allows. `Read` is the
handler reading one of them; all it settles is announced before the next is
read, in the order of the request (`IsNext`), a dependency with services only
once they have started. `line[i]` is the lock of image `i` with its waiters,
first come first served. `Leave` is a client that goes away: the prepare ends at
its await, the request it sent over the internal connection goes on.

The model leaves out output, the kinds of image, and the table of packages of a
distribution, which is data (`Packages`, `HasUnits`).

### Apply

An apply resolves its IR (`Arrive`, `Refuse`, `Resolved`), waits for the lock in
the order of arrival (`Enter`; asyncio's lock is fair), asks for the
dependencies when it is a real create (`Begin`, `DepsReady`, `DepsMissing`),
and runs the plan: `RunFrom` is the loop of `_run` from one unit to the next it
may send, with those `Failed` blocks marked as skipped on the way. The executor
has a variable of its own per apply (`xpc`), because its handler is not the
apply's: `Cancel` ends the apply and leaves the executor where it is. `OpRuns`,
`OpFails`, `UnitEnds` and `UnitRaises` are `UnitExecutor.execute` and
`LifecycleController.execute`, forward and strict on create, rewound and best
effort on delete; a capture adds its value to the run's store, which travels
from unit to unit.

A plan is a constant: units with a scope, operations, captures and their uses.
`PlanAssumption` is what `fabric/plan.py` gives every plan: a reference is
resolved in its scope's emitter when it is declared, so its capture comes
before it (`_resolve`, 185-209), and units are numbered apart. All applies are
of the same plan: neither the lock nor the host tells IRs apart.

### IrStore

Each action of a put or delete is one job, or one step of a job, in a worker
thread. A handler cancelled at such an await leaves the lock while its thread
goes on: the request becomes an *orphan*, and goes on with the steps of the job
that was running, no further. A crash empties everything but the disk. A write
is one step because the file is renamed into place. Requests keep what they
read (`mine`), so an old copy of `refs.json` can be written back: by an orphan
whose lock another request has taken (`Enter` while `Trails`). From then on the code
promises nothing, and the history variable `overtaken` says so. Two threads at work on
one file at a time, a temporary file a crash leaves (the next write of the file
replaces it) and a `json` cut short are left out. A get and a list
take no lock: between their reads the disk may change. A list reads its sidecars in
any order, which includes that of the dictionary.

### Peer

A client sends requests and a server handles each in a task; `up` and `down`
are the connection's two directions. An outbox is a queue and a task that sends
it (`Forward`); `Return` closes it, `Respond` follows once it has ended. Either
reader may see the end of the connection at any time after `Close`, with frames
unread (`ReaderEnds`, `ServerEnds`). Any event of a request in `Oversize` may turn out
too large for a frame: the outbox's task dies of it. The server is a runtime: a stop
closes its internal connection (`StopInner`, runtime.py:60-61) and then this one
(`StopClose`, 62-63). In between, and after, a handler that asks another service there
gets `Closed`, and ends without a response (`Abort`, peer.py:260-262).

### DockerRun

The lock, the books (`owned`, `following`), the files and the container are kept
per name, so one name is modelled. A request is one call of `DockerRun.run`
(193-259); `pc` is the await it is in. `Enter` is the lock's acquisition and the
look into the books of `_replace`, with no await between; what follows depends
on whom it found: the watcher it cancelled (`gathering`), another request
(`evicting`, `awaiting`), or nobody (`checking`, `purging`). `Started` is the
return of `docker run`: the container goes to a watcher (`_own`) or stays with
the request, which leaves the lock. `Clean` is the `finally` of 251-259.

A cancellation hits an await, and each await has its `Leave` action. Three things
survive it: a container that `docker run` may have started before its process was
killed (`lost`), a shielded command, and a thread. The last two are `strays`,
which act later on whatever has the name by then. A second cancellation of a
watcher, by the request that replaces it while the watcher already stops, removes
or clears, leaves the rest of its clean-up out (`CancelWatcher`).

`docker stop`, `rm`, `inspect` and `wait` are taken to succeed: the code ignores
their failures. Writing files and `docker run` may fail. Preparing the image is
an outcome. An output line too long for its reader (command.py:77) is left out.
After `runtime = "over"` the model's tasks go on, while the process cancels what
is left: what it owned has been stopped by then, a follower's container may not.

### HostObjects, Primitives, Declare, Deploy

The host is a set of objects. An object is named by the path of what holds it (an
address is in a link, a link in a namespace, a NAT mapping in a router), so what
goes away takes along what it holds, and one leg of a veth pair takes the other.
A command is a record of what it needs, what must not exist, and what it adds,
drops, moves or prunes; `HostObjects` says what it does. `Primitives` translates
each primitive an emitter of a plan uses into its create and delete commands,
in their order, with the forms that tolerate a repetition (`--may-exist`,
`--if-exists`, a look before an add) told apart from those that do not. A file is written
as `_write_new` does (lifecycle.py:144-153): the directories, `.<name>.tmp`, then a rename over
the file; its delete unlinks the file only (156). What is still one step is the making of a path of
directories (`os.makedirs`, `mkdir(parents=True)`) and its removal (`os.removedirs`).

`Declare` is the emitters of `ir_common.py` a plan is made from: host
configuration, cluster, kernel routers, workloads. An IR is a constant, a
record of sequences in the order the code sorts its nodes; derived names (a digest, a prefix)
are given with the node. `PlanUnits(h)` is `fabric/plan.py`: the scopes
`configure` and `cluster`, one scope per kernel router and one per workload.
What `plan.py` refuses (ZeroTier, an app with its own veth in docker, an
ambiguous route) is excluded by `IsPlannable`, an assumption TLC evaluates.

`Deploy` chooses one of the IR's hosts and runs its plan as the unit executor
does: a create goes forward, a command that fails ends its operation and its
scope (`broken`), and a broken foundation ends the rest; a delete rewinds
the plan and goes on whatever fails. The executor's operations are atomic in the
model except for a fault in their middle: `CreateStep` and `DeleteStep`
choose a command that fails by itself, with or without its effect, `Die` is the
service ending inside an operation, `Reboot` keeps what survives one.
`Register` is another host's chassis appearing in the southbound database, which
the capture of a gateway chassis polls for and may miss. `noise`, `did` and
`fresh` are history variables for the properties. `PlanAssumption` says no more than
that a plan, and what an operation runs, are sequences. `RunOf` runs an operation's
commands; it is a recursive function, not a fold, so that it can be proved about.

`DeployPlans` says what a declaration has to be for the theorems about `Deploy`. Which
operations a plan has is data: the emitters do not promise that a create completes for whatever
they are given (`DhclientIR` and `PhysicalIR` in section 4 are declarations for which it does not). So
the conditions are on the plans of a declaration, read off the commands and their order, and
say nothing of how a run goes; `MCDeploy` has TLC evaluate all of them for its
declaration before the run of `deploy` starts.

### JobTree, DeployerTrees

A job has children, start hooks, stop hooks and at most one waiter: a set of
dependency events and what to do once all were seen. Everything runs in one loop, so a
step is what happens between two awaits. A hook or the action of a waiter is a short
program of processes to run, events to emit, jobs to stop or to add. Stopping is
a coroutine that runs inside whatever task calls it and is cut short when that
task is cancelled: `stack[t]` holds the calls task `t` is in, so a hook that
stops its own job, or one above it, cancels itself on the way as in the code. `run()`
of the root is `mpc`: the first start, the loop that starts what has become
ready, the wait for the wake-up, and the final stop. The field
`ends` of a tree says what may end its run: only the run itself, a signal (before
the tree is torn down), or the timeout that also cancels `run()`. A tree is a constant;
`JobTreeAssumption` is that a child is listed below its own parent, which is in the tree
already, as `Job.job` sees to, and that there are finitely many jobs; a hook that adds a child makes a job nobody knew
(`AddChild`). Three more conditions on trees are hypotheses of theorems only, and
`MCJobTree` has TLC evaluate them for the trees of the runs: `StopsLast` (a hook calls `stop()`
in its last step), `AddsToOwn` (a hook adds children to its own job) and `WaitersHeld` (the job of
a waiter is held from its making, which `register()` does).

`DeployerTrees` builds what `ir_to_python.py` declares for a host: `RunTree`,
`CreateTree` and `DeleteTree`, with the dependencies `hostDependencies`
(`src/ir.ts`) announces and those each job waits for (`ir_common.py`).

Every waiter has a dependency; dependency events are queued at the root and
delivered at once, since handlers of an event do not await before they look; a
failing install hook ends its job (the code tries again a day later); a timeout
of `wait_ready` only warns, so it is not a step.

### Abstract specifications

`DepPromise` is implemented by `Sysdeps` (property `KeepsPromise`): the mapping
is direct, the queue and the worker vanish; `SysdepsProofs` proves it.
`Prepare` is built on it. `IrNames`
is implemented by `IrStore` (`IsRegister`): an update takes effect at the write
of `refs.json` and what follows is stuttering up to the answer. A change whose client
goes away during that write is late: it comes before any other or not at all, until
one begins all the same. `IrStoreProofs` proves it.


## 3. Runs

| run | instance | distinct states | what it shows |
|---|---|---|---|
| `sysdeps_resolve` | 2 requests, 2 dependencies, 2 attempts, both may be cancelled and time out, the host may stop; symmetric | 121,094 | `QueuedIsPending`, `WaitsOnPending`, `WatchersAreWaiters`, `PendingIsOwed`, implements `DepPromise` |
| `sysdeps_answer` | 2 requests, one without timeout, no cancellation | 150,316 | every request is answered |
| `prepare` | two docker prepares of 2 images in opposite orders, one of which may leave; one of them and an apply that names two dependencies with a package in common and an unknown one | 39,063 | `ReadyIsBacked`, `OneFetch`, every prepare ends |
| `apply_run` | 2 applies, 4 units in 3 scopes, 5 operations, 1 capture | 99,317 | the safety of apply and executor; who waits for the lock gets it |
| `ir_store` | 3 requests, 1 name, 2 contents, 1 crash, all may leave anywhere; symmetric | 1,474,154 | contents, sidecars and names agree; the names are a register |
| `peer_route` | 2 requests, 2 events each, one with timeout, one with events that may be too large; the runtime may stop | 100,866 | order, routing, every request ends |
| `docker_run` | 3 requests for one name, symmetric; each follows or not; all may leave; a container or files may be there before | 144,200 | a start finds the name free, what runs is watched and has its files, with the exceptions named in the properties |
| `docker_kept` | 2 requests, with fairness | 16,262 | who waits for the name gets it, a stopping runtime stops |
| `deploy` | 2 hosts, 3 switches, 2 OVN router ports, 2 kernel routers, 1 workload, rules of all kinds; 3 runs, 1 fault | 52,009 | `CreateCompletes`, `NothingLeft`, `ForeignUntouched`, `NothingDangles`, `DeleteIsQuiet` |
| `job_tree` | the trees of run, create and delete, one that grows and one that stops jobs | 134,102 | `NoEventLost`, `NothingSkipped`, `StoppedIsQuiet`, `TornDown`, `run` returns |
| `job_late` | the tree of run | | violated: see findings |
| `job_starve` | the tree of run of a central host without routers | | violated: see findings |

`TypeOK` is an invariant of the runs where it says more than types
(`sysdeps_resolve`, `job_tree`, `prepare`); the others state theirs for the
reader. So do `Peer!WaitingIsPending` and `DockerRun!SectionIsExclusive`; the
latter is proved all the same.

**Bounds.** Two requests and two dependencies are the least that meet in all the
ways of the resolver: one joins the other's dependency, queues its own, checks
one that becomes pending meanwhile; a batch of two can be refused and fall apart.
`RETRIES` is 6 in the code and 2 here: the first attempt, a retried and a last
one. In `prepare` the requests come in pairs (`Teams`): two prepares whose images
cross, and a prepare that relies on docker being there next to the apply that
installs it. The plan of `apply_run` has a foundation unit, a scope of two units where
the second uses a capture of the first, and an independent scope: each way a
failure can block or not block. Two applies suffice for exclusion, and for a
line with one cancelled in front. One name and two contents let a name move, two
entries share one content, and a content return while its removal is under way;
the third request is a get, a list or a second change. Two events are the least that
can be out of order. Three requests for a name are one in the books, one that
replaces it and leaves half way, and one that comes after; liveness needs the
first two. The IR of `deploy` reaches every operation of every emitter: each kind
of interface and rule, a tunnel, a router's container with its legs, a workload
on a switch with a pinned gateway, two routes of equal destination. Three runs
of the service are a create that is struck, another, and a delete, or create, delete,
create. The trees of `job_tree` hold each kind of hook and waiter a deployer
declares; the two others use `initiate`, late children and stops from a hook.
`MaxEvents`, `Crashes`, `RETRIES`, `MaxRuns`, `MaxFaults` and `Teams` are the only
bounds on behaviours.

**Fairness.** `Sysdeps!FairSpec`: the worker and a request's own steps are
weakly fair, since the event loop runs every task that is ready and commands
end; arrivals, timeouts, the passing of days, cancellation and the stop are not.
`Prepare!FairSpec`: sysdeps answers, which `sysdeps_answer` shows, and the handlers go
on. `Apply!FairSpec`: an apply's handler and the executor's; the client is not.
`DockerRun!FairSpec`: requests, watchers and
`keep`, and the cancellation of every request once the runtime stops; not the end
of a container, nor a client that leaves. `Peer!FairSpec`: the two readers, the outboxes and the handlers;
closing and timeouts are not, save that a runtime which has closed its internal connection
closes this one too, the next thing `serve` does (runtime.py:62-63). `JobTree!FairSpec`: `run`, starts, tasks, processes that end
and stops; not a signal or a timeout. Each is a task that nothing but its own await holds up.
Fairness adds nothing to the safety properties checked beside a liveness
property.

**Deadlock** is checked in every passing run: the only states without another step are those
where all is over (`Quiet`, `AllOver`, stuttering steps guarded by that).

## 4. Findings

1. `job_late`: an event emitted while the tree stops is delivered to a job that
   has stopped (service.py:217 walks all children). Its waiter fires, and the process it starts
   is stopped by nobody: 152-153 says of the processes a job started that `stop()` kills them,
   which is true of those it had when it was stopped.
2. `job_starve`: the configure job of any OVN host waits for `ovn`, `ovs` and
   `ip` (ir_common.py:2266), but `ip` is installed only on a host with a kernel
   router (ir.ts:119-131); on a host that is central only the job waits for ever.
   The comment at ir_common.py:2261 says of these dependencies no more than that the job
   needs them; nothing makes up for one that is not installed. The same holds for `ovs` and `ip` of a host with nothing but containers or
   routers and no OVN.

The exceptions that properties name are the code's own too. Each can be
reproduced by taking the exception out:

- `PendingIsOwed`: `resolve` (sysdeps.py:184) takes a dependency into `_pending`
  before it has queued the job (190), with other version checks between. A client
  that goes away there leaves a future nobody owes, and every later request for
  that package waits in vain; the comment at 151 says that what is pending is
  queued or being installed.
- `OneOwner`: a cancelled apply leaves its lock (apply.py:110) while the unit it
  sent runs on, so a create and a delete can overlap, which apply.py:10 excludes.
- `RefsHaveContent`, `IsRegister` (`overtaken`): a change cancelled in `to_thread`
  (ir.py:136, 138) leaves the lock while its thread works on the disk; the comment at 92 says
  one change at a time. A change that begins meanwhile may be undone by the stale copy
  of `refs.json` the thread writes, or lose the content it has found on the disk.
- `RefsHaveContent`, `MissedMeansMoved` (`NoneBroken`): a put that ends between the
  content and its sidecar (ir.py:227-228), by a crash or a failing disk, leaves a content later puts
  take for complete; a `get` of it fails, and so does every `list` (156) once it is named.
- `EveryRequestEnds` (a handler that is `"dead"`): an event over the frame limit ends the
  outbox with a `ValueError` (forward.py:53), raised again where the handler would report
  the failure (peer.py:268): the request gets no response as long as the connection is open, though
  peer.py:266 says every failure answers. Nor does a handler that raises `Closed`
  answer (260-262), say of its ask on the internal connection: its request is told by the
  close of its own connection, which follows, and the property makes no exception for it.
- `NameComesFree`: a following request whose client leaves while its files are
  removed (docker_run.py:253) ends without setting its event (256). The next
  request for the name waits for that event, in the lock, for ever; 281 says the
  evicted request sees its container stop and cleans up.
- `NothingUnwatched`, `FilesWhileRunning`: a request cancelled during `docker run`
  (232) may leave a running container in nobody's books, without its files
  (`lost`), though line 24 says nothing is left running unwatched. A thread left
  behind by a cancelled task (`strayed`) may write or remove the files of the
  next container.
- `NothingLeft` (`HalfMoved`): a link is made in the root namespace and moved
  (primitives_net.py:535); when the move fails or the service dies between, the
  delete looks for it in the other namespace and leaves it. Likewise a file is written to
  `.<name>.tmp` and renamed (lifecycle.py:148-153): when the service dies or the disk is full between, the
  delete unlinks the file (156) and leaves the other, for WireGuard one that holds a private key, and
  the directory it is in, at which `os.removedirs` stops (primitives_fs.py:128-134). A later create
  that goes through writes and renames it again. The property names such links and files, and the
  directories they are in as long as they are there; no other object, and no empty directory, may be left.
- `DeleteIsQuiet` (`LostOnTheWay`): a link lent to a container and taken back has lost
  its addresses and routes, and OVN removes NAT mappings by their external address,
  so the second removal finds none. Both are reported and do no harm.
- `StoppedIsQuiet`, `TornDown` (`astray`): a stop that runs in a task which is itself
  stopped is cut short, and the event of finding 1. `TornDown` speaks of trees whose
  hooks stop nothing, or in which one hook stops its own job or one above it; for two see below.

Stated, and not true of the code, but not a run:

- `CreateRepeats`: README.md:11-12 calls a re-run safe, while OVS bridges and ports
  (ladops/ovs.py:123-133), links and tunnels are added strictly, so a second create
  fails its scopes (lifecycle.py:43).
- `MCDeploy!DhclientIR`: dhclient stays in the foreground (`-d`, primitives_net.py:321), and the
  service runs one command after the other, so the create comes no further than that, until a
  timeout fails it: `CreateCompletes` breaks.
- `MCDeploy!PhysicalIR`: a link of kind `physical` "only moves an already-existing device", says
  primitives_net.py:436; no command moves it (532), so what follows fails: `CreateCompletes` breaks.
  Of both declarations TLC evaluates `InOrder` to false, and all other conditions
  of `DeployPlans` but the order of a delete of the second to true.
- `MCJobTree!OrphanTrees`: a child added to a job `run()` has taken for completed
  is never started, and `run` does not return (service.py:190-207). `EarTrees`: a
  process that ends does not wake `run()`, unless its job is held.
- `MCJobTree!RacingTrees`: with two hooks that stop their own jobs, or one and a
  signal, the last gather of `run()` (service.py:337) may look at who is stopping before the
  second hook's stop begins. The stop of the root passes over that job, which has by then begun
  to stop, and `run()` returns before that stop is over: its stop hooks never
  run, although service.py:335-336 says not to return before it has finished. `TornDown`
  without its restriction is violated, and the Python shows the same.
- ir_common.py:2103-2104 says `jq` is added to what a host installs; it is not.

## 5. Proofs

`SysdepsProofs` proves, for any sets of requests and dependencies and any number
of retries:

- `TypeCorrect`, `QueuedStaysPending`, `NoLostWait`, `WatchersCorrect`,
  `PendingStaysOwed`: the invariants of `sysdeps_resolve` of the same meaning;
- `NoDoubleInstall`: no dependency is in two jobs.

None of these is inductive. `IInv` adds what connects the pieces: which requests
hold what in each `pc` (a request that scans holds no job; one that has ended
waits on nothing), that a job's name is in the queue at most once and not also
running, that a pending dependency's future is open and was created by a
request that found it missing, and that what the worker has still to handle is
part of its job. `Init => IInv` and `IInv /\ [Next]_vars => IInv'` are proved
with a lemma per action, `Proceed` being the hard one: it creates futures,
joins others and queues the job in one step. `PendingStaysOwed` is inductive
relative to `IInv`: what has just been taken from the queue is what the worker
has left.

`ApplyProofs` proves for any plan and any number of applies:

- `LockIsLeft`, `OneApplyAtATime`: the lock is held by exactly the apply at work
  under it, and the executor works only for that apply or for one whose client
  went away. The invariant adds that a running executor means an apply that is
  executing or cancelled.
- `FailuresAreContained`: exactly the units behind a failed one they need are
  skipped. `FailInv` says of an apply at unit `i` that the results before `i` are
  final and obey the rule and that those from `i` on are empty. The loop `RunFrom` is
  a step from `i` to the least unit not blocked, so `LeastExists` and
  `MinIsLeast` (well-founded induction over the numbers) say what it skips, and
  `OrderIsPermutation` that forward and rewound orders visit each unit once.
- `RefsAlwaysResolve`: the executor finds every value an operation refers to.
  `ValueInv` says that the store holds the captures of the units that are done and of
  the operations behind the executor's in its own unit. By `PlanAssumption` a
  capture a unit uses is made before it in the same scope, and by `FailInv` those units
  did not fail (`EarlierAreDone`): the second invariant rests on the first.
- `AnswersAreTrue`: an apply that answers done has run each operation of the plan once, in
  order or rewound. `RanInv` says that what ran so far is in the order of the plan,
  that it is behind the executor, and that it holds all operations of the units
  that are done and those of the unit at work up to the executor's place.
- `DoneMeansBuilt`: a create that answers done leaves its objects on the host, unless a
  client went away from a delete. While an apply works in the lock no other removes
  anything but such a delete's unit, which runs on (`BuiltInv`, over `OwnInv`); a client
  that went away does not come back (`StrayStays`), so the exception is known from then on.

`IrStoreProofs` proves for any requests, names, contents and number of crashes that
a name has its content (`ContentIsThere`) and that nothing else is left
(`NothingIsLeft`), whoever leaves when. `StoreInv` has a part that always holds (`Kept`) and
one that holds while nothing is overtaken (`Sound`): one at a time changes the names or removes
content (`Alone`), the request in the lock or the late thread of one that left it;
what that one has read is still true (`Knows`); and how far the
disk is from tidy at each `pc`, namely by the one content just stored or just
released. Any other orphan may write a content or a sidecar at any time; it can only
add, and then something was interrupted. `MissesAreMoves` is about a get and a list,
which take no lock: between their look at the names and at a content or a sidecar, these can go
only after the name has been pointed elsewhere.

`DockerRunProofs` proves for any number of requests that one at a time works
under the name (`OneInSection`), that it starts its container when nobody else is
in the books (`StartsOnFreeName`), and that what runs is watched or was let go in
one of the two ways the property names (`RunningIsWatched`). The lock does not
give the second, since followers leave it early and watchers never hold it:
`BookInv` says of each `pc` of a request in the lock who can still be in the
books, that exactly the living watcher is in them, and that a follower in them
has not set its event, so that the end of the wait means the books are empty.
`NothingUnwatched` is inductive relative to `BookInv`.

`SysdepsProofs` also proves the refinement, `ResolverKeepsPromise`: every step of the
resolver is a step of `DepPromise` or a stutter. Its invariant adds two parts to
`IInv`. `Books`: what a request still holds (to look at, just looked at, waited
for) is exactly what it has not reported, so a report is of something owed and
an answer comes when nothing is. `Truth`: wherever `ready` is noted, in a
future, in what a query saw or among what a request found, the package is
installed. `Proceed` reports all it found at once, the worker's steps install or
stutter, and a request that leaves drops what it was owed.

`PrepareProofs` proves for any packages, requests and images that a dependency is
announced as ready only if all its packages are installed and its services were
started (`ReadyIsTrue`). Statuses do not change and packages stay; the point is the wait
for the services between the look at the statuses and the announcement. The
dependency a handler may announce next is unique (`NextIsOne`), so what was
concluded before the services start is about the one that is announced after.

`OneFetchAtATime` and `PrepareTypes` are about the same two handlers: an image is fetched by
one request at a time, and who is at an image stands in its line exactly once. `LineInv` says
that nobody is in a line twice, that exactly the first of a line holds its lock, and
what each who holds it has seen of the image; a request that leaves from the middle of a
line takes itself out and nobody else (`Without`).

`PeerProofs` proves for any number of requests and events on one connection that a
request's frames arrive in order, each once, with the response last
(`FramesInOrder`), and that whoever waits is routed to (`WaitersAreRouted`).
`PeerInv` says for each request that what it has read, what is under way to it among the
frames of all the others, and what is still in its outbox are one after the other the
events emitted, none missing and none twice, wherever the connection is cut.

`DockerRunProofs` also proves `FilesLastAsLong`: the files are there as long as the container runs,
with the exceptions the property names. A start writes them in the lock; who may remove
them is bound to the same books.

`IrStoreProofs` also proves the refinement `NamesAreARegister`: every step of
`IrStore` is a step of `IrNames` or a stutter, the write of `refs.json` being the moment an
update takes effect. It needs that a change writes what it read, changed (`Knows`), and that nobody else
has written in between; where someone may have, `overtaken` is set.

`JobTreeProofs` proves for any jobs, events and trees, deployers' or others:

- `EventsReachWaiters`: a registered waiter has fired if and only if all it waits for has been
  emitted. `Heard` says what each waiter has seen: the events queued so far that it
  depends on, whether it was there when they came or was made later and had them replayed.
- `StoppedStaysQuiet`: a job whose stop is over does nothing any more, and stop hooks work
  alone. Everything is read off the one call of `_stop()` a job has (`Stops`): it exists, in
  one task and one place, from the beginning of the stop to its end; between its
  cancelling and its end the job's tasks take no step, between the killing and the end
  none of their processes is left, and only its stop hooks run one (`Quiet`). A job launched
  after its stop would break it, so `Launched` says a job starts once, after its parent. It is
  proved under `StopsLast`: a hook that calls `stop()` does so in its last step. Otherwise
  it could work on for a job that has stopped around it, or call
  `stop()` twice; a generated deployer never stops from a hook, and the trees of the runs keep
  to it (`MCJobTree!HooksStopLast`).
- `TypesAreOK`: `TypeOK`, the flags of a job (`FlagsInOrder`: nothing is ready unstarted, done
  unstopped, or fired unheard), and that `run()` goes through jobs and nothing else. What it goes
  through is a recursion over the tree (`Subtree`); that it is a sequence of jobs is shown by
  the least depth at which it would not be.
- `NothingIsSkipped`: what `run()` takes for completed has nothing left to do. `Orderly` says where
  jobs are in the tree and which of them may still take a step. `Driven` has two halves: while
  `run()` loops, a job that is not held has its waiter attended to, and one that is
  stopped by the loop was a leaf with nothing left to do (`Unhurried`); once it has left the loop,
  nothing is left to do anywhere (`Served`). Under `AddsToOwn` and `WaitersHeld`: a job that waits
  without being held can be taken for completed (`EarTrees`).
- `AllIsTornDown`: in a tree whose hooks stop nothing, `TornDown` holds. `Torn` has
  two parts. `Stoppers`: only `run()` and who interrupts it stop jobs. `Clearing`: a stopped job
  that is past its hooks has run them, and each of its children is stopped or still
  in the rest of its call (`Left`), unless its stop may have been cut short (`CutShort`). At the
  end no call is left, so the stopped jobs and those below a stop that was cut short
  are closed under children, and hold the root: they are the whole tree (`Reach` is
  the least closed set, so no induction over the tree is needed). Under `AddsToOwn`.

`DeployProofs` proves for any declaration that meets the conditions of `DeployPlans` a theorem names,
any host before it, and any number of runs, failing commands, deaths and reboots:

- `OthersAreUntouched`: what others have on the host stays. What is taken away is what a command drops
  with all that is in it, what is tied to any of that, and directories pruned upwards. The hypothesis
  `KeepsToItself` speaks of names only: what the commands drop, move or tie holds
  nothing of others', and where a pruned directory does, there is something of theirs in it
  that is not pruned (os.removedirs takes a directory others have but left empty).
  That names suffice, though ties and contents change at every step, is the invariant `Apart`:
  nothing that may be taken away is ever tied to what holds something of others'.
- `NothingIsDangling`: what refers to the chassis of a host is there only when that host has
  registered (`ReferredIsRegistered`), and when a create on the host as it was before has gone
  through, every port of a bridge has its device. For the first, by the
  hypothesis `CapturedBefore` the capture is before it in its scope. `Passed` says of a create that the operation at hand is not blocked and that every capture
  behind it, in a scope that is not blocked, has found its chassis; a capture that
  gave up has broken the scope, so that nothing behind it in the scope is created.
- `CreatesComplete`: a create on the host as it was before, which nothing strikes, breaks no
  scope. A *step* is one command of one operation. `Stands` and `Lacks` say of a step, from
  the plan alone, what is there and what is not when its turn comes; the hypothesis `InOrder`
  is that this is what the step needs. `Going` says that the host is as the plan says
  (`Abreast`) at every step of such a create, so that no command fails, and at its end.
  `PortsHaveDevices` then gives the second part of `NothingIsDangling`.
- `NothingIsLeft`: after a delete that nothing struck, whatever creates, faults, deaths and reboots were
  before it, the host has nothing but what was there before, what a create was struck before it moved
  (a link, a `.<name>.tmp`), and the directories such a file is in. A delete
  cannot rely on what a create has done; it relies on what no command can spoil. `Sound` is
  an invariant of the host under every command, broken off anywhere, and of a reboot:
  what is there is there with what holds it (`Shaped`), an object that comes tied to another is still
  tied to it (`Tied`), and a new directory is there with a whole path that is pruned (`Pathed`). The
  hypothesis `DeletesAll` says that the commands respect this (`Placed`, `PrunedUpwards`) and that for
  whatever a create makes some step of the delete takes it, or what it is tied to, if it is there at
  all, and that none later brings it back (`Undone`). `Emptying` says that at every step what the
  steps before were to clear is gone (`EmptiedTo`): for a directory, that one of its path is, which
  by `Pathed` is enough once all in it is gone, or that something half moved is in it which no later
  step takes (`Kept`, `Stays`): so a directory is left only with the file that keeps it.
- `DeletesQuietly`: the delete after a create that went through, with nothing struck in either,
  meets nothing unexpected but what `LostOnTheWay` names. `StandsThen` and `LacksThen` carry `Stands`
  and `Lacks` on through the delete; `DeletesInOrder` is that a step finds what it needs by them. They
  are asymmetric: a command whose effect depends on the host (a link takes what it is tied to, a
  directory goes if it is empty) is never relied on to remove something, nor to keep it (`Removes`,
  `MayRemove`). `Undisturbed` starts from `Going` at the end of the create (`AlongFirst`) and says that the host keeps to it (`Along`).
- `TypesAreOK`: `Deploy!TypeOK`, which no run checks: what is on the host is there with what holds
  it, and ties are between objects that are there. It follows from `Sound`, under `DeletesAll`.

All need what a sequence of commands keeps or makes wherever it breaks off (`RunApart`,
`RunMakes`, `RunSound`, `RunEmpties` and others). `RunIsRun` shows that the recursive function `RunOf`
is defined by exists and obeys its equation, by the least number of commands for which it would not;
the lemmas argue by a least number too. TLC evaluates every hypothesis for the instance
(`MCDeploy!ForeignIsKept`, `ChassisIsCaptured`, `CreatesInOrder`, `PortsAreDevices`,
`AllIsUndone`, `UndoneInOrder`).

The assumptions about constants are evaluated by TLC in every run. Every invariant of a passing run is
stated by a theorem. Only model-checked:

- liveness, in every module: fairness is beyond the prover;
- `TornDown` for trees whose hooks stop jobs: stops then run inside tasks that are stopped
  themselves, and who is cut short depends on the order;
- that the declaration of `MCDeploy` meets the conditions of `DeployPlans`: the theorems are
  about every declaration that does, and which do is a question of data, answered
  declaration by declaration, since the plan is folded from the IR.

## 6. Not modelled

- *Pure functions of data*: parsing a document (`protocol/hydrate.py`), the
  reconcilers' comparisons, the raw graph, the parsers in `ladops`, the builders and the
  addressing of the TypeScript side. They keep no state and nothing interrupts them.
- *I/O and build tools*: the command lines, logging, bundles, images, the text of
  a generated deployer, and the emitters only it uses (`_emit_host` and what
  hangs on it). What a command prints is not modelled; what it does is an effect on the
  host's objects or an outcome.
- Of a peer: invalid messages, events without a request, emits after the response.
- The runtime's own start and stop (`runtime.py`) but for the stop of its
  services, which `Sysdeps` and `DockerRun` have.
- Fields of host objects nothing decides by: MACs, metrics, tags, labels.
  Objects of others *with names the IR declares* are taken for the IR's own, as
  the code takes them; shared directories go when they are empty.
- The middle of making or removing a path of directories: a service that dies there may leave some of
  its parents without the last one, and the next delete, whose `os.removedirs` starts at the last,
  leaves them too. `NothingLeft` says nothing of that case.
- How long things take: backoff, polling intervals, and the timeout of a readiness
  wait that only warns.

## 7. What is left to do

In the order of what would add most: the runtime's start and stop with connections
coming in (`Serve`); emits after the outbox is closed, in `Peer`; the emitters of the generated deployer that a
plan does not use. Proofs: `TornDown` for one hook that stops its own
job; by least numbers, as in `DeployProofs`, that what the emitters of a plan declare meets the
conditions of `DeployPlans` for a class of IRs.
