------------------------------ MODULE JobTree ------------------------------
(***************************************************************************)
(* The job tree a deployer runs on a host: generator/runtime/service.py,   *)
(* with the dependency waiters of deployer/jobtree.py as the event hooks   *)
(* of its jobs, driven the way deployer/ir_to_python.py drives it.         *)
(*                                                                         *)
(* All tasks share one event loop, so what the code does between two       *)
(* awaits is one action.  A task is the start hook of a job ("hook"), or   *)
(* the action of its waiter ("act"), each a short program: run a command,  *)
(* emit an event, stop a job, add a child, sleep for ever.  Stopping is a  *)
(* coroutine that runs in whichever task calls it, and is cut short when   *)
(* that task is cancelled: stack[t] holds the calls of stop() and _stop()  *)
(* that task t is in.                                                      *)
(***************************************************************************)
EXTENDS Naturals, Sequences, FiniteSets, SequencesExt

CONSTANTS Job,     \* the jobs of every tree
          Root,    \* the job without a parent
          Event,   \* the dependency events
          Trees    \* the trees to run, see TreeType

\* What a deployer declares before it runs the tree: the children in their
\* order, who starts without waiting for its parent, the start hooks, the
\* dependencies of the waiters, what they do and whether their job stays,
\* the waiters whose job is held meanwhile (register holds all of them), the
\* jobs with a stop hook, and what may end the run from outside.
Emits == {"emit"} \X Event

TreeType ==
    [kids : [Job -> Seq(Job)], initiate : SUBSET Job, late : SUBSET Job,
     hook : [Job -> Seq(Emits \cup ({"run", "stop", "add", "sleep"} \X Job))],
     waits : SUBSET Job, deps : [Job -> SUBSET Event], holds : SUBSET Job,
     act : [Job -> Seq(Emits \cup ({"run"} \X Job))],
     keep : SUBSET Job, down : SUBSET Job,
     parent : [Job -> Job], ends : {"itself", "signal", "timeout"}]

\* The jobs at and below job j, by the children each has.
Closed(children, S) == \A j \in S : ToSet(children[j]) \subseteq S

Reach(children, j) ==
    {k \in Job : \A S \in SUBSET Job : j \in S /\ Closed(children, S) => k \in S}

\* There are finitely many jobs, and one is made as a child of its parent,
\* which is there already.
ASSUME JobTreeAssumption ==
    /\ IsFiniteSet(Job)
    /\ Trees \subseteq TreeType /\ Root \in Job
    /\ \A t \in Trees : \A j \in Job : \A k \in ToSet(t.kids[j]) :
          k # Root /\ t.parent[k] = j /\ k \in Reach(t.kids, Root)

\* A hook that stops a job does so last; nothing in the code asks for it.
StopsLast ==
    \A t \in Trees : \A j \in Job : \A n \in DOMAIN t.hook[j] :
       t.hook[j][n][1] = "stop" => n = Len(t.hook[j])

\* A hook adds children to its own job, the one it is handed; and a waiter's
\* job is held from its making, as register() does it.
AddsToOwn ==
    \A t \in Trees : \A j \in Job : \A n \in DOMAIN t.hook[j] :
       t.hook[j][n][1] = "add" => t.parent[t.hook[j][n][2]] = j

WaitersHeld ==
    \A t \in Trees :
       /\ t.waits \subseteq t.holds /\ Root \notin t.late
       /\ \A j \in Job : ToSet(t.kids[j]) \cap t.late = {}

Main == <<"main", Root>>     \* Job.run of the root
Outer == <<"outer", Root>>   \* who stops the tree from outside
Task == {"hook", "act"} \X Job

VARIABLES
    tree,     \* the tree that is run
    ends,     \* what may still end the run from outside
    mpc,      \* where run() is
    scan,     \* the jobs the loop of run() has still to look at, or waits for
    wake,     \* the root's _wakeup
    kids,     \* children of each job
    tasks,    \* the launch and readiness tasks under way, <<kind, job>>
    started, ready, stopped, held, done,   \* the jobs' flags and events
    queue,    \* the events queued at the root
    seen,     \* the dependencies each waiter has seen
    fired,    \* the waiters that fired
    pc,       \* the step each task is at: 0 none yet
    procs,    \* the processes alive, by the task or stop hook that runs them
    stack,    \* the stop calls each task is in
    downs,    \* the jobs whose stop hooks have run
    astray    \* jobs whose stop was cut short, or who acted after their stop

vars == <<tree, ends, mpc, scan, wake, kids, tasks, started, ready, stopped, held,
          done, queue, seen, fired, pc, procs, stack, downs, astray>>

flags == <<started, ready, stopped, held, done>>
waiters == <<queue, seen, fired>>

Program(t) == IF t[1] = "hook" THEN tree.hook[t[2]] ELSE tree.act[t[2]]

AtStep(t) == pc[t] \in 1..Len(Program(t))

Settled(t) == pc[t] > Len(Program(t)) /\ stack[t] = <<>>

Parent(j) == tree.parent[j]

Present == {Root} \cup UNION {ToSet(kids[j]) : j \in Job}

\* The first sequence, then each of the n parts.
Chained(first, n, parts) ==
    LET Upto[k \in 0..n] == IF k = 0 THEN first ELSE Upto[k - 1] \o parts[k]
    IN Upto[n]

\* The jobs in the order of _subtree.
Subtree ==
    LET Below[n \in 0..Cardinality(Job)] ==
          [j \in Job |->
             IF n = 0 THEN <<j>>
             ELSE Chained(<<j>>, Len(kids[j]), [i \in DOMAIN kids[j] |-> Below[n - 1][kids[j][i]]])]
    IN Below[Cardinality(Job)][Root]

\* The elements of s that are in S, in their order.
Among(s, S) ==
    Chained(<<>>, Len(s), [i \in DOMAIN s |-> IF s[i] \in S THEN <<s[i]>> ELSE <<>>])

---------------------------------------------------------------------------
(* Waiters.                                                                *)

\* The waiters that fire when event e has reached them.
Fires(e) ==
    {j \in (tree.waits \cap Present) \ fired :
        tree.deps[j] \subseteq seen[j] \cup {e}}

\* The stop of job j has already ended the tasks j had.
PastCancel(j) ==
    /\ j \in stopped
    /\ \A t \in DOMAIN stack : \A i \in DOMAIN stack[t] :
          stack[t][i] # [job |-> j, phase |-> "notify", rest |-> <<>>]

\* Event e reaches every waiter of the tree, stopped or not.
Hear(e) ==
    /\ queue' = queue \cup {e}
    /\ seen' = [j \in Job |-> IF j \in (tree.waits \cap Present) \ fired
                              THEN seen[j] \cup ({e} \cap tree.deps[j]) ELSE seen[j]]
    /\ fired' = fired \cup Fires(e)
    /\ astray' = astray \cup {j \in Fires(e) : PastCancel(j)}

---------------------------------------------------------------------------
(* Starting.                                                               *)

Init ==
    /\ tree \in Trees /\ ends = tree.ends
    /\ mpc = "start" /\ scan = <<>> /\ wake = FALSE
    /\ kids = tree.kids
    /\ tasks = {} /\ started = {} /\ ready = {} /\ stopped = {} /\ done = {}
    /\ held = tree.holds \ tree.late
    /\ queue = {} /\ seen = [j \in Job |-> {}] /\ fired = {}
    /\ pc = [t \in Task |-> 0]
    /\ procs = {} /\ downs = {} /\ astray = {}
    /\ stack = [t \in Task \cup {Main, Outer} |-> <<>>]

Launch(j) ==
    /\ started' = started \cup {j}
    /\ tasks' = (tasks \ {<<"launch", j>>}) \cup {<<"watch", j>>}
                  \cup {<<"launch", k>> : k \in ToSet(kids[j])}
    /\ pc' = [pc EXCEPT ![<<"hook", j>>] = 1]

\* run() starts the tree.
Run ==
    /\ mpc = "start"
    /\ mpc' = "scan"
    /\ scan' = Subtree
    /\ Launch(Root)
    /\ UNCHANGED <<tree, ends, wake, kids, ready, stopped, held, done, waiters, procs,
                   stack, downs, astray>>

\* A child starts once its parent is ready, or at once if it initiates.
Start(j) ==
    /\ mpc # "over"
    /\ <<"launch", j>> \in tasks
    /\ j \in tree.initiate \/ Parent(j) \in ready
    /\ IF j \in stopped
       THEN /\ tasks' = tasks \ {<<"launch", j>>}
            /\ UNCHANGED <<started, pc>>
       ELSE Launch(j)
    /\ UNCHANGED <<tree, ends, mpc, scan, wake, kids, ready, stopped, held, done,
                   waiters, procs, stack, downs, astray>>

\* Mutant: the readiness watcher stays.
BecomeReadyTwice(j) ==
    /\ mpc # "over" /\ <<"watch", j>> \in tasks /\ Settled(<<"hook", j>>)
    /\ ready' = ready \cup {j}
    /\ wake' = TRUE
    /\ UNCHANGED <<tree, ends, mpc, scan, kids, tasks, started, stopped, held, done,
                   waiters, pc, procs, stack, downs, astray>>

BecomeReady(j) ==
    /\ mpc # "over"
    /\ <<"watch", j>> \in tasks
    /\ Settled(<<"hook", j>>)
    /\ tasks' = tasks \ {<<"watch", j>>}
    /\ ready' = ready \cup {j}
    /\ wake' = TRUE
    /\ UNCHANGED <<tree, ends, mpc, scan, kids, started, stopped, held, done, waiters,
                   pc, procs, stack, downs, astray>>

---------------------------------------------------------------------------
(* The steps of the hooks and of the waiters' actions.                     *)

\* Mutant: the action's end does not wake run().
ReleaseSilently(t, n, ok) ==
    /\ wake' = wake
    /\ held' = IF t[1] = "act" /\ n > Len(Program(t)) /\ ~(ok /\ t[2] \in tree.keep)
               THEN held \ {t[2]} ELSE held

\* Task t goes on to step n.  A waiter's action at its end, be it well or
\* not, keeps its job or releases it, and wakes run().
Release(t, n, ok) ==
    IF t[1] = "act" /\ t[2] \in tree.holds /\ n > Len(Program(t))
    THEN /\ held' = IF ok /\ t[2] \in tree.keep THEN held \cup {t[2]} ELSE held \ {t[2]}
         /\ wake' = TRUE
    ELSE UNCHANGED <<held, wake>>

Doing(t, op) ==
    /\ mpc # "over"
    /\ AtStep(t)
    /\ stack[t] = <<>>
    /\ Program(t)[pc[t]][1] = op

RunCmd(t) ==
    /\ Doing(t, "run")
    /\ t \notin procs
    /\ procs' = procs \cup {t}
    /\ UNCHANGED <<tree, ends, mpc, scan, wake, kids, tasks, flags, waiters, pc, stack,
                   downs, astray>>

\* The command of t ends; if it fails, so does the task.
CmdEnds(t) ==
    /\ Doing(t, "run")
    /\ t \in procs
    /\ procs' = procs \ {t}
    /\ \E ok \in BOOLEAN :
          LET n == IF ok THEN pc[t] + 1 ELSE Len(Program(t)) + 1
          IN /\ pc' = [pc EXCEPT ![t] = n]
             /\ Release(t, n, ok)
    /\ UNCHANGED <<tree, ends, mpc, scan, kids, tasks, started, ready, stopped, done,
                   waiters, stack, downs, astray>>

Emit(t) ==
    /\ Doing(t, "emit")
    /\ LET e == Program(t)[pc[t]][2]
       IN /\ Hear(e)
          /\ pc' = [u \in Task |-> IF u = t THEN pc[t] + 1
                                   ELSE IF u[1] = "act" /\ u[2] \in Fires(e) THEN 1
                                   ELSE pc[u]]
    /\ Release(t, pc[t] + 1, TRUE)
    /\ UNCHANGED <<tree, ends, mpc, scan, kids, tasks, started, ready, stopped, done,
                   procs, stack, downs>>

\* Mutant: it does not.
ReplayNothing(k) == UNCHANGED <<seen, fired>>

\* A waiter registered on a running tree gets the events queued before.
Replay(k) ==
    /\ seen' = [seen EXCEPT ![k] = queue \cap tree.deps[k]]
    /\ fired' = IF k \in tree.waits /\ queue # {} /\ tree.deps[k] \subseteq queue
                THEN fired \cup {k} ELSE fired

\* A hook makes a job, one that nobody knows yet.
AddChild(t) ==
    /\ Doing(t, "add")
    /\ LET k == Program(t)[pc[t]][2]
           j == Parent(k)
       IN /\ k \notin Present \cup stopped
          /\ kids' = [kids EXCEPT ![j] = Append(@, k)]
          /\ Replay(k)
          /\ held' = held \cup ({k} \cap tree.holds)
          /\ tasks' = IF j \in started \ stopped THEN tasks \cup {<<"launch", k>>} ELSE tasks
          /\ pc' = [pc EXCEPT ![t] = @ + 1,
                              ![<<"act", k>>] = IF k \in fired' THEN 1 ELSE 0]
    /\ wake' = TRUE
    /\ UNCHANGED <<tree, ends, mpc, scan, started, ready, stopped, done, queue, procs,
                   stack, downs, astray>>

\* A hook calls stop() of a job: its own, its parent or any other.
CallStop(t) ==
    /\ Doing(t, "stop")
    /\ pc' = [pc EXCEPT ![t] = @ + 1]
    /\ stack' = [stack EXCEPT ![t] =
                    <<[job |-> Program(t)[pc[t]][2], phase |-> "stop", rest |-> <<>>]>>]
    /\ UNCHANGED <<tree, ends, mpc, scan, wake, kids, tasks, flags, waiters, procs,
                   downs, astray>>

---------------------------------------------------------------------------
(* Stopping.  The last element of stack[t] is the call t is in.            *)

Frame(j, phase, rest) == [job |-> j, phase |-> phase, rest |-> rest]

InPhase(t, phase) == mpc # "over" /\ stack[t] # <<>> /\ Last(stack[t]).phase = phase

Stopping(t) == Last(stack[t]).job

Turn(t, frame) == [stack EXCEPT ![t] = Append(Front(@), frame)]

\* _stop() of job j begins in task t, below the calls s it is in.
Enter(t, s, j) ==
    /\ stopped' = stopped \cup {j}
    /\ held' = held \ {j}
    /\ wake' = TRUE
    /\ stack' = [stack EXCEPT ![t] = Append(s, Frame(j, "notify", <<>>))]

\* stop(): the job, if nobody stops it yet, then its parent.
StopCall(t) ==
    /\ InPhase(t, "stop")
    /\ LET j == Stopping(t)
       IN IF j \notin stopped
          THEN Enter(t, stack[t], j)
          ELSE /\ stack' = IF j = Root THEN [stack EXCEPT ![t] = <<>>]
                           ELSE Turn(t, Frame(Parent(j), "stop", <<>>))
               /\ UNCHANGED <<stopped, held, wake>>
    /\ UNCHANGED <<tree, ends, mpc, scan, kids, tasks, started, ready, done, waiters, pc,
                   procs, downs, astray>>

\* The jobs whose _stop() the tasks T are in.
StopsOf(T) ==
    UNION {{stack[u][i].job : i \in {n \in DOMAIN stack[u] : stack[u][n].phase # "stop"}} : u \in T}

\* The tasks of the job are cancelled, but for the one that stops it.  Each
\* ends at the await it is in; a stop it was carrying out ends with it.
CancelTasks(t) ==
    /\ InPhase(t, "notify")
    /\ LET j == Stopping(t)
           cut == {<<"hook", j>>, <<"act", j>>} \ {t}
       IN /\ tasks' = tasks \ {<<"launch", j>>, <<"watch", j>>}
          /\ pc' = [u \in Task |-> IF u \in cut /\ pc[u] > 0
                                   THEN Len(Program(u)) + 1 ELSE pc[u]]
          /\ stack' = [u \in DOMAIN stack |->
                         IF u \in cut THEN <<>>
                         ELSE IF u = t THEN Append(Front(stack[t]), Frame(j, "kill", <<>>))
                         ELSE stack[u]]
          /\ done' = done \cup StopsOf(cut)
          /\ astray' = astray \cup StopsOf(cut)
          /\ wake' = (wake \/ StopsOf(cut) # {})
    /\ UNCHANGED <<tree, ends, mpc, scan, kids, started, ready, stopped, held, waiters,
                   procs, downs>>

Processes(j) == {"hook", "act", "down"} \X {j}

\* The processes of job j are killed; a task that waits for one fails, and
\* a waiter's action that fails releases the job.
KillAll(j) ==
    LET cut == {u \in procs \cap Task : u[2] = j /\ AtStep(u)}
    IN /\ pc' = [u \in Task |-> IF u \in cut THEN Len(Program(u)) + 1 ELSE pc[u]]
       /\ held' = IF <<"act", j>> \in cut THEN held \ {j} ELSE held

\* Mutant: the stop hooks run first, the killing is left to their end.
HooksStartFirst(t) ==
    /\ InPhase(t, "kill")
    /\ procs' = procs \cup ({<<"down", Stopping(t)>>} \cap ({"down"} \X tree.down))
    /\ stack' = Turn(t, Frame(Stopping(t), "hooks", <<>>))
    /\ UNCHANGED <<tree, ends, mpc, scan, wake, kids, tasks, flags, waiters, pc,
                   downs, astray>>

\* What the job left running is killed, and its stop hooks start ...
HooksStart(t) ==
    /\ InPhase(t, "kill")
    /\ LET j == Stopping(t)
       IN /\ KillAll(j)
          /\ procs' = (procs \ Processes(j)) \cup ({<<"down", j>>} \cap ({"down"} \X tree.down))
          /\ stack' = Turn(t, Frame(j, "hooks", <<>>))
    /\ UNCHANGED <<tree, ends, mpc, scan, wake, kids, tasks, started, ready, stopped,
                   done, waiters, downs, astray>>

\* ... and once they are over, what they left is killed too.
HooksEnd(t) ==
    /\ InPhase(t, "hooks")
    /\ LET j == Stopping(t)
       IN /\ KillAll(j)
          /\ procs' = procs \ Processes(j)
          /\ downs' = downs \cup {j}
          /\ stack' = Turn(t, Frame(j, "kids", Reverse(kids[j])))
    /\ UNCHANGED <<tree, ends, mpc, scan, wake, kids, tasks, started, ready, stopped,
                   done, waiters, astray>>

\* Mutant: children that have not started are left out.
NextChildStarted(t) ==
    /\ InPhase(t, "kids")
    /\ LET f == Last(stack[t])
           s == Append(Front(stack[t]), [f EXCEPT !.rest = Tail(@)])
       IN /\ f.rest # <<>>
          /\ IF Head(f.rest) \in stopped \/ Head(f.rest) \notin started
             THEN /\ stack' = [stack EXCEPT ![t] = s]
                  /\ UNCHANGED <<stopped, held, wake>>
             ELSE Enter(t, s, Head(f.rest))
    /\ UNCHANGED <<tree, ends, mpc, scan, kids, tasks, started, ready, done, waiters,
                   pc, procs, downs, astray>>

\* The children are stopped, the last first; one that somebody else stops
\* is not waited for.
NextChild(t) ==
    /\ InPhase(t, "kids")
    /\ LET f == Last(stack[t])
           s == Append(Front(stack[t]), [f EXCEPT !.rest = Tail(@)])
       IN /\ f.rest # <<>>
          /\ IF Head(f.rest) \in stopped
             THEN /\ stack' = [stack EXCEPT ![t] = s]
                  /\ UNCHANGED <<stopped, held, wake>>
             ELSE Enter(t, s, Head(f.rest))
    /\ UNCHANGED <<tree, ends, mpc, scan, kids, tasks, started, ready, done, waiters, pc,
                   procs, downs, astray>>

StopDone(t) ==
    /\ InPhase(t, "kids")
    /\ Last(stack[t]).rest = <<>>
    /\ done' = done \cup {Stopping(t)}
    /\ stack' = [stack EXCEPT ![t] = Front(@)]
    /\ wake' = TRUE
    /\ UNCHANGED <<tree, ends, mpc, scan, kids, tasks, started, ready, stopped, held,
                   waiters, pc, procs, downs, astray>>

---------------------------------------------------------------------------
(* run() and who stops it.                                                 *)

BusyJob(j) ==
    \/ j \in held
    \/ j \in stopped /\ j \notin done
    \/ j \notin stopped /\ (j \notin ready \/ procs \cap Processes(j) # {})

Busy == \E j \in Reach(kids, Root) : BusyJob(j)

\* Mutant: a held job is one too.
IsCompletedUnheld(j) == kids[j] = <<>> /\ j \in ready

\* A job that run() takes for completed.
IsCompleted(j) == kids[j] = <<>> /\ j \in ready /\ j \notin held

\* The first completed job of the scan is stopped.
ScanStops ==
    /\ mpc = "scan" /\ stack[Main] = <<>>
    /\ \E j \in Job : \E n \in DOMAIN scan :
          /\ scan[n] = j /\ IsCompleted(j) /\ j \notin stopped
          /\ \A i \in 1..(n - 1) : ~IsCompleted(scan[i]) \/ scan[i] \in stopped
          /\ Enter(Main, <<>>, j)
          /\ scan' = SubSeq(scan, n + 1, Len(scan))
    /\ UNCHANGED <<tree, ends, mpc, kids, tasks, started, ready, done, waiters, pc,
                   procs, downs, astray>>

ScanEnds ==
    /\ mpc = "scan" /\ stack[Main] = <<>>
    /\ \A n \in DOMAIN scan : ~IsCompleted(scan[n]) \/ scan[n] \in stopped
    /\ scan' = <<>>
    /\ mpc' = IF Busy THEN "wait" ELSE "final"
    /\ UNCHANGED <<tree, ends, wake, kids, tasks, flags, waiters, pc, procs, stack, downs,
                   astray>>

Wakes ==
    /\ mpc = "wait" /\ wake
    /\ wake' = FALSE
    /\ IF Root \in stopped
       THEN mpc' = "final" /\ scan' = <<>>
       ELSE mpc' = "scan" /\ scan' = Subtree
    /\ UNCHANGED <<tree, ends, kids, tasks, flags, waiters, pc, procs, stack, downs, astray>>

FinalStop ==
    /\ mpc = "final" /\ stack[Main] = <<>>
    /\ Root \notin stopped
    /\ Enter(Main, <<>>, Root)
    /\ UNCHANGED <<tree, ends, mpc, scan, kids, tasks, started, ready, done, waiters, pc,
                   procs, downs, astray>>

\* run() waits for the stops that are under way in other tasks.
Gather ==
    /\ mpc = "final" /\ stack[Main] = <<>>
    /\ Root \in stopped
    /\ mpc' = "gather"
    /\ scan' = Among(Subtree, stopped)
    /\ UNCHANGED <<tree, ends, wake, kids, tasks, flags, waiters, pc, procs, stack, downs,
                   astray>>

\* A signal, or the timeout of a job set, which also cancels run().
Interrupt ==
    /\ mpc \notin {"start", "cut", "over"}
    /\ ends # "itself"
    /\ ends' = "itself"
    /\ stack' = [stack EXCEPT ![Outer] = <<Frame(Root, "stop", <<>>)>>,
                              ![Main] = IF ends = "timeout" THEN <<>> ELSE @]
    /\ IF ends = "timeout"
       THEN /\ mpc' = "cut"
            /\ done' = done \cup StopsOf({Main})
            /\ astray' = astray \cup StopsOf({Main})
       ELSE UNCHANGED <<mpc, done, astray>>
    /\ UNCHANGED <<tree, scan, wake, kids, tasks, started, ready, stopped, held,
                   waiters, pc, procs, downs>>

\* The process ends; with it the tasks that are left.
Over ==
    /\ stack[Outer] = <<>>
    /\ mpc = "cut" \/ (mpc = "gather" /\ ToSet(scan) \subseteq done)
    /\ mpc' = "over"
    /\ UNCHANGED <<tree, ends, scan, wake, kids, tasks, flags, waiters, pc, procs, stack,
                   downs, astray>>

AllOver == mpc = "over" /\ UNCHANGED vars

TaskStep(t) ==
    RunCmd(t) \/ CmdEnds(t) \/ Emit(t) \/ AddChild(t) \/ CallStop(t)

StopStep(t) ==
    \/ StopCall(t) \/ CancelTasks(t) \/ HooksStart(t)
    \/ HooksEnd(t) \/ NextChild(t) \/ StopDone(t)

RunStep == ScanStops \/ ScanEnds \/ Wakes \/ FinalStop \/ Gather \/ Over

Next ==
    \/ Run
    \/ \E j \in Job : Start(j) \/ BecomeReady(j)
    \/ \E t \in Task : TaskStep(t)
    \/ \E t \in DOMAIN stack : StopStep(t)
    \/ RunStep
    \/ Interrupt
    \/ AllOver

Spec == Init /\ [][Next]_vars

\* The loop runs every task that is ready, and a command ends.  Nothing
\* makes a signal or a timeout come.
FairSpec ==
    /\ Spec
    /\ WF_vars(Run) /\ WF_vars(RunStep)
    /\ \A j \in Job : WF_vars(Start(j) \/ BecomeReady(j))
    /\ \A t \in Task : WF_vars(TaskStep(t))
    /\ \A t \in Task \cup {Main, Outer} : WF_vars(StopStep(t))

---------------------------------------------------------------------------
(* Properties.                                                             *)

\* Types, and what ties the flags of a job together: no job is ready that
\* has not started, none has done with stopping that never began, and a
\* waiter fires for what it has seen.
FlagsOK ==
    /\ mpc \in {"start", "scan", "wait", "final", "gather", "cut", "over"}
    /\ wake \in BOOLEAN
    /\ kids \in [Job -> Seq(Job)]
    /\ started \subseteq Job /\ ready \subseteq started
    /\ stopped \subseteq Job /\ done \subseteq stopped /\ held \subseteq tree.holds
    /\ \A j \in Job : <<"watch", j>> \in tasks => j \in started \ ready
    /\ fired \subseteq tree.waits /\ queue \subseteq Event
    /\ \A j \in fired : seen[j] = tree.deps[j]
    /\ \A t \in Task : pc[t] \in 0..(Len(Program(t)) + 1)
    /\ procs \subseteq {"hook", "act", "down"} \X Job

TypeOK == FlagsOK /\ ToSet(scan) \subseteq Job

\* A dependency that became ready before a waiter was registered reaches it
\* all the same, and one that comes in pieces fires it with the last piece:
\* a registered waiter has fired if and only if all it waits for has been
\* emitted (Job.on_emit's replay, DepWaiter.waitfor).
NoEventLost ==
    \A j \in tree.waits \cap Present :
        queue # {} => (j \in fired <=> tree.deps[j] \subseteq queue)

\* run() does not take a job that waits, or whose action works, for a
\* completed one: when it returns and nobody has stopped the tree, every
\* waiter has fired and done its work, and every start hook too.
StopsNothing == \A t \in Task : \A n \in 1..Len(Program(t)) : Program(t)[n][1] # "stop"

ByItself == tree.ends = ends /\ StopsNothing

NothingSkipped ==
    mpc = "over" /\ ByItself =>
        /\ tree.waits \cap Present \subseteq fired
        /\ \A t \in Task : ~AtStep(t)

\* A job that has stopped does nothing any more, unless it is one of those
\* that are astray; and its stop hooks work alone, on what its own tasks
\* have left and are not changing any more.
Working(j) ==
    \/ procs \cap Processes(j) # {}
    \/ \E t \in Task : t[2] = j /\ AtStep(t)

StoppedIsQuiet ==
    /\ \A j \in done \ astray : ~Working(j)
    /\ \A j \in Job \ astray : <<"down", j>> \in procs =>
          {<<"hook", j>>, <<"act", j>>} \cap procs = {}

\* Whose hooks stop their own job, or one above it.
Climbers ==
    {j \in Job : \E n \in 1..Len(tree.hook[j]) :
        tree.hook[j][n][1] = "stop" /\ j \in Reach(kids, tree.hook[j][n][2])}

\* When the run is over, what a job brought up has been taken down by its
\* stop hooks; where hooks stop jobs or a timeout cuts run() short, at
\* least below no job whose own stop was cut short.  With two hooks that
\* stop their own jobs, or one and a signal, run() may return before all of
\* their stops are over: it has not seen the last one begin.
Unhindered == StopsNothing /\ (tree.ends = "timeout" => ends = "timeout")

TornDown ==
    mpc = "over" /\ (StopsNothing \/ (tree.ends = "itself" /\ Cardinality(Climbers) <= 1)) =>
        \A j \in tree.down \cap Present :
            \/ j \in downs
            \/ ~Unhindered /\ \E k \in astray : j \in Reach(kids, k)

\* run() returns once nothing is left to do, and once the root is stopped.
Idle ==
    /\ mpc # "start" /\ held = {} /\ procs = {} /\ tasks = {}
    /\ \A t \in Task : ~AtStep(t) /\ stack[t] = <<>>

RunReturns == (Idle \/ Root \in stopped) ~> mpc = "over"

\* Violated: a job whose stop is over does nothing any more.  An event
\* reaches a waiter whose job has been stopped, its action starts, and no
\* stop hook takes down what it brings up.
NothingAfterStop == \A j \in done : ~Working(j)
=============================================================================
