------------------------------- MODULE Apply -------------------------------
(***************************************************************************)
(* Applying a stored IR on a host (fabric/services/apply.py) together with *)
(* the unit executor it drives (fabric/services/unit.py and the lifecycle  *)
(* controller, deployer/lifecycle.py).                                     *)
(*                                                                         *)
(* An apply is a handler in a task of its own.  It resolves the IR, takes  *)
(* the lock, resolves the host's dependencies, and sends the units of the  *)
(* plan, one after the other, to the executor.  The executor's handlers    *)
(* belong to the runtime's internal connection: when the client of an      *)
(* apply goes away the apply is cancelled, the unit it sent is not.        *)
(*                                                                         *)
(* Every apply is of one stored IR, whose plan on this host is Plan: the   *)
(* lock and the host make no difference between IRs.                       *)
(***************************************************************************)
EXTENDS Naturals, Sequences, SequencesExt, FiniteSetsExt

CONSTANTS App,          \* the apply requests
          None,         \* no apply holds the lock
          Plan,         \* the units of the plan, in create order
          ScopeOf,      \* the scope of each unit
          Foundation,   \* configure, cluster (and units without a scope)
          Steps,        \* the operations of each unit, in create order
          Captures,     \* those that publish a value to the run's store
          Uses,         \* per operation, the captures it refers to
          Cancellable   \* the applies whose client may go away

Unit == Range(Plan)
Op == UNION {Range(Steps[u]) : u \in Unit}

(* u cannot be created without v: same scope, or v is of the foundation. *)
Needs(u, v) == ScopeOf[v] \in Foundation \/ ScopeOf[v] = ScopeOf[u]

(* The names of units are unique, operations are told apart, and a value   *)
(* is referred to only after its capture, in the same scope.  (plan.py)    *)
ASSUME PlanAssumption ==
  /\ None \notin App /\ Cancellable \subseteq App
  /\ Plan \in Seq(Unit) /\ IsInjective(Plan)
  /\ \A u, v \in Unit : /\ Steps[u] \in Seq(Op) /\ IsInjective(Steps[u])
                        /\ u # v => Range(Steps[u]) \cap Range(Steps[v]) = {}
  /\ Captures \subseteq Op /\ Uses \in [Op -> SUBSET Captures]
  /\ \A i \in DOMAIN Plan : \A k \in DOMAIN Steps[Plan[i]] :
       \A c \in Uses[Steps[Plan[i]][k]] :
         \E j \in 1..i : /\ ScopeOf[Plan[j]] = ScopeOf[Plan[i]]
                         /\ c \in Range(Steps[Plan[j]])
                         /\ j = i => c \in Range(SubSeq(Steps[Plan[i]], 1, k - 1))

VARIABLES
  pc,       \* where each apply is
  action,   \* what it was asked: create or delete
  dry,      \* ... as a dry run
  lock,     \* the apply in the lock
  queue,    \* those waiting for it, in order
  at,       \* the unit each apply is at (an index of its order)
  res,      \* the results it has collected, per unit
  store,    \* the values it passes on to the next unit
  broken,   \* Failed: the scopes it can no longer run
  answer,   \* what it answered
  xpc,      \* the executor's handler of the unit the apply sent
  xat,      \* the operation it is at
  xstore,   \* the values it knows (ctx.store)
  ran,      \* history: the operations that ran through, per apply
  host      \* the objects on the host

applyVars == <<pc, action, dry, lock, queue, at, res, store, broken, answer>>
execVars == <<xpc, xat, xstore, ran, host>>
vars == <<applyVars, execVars>>

Holding == {"deps", "executing"}
Over == {"done", "refused", "cancelled"}
ExecOver == {"done", "failed", "error"}

(* plan if creating else plan[::-1]; and the steps likewise (_ordered). *)
Directed(a, s) == IF action[a] = "create" THEN s ELSE Reverse(s)
Order(a) == Directed(a, Plan)
UnitAt(a) == Order(a)[at[a]]
Ops(a) == Directed(a, Steps[UnitAt(a)])

TypeOK ==
  /\ pc \in [App -> {"idle", "resolving", "queued", "locked"} \cup Holding \cup Over]
  /\ action \in [App -> {"create", "delete"}]
  /\ dry \in [App -> BOOLEAN]
  /\ lock \in App \cup {None}
  /\ queue \in Seq(App)
  /\ at \in [App -> 1..Len(Plan)]
  /\ res \in [App -> [Unit -> {"none", "skipped", "done", "failed"}]]
  /\ store \in [App -> SUBSET Captures]
  /\ broken \in [App -> SUBSET Range(ScopeOf)]
  /\ answer \in [App -> {"none", "done", "failed", "error"}]
  /\ xpc \in [App -> {"none", "run"} \cup ExecOver]
  /\ xat \in [App -> Nat]
  /\ xstore \in [App -> SUBSET Captures]
  /\ ran \in [App -> Seq(Op)]
  /\ host \subseteq Op

Init ==
  /\ pc = [a \in App |-> "idle"]
  /\ action \in [App -> {"create", "delete"}]
  /\ dry \in [App -> BOOLEAN]
  /\ lock = None
  /\ queue = <<>>
  /\ at = [a \in App |-> 1]
  /\ res = [a \in App |-> [u \in Unit |-> "none"]]
  /\ store = [a \in App |-> {}]
  /\ broken = [a \in App |-> {}]
  /\ answer = [a \in App |-> "none"]
  /\ xpc = [a \in App |-> "none"]
  /\ xat = [a \in App |-> 1]
  /\ xstore = [a \in App |-> {}]
  /\ ran = [a \in App |-> <<>>]
  /\ host = {}
-----------------------------------------------------------------------------
(* The apply *)

BlocksScopeOnly(a, u, scopes) == ScopeOf[u] \in scopes   \* mutant

(* Failed.blocks: a create cannot run u any more. *)
Blocks(a, u, scopes) ==
  /\ action[a] = "create"
  /\ ScopeOf[u] \in scopes \/ scopes \cap Foundation # {}

(* The executor gets the unit at i of a's order, and its handler starts    *)
(* with the values it is given.                                            *)
StartUnit(a, i, values) ==
  /\ at' = [at EXCEPT ![a] = i]
  /\ xpc' = [xpc EXCEPT ![a] = "run"]
  /\ xat' = [xat EXCEPT ![a] = 1]
  /\ xstore' = [xstore EXCEPT ![a] = values]
  /\ pc' = [pc EXCEPT ![a] = "executing"]
  /\ UNCHANGED <<lock, answer>>

(* The apply answers, and leaves the lock. *)
AnswerInside(a, outcome) ==   \* mutant: stays in the lock
  /\ pc' = [pc EXCEPT ![a] = "done"]
  /\ answer' = [answer EXCEPT ![a] = outcome]
  /\ UNCHANGED lock

Answer(a, outcome) ==
  /\ pc' = [pc EXCEPT ![a] = "done"]
  /\ answer' = [answer EXCEPT ![a] = outcome]
  /\ lock' = None

(* The loop of _run from unit i on, with the results, values and failures  *)
(* so far: the blocked units are skipped, the next other one is sent; with *)
(* none left the apply is done.                                            *)
RunFrom(a, i, results, values, scopes) ==
  LET rest == {j \in i..Len(Plan) : ~ Blocks(a, Order(a)[j], scopes)}
      next == IF rest = {} THEN Len(Plan) + 1 ELSE Min(rest)
      now == [u \in Unit |-> IF \E j \in i..(next - 1) : Order(a)[j] = u
                               THEN "skipped" ELSE results[u]]
  IN  /\ res' = [res EXCEPT ![a] = now]
      /\ store' = [store EXCEPT ![a] = values]
      /\ broken' = [broken EXCEPT ![a] = scopes]
      /\ IF rest = {}
           THEN /\ Answer(a, IF \E u \in Unit : now[u] = "failed"
                               THEN "failed" ELSE "done")
                /\ UNCHANGED <<at, xpc, xat, xstore>>
           ELSE StartUnit(a, next, values)

(* IrApplyReq: the IR is asked for. *)
Arrive(a) ==
  /\ pc[a] = "idle"
  /\ pc' = [pc EXCEPT ![a] = "resolving"]
  /\ UNCHANGED <<action, dry, lock, queue, at, res, store, broken, answer, execVars>>

(* No such IR, or not for this host. *)
Refuse(a) ==
  /\ pc[a] = "resolving"
  /\ pc' = [pc EXCEPT ![a] = "refused"]
  /\ answer' = [answer EXCEPT ![a] = "error"]
  /\ UNCHANGED <<action, dry, lock, queue, at, res, store, broken, execVars>>

Resolved(a) ==
  /\ pc[a] = "resolving"
  /\ pc' = [pc EXCEPT ![a] = "queued"]
  /\ queue' = Append(queue, a)
  /\ UNCHANGED <<action, dry, lock, at, res, store, broken, answer, execVars>>

EnterBarging(a) ==   \* mutant: no longer one at a time
  /\ pc[a] = "queued"
  /\ Head(queue) = a
  /\ lock' = a
  /\ queue' = Tail(queue)
  /\ pc' = [pc EXCEPT ![a] = "locked"]
  /\ UNCHANGED <<action, dry, at, res, store, broken, answer, execVars>>

(* async with self._lock: those waiting get it in the order they came. *)
Enter(a) ==
  /\ pc[a] = "queued"
  /\ lock = None
  /\ Head(queue) = a
  /\ lock' = a
  /\ queue' = Tail(queue)
  /\ pc' = [pc EXCEPT ![a] = "locked"]
  /\ UNCHANGED <<action, dry, at, res, store, broken, answer, execVars>>

(* The nodes make no plan: an error is the answer. *)
BadPlan(a) ==
  /\ pc[a] = "locked"
  /\ Answer(a, "error")
  /\ UNCHANGED <<action, dry, queue, at, res, store, broken, execVars>>

(* A real create asks for the dependencies first, anything else starts     *)
(* with its units.                                                         *)
Begin(a) ==
  /\ pc[a] = "locked"
  /\ IF action[a] = "create" /\ ~ dry[a]
       THEN /\ pc' = [pc EXCEPT ![a] = "deps"]
            /\ UNCHANGED <<lock, at, res, store, broken, answer, xpc, xat, xstore>>
       ELSE RunFrom(a, 1, res[a], {}, {})
  /\ UNCHANGED <<action, dry, queue, ran, host>>

DepsReady(a) ==
  /\ pc[a] = "deps"
  /\ RunFrom(a, 1, res[a], {}, {})
  /\ UNCHANGED <<action, dry, queue, ran, host>>

(* Some are not, or the request for them failed: nothing is run. *)
DepsMissing(a) ==
  /\ pc[a] = "deps"
  /\ Answer(a, "failed")
  /\ UNCHANGED <<action, dry, queue, at, res, store, broken, execVars>>

(* Failed.add *)
WithFailureForgotten(scopes, u) == scopes   \* mutant

WithFailure(scopes, u) == scopes \cup {ScopeOf[u]}

(* What the next unit gets: the outputs, unless the answer is an error. *)
Values(a) == IF xpc[a] = "error" THEN store[a] ELSE xstore[a]

(* The executor's response: the apply goes on with the next unit. *)
Result(a) ==
  /\ pc[a] = "executing"
  /\ xpc[a] \in ExecOver
  /\ LET u == UnitAt(a)
         good == xpc[a] = "done"
     IN  RunFrom(a, at[a] + 1,
                 [res[a] EXCEPT ![u] = IF good THEN "done" ELSE "failed"],
                 Values(a),
                 IF good THEN broken[a] ELSE WithFailure(broken[a], u))
  /\ UNCHANGED <<action, dry, queue, ran, host>>

CancelInLine(a) ==   \* mutant: a cancelled apply keeps its place
  /\ a \in Cancellable
  /\ pc[a] \in {"resolving", "queued"} \cup Holding
  /\ pc' = [pc EXCEPT ![a] = "cancelled"]
  /\ lock' = IF lock = a THEN None ELSE lock
  /\ UNCHANGED <<action, dry, queue, at, res, store, broken, answer, execVars>>

(* The client goes away: the apply is cancelled at its await, leaves the   *)
(* lock or the line; the unit it sent runs on.                             *)
Cancel(a) ==
  /\ a \in Cancellable
  /\ pc[a] \in {"resolving", "queued"} \cup Holding
  /\ pc' = [pc EXCEPT ![a] = "cancelled"]
  /\ lock' = IF lock = a THEN None ELSE lock
  /\ queue' = SelectSeq(queue, LAMBDA q : q # a)
  /\ UNCHANGED <<action, dry, at, res, store, broken, answer, execVars>>

-----------------------------------------------------------------------------
(* The executor *)

(* The operation it is at goes through: it creates or removes its object,  *)
(* a capture publishes its value (an optional one perhaps an empty value). *)
(* Without a value it refers to it cannot.  A failing delete is only       *)
(* reported: its object may stay.  A dry run only describes operations.    *)
OpRuns(a) ==
  /\ xpc[a] = "run" /\ ~ dry[a]
  /\ xat[a] <= Len(Ops(a))
  /\ LET op == Ops(a)[xat[a]]
     IN  /\ IF action[a] = "create"
              THEN /\ Uses[op] \subseteq xstore[a]
                   /\ host' = IF op \in Captures THEN host ELSE host \cup {op}
                   /\ xstore' = [xstore EXCEPT ![a] = @ \cup ({op} \cap Captures)]
              ELSE /\ host' \in {host, host \ {op}}
                   /\ UNCHANGED xstore
         /\ ran' = [ran EXCEPT ![a] = Append(@, op)]
  /\ xat' = [xat EXCEPT ![a] = @ + 1]
  /\ UNCHANGED <<applyVars, xpc>>

OpFailsOn(a) ==   \* mutant: goes on as a delete does
  /\ xpc[a] = "run" /\ ~ dry[a]
  /\ action[a] = "create"
  /\ xat[a] <= Len(Ops(a))
  /\ xat' = [xat EXCEPT ![a] = @ + 1]
  /\ UNCHANGED <<applyVars, xpc, xstore, ran, host>>

(* A create ends at the first operation that fails, whatever it has made. *)
OpFails(a) ==
  /\ xpc[a] = "run" /\ ~ dry[a]
  /\ action[a] = "create"
  /\ xat[a] <= Len(Ops(a))
  /\ host' \in {host, host \cup ({Ops(a)[xat[a]]} \ Captures)}
  /\ xpc' = [xpc EXCEPT ![a] = "failed"]
  /\ UNCHANGED <<applyVars, xat, xstore, ran>>

(* All operations are through, or described: the response goes out. *)
UnitEnds(a) ==
  /\ xpc[a] = "run"
  /\ dry[a] \/ xat[a] > Len(Ops(a))
  /\ xpc' = [xpc EXCEPT ![a] = "done"]
  /\ UNCHANGED <<applyVars, xat, xstore, ran, host>>

(* The handler raises before it runs anything: an error is the response. *)
UnitRaises(a) ==
  /\ xpc[a] = "run"
  /\ xat[a] = 1
  /\ xpc' = [xpc EXCEPT ![a] = "error"]
  /\ UNCHANGED <<applyVars, xat, xstore, ran, host>>

AllOver ==
  /\ \A a \in App : pc[a] \in Over /\ xpc[a] # "run"
  /\ UNCHANGED vars

Client(a) == Arrive(a) \/ Cancel(a)

Task(a) == \/ Refuse(a) \/ Resolved(a) \/ Enter(a) \/ Begin(a) \/ BadPlan(a)
           \/ DepsReady(a) \/ DepsMissing(a) \/ Result(a)

Executor(a) == OpRuns(a) \/ OpFails(a) \/ UnitEnds(a) \/ UnitRaises(a)

Next == (\E a \in App : Client(a) \/ Task(a) \/ Executor(a)) \/ AllOver

Spec == Init /\ [][Next]_vars

(* Every request on the internal connection is answered: dependencies are  *)
(* resolved, commands end.                                                 *)
FairSpec == Spec /\ \A a \in App : WF_vars(Task(a)) /\ WF_vars(Executor(a))

-----------------------------------------------------------------------------
(* Properties *)

(* The executor works for the apply in the lock, or for one whose client   *)
(* went away: two applies that are both alive never change the host        *)
(* together.  (apply.py:10, 110)                                           *)
OneOwner == \A a \in App : xpc[a] = "run" => lock = a \/ pc[a] = "cancelled"

(* The lock is held by an apply that is at work under it and will leave    *)
(* it, never by one that has answered or gone away.                        *)
LockHeldByLiving ==
  \A a \in App : lock = a <=> pc[a] \in Holding \cup {"locked"}

(* "On create a failed unit skips what needs it": of the units an apply    *)
(* has come past exactly those are skipped that need one that failed, so   *)
(* what runs has all it needs.  On delete every unit runs.  (apply.py:25)  *)
FailureIsContained ==
  \A a \in App : \A i \in DOMAIN Plan :
    LET u == Order(a)[i]
    IN  res[a][u] # "none" =>
          (res[a][u] = "skipped" <=>
             /\ action[a] = "create"
             /\ \E j \in 1..(i - 1) : /\ Needs(u, Order(a)[j])
                                     /\ res[a][Order(a)[j]] = "failed")

(* An operation never runs without the values it refers to: what earlier   *)
(* units captured reaches it, and a unit whose captures failed keeps those *)
(* that need them from running.                                            *)
RefsAreResolved ==
  \A a \in App :
    xpc[a] = "run" /\ ~ dry[a] /\ action[a] = "create" /\ xat[a] <= Len(Ops(a))
      => Uses[Ops(a)[xat[a]]] \subseteq xstore[a]

(* Operation o comes before p in the order a runs the plan in: in a unit    *)
(* before p's, or before it in the same unit.                              *)
Precedes(a, o, p) ==
  \E i, j \in DOMAIN Plan :
    \E k \in DOMAIN Steps[Order(a)[i]] : \E l \in DOMAIN Steps[Order(a)[j]] :
      /\ o = Directed(a, Steps[Order(a)[i]])[k]
      /\ p = Directed(a, Steps[Order(a)[j]])[l]
      /\ i < j \/ (i = j /\ k < l)

(* The answer is true: done means the operations of the whole plan ran,    *)
(* each once, in plan order on create and rewound on delete; a dry run ran *)
(* none.                                                                   *)
AnswerIsTrue ==
  \A a \in App : answer[a] = "done" =>
    IF dry[a] THEN ran[a] = <<>>
    ELSE /\ Range(ran[a]) = Op
         /\ \A m, n \in DOMAIN ran[a] : m < n => Precedes(a, ran[a][m], ran[a][n])

(* When a create answers done its objects are on the host, unless a delete *)
(* whose client went away is still at work.                                *)
DoneIsBuilt ==
  [][\A a \in App :
       /\ answer[a] = "none" /\ answer'[a] = "done"
       /\ action[a] = "create" /\ ~ dry[a]
       /\ \A b \in App : action[b] = "delete" => pc[b] # "cancelled"
       => host = Op \ Captures]_vars

(* An apply waiting for the lock gets it, or its client goes away. *)
LineMoves == \A a \in App : pc[a] = "queued" ~> pc[a] # "queued"
=============================================================================
