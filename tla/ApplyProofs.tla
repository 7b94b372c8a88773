---------------------------- MODULE ApplyProofs ----------------------------
(***************************************************************************)
(* For any number of applies and any plan.  One apply at a time: the lock  *)
(* is held by exactly the apply at work, and the executor works for it, or *)
(* for one whose client went away.  A failure keeps exactly the units from *)
(* running that need what failed.  What an operation refers to has been    *)
(* captured, and the answer says what was run and is on the host.          *)
(***************************************************************************)
EXTENDS Apply, WellFoundedInduction, TLAPS

(* A unit is sent under the lock only, and outlives nothing but a cancelled *)
(* apply.                                                                   *)
OwnInv ==
  /\ pc \in [App -> {"idle", "resolving", "queued", "locked"} \cup Holding \cup Over]
  /\ xpc \in [App -> {"none", "run"} \cup ExecOver]
  /\ lock \in App \cup {None}
  /\ LockHeldByLiving
  /\ \A a \in App : xpc[a] = "run" => pc[a] \in {"executing", "cancelled"}
-----------------------------------------------------------------------------

LEMMA NoneIsNoApply == None \notin App
  BY PlanAssumption

USE NoneIsNoApply

LEMMA OwnInit == Init => OwnInv
  BY DEF Init, OwnInv, LockHeldByLiving, Holding, Over, ExecOver

(* An apply under the lock goes on with a unit, or answers and leaves. *)
LEMMA RunFromSteps ==
  ASSUME NEW a \in App, NEW i, NEW results, NEW values, NEW scopes,
         RunFrom(a, i, results, values, scopes)
  PROVE  \/ /\ pc' = [pc EXCEPT ![a] = "done"] /\ lock' = None /\ xpc' = xpc
         \/ /\ pc' = [pc EXCEPT ![a] = "executing"] /\ lock' = lock
            /\ xpc' = [xpc EXCEPT ![a] = "run"]
  BY DEF RunFrom, Answer, StartUnit

LEMMA RunFromKeeps ==
  ASSUME OwnInv, NEW a \in App, NEW i, NEW results, NEW values, NEW scopes,
         RunFrom(a, i, results, values, scopes),
         pc[a] \in Holding \cup {"locked"}, xpc[a] # "run"
  PROVE  OwnInv'
<1>1. lock = a
  BY DEF OwnInv, LockHeldByLiving
<1>2. CASE pc' = [pc EXCEPT ![a] = "done"] /\ lock' = None /\ xpc' = xpc
  BY <1>1, <1>2 DEF OwnInv, LockHeldByLiving, Holding, Over, ExecOver
<1>3. CASE /\ pc' = [pc EXCEPT ![a] = "executing"] /\ lock' = lock
           /\ xpc' = [xpc EXCEPT ![a] = "run"]
  BY <1>1, <1>3 DEF OwnInv, LockHeldByLiving, Holding, Over, ExecOver
<1> QED
  BY <1>2, <1>3, RunFromSteps

LEMMA OwnStep == OwnInv /\ [Next]_vars => OwnInv'
<1> SUFFICES ASSUME OwnInv, [Next]_vars PROVE OwnInv'
  OBVIOUS
<1>1. ASSUME NEW a \in App, Client(a) \/ Task(a) \/ Executor(a) PROVE OwnInv'
  <2>1. CASE Arrive(a) \/ Refuse(a) \/ Resolved(a)
    BY <2>1 DEF Arrive, Refuse, Resolved, execVars, OwnInv, LockHeldByLiving,
                Holding, Over
  <2>2. CASE Enter(a)
    BY <2>2 DEF Enter, execVars, OwnInv, LockHeldByLiving, Holding, Over
  <2>3. CASE Cancel(a)
    BY <2>3 DEF Cancel, execVars, OwnInv, LockHeldByLiving, Holding, Over
  <2>4. CASE Begin(a)
    <3>1. pc[a] = "locked" /\ xpc[a] # "run"
      BY <2>4 DEF Begin, OwnInv
    <3>2. CASE action[a] = "create" /\ ~ dry[a]
      BY <2>4, <3>1, <3>2 DEF Begin, OwnInv, LockHeldByLiving, Holding, Over
    <3>3. CASE ~ (action[a] = "create" /\ ~ dry[a])
      BY <2>4, <3>1, <3>3, RunFromKeeps DEF Begin
    <3> QED
      BY <3>2, <3>3
  <2>5. CASE DepsReady(a)
    BY <2>5, RunFromKeeps DEF DepsReady, OwnInv, Holding
  <2>6. CASE DepsMissing(a) \/ BadPlan(a)
    BY <2>6 DEF DepsMissing, BadPlan, Answer, execVars, OwnInv, LockHeldByLiving, Holding, Over
  <2>7. CASE Result(a)
    BY <2>7, RunFromKeeps DEF Result, Holding, ExecOver
  <2>8. CASE Executor(a)
    BY <2>8 DEF Executor, OpRuns, OpFails, UnitEnds, UnitRaises, applyVars, OwnInv,
                LockHeldByLiving, ExecOver
  <2> QED
    BY <1>1, <2>1, <2>2, <2>3, <2>4, <2>5, <2>6, <2>7, <2>8 DEF Client, Task
<1>2. CASE AllOver \/ UNCHANGED vars
  BY <1>2 DEF AllOver, vars, applyVars, execVars, OwnInv, LockHeldByLiving
<1> QED
  BY <1>1, <1>2 DEF Next

THEOREM OwnInvariant == Spec => []OwnInv
  BY OwnInit, OwnStep, PTL DEF Spec

(* The lock of Apply.apply is held by an apply that works under it: one    *)
(* that answered, was refused or lost its client never keeps it.           *)
THEOREM LockIsLeft == Spec => []LockHeldByLiving
<1>1. OwnInv => LockHeldByLiving
  BY DEF OwnInv
<1> QED
  BY <1>1, OwnInvariant, PTL

(* UnitExecutor.execute runs a unit for the apply in the lock, or for one  *)
(* that was cancelled.                                                     *)
THEOREM OneApplyAtATime == Spec => []OneOwner
<1>1. OwnInv => OneOwner
  BY DEF OwnInv, OneOwner, LockHeldByLiving, Holding
<1> QED
  BY <1>1, OwnInvariant, PTL
-----------------------------------------------------------------------------
(* Failures *)

Outcome == {"none", "skipped", "done", "failed"}
FailedScopes(results) == {ScopeOf[u] : u \in {v \in Unit : results[v] = "failed"}}

(* results are those of the units of a's order before n. *)
ResultsBefore(a, n, results) ==
  \A j \in 1..Len(Plan) : results[Order(a)[j]] = "none" <=> j >= n

NeedsFailed(a, i, results) ==
  \E j \in 1..(i - 1) : /\ Needs(Order(a)[i], Order(a)[j])
                        /\ results[Order(a)[j]] = "failed"

Contained(a, results) ==
  \A i \in 1..Len(Plan) :
    results[Order(a)[i]] # "none" =>
      (results[Order(a)[i]] = "skipped" <=> action[a] = "create" /\ NeedsFailed(a, i, results))

(* Nothing is known before the units run; while one does, of the units     *)
(* before it, the scopes of those that failed are broken, and it is of     *)
(* none that a broken scope blocks.                                        *)
Running(a) ==
  /\ at[a] \in 1..Len(Plan)
  /\ ResultsBefore(a, at[a], res[a])
  /\ broken[a] = FailedScopes(res[a])
  /\ action[a] = "create" => ~ NeedsFailed(a, at[a], res[a])

(* Of an apply that answers done no unit failed, so none was skipped. *)
AllDone(a) == pc[a] = "done" /\ \A u \in Unit : res[a][u] = "done"

FailInv ==
  /\ DOMAIN answer = App /\ DOMAIN pc = App /\ DOMAIN at = App /\ DOMAIN broken = App
  /\ action \in [App -> {"create", "delete"}]
  /\ res \in [App -> [Unit -> Outcome]]
  /\ \A a \in App : pc[a] \in {"idle", "resolving", "queued", "locked", "deps"} =>
       \A u \in Unit : res[a][u] = "none"
  /\ \A a \in App : pc[a] = "executing" => Running(a)
  /\ \A a \in App : Contained(a, res[a])
  /\ \A a \in App : answer[a] = "done" => AllDone(a)
-----------------------------------------------------------------------------

LEMMA PlanHasLength == Len(Plan) \in Nat
  BY PlanAssumption

LEMMA LeastExists ==
  ASSUME NEW S \in SUBSET Nat, S # {}
  PROVE  \E x \in S : \A y \in S : x <= y
<1>1. PICK x \in S : \A y \in S : ~ (<<y, x>> \in OpToRel(<, Nat))
  BY NatLessThanWellFounded, WFMin, Zenon
<1>2. \A y \in S : ~ (y < x)
  BY <1>1, Zenon DEF OpToRel
<1> QED
  BY <1>2

LEMMA MinIsLeast ==
  ASSUME NEW S \in SUBSET Nat, S # {}
  PROVE  Min(S) \in S /\ \A y \in S : Min(S) <= y
  BY LeastExists DEF Min

(* An apply comes past every unit once, in whichever direction. *)
LEMMA OrderIsPermutation ==
  ASSUME NEW a \in App, action[a] \in {"create", "delete"}
  PROVE  /\ \A j \in 1..Len(Plan) : Order(a)[j] \in Unit
         /\ \A j, k \in 1..Len(Plan) : Order(a)[j] = Order(a)[k] => j = k
         /\ \A u \in Unit : \E j \in 1..Len(Plan) : Order(a)[j] = u
<1> DEFINE n == Len(Plan)
<1>1. Plan \in Seq(Unit) /\ n \in Nat /\ DOMAIN Plan = 1..n
  BY PlanAssumption
<1>2. \A j, k \in 1..n : Plan[j] = Plan[k] => j = k
  BY <1>1, PlanAssumption DEF IsInjective
<1>3. /\ \A j \in 1..n : Plan[j] \in Unit
      /\ \A u \in Unit : \E j \in 1..n : Plan[j] = u
  BY <1>1 DEF Unit, Range
<1>4. CASE action[a] = "create"
  BY <1>2, <1>3, <1>4 DEF Order, Directed
<1>5. CASE action[a] = "delete"
  <2>1. \A j \in 1..n : Order(a)[j] = Plan[(n - j) + 1] /\ (n - j) + 1 \in 1..n
    BY <1>1, <1>5 DEF Order, Directed, Reverse
  <2>2. \A j \in 1..n : Order(a)[(n - j) + 1] = Plan[j]
    <3> TAKE j \in 1..n
    <3>1. (n - j) + 1 \in 1..n /\ (n - ((n - j) + 1)) + 1 = j
      BY <1>1
    <3> QED
      BY <2>1, <3>1
  <2>3. \A j, k \in 1..n : Order(a)[j] = Order(a)[k] => j = k
    <3> TAKE j, k \in 1..n
    <3> HAVE Order(a)[j] = Order(a)[k]
    <3>1. (n - j) + 1 = (n - k) + 1
      BY <1>2, <2>1
    <3> QED
      BY <1>1, <3>1
  <2>4. \A u \in Unit : \E j \in 1..n : Order(a)[j] = u
    <3> TAKE u \in Unit
    <3>1. PICK j \in 1..n : Plan[j] = u
      BY <1>3
    <3>2. (n - j) + 1 \in 1..n
      BY <1>1
    <3> QED
      BY <2>2, <3>1, <3>2
  <2> QED
    BY <1>3, <2>1, <2>3, <2>4
<1> QED
  BY <1>4, <1>5

(* A unit is blocked when it needs one of those that failed. *)
LEMMA BlockedNeedsFailed ==
  ASSUME NEW a \in App, action[a] \in {"create", "delete"},
         NEW results \in [Unit -> Outcome], NEW n \in 1..(Len(Plan) + 1),
         ResultsBefore(a, n, results), NEW i \in 1..Len(Plan), i >= n
  PROVE  Blocks(a, Order(a)[i], FailedScopes(results)) <=>
           action[a] = "create" /\ NeedsFailed(a, i, results)
<1> Len(Plan) \in Nat
  BY PlanHasLength
<1>1. ASSUME NEW v \in Unit, results[v] = "failed"
      PROVE  \E j \in 1..(i - 1) : Order(a)[j] = v
  <2>1. PICK j \in 1..Len(Plan) : Order(a)[j] = v
    BY OrderIsPermutation
  <2>2. j < n
    BY <1>1, <2>1 DEF ResultsBefore
  <2> QED
    BY <2>1, <2>2
<1>2. \A j \in 1..(i - 1) : Order(a)[j] \in Unit
  BY OrderIsPermutation
<1> QED
  BY <1>1, <1>2 DEF Blocks, FailedScopes, NeedsFailed, Needs

(* The loop of _run: given the results of the units before i, it skips     *)
(* those that need one that failed, and stops at one that does not.        *)
LEMMA RunFromContains ==
  ASSUME NEW a \in App, action[a] \in {"create", "delete"}, action' = action,
         NEW results \in [Unit -> Outcome], NEW i \in 1..(Len(Plan) + 1),
         ResultsBefore(a, i, results), Contained(a, results),
         DOMAIN pc = App, DOMAIN at = App, DOMAIN broken = App,
         DOMAIN answer = App, answer[a] # "done",
         res \in [App -> [Unit -> Outcome]],
         NEW values, RunFrom(a, i, results, values, FailedScopes(results))
  PROVE  /\ res'[a] \in [Unit -> Outcome] /\ res' = [res EXCEPT ![a] = res'[a]]
         /\ Contained(a, res[a])'
         /\ answer'[a] = "done" => AllDone(a)'
         /\ DOMAIN answer' = App /\ \A b \in App \ {a} : answer'[b] = answer[b]
         /\ \/ pc'[a] = "done" /\ UNCHANGED at
            \/ pc'[a] = "executing" /\ Running(a)' /\ \A b \in App \ {a} : at'[b] = at[b]
         /\ \A b \in App \ {a} : pc'[b] = pc[b] /\ broken'[b] = broken[b]
         /\ DOMAIN pc' = App /\ DOMAIN at' = App /\ DOMAIN broken' = App
<1> DEFINE n == Len(Plan)
           rest == {j \in i..n : ~ Blocks(a, Order(a)[j], FailedScopes(results))}
           next == IF rest = {} THEN n + 1 ELSE Min(rest)
           now == [u \in Unit |-> IF \E j \in i..(next - 1) : Order(a)[j] = u
                                    THEN "skipped" ELSE results[u]]
<1>1. n \in Nat
  BY PlanHasLength
<1>2. /\ next \in i..(n + 1)
      /\ \A j \in i..(next - 1) : Blocks(a, Order(a)[j], FailedScopes(results))
      /\ next <= n => ~ Blocks(a, Order(a)[next], FailedScopes(results))
      /\ rest # {} <=> next <= n
  <2>1. CASE rest = {}
    BY <1>1, <2>1
  <2>2. CASE rest # {}
    <3>1. rest \in SUBSET Nat
      BY <1>1
    <3>2. next \in rest /\ \A j \in rest : next <= j
      BY <2>2, <3>1, MinIsLeast
    <3>3. \A j : j \in rest <=> j \in i..n /\ ~ Blocks(a, Order(a)[j], FailedScopes(results))
      OBVIOUS
    <3> HIDE DEF next, rest
    <3>4. next \in i..n /\ ~ Blocks(a, Order(a)[next], FailedScopes(results))
      BY <3>2, <3>3
    <3>5. \A j \in i..(next - 1) : j \in i..n /\ j \notin rest
      BY <1>1, <3>2, <3>4
    <3> QED
      BY <1>1, <2>2, <3>3, <3>4, <3>5
  <2> QED
    BY <2>1, <2>2
<1> HIDE DEF next
<1>3. /\ res' = [res EXCEPT ![a] = now]
      /\ broken' = [broken EXCEPT ![a] = FailedScopes(results)]
      /\ \/ rest = {} /\ pc' = [pc EXCEPT ![a] = "done"] /\ UNCHANGED at
         \/ rest # {} /\ pc' = [pc EXCEPT ![a] = "executing"] /\ at' = [at EXCEPT ![a] = next]
  BY DEF RunFrom, Answer, StartUnit, next
<1>a. \/ /\ rest = {} /\ pc' = [pc EXCEPT ![a] = "done"]
         /\ \/ answer' = [answer EXCEPT ![a] = "failed"]
            \/ /\ answer' = [answer EXCEPT ![a] = "done"]
               /\ \A u \in Unit : now[u] # "failed"
      \/ answer' = answer
  BY DEF RunFrom, Answer, StartUnit, next
<1>4. now \in [Unit -> Outcome] /\ res'[a] = now
  BY <1>3 DEF Outcome
<1>5. \A j \in 1..n :
        now[Order(a)[j]] = IF j \in i..(next - 1) THEN "skipped" ELSE results[Order(a)[j]]
  <2> TAKE j \in 1..n
  <2>1. Order(a)[j] \in Unit /\ \A k \in i..(next - 1) : Order(a)[k] = Order(a)[j] => k = j
    BY <1>1, <1>2, OrderIsPermutation
  <2> QED
    BY <2>1
<1> HIDE DEF now, rest
<1>6. /\ \A j \in 1..n : now[Order(a)[j]] = "none" <=> j >= next
      /\ \A j \in 1..n : now[Order(a)[j]] = "failed" <=> results[Order(a)[j]] = "failed"
  BY <1>1, <1>2, <1>5 DEF ResultsBefore
<1>7. FailedScopes(now) = FailedScopes(results)
  <2>1. \A u \in Unit : now[u] = "failed" <=> results[u] = "failed"
    <3> TAKE u \in Unit
    <3>1. PICK j \in 1..n : Order(a)[j] = u
      BY OrderIsPermutation
    <3> QED
      BY <1>6, <3>1
  <2> QED
    BY <2>1 DEF FailedScopes
<1>8. \A j \in 1..n : NeedsFailed(a, j, now) <=> NeedsFailed(a, j, results)
  BY <1>1, <1>6 DEF NeedsFailed
<1>9. Contained(a, now)
  <2> SUFFICES ASSUME NEW j \in 1..n, now[Order(a)[j]] # "none"
               PROVE  now[Order(a)[j]] = "skipped" <=>
                        action[a] = "create" /\ NeedsFailed(a, j, results)
    BY <1>8 DEF Contained
  <2>1. CASE j < i
    BY <1>1, <1>2, <1>5, <2>1 DEF Contained, ResultsBefore
  <2>2. CASE j \in i..(next - 1)
    BY <1>1, <1>2, <1>5, <2>2, BlockedNeedsFailed
  <2> QED
    BY <1>1, <1>2, <1>6, <2>1, <2>2
<1>10. Contained(a, res[a])'
  BY <1>4, <1>9 DEF Contained, NeedsFailed, Needs, Order, Directed
<1>11. ASSUME rest # {} PROVE Running(a)'
  <2>1. at'[a] = next /\ next \in 1..n /\ next >= i
    BY <1>1, <1>2, <1>3, <1>11
  <2>2. ResultsBefore(a, next, now)
    BY <1>6 DEF ResultsBefore
  <2>3. action[a] = "create" => ~ NeedsFailed(a, next, now)
    BY <1>2, <1>8, <2>1, BlockedNeedsFailed
  <2>4. broken'[a] = FailedScopes(now)
    BY <1>3, <1>7
  <2>5. ResultsBefore(a, at[a], res[a])'
    BY <1>4, <2>1, <2>2 DEF ResultsBefore, Order, Directed
  <2>6. (action[a] = "create" => ~ NeedsFailed(a, at[a], res[a]))'
    BY <1>4, <2>1, <2>3 DEF NeedsFailed, Needs, Order, Directed
  <2>7. (broken[a] = FailedScopes(res[a]))'
    BY <1>4, <2>4 DEF FailedScopes
  <2> QED
    BY <2>1, <2>5, <2>6, <2>7 DEF Running
<1>12. ASSUME answer'[a] = "done" PROVE AllDone(a)'
  <2>1. rest = {} /\ pc'[a] = "done" /\ \A u \in Unit : now[u] # "failed"
    BY <1>a, <1>12
  <2>2. next = n + 1
    BY <1>1, <1>2, <2>1
  <2>3. \A j \in 1..n : Order(a)[j] \in Unit /\ now[Order(a)[j]] # "none"
    BY <1>1, <1>6, <2>2, OrderIsPermutation
  <2>4. \A j \in 1..n : ~ NeedsFailed(a, j, now)
    BY <1>1, <2>1, <2>3 DEF NeedsFailed
  <2>5. \A j \in 1..n : now[Order(a)[j]] = "done"
    BY <1>4, <1>9, <2>1, <2>3, <2>4 DEF Contained, Outcome
  <2>6. \A u \in Unit : now[u] = "done"
    BY <2>5, OrderIsPermutation
  <2> QED
    BY <1>4, <2>1, <2>6 DEF AllDone
<1>13. DOMAIN answer' = App /\ \A b \in App \ {a} : answer'[b] = answer[b]
  BY <1>a
<1> QED
  BY <1>3, <1>4, <1>10, <1>11, <1>12, <1>13

LEMMA FailInit == Init => FailInv
<1> SUFFICES ASSUME Init PROVE FailInv
  OBVIOUS
<1>1. \A a \in App : action[a] \in {"create", "delete"} /\ \A u \in Unit : res[a][u] = "none"
  BY DEF Init
<1>2. \A a \in App : Contained(a, res[a])
  BY <1>1, OrderIsPermutation DEF Contained
<1> QED
  BY <1>1, <1>2 DEF Init, FailInv, Outcome

(* An apply that does not change keeps what holds of it. *)
LEMMA OthersKeep ==
  ASSUME NEW b \in App, action' = action,
         pc'[b] = pc[b] \/ pc'[b] \notin {"idle", "resolving", "queued", "locked", "deps", "executing"},
         at'[b] = at[b], res'[b] = res[b], broken'[b] = broken[b],
         Contained(b, res[b]), pc[b] = "executing" => Running(b)
  PROVE  Contained(b, res[b])' /\ (pc[b] = "executing" => Running(b))'
  BY DEF Contained, Running, ResultsBefore, FailedScopes, NeedsFailed, Needs, Order, Directed

LEMMA RunFromKeepsFailInv ==
  ASSUME FailInv, NEW a \in App, action' = action, pc[a] # "done",
         NEW results \in [Unit -> Outcome], NEW i \in 1..(Len(Plan) + 1),
         ResultsBefore(a, i, results), Contained(a, results),
         NEW values, RunFrom(a, i, results, values, FailedScopes(results))
  PROVE  FailInv'
<1>1. action[a] \in {"create", "delete"} /\ DOMAIN res = App
  BY DEF FailInv
<1>2. /\ res'[a] \in [Unit -> Outcome] /\ res' = [res EXCEPT ![a] = res'[a]]
      /\ Contained(a, res[a])'
      /\ answer'[a] = "done" => AllDone(a)'
      /\ DOMAIN answer' = App /\ \A b \in App \ {a} : answer'[b] = answer[b]
      /\ \/ pc'[a] = "done" /\ UNCHANGED at
         \/ pc'[a] = "executing" /\ Running(a)' /\ \A b \in App \ {a} : at'[b] = at[b]
      /\ \A b \in App \ {a} : pc'[b] = pc[b] /\ broken'[b] = broken[b]
      /\ DOMAIN pc' = App /\ DOMAIN at' = App /\ DOMAIN broken' = App
  BY <1>1, RunFromContains DEF FailInv, AllDone
<1>3. \A b \in App \ {a} :
        /\ pc'[b] = pc[b] /\ at'[b] = at[b] /\ res'[b] = res[b] /\ broken'[b] = broken[b]
  BY <1>1, <1>2
<1>4. \A b \in App \ {a} : Contained(b, res[b])' /\ (pc[b] = "executing" => Running(b))'
  BY <1>3, OthersKeep DEF FailInv
<1>5. res' \in [App -> [Unit -> Outcome]] /\ action' \in [App -> {"create", "delete"}]
  BY <1>2 DEF FailInv
<1>6. \A b \in App : answer'[b] = "done" => AllDone(b)'
  BY <1>2, <1>3 DEF FailInv, AllDone
<1> QED
  BY <1>2, <1>3, <1>4, <1>5, <1>6 DEF FailInv

(* All steps but those of the loop leave the results alone. *)
LEMMA FailStep == OwnInv /\ FailInv /\ [Next]_vars => FailInv'
<1> SUFFICES ASSUME OwnInv, FailInv, [Next]_vars PROVE FailInv'
  OBVIOUS
<1> USE PlanHasLength
<1>1. ASSUME NEW a \in App, action' = action, UNCHANGED <<at, res, broken>>,
             NEW p, pc' = [pc EXCEPT ![a] = p],
             p \in {"resolving", "queued", "locked", "deps"} =>
               pc[a] \in {"idle", "resolving", "queued", "locked", "deps"},
             p \notin {"idle", "executing"}, pc[a] # "done",
             answer' = answer \/ \E v \in {"failed", "error"} : answer' = [answer EXCEPT ![a] = v]
      PROVE  FailInv'
  <2>1. \A b \in App : Contained(b, res[b])' /\ (pc[b] = "executing" => Running(b))'
    <3> TAKE b \in App
    <3>1. CASE b = a
      <4>1. pc'[b] # "executing" /\ Contained(b, res[b])
        BY <1>1, <3>1 DEF FailInv
      <4> QED
        BY <1>1, <4>1 DEF Contained, NeedsFailed, Needs, Order, Directed
    <3>2. CASE b # a
      BY <1>1, <3>2, OthersKeep DEF FailInv
    <3> QED
      BY <3>1, <3>2
  <2>2. \A b \in App : answer'[b] = "done" => AllDone(b)'
    BY <1>1 DEF FailInv, AllDone
  <2> QED
    BY <1>1, <2>1, <2>2 DEF FailInv
<1>2. ASSUME NEW a \in App, Begin(a) \/ DepsReady(a) PROVE FailInv'
  <2>1. CASE Begin(a) /\ action[a] = "create" /\ ~ dry[a]
    BY <1>1, <2>1 DEF Begin
  <2>2. CASE ~ (Begin(a) /\ action[a] = "create" /\ ~ dry[a])
    <3>1. /\ pc[a] \in {"locked", "deps"} /\ action' = action
          /\ RunFrom(a, 1, res[a], {}, {})
      BY <1>2, <2>2 DEF Begin, DepsReady
    <3>2. \A u \in Unit : res[a][u] = "none"
      BY <3>1 DEF FailInv
    <3>3. FailedScopes(res[a]) = {} /\ Contained(a, res[a]) /\ res[a] \in [Unit -> Outcome]
      BY <3>2 DEF FailedScopes, FailInv
    <3>4. \A j \in 1..Len(Plan) : Order(a)[j] \in Unit
      BY OrderIsPermutation DEF FailInv
    <3>5. ResultsBefore(a, 1, res[a])
      BY <3>2, <3>4 DEF ResultsBefore
    <3>6. RunFrom(a, 1, res[a], {}, FailedScopes(res[a])) /\ 1 \in 1..(Len(Plan) + 1)
      BY <3>1, <3>3
    <3> QED
      BY <3>1, <3>3, <3>5, <3>6, RunFromKeepsFailInv
  <2> QED
    BY <2>1, <2>2
<1>3. ASSUME NEW a \in App, Result(a) PROVE FailInv'
  <2> DEFINE u == UnitAt(a)
             outcome == IF xpc[a] = "done" THEN "done" ELSE "failed"
             results == [res[a] EXCEPT ![u] = outcome]
             scopes == IF xpc[a] = "done" THEN broken[a] ELSE WithFailure(broken[a], u)
  <2>1. /\ pc[a] = "executing" /\ action' = action
        /\ RunFrom(a, at[a] + 1, results, Values(a), scopes)
    BY <1>3 DEF Result
  <2>2. Running(a) /\ Contained(a, res[a]) /\ res[a] \in [Unit -> Outcome]
        /\ action[a] \in {"create", "delete"}
    BY <2>1 DEF FailInv
  <2>3. at[a] \in 1..Len(Plan) /\ u = Order(a)[at[a]] /\ u \in Unit
    BY <2>2, OrderIsPermutation DEF Running, UnitAt
  <2> HIDE DEF u
  <2>4. results \in [Unit -> Outcome] /\ outcome \in {"done", "failed"} /\ results[u] = outcome
    BY <2>2, <2>3 DEF Outcome
  <2>5. \A j \in 1..Len(Plan) :
          /\ Order(a)[j] = u <=> j = at[a]
          /\ j # at[a] => results[Order(a)[j]] = res[a][Order(a)[j]]
    BY <2>2, <2>3, OrderIsPermutation
  <2>6. scopes = FailedScopes(results)
    <3>1. res[a][u] = "none" /\ broken[a] = FailedScopes(res[a])
      BY <2>2, <2>3 DEF Running, ResultsBefore
    <3>2. \A v \in Unit : results[v] = "failed" <=>
            res[a][v] = "failed" \/ (v = u /\ outcome = "failed")
      BY <2>2, <2>3, <3>1
    <3> QED
      BY <2>3, <3>1, <3>2 DEF FailedScopes, WithFailure
  <2> HIDE DEF results, outcome
  <2>7. ResultsBefore(a, at[a] + 1, results)
    BY <2>2, <2>3, <2>4, <2>5 DEF Running, ResultsBefore
  <2>8. \A j \in 1..at[a] : NeedsFailed(a, j, results) <=> NeedsFailed(a, j, res[a])
    BY <2>3, <2>5 DEF NeedsFailed
  <2>9. Contained(a, results)
    <3> SUFFICES ASSUME NEW j \in 1..Len(Plan), results[Order(a)[j]] # "none"
                 PROVE  results[Order(a)[j]] = "skipped" <=>
                          action[a] = "create" /\ NeedsFailed(a, j, results)
      BY DEF Contained
    <3>1. j <= at[a]
      BY <2>3, <2>7 DEF ResultsBefore
    <3>2. CASE j = at[a]
      BY <2>2, <2>3, <2>4, <2>5, <2>8, <3>2 DEF Running
    <3>3. CASE j < at[a]
      BY <2>2, <2>3, <2>5, <2>8, <3>3 DEF Contained
    <3> QED
      BY <2>3, <3>1, <3>2, <3>3
  <2> QED
    BY <2>1, <2>3, <2>4, <2>6, <2>7, <2>9, RunFromKeepsFailInv
<1>4. ASSUME NEW a \in App, Client(a) \/ Task(a) \/ Executor(a) PROVE FailInv'
  <2>1. CASE Arrive(a) \/ Resolved(a) \/ Enter(a)
    BY <1>1, <2>1 DEF Arrive, Resolved, Enter
  <2>2. CASE Refuse(a) \/ Cancel(a)
    BY <1>1, <2>2 DEF Refuse, Cancel, Holding
  <2>3. CASE DepsMissing(a) \/ BadPlan(a)
    BY <1>1, <2>3 DEF DepsMissing, BadPlan, Answer
  <2>4. CASE Executor(a)
    <3>1. UNCHANGED applyVars
      BY <2>4 DEF Executor, OpRuns, OpFails, UnitEnds, UnitRaises
    <3> QED
      BY <3>1 DEF applyVars, FailInv, AllDone, Contained, Running, ResultsBefore, FailedScopes,
                  NeedsFailed, Needs, Order, Directed
  <2> QED
    BY <1>2, <1>3, <1>4, <2>1, <2>2, <2>3, <2>4 DEF Client, Task
<1>5. CASE AllOver \/ UNCHANGED vars
  BY <1>5 DEF AllOver, vars, applyVars, FailInv, AllDone, Contained, Running, ResultsBefore, FailedScopes,
              NeedsFailed, Needs, Order, Directed
<1> QED
  BY <1>4, <1>5 DEF Next

THEOREM FailInvariant == Spec => [](OwnInv /\ FailInv)
<1>1. Init => OwnInv /\ FailInv
  BY OwnInit, FailInit
<1>2. OwnInv /\ FailInv /\ [Next]_vars => (OwnInv /\ FailInv)'
  BY OwnStep, FailStep
<1> QED
  BY <1>1, <1>2, PTL DEF Spec

(* "On create a failed unit skips what needs it": whatever the plan and    *)
(* whichever units fail, Apply._run skips those that need one that failed, *)
(* and no other; a delete skips none.                                      *)
THEOREM FailuresAreContained == Spec => []FailureIsContained
<1>1. FailInv => FailureIsContained
  <2>1. DOMAIN Plan = 1..Len(Plan)
    BY PlanAssumption
  <2> QED
    BY <2>1 DEF FailInv, FailureIsContained, Contained, NeedsFailed
<1> QED
  BY <1>1, FailInvariant, PTL
-----------------------------------------------------------------------------
(* Values *)

CapturedBy(u) == Range(Steps[u]) \cap Captures
RealCreate(a) == action[a] = "create" /\ ~ dry[a]
Sent(a) == pc[a] = "executing" \/ xpc[a] = "run"

(* What the units done so far captured is passed on. *)
PassedOn(a) ==
  /\ \A u \in Unit : res[a][u] = "done" => CapturedBy(u) \subseteq store[a]
  /\ store[a] \subseteq xstore[a]
  /\ xpc[a] = "done" => xat[a] > Len(Steps[Plan[at[a]]])

(* The unit that runs knows what the ones of its scope before it captured, *)
(* and what its own operations have.                                       *)
Known(a) ==
  /\ at[a] \in 1..Len(Plan)
  /\ \A j \in 1..(at[a] - 1) :
       ScopeOf[Plan[j]] = ScopeOf[Plan[at[a]]] => CapturedBy(Plan[j]) \subseteq xstore[a]
  /\ \A k \in 1..Len(Steps[Plan[at[a]]]) :
       k < xat[a] /\ Steps[Plan[at[a]]][k] \in Captures => Steps[Plan[at[a]]][k] \in xstore[a]

ValueInv ==
  /\ DOMAIN xpc = App /\ DOMAIN store = App /\ DOMAIN xstore = App
  /\ xat \in [App -> Nat \ {0}]
  /\ \A a \in App : RealCreate(a) /\ pc[a] = "executing" => PassedOn(a)
  /\ \A a \in App : RealCreate(a) /\ Sent(a) => Known(a)
-----------------------------------------------------------------------------

LEMMA PlanIsOfUnits ==
  /\ \A i \in 1..Len(Plan) : Plan[i] \in Unit /\ i \in DOMAIN Plan
  /\ \A u \in Unit : Steps[u] \in Seq(Op) /\ DOMAIN Steps[u] = 1..Len(Steps[u])
                      /\ Len(Steps[u]) \in Nat
<1>1. \A i \in 1..Len(Plan) : Plan[i] \in Unit /\ i \in DOMAIN Plan
  BY PlanAssumption
<1>2. \A u \in Unit : Steps[u] \in Seq(Op)
  BY PlanAssumption
<1> QED
  BY <1>1, <1>2

LEMMA ValueInit == Init => ValueInv
  BY DEF Init, ValueInv, Sent

(* The units of a scope before one that is not blocked are done. *)
LEMMA EarlierAreDone ==
  ASSUME NEW n \in 1..Len(Plan), NEW results \in [Unit -> Outcome],
         \A j \in 1..Len(Plan) : results[Plan[j]] = "none" => j >= n,
         \A j \in 1..(n - 1) : results[Plan[j]] = "skipped" =>
           \E k \in 1..(j - 1) : Needs(Plan[j], Plan[k]) /\ results[Plan[k]] = "failed",
         \A k \in 1..(n - 1) : Needs(Plan[n], Plan[k]) => results[Plan[k]] # "failed",
         NEW j \in 1..(n - 1), ScopeOf[Plan[j]] = ScopeOf[Plan[n]]
  PROVE  results[Plan[j]] = "done"
<1>1. j \in 1..Len(Plan) /\ j < n /\ Plan[j] \in Unit
  BY PlanHasLength, PlanIsOfUnits
<1>2. results[Plan[j]] \notin {"none", "failed"}
  BY <1>1 DEF Needs
<1>3. \A k \in 1..(j - 1) : k \in 1..(n - 1) /\ (Needs(Plan[j], Plan[k]) => Needs(Plan[n], Plan[k]))
  BY <1>1, PlanHasLength DEF Needs
<1>4. results[Plan[j]] # "skipped"
  BY <1>3
<1> QED
  BY <1>1, <1>2, <1>4 DEF Outcome

LEMMA RunFromKeepsValueInv ==
  ASSUME FailInv, FailInv', ValueInv, NEW a \in App, UNCHANGED <<action, dry>>,
         NEW i, NEW results, NEW values,
         RealCreate(a) => \A u \in Unit : results[u] = "done" => CapturedBy(u) \subseteq values,
         NEW scopes, RunFrom(a, i, results, values, scopes), xpc[a] # "run"
  PROVE  ValueInv'
<1>1. /\ store' = [store EXCEPT ![a] = values]
      /\ \A u \in Unit : res'[a][u] = "done" => results[u] = "done"
      /\ \/ /\ pc' = [pc EXCEPT ![a] = "done"] /\ UNCHANGED <<at, xpc, xat, xstore>>
         \/ /\ pc' = [pc EXCEPT ![a] = "executing"]
            /\ xpc' = [xpc EXCEPT ![a] = "run"] /\ xat' = [xat EXCEPT ![a] = 1]
            /\ xstore' = [xstore EXCEPT ![a] = values]
            /\ \E n : at' = [at EXCEPT ![a] = n]
      /\ \E r : res' = [res EXCEPT ![a] = r]
  BY DEF RunFrom, Answer, StartUnit, FailInv
<1>2. DOMAIN pc = App /\ DOMAIN at = App /\ DOMAIN res = App
  BY DEF FailInv
<1>3. \A b \in App \ {a} :
        /\ pc'[b] = pc[b] /\ at'[b] = at[b] /\ res'[b] = res[b] /\ store'[b] = store[b]
        /\ xpc'[b] = xpc[b] /\ xat'[b] = xat[b] /\ xstore'[b] = xstore[b]
  BY <1>1, <1>2 DEF ValueInv
<1>4. \A b \in App \ {a} :
        /\ RealCreate(b)' /\ (pc[b] = "executing")' => PassedOn(b)'
        /\ RealCreate(b)' /\ Sent(b)' => Known(b)'
  BY <1>3 DEF ValueInv, RealCreate, Sent, PassedOn, Known
<1>5. ASSUME RealCreate(a)', Sent(a)' PROVE PassedOn(a)' /\ Known(a)'
  <2>1. /\ pc'[a] = "executing" /\ xpc'[a] = "run" /\ xat'[a] = 1
        /\ store'[a] = values /\ xstore'[a] = values
    BY <1>1, <1>2, <1>5 DEF Sent, ValueInv
  <2>2. RealCreate(a) /\ PassedOn(a)'
    BY <1>1, <1>5, <2>1 DEF PassedOn, RealCreate
  <2>3. Running(a)' /\ Contained(a, res[a])' /\ res'[a] \in [Unit -> Outcome]
    BY <2>1 DEF FailInv
  <2>4. at'[a] \in 1..Len(Plan)
    BY <2>3 DEF Running
  <2>5. \A j \in 1..(at'[a] - 1) :
          ScopeOf[Plan[j]] = ScopeOf[Plan[at'[a]]] => res'[a][Plan[j]] = "done"
    <3> DEFINE outcomes == res'[a]
               n == at'[a]
    <3>1. action'[a] = "create"
      BY <1>5 DEF RealCreate
    <3>2. /\ \A j \in 1..Len(Plan) : outcomes[Plan[j]] = "none" => j >= n
          /\ \A k \in 1..(n - 1) : Needs(Plan[n], Plan[k]) => outcomes[Plan[k]] # "failed"
      BY <2>3, <2>4, <3>1, PlanHasLength
         DEF Running, ResultsBefore, NeedsFailed, Order, Directed, Needs
    <3>3. \A j \in 1..(n - 1) : outcomes[Plan[j]] = "skipped" =>
            \E k \in 1..(j - 1) : Needs(Plan[j], Plan[k]) /\ outcomes[Plan[k]] = "failed"
      BY <2>3, <2>4, <3>1, PlanHasLength DEF Contained, NeedsFailed, Order, Directed, Needs
    <3> HIDE DEF outcomes, n
    <3>4. n \in 1..Len(Plan) /\ outcomes \in [Unit -> Outcome]
      BY <2>3, <2>4 DEF outcomes, n
    <3>5. \A j \in 1..(n - 1) : ScopeOf[Plan[j]] = ScopeOf[Plan[n]] => outcomes[Plan[j]] = "done"
      BY <3>2, <3>3, <3>4, EarlierAreDone
    <3> QED
      BY <3>5 DEF outcomes, n
  <2>6. \A j \in 1..(at'[a] - 1) : Plan[j] \in Unit
    BY <2>4, PlanIsOfUnits, PlanHasLength
  <2>7. \A k \in 1..Len(Steps[Plan[at'[a]]]) : ~ (k < xat'[a])
    BY <2>1, <2>4, PlanIsOfUnits
  <2> QED
    BY <1>1, <2>1, <2>2, <2>4, <2>5, <2>6, <2>7 DEF Known
<1>6. /\ DOMAIN xpc' = App /\ DOMAIN store' = App /\ DOMAIN xstore' = App
      /\ xat' \in [App -> Nat \ {0}]
  BY <1>1 DEF ValueInv
<1> QED
  BY <1>4, <1>5, <1>6 DEF ValueInv, Sent

(* Other steps of an apply send nothing, and change no values. *)
LEMMA QuietKeepsValueInv ==
  ASSUME ValueInv, NEW a \in App,
         UNCHANGED <<action, dry, at, res, store, xpc, xat, xstore>>,
         NEW p, pc' = [pc EXCEPT ![a] = p], p # "executing", DOMAIN pc = App
  PROVE  ValueInv'
<1>1. \A b \in App : pc'[b] = "executing" => pc[b] = "executing"
  OBVIOUS
<1> QED
  BY <1>1 DEF ValueInv, RealCreate, Sent, PassedOn, Known

LEMMA ExecutorKeepsValueInv ==
  ASSUME OwnInv, FailInv, ValueInv, NEW a \in App, Executor(a)
  PROVE  ValueInv'
<1>1. UNCHANGED applyVars /\ xpc[a] = "run"
  BY DEF Executor, OpRuns, OpFails, UnitEnds, UnitRaises
<1>2. \A b \in App \ {a} : xpc'[b] = xpc[b] /\ xat'[b] = xat[b] /\ xstore'[b] = xstore[b]
  BY DEF Executor, OpRuns, OpFails, UnitEnds, UnitRaises, ValueInv
<1>3. \A b \in App \ {a} :
        /\ RealCreate(b)' /\ (pc[b] = "executing")' => PassedOn(b)'
        /\ RealCreate(b)' /\ Sent(b)' => Known(b)'
  BY <1>1, <1>2 DEF applyVars, ValueInv, RealCreate, Sent, PassedOn, Known
<1>4. ASSUME RealCreate(a)
      PROVE  /\ Known(a)'
             /\ (pc[a] = "executing")' => PassedOn(a)'
  <2>1. Known(a) /\ xat[a] \in Nat \ {0}
    BY <1>1, <1>4 DEF ValueInv, Sent
  <2> DEFINE steps == Steps[Plan[at[a]]]
  <2>2. Ops(a) = steps /\ Len(steps) \in Nat
    BY <1>4, <2>1, PlanIsOfUnits DEF Ops, UnitAt, Order, Directed, RealCreate, Known
  <2>3. /\ xat'[a] \in {xat[a], xat[a] + 1}
        /\ xstore[a] \subseteq xstore'[a]
        /\ xat'[a] = xat[a] + 1 /\ steps[xat[a]] \in Captures => steps[xat[a]] \in xstore'[a]
        /\ xpc'[a] = "done" => xat'[a] > Len(steps)
    BY <1>4, <2>1, <2>2 DEF Executor, OpRuns, OpFails, UnitEnds, UnitRaises, ValueInv, RealCreate
  <2> HIDE DEF steps
  <2>4. \A k \in 1..Len(steps) : k < xat'[a] /\ steps[k] \in Captures => steps[k] \in xstore'[a]
    <3> TAKE k \in 1..Len(steps)
    <3>1. CASE k < xat[a]
      BY <2>1, <2>3, <3>1 DEF Known, steps
    <3>2. CASE ~ (k < xat[a])
      BY <2>1, <2>2, <2>3, <3>2
    <3> QED
      BY <3>1, <3>2
  <2>5. Known(a)'
    BY <1>1, <2>1, <2>3, <2>4 DEF Known, steps, applyVars
  <2>6. (pc[a] = "executing")' => PassedOn(a)'
    BY <1>1, <1>4, <2>3 DEF ValueInv, PassedOn, steps, applyVars
  <2> QED
    BY <2>5, <2>6
<1>5. /\ DOMAIN xpc' = App /\ DOMAIN store' = App /\ DOMAIN xstore' = App
      /\ xat' \in [App -> Nat \ {0}]
  BY <1>1 DEF applyVars, ValueInv, Executor, OpRuns, OpFails, UnitEnds, UnitRaises
<1> QED
  BY <1>1, <1>3, <1>4, <1>5 DEF ValueInv, RealCreate, applyVars

LEMMA ResultKeepsValueInv ==
  ASSUME FailInv, FailInv', ValueInv, NEW a \in App, Result(a)
  PROVE  ValueInv'
<1> DEFINE u == UnitAt(a)
           results == [res[a] EXCEPT ![u] = IF xpc[a] = "done" THEN "done" ELSE "failed"]
           scopes == IF xpc[a] = "done" THEN broken[a] ELSE WithFailure(broken[a], u)
<1>1. /\ pc[a] = "executing" /\ UNCHANGED <<action, dry>> /\ xpc[a] # "run"
      /\ RunFrom(a, at[a] + 1, results, Values(a), scopes)
  BY DEF Result, ExecOver
<1>2. CASE RealCreate(a)
  <2>1. PassedOn(a) /\ Known(a)
    BY <1>1, <1>2 DEF ValueInv, Sent
  <2>2. u = Plan[at[a]] /\ u \in Unit
    BY <1>2, <2>1, PlanIsOfUnits DEF UnitAt, Order, Directed, RealCreate, Known
  <2>3. ASSUME xpc[a] = "done" PROVE CapturedBy(u) \subseteq xstore[a]
    <3>1. xat[a] > Len(Steps[u]) /\ Len(Steps[u]) \in Nat /\ DOMAIN Steps[u] = 1..Len(Steps[u])
      BY <2>1, <2>2, <2>3, PlanIsOfUnits DEF PassedOn
    <3>2. \A k \in 1..Len(Steps[u]) : Steps[u][k] \in Captures => Steps[u][k] \in xstore[a]
      BY <2>1, <2>2, <3>1 DEF Known, ValueInv
    <3> QED
      BY <3>1, <3>2 DEF CapturedBy, Range
  <2> HIDE DEF u
  <2>4. \A v \in Unit : results[v] = "done" => CapturedBy(v) \subseteq Values(a)
    <3> TAKE v \in Unit
    <3>1. CASE v = u
      BY <2>2, <2>3, <3>1 DEF Values, FailInv
    <3>2. CASE v # u
      BY <2>1, <3>2 DEF Values, PassedOn, FailInv
    <3> QED
      BY <3>1, <3>2
  <2> HIDE DEF results, scopes
  <2> QED
    BY <1>1, <2>4, RunFromKeepsValueInv
<1>3. CASE ~ RealCreate(a)
  BY <1>1, <1>3, RunFromKeepsValueInv
<1> QED
  BY <1>2, <1>3

LEMMA ValueStep == OwnInv /\ FailInv /\ FailInv' /\ ValueInv /\ [Next]_vars => ValueInv'
<1> SUFFICES ASSUME OwnInv, FailInv, FailInv', ValueInv, [Next]_vars PROVE ValueInv'
  OBVIOUS
<1>1. ASSUME NEW a \in App, Begin(a) \/ DepsReady(a) PROVE ValueInv'
  <2>1. CASE Begin(a) /\ action[a] = "create" /\ ~ dry[a]
    BY <2>1, QuietKeepsValueInv DEF Begin, FailInv
  <2>2. CASE ~ (Begin(a) /\ action[a] = "create" /\ ~ dry[a])
    <3>1. /\ pc[a] \in {"locked", "deps"} /\ UNCHANGED <<action, dry>> /\ xpc[a] # "run"
          /\ RunFrom(a, 1, res[a], {}, {})
      BY <1>1, <2>2 DEF Begin, DepsReady, OwnInv
    <3>2. \A u \in Unit : res[a][u] # "done"
      BY <3>1 DEF FailInv
    <3> QED
      BY <3>1, <3>2, RunFromKeepsValueInv
  <2> QED
    BY <2>1, <2>2
<1>2. ASSUME NEW a \in App, Client(a) \/ Task(a) PROVE ValueInv'
  <2> DOMAIN pc = App
    BY DEF FailInv
  <2>1. CASE Arrive(a) \/ Resolved(a) \/ Enter(a)
    BY <2>1, QuietKeepsValueInv DEF Arrive, Resolved, Enter, execVars
  <2>2. CASE Refuse(a) \/ Cancel(a)
    BY <2>2, QuietKeepsValueInv DEF Refuse, Cancel, execVars
  <2>3. CASE DepsMissing(a) \/ BadPlan(a)
    BY <2>3, QuietKeepsValueInv DEF DepsMissing, BadPlan, Answer, execVars
  <2> QED
    BY <1>1, <1>2, <2>1, <2>2, <2>3, ResultKeepsValueInv DEF Client, Task
<1>3. CASE AllOver \/ UNCHANGED vars
  BY <1>3 DEF AllOver, vars, applyVars, execVars, ValueInv, RealCreate, Sent, PassedOn, Known
<1> QED
  BY <1>2, <1>3, ExecutorKeepsValueInv DEF Next

THEOREM ValueInvariant == Spec => []ValueInv
<1>1. Init => ValueInv
  BY ValueInit
<1>2. OwnInv /\ FailInv /\ (OwnInv /\ FailInv)' /\ ValueInv /\ [Next]_vars => ValueInv'
  BY ValueStep
<1> QED
  BY <1>1, <1>2, FailInvariant, PTL DEF Spec

(* What an operation refers to has been captured when it runs: by its own  *)
(* unit, or by one of its scope before it, which ran through and whose     *)
(* values were passed on (Apply._run, UnitExecutor.execute).               *)
THEOREM RefsAlwaysResolve == Spec => []RefsAreResolved
<1>1. ValueInv => RefsAreResolved
  <2> SUFFICES ASSUME ValueInv, NEW a \in App, xpc[a] = "run", RealCreate(a),
                      xat[a] <= Len(Ops(a)), NEW c \in Uses[Ops(a)[xat[a]]]
               PROVE  c \in xstore[a]
    BY DEF RefsAreResolved, RealCreate
  <2> DEFINE u == Plan[at[a]]
             k == xat[a]
  <2>1. Known(a) /\ k \in Nat \ {0}
    BY DEF ValueInv, Sent
  <2>2. at[a] \in DOMAIN Plan /\ at[a] \in 1..Len(Plan) /\ u \in Unit
    BY <2>1, PlanIsOfUnits DEF Known
  <2>3. Ops(a) = Steps[u]
    BY DEF Ops, UnitAt, Order, Directed, RealCreate
  <2>4. /\ Steps[u] \in Seq(Op) /\ DOMAIN Steps[u] = 1..Len(Steps[u])
        /\ k \in 1..Len(Steps[u]) /\ Steps[u][k] \in Op
    BY <2>1, <2>2, <2>3, PlanIsOfUnits
  <2>5. c \in Uses[Steps[u][k]] /\ c \in Captures
    BY <2>3, <2>4, PlanAssumption
  <2>6. PICK j \in 1..at[a] : /\ ScopeOf[Plan[j]] = ScopeOf[u]
                              /\ c \in Range(Steps[Plan[j]])
                              /\ j = at[a] => c \in Range(SubSeq(Steps[u], 1, k - 1))
    BY <2>2, <2>4, <2>5, PlanAssumption
  <2>7. CASE j = at[a]
    <3>1. PICK m \in 1..(k - 1) : c = Steps[u][m]
      BY <2>4, <2>6, <2>7 DEF Range
    <3> QED
      BY <2>1, <2>4, <2>5, <3>1 DEF Known
  <2>8. CASE j # at[a]
    BY <2>1, <2>2, <2>5, <2>6, <2>8, PlanHasLength DEF Known, CapturedBy
  <2> QED
    BY <2>7, <2>8
<1> QED
  BY <1>1, ValueInvariant, PTL
-----------------------------------------------------------------------------
(* What was run *)

OpAt(a, j, k) == Directed(a, Steps[Order(a)[j]])[k]

(* a has come past o when it is at step k of its unit i. *)
Behind(a, i, k, o) ==
  \E j \in DOMAIN Plan : \E m \in DOMAIN Steps[Order(a)[j]] :
    o = OpAt(a, j, m) /\ (j < i \/ (j = i /\ m < k))

InOrder(a) == \A m, n \in DOMAIN ran[a] : m < n => Precedes(a, ran[a][m], ran[a][n])

(* What ran are the units that are done, and of the one at work what is    *)
(* behind the executor, in order.                                          *)
Working(a) ==
  /\ InOrder(a)
  /\ \A o \in Range(ran[a]) : Behind(a, at[a], xat[a], o)
  /\ \A u \in Unit : res[a][u] = "done" => Range(Steps[u]) \subseteq Range(ran[a])
  /\ \A m \in 1..Len(Ops(a)) : m < xat[a] => Ops(a)[m] \in Range(ran[a])
  /\ xpc[a] = "done" => xat[a] > Len(Ops(a))

Waiting == {"idle", "resolving", "queued", "locked", "deps"}

RanInv ==
  /\ ran \in [App -> Seq(Op)] /\ host \subseteq Op \ Captures
  /\ \A a \in App : Sent(a) => at[a] \in 1..Len(Plan)
  /\ \A a \in App : dry[a] \/ pc[a] \in Waiting => ran[a] = <<>>
  /\ \A a \in App : ~ dry[a] /\ pc[a] = "executing" => Working(a)
  /\ \A a \in App : ~ dry[a] /\ answer[a] = "done" => InOrder(a) /\ Range(ran[a]) = Op
-----------------------------------------------------------------------------

LEMMA DirectedSteps ==
  ASSUME NEW a \in App, action[a] \in {"create", "delete"}, NEW u \in Unit
  PROVE  /\ Directed(a, Steps[u]) \in Seq(Op)
         /\ Len(Steps[u]) \in Nat /\ Len(Directed(a, Steps[u])) = Len(Steps[u])
         /\ DOMAIN Steps[u] = 1..Len(Steps[u])
         /\ DOMAIN Directed(a, Steps[u]) = 1..Len(Steps[u])
         /\ Range(Directed(a, Steps[u])) = Range(Steps[u])
<1> DEFINE s == Steps[u]
<1>1. s \in Seq(Op) /\ DOMAIN s = 1..Len(s) /\ Len(s) \in Nat
  BY PlanIsOfUnits
<1>2. CASE action[a] = "create"
  BY <1>1, <1>2 DEF Directed
<1>3. CASE action[a] = "delete"
  <2> HIDE DEF s
  <2> DEFINE n == Len(s)
             r == [i \in 1..n |-> s[(n - i) + 1]]
  <2>1. Directed(a, s) = r
    BY <1>3 DEF Directed, Reverse
  <2>2. n \in Nat /\ \A i \in 1..n : (n - i) + 1 \in 1..n /\ (n - ((n - i) + 1)) + 1 = i
    BY <1>1
  <2>3. \A i \in 1..n : s[i] \in Op
    BY <1>1
  <2>4. r \in [1..n -> Op]
    BY <2>2, <2>3
  <2>5. r \in Seq(Op) /\ Len(r) = n /\ DOMAIN r = 1..n
    BY <2>2, <2>4
  <2>6. Range(r) = Range(s)
    <3>1. \A i \in 1..n : r[i] \in Range(s) /\ s[i] \in Range(r)
      <4> TAKE i \in 1..n
      <4>1. (n - i) + 1 \in 1..n /\ r[i] = s[(n - i) + 1]
        BY <2>2
      <4>2. r[(n - i) + 1] = s[i]
        BY <2>2
      <4> QED
        BY <1>1, <2>5, <4>1, <4>2 DEF Range
    <3> QED
      BY <1>1, <2>5, <3>1 DEF Range
  <2> QED
    BY <1>1, <2>1, <2>5, <2>6 DEF s
<1> QED
  BY <1>2, <1>3

(* The unit an apply is at. *)
LEMMA UnitAtIs ==
  ASSUME NEW a \in App, action[a] \in {"create", "delete"}, at[a] \in 1..Len(Plan)
  PROVE  /\ UnitAt(a) \in Unit /\ UnitAt(a) = Order(a)[at[a]] /\ at[a] \in DOMAIN Plan
         /\ Ops(a) \in Seq(Op) /\ Len(Ops(a)) \in Nat /\ Len(Ops(a)) = Len(Steps[UnitAt(a)])
         /\ DOMAIN Steps[UnitAt(a)] = 1..Len(Ops(a))
         /\ Range(Ops(a)) = Range(Steps[UnitAt(a)]) /\ DOMAIN Ops(a) = 1..Len(Ops(a))
         /\ \A k : Ops(a)[k] = OpAt(a, at[a], k)
<1>1. UnitAt(a) \in Unit /\ UnitAt(a) = Order(a)[at[a]]
  BY OrderIsPermutation DEF UnitAt
<1>2. at[a] \in DOMAIN Plan
  BY PlanAssumption
<1> QED
  BY <1>1, <1>2, DirectedSteps DEF Ops, OpAt

(* What an apply has come past precedes what it does next. *)
LEMMA BehindPrecedes ==
  ASSUME NEW a \in App, NEW i \in DOMAIN Plan, NEW k \in DOMAIN Steps[Order(a)[i]],
         NEW o, Behind(a, i, k, o)
  PROVE  Precedes(a, o, OpAt(a, i, k))
  BY DEF Behind, Precedes, OpAt

LEMMA BehindGrows ==
  ASSUME NEW a \in App, action[a] \in {"create", "delete"}, NEW i \in Nat, NEW k \in Nat, NEW o,
         Behind(a, i, k, o), NEW j \in Nat, NEW m \in Nat, i < j \/ (i = j /\ k <= m)
  PROVE  Behind(a, j, m, o)
<1>1. PICK u \in DOMAIN Plan : \E n \in DOMAIN Steps[Order(a)[u]] :
        o = OpAt(a, u, n) /\ (u < i \/ (u = i /\ n < k))
  BY DEF Behind
<1>2. PICK n \in DOMAIN Steps[Order(a)[u]] :
        o = OpAt(a, u, n) /\ (u < i \/ (u = i /\ n < k))
  BY <1>1
<1>3. u \in 1..Len(Plan) /\ Len(Plan) \in Nat
  BY PlanAssumption
<1>4. Order(a)[u] \in Unit
  BY <1>3, OrderIsPermutation
<1>5. u \in Nat /\ n \in Nat
  BY <1>3, <1>4, DirectedSteps
<1>6. u < j \/ (u = j /\ n < m)
  BY <1>2, <1>5
<1> QED
  BY <1>2, <1>6 DEF Behind

LEMMA SameDirection ==
  ASSUME NEW a \in App, action' = action
  PROVE  /\ \A i, k, o : Behind(a, i, k, o)' <=> Behind(a, i, k, o)
         /\ \A o, p : Precedes(a, o, p)' <=> Precedes(a, o, p)
         /\ Order(a)' = Order(a) /\ \A s : Directed(a, s)' = Directed(a, s)
  BY DEF Behind, Precedes, OpAt, Order, Directed
LEMMA RanInit == Init => RanInv
  BY DEF Init, RanInv, Sent

(* Where the loop of _run leads. *)
LEMMA RunFromLeads ==
  ASSUME FailInv, ValueInv, OwnInv, NEW a \in App, NEW i \in 1..(Len(Plan) + 1), NEW results,
         NEW values, NEW scopes, RunFrom(a, i, results, values, scopes)
  PROVE  /\ \A u \in Unit : res'[a][u] = "done" => results[u] = "done"
         /\ \A b \in App \ {a} :
              /\ pc'[b] = pc[b] /\ at'[b] = at[b] /\ res'[b] = res[b] /\ answer'[b] = answer[b]
              /\ xpc'[b] = xpc[b] /\ xat'[b] = xat[b]
         /\ \/ pc'[a] = "done" /\ xpc'[a] = xpc[a]
            \/ /\ pc'[a] = "executing" /\ xpc'[a] = "run" /\ xat'[a] = 1
               /\ answer'[a] = answer[a] /\ at'[a] \in i..Len(Plan)
<1> DEFINE n == Len(Plan)
           rest == {j \in i..n : ~ Blocks(a, Order(a)[j], scopes)}
<1>1. n \in Nat /\ rest \in SUBSET Nat
  BY PlanHasLength
<1>2. rest # {} => Min(rest) \in i..n
  BY <1>1, MinIsLeast
<1>3. /\ DOMAIN pc = App /\ DOMAIN at = App /\ DOMAIN res = App /\ DOMAIN answer = App
      /\ DOMAIN xpc = App /\ DOMAIN xat = App
  BY DEF FailInv, ValueInv
<1>4. \/ /\ rest = {} /\ pc' = [pc EXCEPT ![a] = "done"] /\ UNCHANGED <<at, xpc, xat>>
         /\ \E v : answer' = [answer EXCEPT ![a] = v]
      \/ /\ rest # {} /\ pc' = [pc EXCEPT ![a] = "executing"] /\ answer' = answer
         /\ xpc' = [xpc EXCEPT ![a] = "run"] /\ xat' = [xat EXCEPT ![a] = 1]
         /\ at' = [at EXCEPT ![a] = Min(rest)]
  BY DEF RunFrom, Answer, StartUnit
<1>5. \E now : /\ res' = [res EXCEPT ![a] = now]
               /\ \A u \in Unit : now[u] = "done" => results[u] = "done"
  <2> DEFINE next == IF rest = {} THEN n + 1 ELSE Min(rest)
             now == [u \in Unit |-> IF \E j \in i..(next - 1) : Order(a)[j] = u
                                      THEN "skipped" ELSE results[u]]
  <2>1. res' = [res EXCEPT ![a] = now]
    BY DEF RunFrom
  <2>2. \A u \in Unit : now[u] = "done" => results[u] = "done"
    OBVIOUS
  <2> HIDE DEF now
  <2> QED
    BY <2>1, <2>2
<1> HIDE DEF rest
<1> QED
  BY <1>2, <1>3, <1>4, <1>5

(* What ran before unit i, when that is all. *)
RanUpTo(a, i, results) ==
  /\ InOrder(a)
  /\ \A o \in Range(ran[a]) : Behind(a, i, 1, o)
  /\ \A u \in Unit : results[u] = "done" => Range(Steps[u]) \subseteq Range(ran[a])

LEMMA RunFromKeepsRan ==
  ASSUME OwnInv, FailInv, FailInv', ValueInv, RanInv, NEW a \in App, NEW i \in 1..(Len(Plan) + 1),
         NEW results, NEW values, NEW scopes, RunFrom(a, i, results, values, scopes),
         UNCHANGED <<action, dry, ran, host>>, pc[a] # "done", xpc[a] # "run",
         ~ dry[a] => RanUpTo(a, i, results)
  PROVE  RanInv'
<1>1. /\ \A u \in Unit : res'[a][u] = "done" => results[u] = "done"
      /\ \A b \in App \ {a} :
              /\ pc'[b] = pc[b] /\ at'[b] = at[b] /\ res'[b] = res[b] /\ answer'[b] = answer[b]
              /\ xpc'[b] = xpc[b] /\ xat'[b] = xat[b]
      /\ \/ pc'[a] = "done" /\ xpc'[a] = xpc[a]
         \/ /\ pc'[a] = "executing" /\ xpc'[a] = "run" /\ xat'[a] = 1
            /\ answer'[a] = answer[a] /\ at'[a] \in i..Len(Plan)
  BY RunFromLeads
<1>2. Len(Plan) \in Nat /\ action[a] \in {"create", "delete"} /\ answer[a] # "done"
  BY PlanHasLength DEF FailInv, AllDone
<1>3. ASSUME NEW b \in App \ {a}, ~ dry[b], pc[b] = "executing" PROVE Working(b)'
  <2>1. Working(b) /\ Ops(b)' = Ops(b)
    BY <1>1, <1>3, SameDirection DEF RanInv, Ops, UnitAt
  <2> QED
    BY <1>1, <2>1, SameDirection DEF Working, InOrder
<1>4. ASSUME ~ dry[a], pc'[a] = "executing" PROVE Working(a)'
  <2>1. xat'[a] = 1 /\ xpc'[a] = "run" /\ at'[a] \in i..Len(Plan) /\ RanUpTo(a, i, results)
    BY <1>1, <1>4
  <2>2. at'[a] \in 1..Len(Plan)
    BY <1>2, <2>1
  <2>3. \A o \in Range(ran[a]) : Behind(a, at'[a], xat'[a], o)
    <3> DEFINE n == at'[a]
    <3>1. n \in Nat /\ i \in Nat /\ (i < n \/ i = n)
      BY <1>2, <2>1
    <3> HIDE DEF n
    <3>2. \A o \in Range(ran[a]) : Behind(a, n, 1, o)
      BY <1>2, <2>1, <3>1, BehindGrows DEF RanUpTo
    <3> QED
      BY <2>1, <3>2 DEF n
  <2>4. InOrder(a)'
    BY <2>1, SameDirection DEF RanUpTo, InOrder
  <2>5. (\A o \in Range(ran[a]) : Behind(a, at[a], xat[a], o))'
    BY <2>3, SameDirection
  <2>6. (\A u \in Unit : res[a][u] = "done" => Range(Steps[u]) \subseteq Range(ran[a]))'
    BY <1>1, <2>1 DEF RanUpTo
  <2>7. (\A m \in 1..Len(Ops(a)) : m < xat[a] => Ops(a)[m] \in Range(ran[a]))'
    <3>1. Len(Ops(a)') \in Nat
      <4>1. UnitAt(a)' \in Unit /\ Ops(a)' = Directed(a, Steps[UnitAt(a)'])
        BY <1>2, <2>2, SameDirection, OrderIsPermutation DEF UnitAt, Ops
      <4> QED
        BY <1>2, <4>1, DirectedSteps
    <3> QED
      BY <2>1, <3>1
  <2> QED
    BY <2>1, <2>4, <2>5, <2>6, <2>7 DEF Working
<1>5. ASSUME ~ dry[a], answer'[a] = "done" PROVE InOrder(a)' /\ Range(ran'[a]) = Op
  <2>1. AllDone(a)' /\ RanUpTo(a, i, results)
    BY <1>5 DEF FailInv
  <2>2. \A u \in Unit : Range(Steps[u]) \subseteq Range(ran[a])
    BY <1>1, <2>1 DEF AllDone, RanUpTo
  <2>3. Op \subseteq Range(ran[a])
    BY <2>2 DEF Op
  <2>4. Range(ran[a]) \subseteq Op
    BY DEF RanInv, Range
  <2>5. InOrder(a)'
    BY <2>1, SameDirection DEF RanUpTo, InOrder
  <2> QED
    BY <2>3, <2>4, <2>5
<1>6. \A b \in App : Sent(b)' => at'[b] \in 1..Len(Plan)
  BY <1>1, <1>2 DEF RanInv, Sent
<1>7. \A b \in App : ~ dry[b] /\ answer'[b] = "done" => InOrder(b)' /\ Range(ran'[b]) = Op
  <2> TAKE b \in App
  <2>1. CASE b = a
    BY <1>5, <2>1
  <2>2. CASE b # a
    BY <1>1, <2>2, SameDirection DEF RanInv, InOrder
  <2> QED
    BY <2>1, <2>2
<1>8. \A b \in App : dry[b] \/ pc'[b] \in Waiting => ran[b] = <<>>
  BY <1>1 DEF RanInv, Waiting
<1>9. \A b \in App : ~ dry[b] /\ pc'[b] = "executing" => Working(b)'
  BY <1>1, <1>3, <1>4
<1> QED
  BY <1>6, <1>7, <1>8, <1>9 DEF RanInv
(* An operation that ran is the last of what did. *)
LEMMA OpRunsKeepsWorking ==
  ASSUME FailInv, ValueInv, RanInv, NEW a \in App, OpRuns(a), pc[a] = "executing"
  PROVE  Working(a)'
<1> DEFINE n == Len(ran[a])
           k == xat[a]
           op == Ops(a)[k]
<1>1. /\ ~ dry[a] /\ k <= Len(Ops(a)) /\ UNCHANGED applyVars /\ xpc[a] = "run" /\ xpc' = xpc
      /\ ran' = [ran EXCEPT ![a] = Append(ran[a], op)] /\ xat' = [xat EXCEPT ![a] = k + 1]
  BY DEF OpRuns
<1>2. Working(a) /\ at[a] \in 1..Len(Plan) /\ action[a] \in {"create", "delete"}
  BY <1>1 DEF RanInv, Sent, FailInv
<1>3. k \in Nat \ {0} /\ k \in 1..Len(Ops(a)) /\ xat'[a] = k + 1 /\ at[a] \in Nat
  <2>1. k \in Nat \ {0} /\ xat'[a] = k + 1
    BY <1>1 DEF ValueInv
  <2>2. Len(Ops(a)) \in Nat /\ Len(Plan) \in Nat
    BY <1>2, UnitAtIs, PlanHasLength
  <2> QED
    BY <1>1, <1>2, <2>1, <2>2
<1>4. /\ UnitAt(a) = Order(a)[at[a]] /\ at[a] \in DOMAIN Plan
      /\ k \in DOMAIN Steps[Order(a)[at[a]]] /\ op = OpAt(a, at[a], k) /\ op \in Op
      /\ Ops(a) \in Seq(Op) /\ Len(Ops(a)) \in Nat
  BY <1>2, <1>3, UnitAtIs
<1>5. /\ ran[a] \in Seq(Op) /\ n \in Nat /\ DOMAIN ran[a] = 1..n
      /\ ran'[a] = Append(ran[a], op)
  BY <1>1 DEF RanInv
<1> HIDE DEF op, k, n
<1>6. /\ DOMAIN ran'[a] = 1..(n + 1) /\ ran'[a][n + 1] = op
      /\ \A m \in 1..n : ran'[a][m] = ran[a][m] /\ ran[a][m] \in Range(ran[a])
      /\ Range(ran'[a]) = Range(ran[a]) \cup {op}
  <2>1. /\ DOMAIN ran'[a] = 1..(n + 1) /\ ran'[a][n + 1] = op
        /\ \A m \in 1..n : ran'[a][m] = ran[a][m]
    BY <1>4, <1>5 DEF n
  <2> QED
    BY <1>5, <2>1 DEF Range
<1>7. action' = action /\ at' = at /\ res' = res
  BY <1>1 DEF applyVars
<1>8. InOrder(a)'
  <2>1. \A m, l \in 1..n : m < l => Precedes(a, ran[a][m], ran[a][l])
    BY <1>2, <1>5 DEF Working, InOrder
  <2>2. \A m \in 1..n : Precedes(a, ran[a][m], op)
    BY <1>2, <1>4, <1>6, BehindPrecedes DEF Working, k
  <2>3. \A m, l \in 1..(n + 1) : m < l => Precedes(a, ran'[a][m], ran'[a][l])
    <3> TAKE m, l \in 1..(n + 1)
    <3> HAVE m < l
    <3>1. m \in 1..n /\ (l \in 1..n \/ l = n + 1)
      BY <1>5
    <3> QED
      BY <1>6, <2>1, <2>2, <3>1
  <2> QED
    BY <1>6, <1>7, <2>3, SameDirection DEF InOrder
<1>9. (\A o \in Range(ran[a]) : Behind(a, at[a], xat[a], o))'
  <2>1. \A o \in Range(ran[a]) : Behind(a, at[a], k + 1, o)
    <3> DEFINE i == at[a]
               l == k + 1
    <3>1. i \in Nat /\ l \in Nat /\ k \in Nat /\ k <= l
      BY <1>3
    <3>2. \A o \in Range(ran[a]) : Behind(a, i, k, o)
      BY <1>2 DEF Working, k
    <3> HIDE DEF i, l
    <3>3. \A o \in Range(ran[a]) : Behind(a, i, l, o)
      BY <1>2, <3>1, <3>2, BehindGrows
    <3> QED
      BY <3>3 DEF i, l
  <2>2. Behind(a, at[a], k + 1, op)
    BY <1>3, <1>4 DEF Behind
  <2> QED
    BY <1>3, <1>6, <1>7, <2>1, <2>2, SameDirection
<1>10. Ops(a)' = Ops(a)
  BY <1>7, SameDirection DEF Ops, UnitAt
<1>11. (\A m \in 1..Len(Ops(a)) : m < xat[a] => Ops(a)[m] \in Range(ran[a]))'
  <2>1. \A m \in 1..Len(Ops(a)) : m < k => Ops(a)[m] \in Range(ran[a])
    BY <1>2 DEF Working, k
  <2>2. \A m \in 1..Len(Ops(a)) : m < k + 1 => m < k \/ m = k
    BY <1>3, <1>4
  <2>3. op = Ops(a)[k]
    BY DEF op
  <2> QED
    BY <1>3, <1>6, <1>10, <2>1, <2>2, <2>3
<1>12. (\A u \in Unit : res[a][u] = "done" => Range(Steps[u]) \subseteq Range(ran[a]))'
  BY <1>2, <1>6, <1>7 DEF Working
<1> QED
  BY <1>1, <1>8, <1>9, <1>11, <1>12 DEF Working

LEMMA ExecutorKeepsRan ==
  ASSUME OwnInv, FailInv, ValueInv, RanInv, NEW a \in App, Executor(a)
  PROVE  RanInv'
<1>1. UNCHANGED applyVars /\ xpc[a] = "run" /\ pc[a] \in {"executing", "cancelled"}
  BY DEF Executor, OpRuns, OpFails, UnitEnds, UnitRaises, OwnInv
<1>2. \A b \in App \ {a} : xpc'[b] = xpc[b] /\ xat'[b] = xat[b] /\ ran'[b] = ran[b]
  BY DEF Executor, OpRuns, OpFails, UnitEnds, UnitRaises, ValueInv, RanInv
<1>3. UNCHANGED <<pc, action, dry, at, res, answer>>
  BY <1>1 DEF applyVars
<1>4. at[a] \in 1..Len(Plan) /\ action[a] \in {"create", "delete"} /\ answer[a] # "done"
  BY <1>1 DEF RanInv, Sent, FailInv, AllDone
<1>5. \A k : k \in 1..Len(Ops(a)) => Ops(a)[k] \in Op
  BY <1>4, UnitAtIs
<1>6. xat[a] \in Nat \ {0}
  BY DEF ValueInv
<1>7. /\ ran' = ran \/ (~ dry[a] /\ xat[a] \in 1..Len(Ops(a))
                        /\ ran' = [ran EXCEPT ![a] = Append(ran[a], Ops(a)[xat[a]])])
      /\ host' \subseteq host
         \/ (xat[a] \in 1..Len(Ops(a)) /\ host' \subseteq host \cup ({Ops(a)[xat[a]]} \ Captures))
  <2>1. Len(Ops(a)) \in Nat
    BY <1>4, UnitAtIs
  <2> QED
    BY <1>6, <2>1 DEF Executor, OpRuns, OpFails, UnitEnds, UnitRaises
<1>8. ran' \in [App -> Seq(Op)] /\ host' \subseteq Op \ Captures
  <2> DEFINE op == Ops(a)[xat[a]]
  <2>1. xat[a] \in 1..Len(Ops(a)) => op \in Op
    BY <1>5
  <2>2. ran \in [App -> Seq(Op)] /\ host \subseteq Op \ Captures
    BY DEF RanInv
  <2>3. \/ ran' = ran
        \/ op \in Op /\ ran' = [ran EXCEPT ![a] = Append(ran[a], op)]
    BY <1>7, <2>1
  <2>4. \/ host' \subseteq host
        \/ op \in Op /\ host' \subseteq host \cup ({op} \ Captures)
    BY <1>7, <2>1
  <2> HIDE DEF op
  <2>5. ran' \in [App -> Seq(Op)]
    <3>1. op \in Op => Append(ran[a], op) \in Seq(Op)
      BY <2>2
    <3> QED
      BY <2>2, <2>3, <3>1
  <2> QED
    BY <2>2, <2>4, <2>5
<1>9. \A b \in App : Sent(b)' => at'[b] \in 1..Len(Plan)
  BY <1>1, <1>2, <1>3, <1>4 DEF RanInv, Sent
<1>10. \A b \in App : dry[b] \/ pc[b] \in Waiting => ran'[b] = <<>>
  BY <1>1, <1>2, <1>7 DEF RanInv, Waiting
<1>11. \A b \in App : ~ dry[b] /\ answer[b] = "done" => InOrder(b)' /\ Range(ran'[b]) = Op
  BY <1>2, <1>3, <1>4, SameDirection DEF RanInv, InOrder
<1>12. ASSUME NEW b \in App \ {a}, ~ dry[b], pc[b] = "executing" PROVE Working(b)'
  <2>1. Working(b) /\ Ops(b)' = Ops(b)
    BY <1>3, <1>12, SameDirection DEF RanInv, Ops, UnitAt
  <2> QED
    BY <1>2, <1>3, <2>1, SameDirection DEF Working, InOrder
<1>13. ASSUME ~ dry[a], pc[a] = "executing" PROVE Working(a)'
  <2>1. CASE OpRuns(a)
    BY <1>13, <2>1, OpRunsKeepsWorking
  <2>2. CASE OpFails(a) \/ UnitEnds(a) \/ UnitRaises(a)
    <3>1. Working(a) /\ Ops(a)' = Ops(a)
      BY <1>3, <1>13, SameDirection DEF RanInv, Ops, UnitAt
    <3>2. /\ UNCHANGED <<ran, xat>>
          /\ xpc'[a] = "done" => xat[a] > Len(Ops(a))
      BY <1>13, <2>2 DEF OpFails, UnitEnds, UnitRaises, ValueInv
    <3> QED
      BY <1>3, <3>1, <3>2, SameDirection DEF Working, InOrder
  <2> QED
    BY <2>1, <2>2 DEF Executor
<1>14. \A b \in App : ~ dry[b] /\ pc[b] = "executing" => Working(b)'
  BY <1>12, <1>13
<1> QED
  BY <1>3, <1>8, <1>9, <1>10, <1>11, <1>14 DEF RanInv

LEMMA ResultKeepsRan ==
  ASSUME OwnInv, FailInv, FailInv', ValueInv, RanInv, NEW a \in App, Result(a)
  PROVE  RanInv'
<1> DEFINE u == UnitAt(a)
           results == [res[a] EXCEPT ![u] = IF xpc[a] = "done" THEN "done" ELSE "failed"]
           scopes == IF xpc[a] = "done" THEN broken[a] ELSE WithFailure(broken[a], u)
<1>1. /\ pc[a] = "executing" /\ UNCHANGED <<action, dry, ran, host>> /\ xpc[a] # "run"
      /\ RunFrom(a, at[a] + 1, results, Values(a), scopes)
  BY DEF Result, ExecOver
<1>2. at[a] \in 1..Len(Plan) /\ Len(Plan) \in Nat /\ action[a] \in {"create", "delete"}
  BY <1>1, PlanHasLength DEF RanInv, Sent, FailInv
<1>3. at[a] + 1 \in 1..(Len(Plan) + 1)
  BY <1>2
<1>4. ASSUME ~ dry[a] PROVE RanUpTo(a, at[a] + 1, results)
  <2>1. Working(a)
    BY <1>1, <1>4 DEF RanInv
  <2>2. \A o \in Range(ran[a]) : Behind(a, at[a] + 1, 1, o)
    <3> DEFINE i == at[a]
               k == xat[a]
               j == at[a] + 1
    <3>1. i \in Nat /\ k \in Nat /\ j \in Nat /\ i < j
      BY <1>2 DEF ValueInv
    <3>2. \A o \in Range(ran[a]) : Behind(a, i, k, o)
      BY <2>1 DEF Working
    <3> HIDE DEF i, j, k
    <3>3. \A o \in Range(ran[a]) : Behind(a, j, 1, o)
      BY <1>2, <3>1, <3>2, BehindGrows
    <3> QED
      BY <3>3 DEF j
  <2>3. ASSUME xpc[a] = "done" PROVE Range(Steps[u]) \subseteq Range(ran[a])
    <3>1. /\ xat[a] > Len(Ops(a)) /\ xat[a] \in Nat /\ Len(Ops(a)) \in Nat
          /\ DOMAIN Ops(a) = 1..Len(Ops(a)) /\ Range(Ops(a)) = Range(Steps[u])
      BY <1>2, <2>1, <2>3, UnitAtIs DEF Working, ValueInv
    <3>2. \A m \in 1..Len(Ops(a)) : Ops(a)[m] \in Range(ran[a])
      BY <2>1, <3>1 DEF Working
    <3> QED
      BY <3>1, <3>2 DEF Range
  <2>4. u \in Unit
    BY <1>2, UnitAtIs
  <2> HIDE DEF u
  <2>5. \A v \in Unit : results[v] = "done" => Range(Steps[v]) \subseteq Range(ran[a])
    <3> TAKE v \in Unit
    <3>1. CASE v = u
      BY <2>3, <2>4, <3>1 DEF FailInv
    <3>2. CASE v # u
      BY <2>1, <3>2 DEF Working, FailInv
    <3> QED
      BY <3>1, <3>2
  <2> QED
    BY <2>1, <2>2, <2>5 DEF RanUpTo, Working
<1> HIDE DEF results, scopes
<1> QED
  BY <1>1, <1>3, <1>4, RunFromKeepsRan
(* Other steps run nothing. *)
LEMMA QuietKeepsRan ==
  ASSUME RanInv, NEW a \in App,
         UNCHANGED <<action, dry, at, res, xpc, xat, ran, host>>, DOMAIN pc = App,
         NEW p, pc' = [pc EXCEPT ![a] = p], p # "executing",
         p \in Waiting => pc[a] \in Waiting,
         \A b \in App : answer'[b] = "done" => answer[b] = "done"
  PROVE  RanInv'
<1>1. \A b \in App : /\ pc'[b] = "executing" => pc[b] = "executing"
                     /\ pc'[b] \in Waiting => pc[b] \in Waiting
  OBVIOUS
<1>2. \A b \in App : Working(b)' <=> Working(b)
  BY SameDirection DEF Working, InOrder, Ops, UnitAt
<1>3. \A b \in App : InOrder(b)' <=> InOrder(b)
  BY SameDirection DEF InOrder
<1> QED
  BY <1>1, <1>2, <1>3 DEF RanInv, Sent

LEMMA RanStep ==
  OwnInv /\ FailInv /\ FailInv' /\ ValueInv /\ RanInv /\ [Next]_vars => RanInv'
<1> SUFFICES ASSUME OwnInv, FailInv, FailInv', ValueInv, RanInv, [Next]_vars PROVE RanInv'
  OBVIOUS
<1>1. DOMAIN pc = App /\ DOMAIN answer = App
  BY DEF FailInv
<1>2. ASSUME NEW a \in App, Begin(a) \/ DepsReady(a) PROVE RanInv'
  <2>1. CASE Begin(a) /\ action[a] = "create" /\ ~ dry[a]
    BY <1>1, <2>1, QuietKeepsRan DEF Begin, Waiting
  <2>2. CASE ~ (Begin(a) /\ action[a] = "create" /\ ~ dry[a])
    <3>1. /\ pc[a] \in {"locked", "deps"} /\ UNCHANGED <<action, dry, ran, host>> /\ xpc[a] # "run"
          /\ RunFrom(a, 1, res[a], {}, {})
      BY <1>2, <2>2 DEF Begin, DepsReady, OwnInv
    <3>2. ran[a] = <<>> /\ \A u \in Unit : res[a][u] # "done"
      BY <3>1 DEF RanInv, Waiting, FailInv
    <3>3. RanUpTo(a, 1, res[a])
      BY <3>2 DEF RanUpTo, InOrder, Range
    <3>4. 1 \in 1..(Len(Plan) + 1)
      BY PlanHasLength
    <3> QED
      BY <3>1, <3>3, <3>4, RunFromKeepsRan
  <2> QED
    BY <2>1, <2>2
<1>3. ASSUME NEW a \in App, Client(a) \/ Task(a) PROVE RanInv'
  <2>1. CASE Arrive(a) \/ Resolved(a) \/ Enter(a)
    BY <1>1, <2>1, QuietKeepsRan DEF Arrive, Resolved, Enter, execVars, Waiting
  <2>2. CASE Refuse(a)
    BY <1>1, <2>2, QuietKeepsRan DEF Refuse, execVars, Waiting
  <2>3. CASE Cancel(a)
    BY <1>1, <2>3, QuietKeepsRan DEF Cancel, execVars, Waiting
  <2>4. CASE DepsMissing(a) \/ BadPlan(a)
    BY <1>1, <2>4, QuietKeepsRan DEF DepsMissing, BadPlan, Answer, execVars, Waiting
  <2> QED
    BY <1>2, <1>3, <2>1, <2>2, <2>3, <2>4, ResultKeepsRan DEF Client, Task
<1>4. CASE AllOver \/ UNCHANGED vars
  <2>1. /\ UNCHANGED <<pc, action, dry, at, res, answer, xpc, xat, ran, host>>
    BY <1>4 DEF AllOver, vars, applyVars, execVars
  <2>2. \A b \in App : (Working(b)' <=> Working(b)) /\ (InOrder(b)' <=> InOrder(b))
    BY <2>1, SameDirection DEF Working, InOrder, Ops, UnitAt
  <2> QED
    BY <2>1, <2>2 DEF RanInv, Sent
<1> QED
  BY <1>3, <1>4, ExecutorKeepsRan DEF Next

THEOREM RanInvariant == Spec => []RanInv
<1>1. Init => RanInv
  BY RanInit
<1>2. /\ OwnInv /\ FailInv /\ ValueInv /\ (OwnInv /\ FailInv)' /\ RanInv /\ [Next]_vars
      => RanInv'
  BY RanStep
<1> QED
  BY <1>1, <1>2, FailInvariant, ValueInvariant, PTL DEF Spec

(* "done" is true: whatever the plan, however many applies there are and   *)
(* whichever go away, an apply that answers done has run each operation of *)
(* the plan once, in the plan's order or rewound, and a dry run none       *)
(* (Apply._run, LifecycleController.execute).                              *)
THEOREM AnswersAreTrue == Spec => []AnswerIsTrue
<1>1. RanInv => AnswerIsTrue
  BY DEF RanInv, AnswerIsTrue, InOrder
<1> QED
  BY <1>1, RanInvariant, PTL
-----------------------------------------------------------------------------
(* What was built *)

NoStray == \A b \in App : action[b] = "delete" => pc[b] # "cancelled"

BuiltInv ==
  NoStray => \A a \in App :
    RealCreate(a) /\ pc[a] = "executing" => Range(ran[a]) \ Captures \subseteq host

(* Nobody comes back. *)
LEMMA StrayStays ==
  ASSUME FailInv, [Next]_vars, NoStray'
  PROVE  NoStray
<1>1. action' = action
  BY DEF Next, Client, Task, Executor, Arrive, Refuse, Resolved, Enter, Begin, BadPlan, DepsReady,
         DepsMissing, Result, Cancel, OpRuns, OpFails, UnitEnds, UnitRaises, AllOver, vars, applyVars
<1>2. ASSUME NEW b \in App, pc[b] = "cancelled" PROVE pc'[b] = "cancelled"
  <2>1. CASE \E a \in App : Client(a) \/ Task(a) \/ Executor(a)
    <3>1. PICK a \in App : Client(a) \/ Task(a) \/ Executor(a)
      BY <2>1
    <3>2. DOMAIN pc = App
      BY DEF FailInv
    <3>3. CASE Arrive(a) \/ Refuse(a) \/ Resolved(a) \/ Enter(a) \/ Cancel(a)
      BY <1>2, <3>2, <3>3 DEF Arrive, Refuse, Resolved, Enter, Cancel
    <3>4. CASE BadPlan(a) \/ DepsMissing(a)
      BY <1>2, <3>2, <3>4 DEF BadPlan, DepsMissing, Answer
    <3>5. CASE Begin(a)
      <4>1. pc[a] = "locked"
        BY <3>5 DEF Begin
      <4>2. CASE action[a] = "create" /\ ~ dry[a]
        BY <1>2, <3>2, <3>5, <4>1, <4>2 DEF Begin
      <4>3. CASE ~ (action[a] = "create" /\ ~ dry[a])
        <5>1. RunFrom(a, 1, res[a], {}, {})
          BY <3>5, <4>3 DEF Begin
        <5> QED
          BY <1>2, <3>2, <4>1, <5>1, RunFromSteps
      <4> QED
        BY <4>2, <4>3
    <3>6. CASE DepsReady(a)
      BY <1>2, <3>2, <3>6, RunFromSteps DEF DepsReady
    <3>7. CASE Result(a)
      <4>1. PICK i, results, values, scopes : RunFrom(a, i, results, values, scopes)
        BY <3>7 DEF Result
      <4>2. pc[a] = "executing"
        BY <3>7 DEF Result
      <4> QED
        BY <1>2, <3>2, <4>1, <4>2, RunFromSteps
    <3>8. CASE Executor(a)
      BY <1>2, <3>8 DEF Executor, OpRuns, OpFails, UnitEnds, UnitRaises, applyVars
    <3> QED
      BY <3>1, <3>3, <3>4, <3>5, <3>6, <3>7, <3>8 DEF Client, Task
  <2>2. CASE AllOver \/ UNCHANGED vars
    BY <1>2, <2>2 DEF AllOver, vars, applyVars
  <2> QED
    BY <2>1, <2>2 DEF Next
<1> QED
  BY <1>1, <1>2 DEF NoStray

LEMMA BuiltStep ==
  OwnInv /\ FailInv /\ RanInv /\ BuiltInv /\ [Next]_vars => BuiltInv'
<1> SUFFICES ASSUME OwnInv, FailInv, RanInv, BuiltInv, [Next]_vars, NoStray'
             PROVE  BuiltInv'
  BY DEF BuiltInv
<1>0. NoStray
  BY StrayStays
<1> SUFFICES ASSUME NEW a \in App, RealCreate(a)', pc'[a] = "executing"
             PROVE  Range(ran'[a]) \ Captures \subseteq host'
  BY DEF BuiltInv
<1>1. DOMAIN pc = App /\ DOMAIN xpc = App
  BY DEF FailInv, OwnInv
<1>2. ASSUME NEW b \in App, OpRuns(b)
      PROVE  Range(ran'[a]) \ Captures \subseteq host'
  <2>1. /\ pc[a] = "executing" /\ RealCreate(a) /\ xpc[b] = "run" /\ ~ dry[b] /\ action' = action
    BY <1>2 DEF OpRuns, applyVars, RealCreate
  <2>2. lock = a /\ (lock = b \/ pc[b] = "cancelled")
    BY <2>1 DEF OwnInv, LockHeldByLiving, Holding
  <2>3. action[b] \in {"create", "delete"}
    BY DEF FailInv
  <2>4. Range(ran[a]) \ Captures \subseteq host
    BY <1>0, <2>1 DEF BuiltInv
  <2>5. action[b] = "create"
    BY <1>0, <2>1, <2>2, <2>3 DEF NoStray, RealCreate
  <2> DEFINE op == Ops(b)[xat[b]]
  <2>6. /\ host' = IF op \in Captures THEN host ELSE host \cup {op}
        /\ ran' = [ran EXCEPT ![b] = Append(ran[b], op)]
    BY <1>2, <2>5 DEF OpRuns
  <2> HIDE DEF op
  <2>7. CASE a = b
    <3>1. Range(Append(ran[a], op)) \subseteq Range(ran[a]) \cup {op}
      <4>1. PICK s : s = ran[a] /\ s \in Seq(Op)
        BY DEF RanInv
      <4>2. Range(Append(s, op)) \subseteq Range(s) \cup {op}
        <5>1. /\ DOMAIN s = 1..Len(s) /\ Len(s) \in Nat
              /\ DOMAIN Append(s, op) = 1..(Len(s) + 1) /\ Append(s, op)[Len(s) + 1] = op
              /\ \A m \in 1..Len(s) : Append(s, op)[m] = s[m]
          BY <4>1
        <5> QED
          BY <5>1 DEF Range
      <4> QED
        BY <4>1, <4>2
    <3>2. ran'[a] = Append(ran[a], op)
      BY <2>6, <2>7 DEF RanInv
    <3> QED
      BY <2>4, <2>6, <3>1, <3>2
  <2>8. CASE a # b
    BY <2>4, <2>6, <2>8 DEF RanInv
  <2> QED
    BY <2>7, <2>8
<1>3. ASSUME ran' = ran, host \subseteq host', RealCreate(a), pc[a] \in {"locked", "deps", "executing"}
      PROVE  Range(ran'[a]) \ Captures \subseteq host'
  <2>1. CASE pc[a] = "executing"
    BY <1>0, <1>3, <2>1 DEF BuiltInv
  <2>2. CASE pc[a] # "executing"
    BY <1>3, <2>2 DEF RanInv, Waiting, Range
  <2> QED
    BY <2>1, <2>2
<1>4. ASSUME NEW b \in App, Client(b) \/ Task(b)
      PROVE  Range(ran'[a]) \ Captures \subseteq host'
  <2>1. UNCHANGED <<ran, host, action, dry>>
    BY <1>4 DEF Client, Task, Arrive, Refuse, Resolved, Enter, Begin, BadPlan, DepsReady,
         DepsMissing, Result, Cancel, execVars
  <2>2. pc[a] \in {"locked", "deps", "executing"}
    <3>1. CASE a = b
      BY <1>1, <1>4, <3>1 DEF Client, Task, Arrive, Refuse, Resolved, Enter, Begin, BadPlan, DepsReady,
         DepsMissing, Result, Cancel, Answer
    <3>2. CASE a # b
      BY <1>1, <1>4, <3>2 DEF Client, Task, Arrive, Refuse, Resolved, Enter, Begin, BadPlan, DepsReady,
         DepsMissing, Result, Cancel, Answer, RunFrom, StartUnit
    <3> QED
      BY <3>1, <3>2
  <2> QED
    BY <1>3, <2>1, <2>2 DEF RealCreate
<1>5. ASSUME NEW b \in App, OpFails(b) \/ UnitEnds(b) \/ UnitRaises(b)
      PROVE  Range(ran'[a]) \ Captures \subseteq host'
  BY <1>3, <1>5 DEF OpFails, UnitEnds, UnitRaises, applyVars, RealCreate
<1>6. CASE AllOver \/ UNCHANGED vars
  BY <1>3, <1>6 DEF AllOver, vars, applyVars, execVars, RealCreate
<1> QED
  BY <1>2, <1>4, <1>5, <1>6 DEF Next, Executor

(* An apply answers done at the end of its loop. *)
LEMMA DoneAtEnd ==
  ASSUME OwnInv, FailInv, [Next]_vars, NEW a \in App, answer[a] = "none", answer'[a] = "done",
         RealCreate(a)
  PROVE  pc[a] \in {"deps", "executing"} /\ UNCHANGED <<ran, host, dry>>
<1>1. DOMAIN answer = App
  BY DEF FailInv
<1>2. answer' # answer
  OBVIOUS
<1>3. PICK b \in App : Refuse(b) \/ Begin(b) \/ BadPlan(b) \/ DepsReady(b) \/ DepsMissing(b) \/ Result(b)
  BY <1>2 DEF Next, Client, Task, Executor, Arrive, Resolved, Enter, Cancel, OpRuns, OpFails,
         UnitEnds, UnitRaises, AllOver, vars, applyVars
<1>4. a = b /\ (DepsReady(b) \/ Result(b))
  BY <1>1, <1>3 DEF Refuse, Begin, BadPlan, DepsReady, DepsMissing, Result, RunFrom, Answer,
         StartUnit, RealCreate
<1> QED
  BY <1>4 DEF DepsReady, Result

(* Between the first operation and the answer the host keeps what a create *)
(* made: a delete at work then could only be one whose client went away.   *)
THEOREM DoneMeansBuilt == Spec => DoneIsBuilt
<1>1. Init => BuiltInv
  BY DEF Init, BuiltInv
<1>2. Spec => []BuiltInv
  BY <1>1, BuiltStep, FailInvariant, RanInvariant, PTL DEF Spec
<1>3. OwnInv /\ FailInv /\ RanInv /\ RanInv' /\ BuiltInv /\ [Next]_vars =>
        [\A a \in App :
           /\ answer[a] = "none" /\ answer'[a] = "done"
           /\ action[a] = "create" /\ ~ dry[a]
           /\ \A b \in App : action[b] = "delete" => pc[b] # "cancelled"
           => host = Op \ Captures]_vars
  <2> SUFFICES ASSUME OwnInv, FailInv, RanInv, RanInv', BuiltInv, [Next]_vars,
                      NEW a \in App, answer[a] = "none", answer'[a] = "done",
                      RealCreate(a), NoStray
               PROVE  host = Op \ Captures
    BY DEF NoStray, RealCreate
  <2>1. pc[a] \in {"deps", "executing"} /\ ran' = ran /\ dry' = dry
    BY DoneAtEnd
  <2>2. Range(ran[a]) = Op
    BY <2>1 DEF RanInv, RealCreate
  <2>3. host \subseteq Op \ Captures
    BY DEF RanInv
  <2>4. Range(ran[a]) \ Captures \subseteq host
    <3>1. CASE pc[a] = "executing"
      BY <3>1 DEF BuiltInv
    <3>2. CASE pc[a] = "deps"
      BY <3>2 DEF RanInv, Waiting, Range
    <3> QED
      BY <2>1, <3>1, <3>2
  <2> QED
    BY <2>2, <2>3, <2>4
<1> QED
  BY <1>2, <1>3, FailInvariant, RanInvariant, PTL DEF Spec, DoneIsBuilt
=============================================================================
