--------------------------- MODULE JobTreeProofs ---------------------------
(***************************************************************************)
(* For any jobs and trees: every waiter hears what it waits for, the flags *)
(* of a job are in order, and a job that has stopped does nothing any more.*)
(*                                                                         *)
(* A job is launched once, by its parent.  Between its stop's cancelling   *)
(* and its end its tasks take no step, between the killing and the end     *)
(* none of their processes is left, and only its stop hooks run one.  All  *)
(* of that is read off the one call of _stop() each job has.               *)
(* Then, of a tree nobody stops, that run() leaves nothing undone, and of  *)
(* a tree whose hooks stop no job, that all of it is taken down.           *)
(***************************************************************************)
EXTENDS JobTree, Integers, TLAPS, NaturalsInduction, WellFoundedInduction,
        FiniteSetTheorems, SequenceTheorems

Stacks == Task \cup {Main, Outer}

Phases == {"stop", "notify", "kill", "hooks", "kids"}

Calls == [job : Job, phase : Phases, rest : Seq(Job)]

Typed ==
  /\ tree \in Trees
  /\ kids \in [Job -> Seq(Job)]
  /\ queue \subseteq Event /\ seen \in [Job -> SUBSET Event]
  /\ pc \in [Task -> Nat]
  /\ stack \in [Stacks -> Seq(Calls)]

(* What each waiter has seen, and who has fired.                           *)
Heard ==
  /\ fired \subseteq tree.waits
  /\ \A j \in fired : tree.deps[j] \subseteq queue /\ seen[j] = tree.deps[j]
  /\ \A j \in (tree.waits \cap Present) \ fired :
        /\ seen[j] = queue \cap tree.deps[j]
        /\ queue # {} => ~(tree.deps[j] \subseteq queue)

(* Every job is launched at most once, after its parent has started. *)
Launched ==
  /\ mpc = "start" =>
        started = {} /\ tasks = {} /\ stopped = {} /\ \A t \in Stacks : stack[t] = <<>>
  /\ \A j \in Job : \A k \in ToSet(kids[j]) : k # Root /\ Parent(k) = j
  /\ \A k \in Job : k \in started \/ <<"launch", k>> \in tasks => k \in Present
  /\ \A k \in Job : <<"launch", k>> \in tasks => k \notin started
  /\ \A k \in Job \ {Root} :
        k \in started \/ <<"launch", k>> \in tasks => Parent(k) \in started
  /\ \A j \in Job : pc[<<"hook", j>>] > 0 => j \in started

Flagged ==
  /\ mpc \in {"start", "scan", "wait", "final", "gather", "cut", "over"}
  /\ wake \in BOOLEAN
  /\ started \subseteq Job /\ ready \subseteq started
  /\ stopped \subseteq Job /\ done \subseteq stopped /\ held \subseteq tree.holds
  /\ \A j \in Job : <<"watch", j>> \in tasks => j \in started \ ready
  /\ \A t \in Task : pc[t] \in 0..(Len(Program(t)) + 1)
  /\ procs \subseteq {"hook", "act", "down"} \X Job

(* Call i of task t is one for job j, in phase p. *)
At(j, p, t, i) ==
  t \in Stacks /\ i \in DOMAIN stack[t] /\ stack[t][i].job = j /\ stack[t][i].phase = p

(* A job has one call of _stop(), from the beginning of its stop to the end *)
(* unless it is cut short; calls of stop() begin a stack.                  *)
Stops ==
  /\ ends # "itself" => stack[Outer] = <<>>
  /\ \A j \in Job : stack[<<"act", j>>] = <<>>
  /\ \A j, t, i : At(j, "stop", t, i) => i = 1
  /\ \A j, p, t, i : At(j, p, t, i) /\ p # "stop" => j \in stopped \ done
  /\ \A j, p, t, i, q, u, n :
        At(j, p, t, i) /\ At(j, q, u, n) /\ p # "stop" /\ q # "stop" => t = u /\ i = n

(* The stop of job j has begun, and is in none of phases P. *)
Past(j, P) == j \in stopped /\ \A p \in P : \A t, i : ~At(j, p, t, i)

Quiet ==
  /\ \A t \in Task : stack[t] # <<>> => pc[t] > 0 /\ ~AtStep(t)
  /\ \A t \in Task : Past(t[2], {"notify"}) /\ t[2] \notin astray => ~AtStep(t)
  /\ \A t \in Task : Past(t[2], {"notify", "kill"}) /\ t[2] \notin astray => t \notin procs
  /\ \A j \in Job \ astray : <<"down", j>> \in procs => \E t, i : At(j, "hooks", t, i)

IInv == Typed /\ Heard /\ Launched /\ Flagged /\ Stops

---------------------------------------------------------------------------
(* Programs.                                                               *)

LEMMA ProgramType ==
  ASSUME tree \in Trees, NEW j \in Job
  PROVE /\ Program(<<"hook", j>>) \in
             Seq(Emits \cup ({"run", "stop", "add", "sleep"} \X Job))
        /\ Program(<<"act", j>>) \in Seq(Emits \cup ({"run"} \X Job))
BY JobTreeAssumption DEF Program, TreeType

LEMMA TreeParts ==
  ASSUME tree \in Trees
  PROVE /\ tree.kids \in [Job -> Seq(Job)] /\ tree.parent \in [Job -> Job]
        /\ tree.waits \subseteq Job /\ tree.deps \in [Job -> SUBSET Event]
        /\ tree.holds \subseteq Job
        /\ \A j \in Job : \A k \in ToSet(tree.kids[j]) : k # Root /\ tree.parent[k] = j
BY JobTreeAssumption DEF TreeType

(* What a task that does a step is, and what the step names. *)
LEMMA DoingStep ==
  ASSUME Typed, NEW t \in Task, NEW op, Doing(t, op)
  PROVE /\ pc[t] \in 1..Len(Program(t)) /\ Len(Program(t)) \in Nat
        /\ AtStep(t) /\ stack[t] = <<>> /\ mpc # "over"
        /\ op = "emit" => Program(t)[pc[t]][2] \in Event
        /\ op \in {"stop", "add"} => t[1] = "hook" /\ Program(t)[pc[t]][2] \in Job
<1> PICK kind \in {"hook", "act"}, j \in Job : t = <<kind, j>>
  BY DEF Task
<1> DEFINE S == Emits \cup ({"run", "stop", "add", "sleep"} \X Job)
           A == Emits \cup ({"run"} \X Job)
<1>1. tree \in Trees /\ AtStep(t) /\ stack[t] = <<>> /\ mpc # "over" /\ Program(t)[pc[t]][1] = op
  BY DEF Typed, Doing
<1>2. pc[t] \in 1..Len(Program(t))
  BY <1>1 DEF AtStep
<1>3. CASE kind = "hook"
  <2>1. Program(t) \in Seq(S)
    BY <1>1, <1>3, ProgramType
  <2>2. Program(t)[pc[t]] \in S /\ Len(Program(t)) \in Nat
    BY <1>2, <2>1
  <2> QED
    BY <1>1, <1>2, <1>3, <2>2 DEF Emits
<1>4. CASE kind = "act"
  <2>1. Program(t) \in Seq(A)
    BY <1>1, <1>4, ProgramType
  <2>2. Program(t)[pc[t]] \in A /\ Len(Program(t)) \in Nat
    BY <1>2, <2>1
  <2> QED
    BY <1>1, <1>2, <1>4, <2>2 DEF Emits
<1> QED
  BY <1>3, <1>4

---------------------------------------------------------------------------
(* What becomes of the calls.                                              *)

LEMMA Names ==
  Main \notin Task /\ Outer \notin Task /\ Main # Outer
BY DEF Main, Outer, Task

LEMMA FrontOf ==
  ASSUME NEW S, NEW s \in Seq(S), s # <<>>
  PROVE /\ Len(s) \in Nat \ {0} /\ DOMAIN s = 1..Len(s)
        /\ Front(s) \in Seq(S) /\ Len(Front(s)) = Len(s) - 1
        /\ \A i \in 1..(Len(s) - 1) : Front(s)[i] = s[i]
<1>1. Len(s) \in Nat \ {0} /\ DOMAIN s = 1..Len(s)
  OBVIOUS
<1> QED
  BY <1>1 DEF Front

Above(t) == Len(stack[t]) + 1

(* The calls of task t, but for what is left to do in each. *)
SameCalls(s, t) ==
  /\ Len(s) = Len(stack[t])
  /\ \A i \in DOMAIN stack[t] : s[i].job = stack[t][i].job /\ s[i].phase = stack[t][i].phase

(* A call of _stop() on top of those of task t, which keep their jobs and  *)
(* phases.                                                                 *)
LEMMA Entered ==
  ASSUME Typed, NEW t \in Stacks, NEW s \in Seq(Calls), NEW j \in Job,
         SameCalls(s, t),
         stack' = [stack EXCEPT ![t] = Append(s, Frame(j, "notify", <<>>))]
  PROVE /\ stack' \in [Stacks -> Seq(Calls)]
        /\ \A k, p, u, i :
              At(k, p, u, i)' <=>
                \/ At(k, p, u, i)
                \/ k = j /\ p = "notify" /\ u = t /\ i = Above(t)
        /\ \A k, p : ~At(k, p, t, Above(t))
        /\ \A u \in Stacks : u # t => stack'[u] = stack[u]
<1> DEFINE f == Frame(j, "notify", <<>>)
<1>1. f \in Calls /\ f.job = j /\ f.phase = "notify"
  BY DEF Frame, Calls, Phases
<1> HIDE DEF f
<1>2. /\ stack \in [Stacks -> Seq(Calls)] /\ stack[t] \in Seq(Calls)
  BY DEF Typed
<1>s. /\ Len(s) = Len(stack[t])
      /\ \A i \in DOMAIN stack[t] : s[i].job = stack[t][i].job /\ s[i].phase = stack[t][i].phase
  BY DEF SameCalls
<1>3. Append(s, f) \in Seq(Calls)
  BY <1>1
<1>4. stack' = [stack EXCEPT ![t] = Append(s, f)]
  BY DEF f
<1>5. /\ stack' \in [Stacks -> Seq(Calls)] /\ stack'[t] = Append(s, f)
      /\ \A u \in Stacks : u # t => stack'[u] = stack[u]
  BY <1>2, <1>3, <1>4
<1>6. /\ DOMAIN stack'[t] = 1..(Len(stack[t]) + 1) /\ DOMAIN stack[t] = 1..Len(stack[t])
      /\ Len(stack[t]) \in Nat
      /\ stack'[t][Len(stack[t]) + 1] = f
      /\ \A i \in 1..Len(stack[t]) : stack'[t][i] = s[i]
  BY <1>1, <1>2, <1>5, <1>s
<1>7. ASSUME NEW k, NEW p, NEW i
      PROVE At(k, p, t, i)' <=>
                \/ At(k, p, t, i)
                \/ k = j /\ p = "notify" /\ i = Above(t)
  BY <1>1, <1>6, <1>s DEF At, Above
<1>8. ASSUME NEW k, NEW p, NEW u, u # t, NEW i
      PROVE At(k, p, u, i)' <=> At(k, p, u, i)
  BY <1>5, <1>8 DEF At, Above
<1>9. \A k, p : ~At(k, p, t, Above(t))
  BY <1>6 DEF At, Above
<1> QED
  BY <1>5, <1>7, <1>8, <1>9

(* The call on top of task t goes on. *)
LEMMA Turned ==
  ASSUME Typed, NEW t \in Stacks, stack[t] # <<>>, NEW f \in Calls, stack' = Turn(t, f)
  PROVE /\ stack' \in [Stacks -> Seq(Calls)]
        /\ \A k, p, u, i :
              At(k, p, u, i)' <=>
                IF u = t /\ i = Len(stack[t]) THEN k = f.job /\ p = f.phase
                                              ELSE At(k, p, u, i)
        /\ \A u \in Stacks : (stack'[u] = <<>>) <=> (stack[u] = <<>>)
        /\ Last(stack[t]) \in Calls
        /\ At(Last(stack[t]).job, Last(stack[t]).phase, t, Len(stack[t]))
<1>1. stack \in [Stacks -> Seq(Calls)] /\ stack[t] \in Seq(Calls)
  BY DEF Typed
<1>2. /\ Len(stack[t]) \in Nat \ {0} /\ DOMAIN stack[t] = 1..Len(stack[t])
      /\ Last(stack[t]) = stack[t][Len(stack[t])] /\ Last(stack[t]) \in Calls
  BY <1>1 DEF Last
<1>3. /\ Front(stack[t]) \in Seq(Calls) /\ Len(Front(stack[t])) = Len(stack[t]) - 1
      /\ \A i \in 1..(Len(stack[t]) - 1) : Front(stack[t])[i] = stack[t][i]
  BY <1>1, <1>2 DEF Front
<1>4. /\ stack' \in [Stacks -> Seq(Calls)] /\ stack'[t] = Append(Front(stack[t]), f)
      /\ \A u \in Stacks : u # t => stack'[u] = stack[u]
  BY <1>1, <1>3 DEF Turn
<1>5. /\ DOMAIN stack'[t] = DOMAIN stack[t] /\ stack'[t] # <<>>
      /\ stack'[t][Len(stack[t])] = f
      /\ \A i \in 1..(Len(stack[t]) - 1) : stack'[t][i] = stack[t][i]
  BY <1>2, <1>3, <1>4
<1>6. ASSUME NEW k, NEW p, NEW i
      PROVE At(k, p, t, i)' <=> IF i = Len(stack[t]) THEN k = f.job /\ p = f.phase
                                                     ELSE At(k, p, t, i)
  <2>1. CASE i = Len(stack[t])
    BY <1>2, <1>5, <2>1 DEF At
  <2>2. CASE i # Len(stack[t])
    BY <1>2, <1>5, <2>2 DEF At
  <2> QED
    BY <2>1, <2>2
<1>7. ASSUME NEW k, NEW p, NEW u, u # t, NEW i
      PROVE At(k, p, u, i)' <=> At(k, p, u, i)
  BY <1>4, <1>7 DEF At
<1>8. At(Last(stack[t]).job, Last(stack[t]).phase, t, Len(stack[t]))
  BY <1>2 DEF At
<1>9. \A u \in Stacks : (stack'[u] = <<>>) <=> (stack[u] = <<>>)
  BY <1>4, <1>5
<1> QED
  BY <1>2, <1>4, <1>6, <1>7, <1>8, <1>9

(* The call on top of task t is over. *)
LEMMA Popped ==
  ASSUME Typed, NEW t \in Stacks, stack[t] # <<>>, stack' = [stack EXCEPT ![t] = Front(@)]
  PROVE /\ stack' \in [Stacks -> Seq(Calls)]
        /\ \A k, p, u, i : At(k, p, u, i)' <=> At(k, p, u, i) /\ ~(u = t /\ i = Len(stack[t]))
        /\ \A u \in Stacks : stack[u] = <<>> => stack'[u] = <<>>
        /\ Last(stack[t]) \in Calls
        /\ At(Last(stack[t]).job, Last(stack[t]).phase, t, Len(stack[t]))
<1>1. stack \in [Stacks -> Seq(Calls)] /\ stack[t] \in Seq(Calls)
  BY DEF Typed
<1>2. /\ Len(stack[t]) \in Nat \ {0} /\ DOMAIN stack[t] = 1..Len(stack[t])
      /\ Last(stack[t]) = stack[t][Len(stack[t])] /\ Last(stack[t]) \in Calls
  BY <1>1 DEF Last
<1>3. /\ Front(stack[t]) \in Seq(Calls) /\ DOMAIN Front(stack[t]) = 1..(Len(stack[t]) - 1)
      /\ \A i \in 1..(Len(stack[t]) - 1) : Front(stack[t])[i] = stack[t][i]
  BY <1>1, <1>2 DEF Front
<1>4. /\ stack' \in [Stacks -> Seq(Calls)] /\ stack'[t] = Front(stack[t])
      /\ \A u \in Stacks : u # t => stack'[u] = stack[u]
  BY <1>1, <1>3
<1>5. ASSUME NEW k, NEW p, NEW i
      PROVE At(k, p, t, i)' <=> At(k, p, t, i) /\ i # Len(stack[t])
  BY <1>2, <1>3, <1>4 DEF At
<1>6. ASSUME NEW k, NEW p, NEW u, u # t, NEW i
      PROVE At(k, p, u, i)' <=> At(k, p, u, i)
  BY <1>4, <1>6 DEF At
<1>7. At(Last(stack[t]).job, Last(stack[t]).phase, t, Len(stack[t]))
  BY <1>2 DEF At
<1>8. \A u \in Stacks : stack[u] = <<>> => stack'[u] = <<>>
  BY <1>4
<1> QED
  BY <1>2, <1>4, <1>5, <1>6, <1>7, <1>8

(* A task calls stop() of job j. *)
LEMMA Called ==
  ASSUME Typed, NEW t \in Stacks, stack[t] = <<>>, NEW j \in Job,
         stack' = [stack EXCEPT ![t] = <<Frame(j, "stop", <<>>)>>]
  PROVE /\ stack' \in [Stacks -> Seq(Calls)]
        /\ \A k, p, u, i :
              At(k, p, u, i)' <=>
                At(k, p, u, i) \/ (k = j /\ p = "stop" /\ u = t /\ i = 1)
        /\ \A u \in Stacks : u # t => stack'[u] = stack[u]
<1> DEFINE f == Frame(j, "stop", <<>>)
<1>1. f \in Calls /\ f.job = j /\ f.phase = "stop"
  BY DEF Frame, Calls, Phases
<1>2. stack' = [stack EXCEPT ![t] = <<f>>]
  OBVIOUS
<1> HIDE DEF f
<1>3. stack \in [Stacks -> Seq(Calls)]
  BY DEF Typed
<1>4. <<f>> \in Seq(Calls) /\ DOMAIN <<f>> = {1} /\ <<f>>[1] = f
  BY <1>1
<1>5. /\ stack' \in [Stacks -> Seq(Calls)] /\ stack'[t] = <<f>>
      /\ \A u \in Stacks : u # t => stack'[u] = stack[u]
  BY <1>2, <1>3, <1>4
<1>6. ASSUME NEW k, NEW p, NEW i
      PROVE At(k, p, t, i)' <=> k = j /\ p = "stop" /\ i = 1
  BY <1>1, <1>4, <1>5 DEF At
<1>7. ASSUME NEW k, NEW p, NEW i PROVE ~At(k, p, t, i)
  BY DEF At
<1>8. ASSUME NEW k, NEW p, NEW u, u # t, NEW i
      PROVE At(k, p, u, i)' <=> At(k, p, u, i)
  BY <1>5, <1>8 DEF At
<1> QED
  BY <1>5, <1>6, <1>7, <1>8

(* All calls of the tasks in T are cut short. *)
LEMMA Cut ==
  ASSUME Typed, NEW T \in SUBSET Stacks,
         stack' = [u \in Stacks |-> IF u \in T THEN <<>> ELSE stack[u]]
  PROVE /\ stack' \in [Stacks -> Seq(Calls)]
        /\ \A k, p, u, i : At(k, p, u, i)' <=> At(k, p, u, i) /\ u \notin T
        /\ \A u \in Stacks : stack[u] = <<>> => stack'[u] = <<>>
<1>1. stack \in [Stacks -> Seq(Calls)]
  BY DEF Typed
<1>2. /\ stack' \in [Stacks -> Seq(Calls)]
      /\ \A u \in Stacks : stack'[u] = IF u \in T THEN <<>> ELSE stack[u]
  BY <1>1
<1>3. ASSUME NEW k, NEW p, NEW u, NEW i
      PROVE At(k, p, u, i)' <=> At(k, p, u, i) /\ u \notin T
  <2>1. CASE u \in T
    BY <1>2, <2>1 DEF At
  <2>2. CASE u \notin T
    BY <1>2, <2>2 DEF At
  <2> QED
    BY <2>1, <2>2
<1> QED
  BY <1>2, <1>3

(* The jobs whose stop is cut short then. *)
LEMMA CutStops ==
  ASSUME Typed, NEW T \in SUBSET Stacks
  PROVE \A j : j \in StopsOf(T) <=> \E p, i, t : t \in T /\ p # "stop" /\ At(j, p, t, i)
<1> TAKE j
<1>1. ASSUME j \in StopsOf(T)
      PROVE \E p, i, t : t \in T /\ p # "stop" /\ At(j, p, t, i)
  <2>1. PICK t \in T : \E n \in DOMAIN stack[t] : stack[t][n].phase # "stop" /\ j = stack[t][n].job
    BY <1>1 DEF StopsOf
  <2>2. PICK n \in DOMAIN stack[t] : stack[t][n].phase # "stop" /\ j = stack[t][n].job
    BY <2>1
  <2>3. At(j, stack[t][n].phase, t, n)
    BY <2>2 DEF At
  <2> QED
    BY <2>2, <2>3
<1>2. ASSUME NEW p, NEW i, NEW t, t \in T, p # "stop", At(j, p, t, i)
      PROVE j \in StopsOf(T)
  <2>1. i \in {n \in DOMAIN stack[t] : stack[t][n].phase # "stop"} /\ j = stack[t][i].job
    BY <1>2 DEF At
  <2>2. j \in {stack[t][n].job : n \in {m \in DOMAIN stack[t] : stack[t][m].phase # "stop"}}
    BY <2>1
  <2> QED
    BY <1>2, <2>2 DEF StopsOf
<1> QED
  BY <1>1, <1>2

(* A job's tasks are cancelled by the one that stops it, which goes on. *)
LEMMA Cancelled ==
  ASSUME Typed, NEW t \in Stacks, stack[t] # <<>>, NEW T \in SUBSET Stacks, t \notin T,
         NEW f \in Calls,
         stack' = [u \in DOMAIN stack |->
                     IF u \in T THEN <<>>
                     ELSE IF u = t THEN Append(Front(stack[t]), f) ELSE stack[u]]
  PROVE /\ stack' \in [Stacks -> Seq(Calls)]
        /\ \A k, p, u, i :
              At(k, p, u, i)' <=>
                IF u = t /\ i = Len(stack[t]) THEN k = f.job /\ p = f.phase
                                              ELSE At(k, p, u, i) /\ u \notin T
        /\ \A u \in Stacks : stack[u] = <<>> => stack'[u] = <<>>
        /\ \A u \in T : stack'[u] = <<>>
        /\ Last(stack[t]) \in Calls
        /\ At(Last(stack[t]).job, Last(stack[t]).phase, t, Len(stack[t]))
<1>1. stack \in [Stacks -> Seq(Calls)] /\ stack[t] \in Seq(Calls)
  BY DEF Typed
<1>2. /\ Len(stack[t]) \in Nat \ {0} /\ DOMAIN stack[t] = 1..Len(stack[t])
      /\ Last(stack[t]) = stack[t][Len(stack[t])] /\ Last(stack[t]) \in Calls
  BY <1>1 DEF Last
<1>3. /\ Front(stack[t]) \in Seq(Calls) /\ Len(Front(stack[t])) = Len(stack[t]) - 1
      /\ \A i \in 1..(Len(stack[t]) - 1) : Front(stack[t])[i] = stack[t][i]
  BY <1>1, <1>2 DEF Front
<1>4. /\ stack' \in [Stacks -> Seq(Calls)] /\ stack'[t] = Append(Front(stack[t]), f)
      /\ \A u \in Stacks : u # t => stack'[u] = IF u \in T THEN <<>> ELSE stack[u]
  BY <1>1, <1>3
<1>a. stack'[t] = Append(Front(stack[t]), f)
  BY <1>4
<1>b. DOMAIN stack'[t] = DOMAIN stack[t] /\ stack'[t][Len(stack[t])] = f
  BY <1>2, <1>3, <1>a
<1>c. \A i \in 1..(Len(stack[t]) - 1) : stack'[t][i] = stack[t][i]
  BY <1>2, <1>3, <1>a
<1>d. \A i \in DOMAIN stack[t] : i # Len(stack[t]) => i \in 1..(Len(stack[t]) - 1)
  BY <1>2
<1>5. /\ DOMAIN stack'[t] = DOMAIN stack[t]
      /\ stack'[t][Len(stack[t])] = f
      /\ \A i \in DOMAIN stack[t] : i # Len(stack[t]) => stack'[t][i] = stack[t][i]
  BY <1>b, <1>c, <1>d
<1>6. ASSUME NEW k, NEW p, NEW i
      PROVE At(k, p, t, i)' <=> IF i = Len(stack[t]) THEN k = f.job /\ p = f.phase
                                                     ELSE At(k, p, t, i)
  <2>1. CASE i = Len(stack[t])
    BY <1>2, <1>5, <2>1 DEF At
  <2>2. CASE i # Len(stack[t])
    BY <1>5, <2>2 DEF At
  <2> QED
    BY <2>1, <2>2
<1>7. ASSUME NEW k, NEW p, NEW u, u # t, NEW i
      PROVE At(k, p, u, i)' <=> At(k, p, u, i) /\ u \notin T
  <2>1. CASE u \in T
    BY <1>4, <1>7, <2>1 DEF At
  <2>2. CASE u \notin T
    BY <1>4, <1>7, <2>2 DEF At
  <2> QED
    BY <2>1, <2>2
<1>8. At(Last(stack[t]).job, Last(stack[t]).phase, t, Len(stack[t]))
  BY <1>2 DEF At
<1>9. /\ \A u \in Stacks : stack[u] = <<>> => stack'[u] = <<>>
      /\ \A u \in T : stack'[u] = <<>>
  BY <1>4
<1> QED
  BY <1>2, <1>4, <1>6, <1>7, <1>8, <1>9

(* Somebody outside stops the tree, and run() is cut short or goes on. *)
LEMMA Interrupted ==
  ASSUME Typed, Root \in Job, stack[Outer] = <<>>, NEW T \in SUBSET {Main},
         stack' = [stack EXCEPT ![Outer] = <<Frame(Root, "stop", <<>>)>>,
                                ![Main] = IF T = {Main} THEN <<>> ELSE @]
  PROVE /\ stack' \in [Stacks -> Seq(Calls)]
        /\ \A k, p, u, i :
              At(k, p, u, i)' <=>
                \/ At(k, p, u, i) /\ u \notin T
                \/ k = Root /\ p = "stop" /\ u = Outer /\ i = 1
        /\ \A u \in Task : stack'[u] = stack[u]
<1> DEFINE f == Frame(Root, "stop", <<>>)
<1>1. f \in Calls /\ f.job = Root /\ f.phase = "stop"
  BY DEF Frame, Calls, Phases
<1>2. stack' = [stack EXCEPT ![Outer] = <<f>>, ![Main] = IF T = {Main} THEN <<>> ELSE @]
  OBVIOUS
<1> HIDE DEF f
<1>3. /\ stack \in [Stacks -> Seq(Calls)] /\ Main \in Stacks /\ Outer \in Stacks /\ Main # Outer
      /\ Task \subseteq Stacks
  BY Names DEF Typed, Stacks
<1>4. <<f>> \in Seq(Calls) /\ DOMAIN <<f>> = {1} /\ <<f>>[1] = f
  BY <1>1
<1>m. (IF T = {Main} THEN <<>> ELSE stack[Main]) \in Seq(Calls)
  BY <1>3
<1>5. /\ stack' \in [Stacks -> Seq(Calls)] /\ stack'[Outer] = <<f>>
      /\ stack'[Main] = IF T = {Main} THEN <<>> ELSE stack[Main]
      /\ \A u \in Stacks : u # Outer /\ u # Main => stack'[u] = stack[u]
  <2> DEFINE m == IF T = {Main} THEN <<>> ELSE stack[Main]
             g == <<f>>
  <2>1. stack' = [stack EXCEPT ![Outer] = g, ![Main] = m]
    BY <1>2, <1>3
  <2>2. m \in Seq(Calls) /\ g \in Seq(Calls)
    BY <1>4, <1>m
  <2> HIDE DEF m, g
  <2>3. /\ stack' \in [Stacks -> Seq(Calls)] /\ stack'[Outer] = g /\ stack'[Main] = m
        /\ \A u \in Stacks : u # Outer /\ u # Main => stack'[u] = stack[u]
    BY <1>3, <2>1, <2>2
  <2> QED
    BY <2>3 DEF m, g
<1>6. ASSUME NEW k, NEW p, NEW i
      PROVE At(k, p, Outer, i)' <=> k = Root /\ p = "stop" /\ i = 1
  BY <1>1, <1>3, <1>4, <1>5 DEF At
<1>7. ASSUME NEW k, NEW p, NEW i PROVE ~At(k, p, Outer, i)
  BY DEF At
<1>8. ASSUME NEW k, NEW p, NEW i
      PROVE At(k, p, Main, i)' <=> At(k, p, Main, i) /\ Main \notin T
  <2>1. CASE T = {Main}
    BY <1>3, <1>5, <2>1 DEF At
  <2>2. CASE T = {}
    BY <1>3, <1>5, <2>2 DEF At
  <2> QED
    BY <2>1, <2>2
<1>9. ASSUME NEW k, NEW p, NEW u, u # Outer, u # Main, NEW i
      PROVE At(k, p, u, i)' <=> At(k, p, u, i)
  BY <1>5, <1>9 DEF At
<1>10. \A u \in Task : stack'[u] = stack[u]
  BY <1>3, <1>5, Names
<1>11. ASSUME NEW k, NEW p, NEW u, NEW i
       PROVE At(k, p, u, i)' <=>
               \/ At(k, p, u, i) /\ u \notin T
               \/ k = Root /\ p = "stop" /\ u = Outer /\ i = 1
  <2>1. CASE u = Outer
    BY <1>6, <1>7, <2>1
  <2>2. CASE u = Main
    BY <1>3, <1>8, <2>2
  <2>3. CASE u # Outer /\ u # Main
    BY <1>9, <2>3
  <2> QED
    BY <2>1, <2>2, <2>3
<1> QED
  BY <1>5, <1>10, <1>11

---------------------------------------------------------------------------
(* What a step has to keep to.                                             *)

(* Only a job that has not been stopped begins a _stop(), by one call. *)
LEMMA StopsKept ==
  ASSUME Stops, done \subseteq stopped, stopped \subseteq stopped',
         \A k, p, t, i : At(k, p, t, i)' /\ p # "stop" =>
            k \in stopped' \ stopped \/ \E q : q # "stop" /\ At(k, q, t, i),
         \A k, p, t, i, q, u, n :
            At(k, p, t, i)' /\ At(k, q, u, n)' /\ p # "stop" /\ q # "stop" /\ k \notin stopped
               => t = u /\ i = n,
         \A k, p, t, i : At(k, p, t, i)' /\ p # "stop" => k \notin done' \ done,
         \A k, t, i : At(k, "stop", t, i)' => i = 1,
         ends' # "itself" => stack'[Outer] = <<>>,
         \A j \in Job : stack'[<<"act", j>>] = <<>>
  PROVE Stops'
<1>1. ASSUME NEW j, NEW p, NEW t, NEW i, At(j, p, t, i)', p # "stop"
      PROVE j \in stopped' /\ j \notin done'
  BY <1>1 DEF Stops
<1>2. ASSUME NEW j, NEW p, NEW t, NEW i, NEW q, NEW u, NEW n,
             At(j, p, t, i)', At(j, q, u, n)', p # "stop", q # "stop"
      PROVE t = u /\ i = n
  <2>1. CASE j \notin stopped
    BY <1>2, <2>1
  <2>2. CASE j \in stopped
    <3>1. PICK r : r # "stop" /\ At(j, r, t, i)
      BY <1>2, <2>2
    <3>2. PICK v : v # "stop" /\ At(j, v, u, n)
      BY <1>2, <2>2
    <3> QED
      BY <3>1, <3>2 DEF Stops
  <2> QED
    BY <2>1, <2>2
<1>3. \A j, p, t, i : At(j, p, t, i)' /\ p # "stop" => j \in (stopped \ done)'
  BY <1>1
<1>4. \A j, p, t, i, q, u, n :
         At(j, p, t, i)' /\ At(j, q, u, n)' /\ p # "stop" /\ q # "stop" => t = u /\ i = n
  BY <1>2
<1> QED
  BY <1>3, <1>4 DEF Stops

(* Only tasks of jobs that are not past the cancelling are at a step, only *)
(* jobs that are not past the killing get processes, stop hooks excepted.  *)
LEMMA QuietKept ==
  ASSUME Quiet, astray \subseteq astray',
         \A t \in Task : stack'[t] # <<>> => pc'[t] > 0 /\ ~AtStep(t)',
         \A t \in Task : AtStep(t)' =>
            \/ ~Past(t[2], {"notify"})' \/ t[2] \in astray'
            \/ AtStep(t) /\ Past(t[2], {"notify"}),
         \A t \in Task : t \in procs' =>
            \/ ~Past(t[2], {"notify", "kill"})' \/ t[2] \in astray'
            \/ (t \in procs \/ AtStep(t)) /\ Past(t[2], {"notify", "kill"}),
         \A j \in Job : <<"down", j>> \in procs' =>
            j \in astray' \/ \E t, i : At(j, "hooks", t, i)'
  PROVE Quiet'
<1>1. \A t \in Task : Past(t[2], {"notify"})' /\ t[2] \notin astray' => ~AtStep(t)'
  BY DEF Quiet
<1>2. \A t \in Task : Past(t[2], {"notify", "kill"}) => Past(t[2], {"notify"})
  BY DEF Past
<1>3. \A t \in Task : Past(t[2], {"notify", "kill"})' /\ t[2] \notin astray' => t \notin procs'
  BY <1>2 DEF Quiet
<1> QED
  BY <1>1, <1>3 DEF Quiet

(* A job's stop begins in task t, below or on top of the calls s.          *)
LEMMA Entering ==
  ASSUME IInv, NEW t \in Stacks, NEW s \in Seq(Calls), NEW j \in Job, j \notin stopped,
         SameCalls(s, t),
         stack[t] # <<>> \/ t = Main,
         Enter(t, s, j),
         UNCHANGED <<tree, ends, kids, queue, seen, pc, procs, started, done, astray>>
  PROVE Typed' /\ Stops' /\ (Quiet => Quiet')
<1>0. Typed /\ Stops /\ done \subseteq stopped
  BY DEF IInv, Flagged
<1>1. /\ stack' = [stack EXCEPT ![t] = Append(s, Frame(j, "notify", <<>>))]
      /\ stopped' = stopped \cup {j}
  BY DEF Enter
<1>2. /\ stack' \in [Stacks -> Seq(Calls)]
      /\ \A k, p, u, i :
            At(k, p, u, i)' <=>
              \/ At(k, p, u, i)
              \/ k = j /\ p = "notify" /\ u = t /\ i = Above(t)
      /\ \A u \in Stacks : u # t => stack'[u] = stack[u]
  <2>1. Typed /\ stack' = [stack EXCEPT ![t] = Append(s, Frame(j, "notify", <<>>))]
    BY <1>0, <1>1
  <2> QED
    BY <2>1, Entered
<1>3. Typed'
  BY <1>0, <1>2 DEF Typed
<1>4. /\ \A k \in Job : <<"act", k>> \in Stacks /\ <<"act", k>> # t /\ <<"act", k>> \in Task
      /\ Outer \in Stacks /\ (t = Outer => ends = "itself")
      /\ Task \subseteq Stacks
  BY <1>0, Names DEF Stops, Stacks, Task
<1>5. Stops'
  <2>1. /\ ends' # "itself" => stack'[Outer] = <<>>
        /\ \A k \in Job : stack'[<<"act", k>>] = <<>>
    BY <1>0, <1>2, <1>4 DEF Stops
  <2>2. \A k, p, u, i : At(k, p, u, i)' /\ p # "stop" =>
            k \in stopped' \ stopped \/ \E q : q # "stop" /\ At(k, q, u, i)
    BY <1>1, <1>2
  <2>3. \A k, u, i : At(k, "stop", u, i)' => i = 1
    BY <1>0, <1>2 DEF Stops
  <2>4. stopped \subseteq stopped' /\ done' = done
    BY <1>1
  <2>5. \A k, p, u, i, q, v, n :
           At(k, p, u, i)' /\ At(k, q, v, n)' /\ p # "stop" /\ q # "stop" /\ k \notin stopped
              => u = v /\ i = n
    BY <1>0, <1>2 DEF Stops
  <2>6. \A k, p, u, i : At(k, p, u, i)' /\ p # "stop" => k \notin done' \ done
    BY <2>4
  <2> QED
    BY <1>0, <2>1, <2>2, <2>3, <2>4, <2>5, <2>6, StopsKept
<1>6. ASSUME Quiet PROVE Quiet'
  <2>1. \A k, p, u, i : At(k, p, u, i) => At(k, p, u, i)'
    BY <1>2
  <2>2. \E u, i : At(j, "notify", u, i)'
    BY <1>2
  <2>3. \A k : Past(k, {"notify"})' => Past(k, {"notify"})
    BY <1>1, <2>1, <2>2 DEF Past
  <2>4. \A k : Past(k, {"notify", "kill"})' => Past(k, {"notify", "kill"})
    BY <1>1, <2>1, <2>2 DEF Past
  <2>5. \A u \in Task : AtStep(u)' <=> AtStep(u)
    BY DEF AtStep, Program
  <2>6. \A u \in Task : stack'[u] # <<>> => stack[u] # <<>>
    BY <1>2, <1>4, Names
  <2>7. \A k \in Job : <<"down", k>> \in procs' => k \in astray' \/ \E u, i : At(k, "hooks", u, i)'
    BY <1>0, <1>6, <2>1 DEF Quiet
  <2>8. \A u \in Task : stack'[u] # <<>> => pc'[u] > 0 /\ ~AtStep(u)'
    BY <1>0, <1>6, <2>5, <2>6 DEF Quiet
  <2> QED
    BY <1>0, <1>6, <2>3, <2>4, <2>5, <2>7, <2>8, QuietKept
<1> QED
  BY <1>3, <1>5, <1>6

(* The call on top goes on, in its phase. *)
LEMMA Turning ==
  ASSUME IInv, NEW t \in Stacks, stack[t] # <<>>, NEW f \in Calls, stack' = Turn(t, f),
         f.phase = Last(stack[t]).phase, f.phase = "stop" \/ f.job = Last(stack[t]).job,
         UNCHANGED <<tree, ends, kids, queue, seen, pc, procs, started, stopped, done, astray>>
  PROVE Typed' /\ Stops' /\ (Quiet => Quiet')
<1>0. Typed /\ Stops /\ done \subseteq stopped
  BY DEF IInv, Flagged
<1> PICK n : n = Len(stack[t])
  OBVIOUS
<1> PICK j, q : j = Last(stack[t]).job /\ q = Last(stack[t]).phase
  OBVIOUS
<1>2. /\ stack' \in [Stacks -> Seq(Calls)]
      /\ \A k, p, u, i :
            At(k, p, u, i)' <=> IF u = t /\ i = n THEN k = f.job /\ p = q ELSE At(k, p, u, i)
      /\ \A u \in Stacks : (stack'[u] = <<>>) <=> (stack[u] = <<>>)
      /\ At(j, q, t, n)
  <2>1. Typed
    BY <1>0
  <2> QED
    BY <2>1, Turned
<1>3. Typed'
  BY <1>0, <1>2 DEF Typed
<1>4. \A k, p, u, i : p # "stop" => (At(k, p, u, i)' <=> At(k, p, u, i))
  <2> SUFFICES ASSUME NEW k, NEW p, NEW u, NEW i, p # "stop"
               PROVE At(k, p, u, i)' <=> At(k, p, u, i)
    OBVIOUS
  <2>1. CASE u = t /\ i = n
    <3>1. At(k, p, u, i) <=> k = j /\ p = q
      BY <1>2, <2>1 DEF At
    <3> QED
      BY <1>2, <2>1, <3>1
  <2>2. CASE ~(u = t /\ i = n)
    BY <1>2, <2>2
  <2> QED
    BY <2>1, <2>2
<1>5. Stops'
  <2>1. /\ ends' # "itself" => stack'[Outer] = <<>>
        /\ \A k \in Job : stack'[<<"act", k>>] = <<>>
    BY <1>0, <1>2 DEF Stops, Stacks, Task
  <2>2. \A k, p, u, i : At(k, p, u, i)' /\ p # "stop" =>
            k \in stopped' \ stopped \/ \E r : r # "stop" /\ At(k, r, u, i)
    BY <1>4
  <2>3. \A k, u, i : At(k, "stop", u, i)' => i = 1
    BY <1>0, <1>2 DEF Stops
  <2>4. stopped \subseteq stopped' /\ done' = done
    OBVIOUS
  <2>5. \A k, p, u, i, r, v, m :
           At(k, p, u, i)' /\ At(k, r, v, m)' /\ p # "stop" /\ r # "stop" /\ k \notin stopped
              => u = v /\ i = m
    BY <1>0, <1>4 DEF Stops
  <2>6. \A k, p, u, i : At(k, p, u, i)' /\ p # "stop" => k \notin done' \ done
    BY <2>4
  <2> QED
    BY <1>0, <2>1, <2>2, <2>3, <2>4, <2>5, <2>6, StopsKept
<1>6. ASSUME Quiet PROVE Quiet'
  <2>1. \A k : Past(k, {"notify"})' => Past(k, {"notify"})
    BY <1>4 DEF Past
  <2>2. \A k : Past(k, {"notify", "kill"})' => Past(k, {"notify", "kill"})
    BY <1>4 DEF Past
  <2>3. \A u \in Task : AtStep(u)' <=> AtStep(u)
    BY DEF AtStep, Program
  <2>4. \A k \in Job : <<"down", k>> \in procs' => k \in astray' \/ \E u, i : At(k, "hooks", u, i)'
    BY <1>0, <1>6, <1>4 DEF Quiet
  <2>5. \A u \in Task : stack'[u] # <<>> => pc'[u] > 0 /\ ~AtStep(u)'
    BY <1>0, <1>6, <1>2, <2>3 DEF Quiet, Stacks
  <2> QED
    BY <1>0, <1>6, <2>1, <2>2, <2>3, <2>4, <2>5, QuietKept
<1> QED
  BY <1>3, <1>5, <1>6

(* Calls end, their jobs have stopped or are cut short. *)
LEMMA Ending ==
  ASSUME IInv, stack' \in [Stacks -> Seq(Calls)],
         \A k, p, u, i : At(k, p, u, i)' => At(k, p, u, i),
         \A k, p, u, i : At(k, p, u, i) /\ p \notin {"stop", "kids"} =>
            At(k, p, u, i)' \/ k \in astray',
         \A u \in Stacks : stack[u] = <<>> => stack'[u] = <<>>,
         \A k, p, u, i : At(k, p, u, i)' /\ p # "stop" => k \notin done' \ done,
         astray \subseteq astray',
         UNCHANGED <<tree, ends, kids, queue, seen, pc, procs, started, stopped>>
  PROVE Typed' /\ Stops' /\ (Quiet => Quiet')
<1>0. Typed /\ Stops /\ done \subseteq stopped
  BY DEF IInv, Flagged
<1>1. Typed'
  BY <1>0 DEF Typed
<1>2. Stops'
  <2>1. /\ ends' # "itself" => stack'[Outer] = <<>>
        /\ \A k \in Job : stack'[<<"act", k>>] = <<>>
    BY <1>0 DEF Stops, Stacks, Task
  <2>2. \A k, p, u, i : At(k, p, u, i)' /\ p # "stop" =>
            k \in stopped' \ stopped \/ \E r : r # "stop" /\ At(k, r, u, i)
    OBVIOUS
  <2>3. \A k, u, i : At(k, "stop", u, i)' => i = 1
    BY <1>0 DEF Stops
  <2>5. \A k, p, u, i, r, v, m :
           At(k, p, u, i)' /\ At(k, r, v, m)' /\ p # "stop" /\ r # "stop" /\ k \notin stopped
              => u = v /\ i = m
    BY <1>0 DEF Stops
  <2>6. stopped \subseteq stopped'
    OBVIOUS
  <2> QED
    BY <1>0, <2>1, <2>2, <2>3, <2>5, <2>6, StopsKept
<1>3. ASSUME Quiet PROVE Quiet'
  <2>1. \A k : Past(k, {"notify"})' => k \in astray' \/ Past(k, {"notify"})
    BY DEF Past
  <2>2. \A k : Past(k, {"notify", "kill"})' => k \in astray' \/ Past(k, {"notify", "kill"})
    BY DEF Past
  <2>3. \A u \in Task : AtStep(u)' <=> AtStep(u)
    BY DEF AtStep, Program
  <2>4. \A k \in Job : <<"down", k>> \in procs' => k \in astray' \/ \E u, i : At(k, "hooks", u, i)'
    BY <1>0, <1>3 DEF Quiet
  <2>5. \A u \in Task : stack'[u] # <<>> => pc'[u] > 0 /\ ~AtStep(u)'
    BY <1>0, <1>3, <2>3 DEF Quiet, Stacks
  <2>6. \A u \in Task : AtStep(u)' =>
            \/ ~Past(u[2], {"notify"})' \/ u[2] \in astray'
            \/ AtStep(u) /\ Past(u[2], {"notify"})
    BY <2>1, <2>3
  <2>7. \A u \in Task : u \in procs' =>
            \/ ~Past(u[2], {"notify", "kill"})' \/ u[2] \in astray'
            \/ (u \in procs \/ AtStep(u)) /\ Past(u[2], {"notify", "kill"})
    BY <2>2
  <2> QED
    BY <1>0, <1>3, <2>4, <2>5, <2>6, <2>7, QuietKept
<1> QED
  BY <1>1, <1>2, <1>3

---------------------------------------------------------------------------
(* The steps of a stop.                                                    *)

LEMMA InCall ==
  ASSUME Typed, NEW t \in DOMAIN stack, NEW phase, InPhase(t, phase)
  PROVE /\ t \in Stacks /\ stack[t] # <<>> /\ stack[t] \in Seq(Calls)
        /\ Last(stack[t]) \in Calls /\ Stopping(t) \in Job /\ Last(stack[t]).phase = phase
        /\ Len(stack[t]) \in Nat \ {0}
        /\ At(Stopping(t), phase, t, Len(stack[t]))
<1>1. t \in Stacks /\ stack[t] \in Seq(Calls) /\ stack[t] # <<>> /\ Last(stack[t]).phase = phase
  BY DEF Typed, InPhase
<1>2. /\ Len(stack[t]) \in Nat \ {0} /\ Len(stack[t]) \in DOMAIN stack[t]
      /\ Last(stack[t]) = stack[t][Len(stack[t])] /\ Last(stack[t]) \in Calls
  BY <1>1 DEF Last
<1> QED
  BY <1>1, <1>2 DEF At, Stopping, Calls

LEMMA StopCallStep ==
  ASSUME IInv, NEW t \in DOMAIN stack, StopCall(t)
  PROVE Typed' /\ Stops' /\ (Quiet => Quiet')
<1>0. Typed /\ Stops /\ InPhase(t, "stop") /\ tree \in Trees
  BY DEF IInv, Typed, StopCall
<1>1. PICK j \in Job : j = Stopping(t)
  BY <1>0, InCall
<1>2. /\ t \in Stacks /\ stack[t] # <<>> /\ stack[t] \in Seq(Calls)
      /\ Last(stack[t]).phase = "stop" /\ j = Last(stack[t]).job
      /\ Len(stack[t]) \in Nat \ {0} /\ At(j, "stop", t, Len(stack[t]))
  BY <1>0, <1>1, InCall DEF Stopping
<1>3. CASE j \notin stopped
  <2>1. /\ Enter(t, stack[t], j)
        /\ UNCHANGED <<tree, ends, kids, queue, seen, pc, procs, started, done, astray>>
    BY <1>1, <1>3 DEF StopCall, waiters
  <2>2. SameCalls(stack[t], t)
    BY DEF SameCalls
  <2> QED
    BY <1>2, <1>3, <2>1, <2>2, Entering
<1>4. CASE j \in stopped /\ j = Root
  <2>1. /\ stack' = [stack EXCEPT ![t] = <<>>]
        /\ UNCHANGED <<tree, ends, kids, queue, seen, pc, procs, started, stopped, done, astray>>
    BY <1>1, <1>4 DEF StopCall, waiters
  <2>2. stack' = [u \in Stacks |-> IF u \in {t} THEN <<>> ELSE stack[u]]
    BY <1>0, <2>1 DEF Typed
  <2>3. {t} \in SUBSET Stacks
    BY <1>2
  <2>4. /\ stack' \in [Stacks -> Seq(Calls)]
        /\ \A k, p, u, i : At(k, p, u, i)' <=> At(k, p, u, i) /\ u \notin {t}
        /\ \A u \in Stacks : stack[u] = <<>> => stack'[u] = <<>>
    BY <1>0, <2>2, <2>3, Cut
  <2>5. Len(stack[t]) = 1
    BY <1>0, <1>2 DEF Stops
  <2>6. \A k, p, i : At(k, p, t, i) => p = "stop"
    BY <1>2, <2>5 DEF At
  <2>7. \A k, p, u, i : At(k, p, u, i) /\ p \notin {"stop", "kids"} =>
           At(k, p, u, i)' \/ k \in astray'
    BY <2>4, <2>6
  <2>8. \A k, p, u, i : At(k, p, u, i)' /\ p # "stop" => k \notin done' \ done
    BY <2>1
  <2>9. /\ astray \subseteq astray'
        /\ UNCHANGED <<tree, ends, kids, queue, seen, pc, procs, started, stopped>>
    BY <2>1
  <2> QED
    BY <2>4, <2>7, <2>8, <2>9, Ending
<1>5. CASE j \in stopped /\ j # Root
  <2> DEFINE f == Frame(Parent(j), "stop", <<>>)
  <2>1. /\ stack' = Turn(t, f)
        /\ UNCHANGED <<tree, ends, kids, queue, seen, pc, procs, started, stopped, done, astray>>
    BY <1>1, <1>5 DEF StopCall, waiters
  <2>2. Parent(j) \in Job
    BY <1>0, TreeParts DEF Parent
  <2>3. f \in Calls /\ f.phase = "stop"
    BY <2>2 DEF Frame, Calls, Phases
  <2> HIDE DEF f
  <2> QED
    BY <1>2, <2>1, <2>3, Turning
<1> QED
  BY <1>3, <1>4, <1>5

LEMMA NextChildStep ==
  ASSUME IInv, NEW t \in DOMAIN stack, NextChild(t)
  PROVE Typed' /\ Stops' /\ (Quiet => Quiet')
<1> DEFINE f == Last(stack[t])
           g == [f EXCEPT !.rest = Tail(@)]
           s == Append(Front(stack[t]), g)
<1>0. Typed /\ InPhase(t, "kids")
  BY DEF IInv, NextChild
<1>1. /\ t \in Stacks /\ stack[t] # <<>> /\ stack[t] \in Seq(Calls) /\ f \in Calls
      /\ f.phase = "kids" /\ Len(stack[t]) \in Nat \ {0}
  BY <1>0, InCall
<1>2. f.rest # <<>>
  BY DEF NextChild
<1>3. f.rest \in Seq(Job)
  BY <1>1 DEF Calls
<1>4. Head(f.rest) \in Job /\ Tail(f.rest) \in Seq(Job)
  BY <1>2, <1>3
<1>5. g \in Calls /\ g.job = f.job /\ g.phase = f.phase
  BY <1>1, <1>4 DEF Calls
<1>6. CASE Head(f.rest) \in stopped
  <2>1. /\ stack' = Turn(t, g)
        /\ UNCHANGED <<tree, ends, kids, queue, seen, pc, procs, started, stopped, done, astray>>
    BY <1>0, <1>1, <1>6 DEF NextChild, Turn, waiters, Typed
  <2> HIDE DEF g
  <2> QED
    BY <1>1, <1>5, <2>1, Turning
<1>7. CASE Head(f.rest) \notin stopped
  <2> PICK j \in Job : j = Head(f.rest)
    BY <1>4
  <2>1. /\ Enter(t, s, j)
        /\ UNCHANGED <<tree, ends, kids, queue, seen, pc, procs, started, done, astray>>
    BY <1>7 DEF NextChild, waiters
  <2>2. /\ Front(stack[t]) \in Seq(Calls) /\ Len(Front(stack[t])) = Len(stack[t]) - 1
        /\ \A i \in 1..(Len(stack[t]) - 1) : Front(stack[t])[i] = stack[t][i]
    <3> HIDE DEF g, f, s
    <3> QED
      BY <1>1, FrontOf
  <2>5. f = stack[t][Len(stack[t])]
    BY DEF Last
  <2> HIDE DEF g, f
  <2>3. /\ s \in Seq(Calls) /\ Len(s) = Len(stack[t]) /\ s[Len(stack[t])] = g
        /\ \A i \in 1..(Len(stack[t]) - 1) : s[i] = stack[t][i]
    BY <1>1, <1>5, <2>2
  <2>4. SameCalls(s, t)
    BY <1>1, <1>5, <2>3, <2>5 DEF SameCalls
  <2> HIDE DEF s
  <2> QED
    BY <1>1, <1>7, <2>1, <2>3, <2>4, Entering
<1> QED
  BY <1>6, <1>7

LEMMA StopDoneStep ==
  ASSUME IInv, NEW t \in DOMAIN stack, StopDone(t)
  PROVE Typed' /\ Stops' /\ (Quiet => Quiet')
<1>0. Typed /\ Stops /\ InPhase(t, "kids")
  BY DEF IInv, StopDone
<1>1. PICK j, n : j \in Job /\ j = Stopping(t) /\ n = Len(stack[t])
  BY <1>0, InCall
<1>2. t \in Stacks /\ stack[t] # <<>> /\ At(j, "kids", t, n)
  BY <1>0, <1>1, InCall
<1>3. /\ stack' = [stack EXCEPT ![t] = Front(@)] /\ done' = done \cup {j}
      /\ astray \subseteq astray'
      /\ UNCHANGED <<tree, ends, kids, queue, seen, pc, procs, started, stopped>>
  BY <1>1 DEF StopDone, waiters
<1>4. /\ stack' \in [Stacks -> Seq(Calls)]
      /\ \A k, p, u, i : At(k, p, u, i)' <=> At(k, p, u, i) /\ ~(u = t /\ i = n)
      /\ \A u \in Stacks : stack[u] = <<>> => stack'[u] = <<>>
  BY <1>0, <1>1, <1>2, <1>3, Popped
<1>5. \A k, p, u, i : At(k, p, u, i)' => At(k, p, u, i)
  BY <1>4
<1>6. \A k, p : At(k, p, t, n) => k = j /\ p = "kids"
  BY <1>2 DEF At
<1>7. \A k, p, u, i : At(k, p, u, i) /\ p \notin {"stop", "kids"} =>
         At(k, p, u, i)' \/ k \in astray'
  BY <1>4, <1>6
<1>8. \A k, p, u, i : At(k, p, u, i)' /\ p # "stop" => k \notin done' \ done
  BY <1>0, <1>2, <1>3, <1>4 DEF Stops
<1> QED
  BY <1>3, <1>4, <1>5, <1>7, <1>8, Ending

(* run() stops a job. *)
LEMMA MainStops ==
  ASSUME IInv, stack[Main] = <<>>, NEW j \in Job, j \notin stopped, Enter(Main, <<>>, j),
         UNCHANGED <<tree, ends, kids, queue, seen, pc, procs, started, done, astray>>
  PROVE Typed' /\ Stops' /\ (Quiet => Quiet')
<1>1. Main \in Stacks
  BY DEF Stacks
<1>2. SameCalls(<<>>, Main) /\ <<>> \in Seq(Calls)
  BY DEF SameCalls
<1> QED
  BY <1>1, <1>2, Entering

LEMMA InterruptStep ==
  ASSUME IInv, Interrupt
  PROVE Typed' /\ Stops' /\ (Quiet => Quiet')
<1> DEFINE T == IF ends = "timeout" THEN {Main} ELSE {}
<1>0. /\ Typed /\ Stops /\ done \subseteq stopped /\ stack[Outer] = <<>> /\ Root \in Job
      /\ ends' = "itself"
      /\ UNCHANGED <<tree, kids, queue, seen, pc, procs, started, stopped>>
  BY JobTreeAssumption DEF IInv, Flagged, Stops, Interrupt, waiters
<1>1. T \in SUBSET {Main} /\ T \in SUBSET Stacks
  BY DEF Stacks
<1>2. /\ stack' = [stack EXCEPT ![Outer] = <<Frame(Root, "stop", <<>>)>>,
                                ![Main] = IF T = {Main} THEN <<>> ELSE @]
      /\ T = {Main} => done' = done \cup StopsOf(T) /\ astray' = astray \cup StopsOf(T)
      /\ T # {Main} => done' = done /\ astray' = astray /\ T = {}
  BY DEF Interrupt
<1> HIDE DEF T
<1>3. /\ stack' \in [Stacks -> Seq(Calls)]
      /\ \A k, p, u, i :
            At(k, p, u, i)' <=>
              \/ At(k, p, u, i) /\ u \notin T
              \/ k = Root /\ p = "stop" /\ u = Outer /\ i = 1
      /\ \A u \in Task : stack'[u] = stack[u]
  <2>1. /\ stack' = [stack EXCEPT ![Outer] = <<Frame(Root, "stop", <<>>)>>,
                                  ![Main] = IF T = {Main} THEN <<>> ELSE @]
    BY <1>2
  <2> QED
    BY <1>0, <1>1, <2>1, Interrupted
<1>4. Typed'
  BY <1>0, <1>3 DEF Typed
<1>5. /\ \A k : k \in done' \ done => \E p, i, u : u \in T /\ p # "stop" /\ At(k, p, u, i)
      /\ \A k, p, u, i : At(k, p, u, i) /\ p # "stop" /\ u \in T => k \in astray'
      /\ astray \subseteq astray'
  <2>1. \A k : k \in StopsOf(T) <=> \E p, i, u : u \in T /\ p # "stop" /\ At(k, p, u, i)
    BY <1>0, <1>1, CutStops
  <2>2. CASE T = {Main}
    BY <1>2, <2>1, <2>2
  <2>3. CASE T # {Main}
    BY <1>2, <2>3
  <2> QED
    BY <2>2, <2>3
<1>6. Stops'
  <2>1. /\ ends' # "itself" => stack'[Outer] = <<>>
        /\ \A k \in Job : stack'[<<"act", k>>] = <<>>
    BY <1>0, <1>3 DEF Stops, Stacks, Task
  <2>2. \A k, p, u, i : At(k, p, u, i)' /\ p # "stop" =>
            k \in stopped' \ stopped \/ \E r : r # "stop" /\ At(k, r, u, i)
    BY <1>3
  <2>3. \A k, u, i : At(k, "stop", u, i)' => i = 1
    BY <1>0, <1>3 DEF Stops
  <2>4. stopped \subseteq stopped'
    BY <1>0
  <2>5. \A k, p, u, i, r, v, m :
           At(k, p, u, i)' /\ At(k, r, v, m)' /\ p # "stop" /\ r # "stop" /\ k \notin stopped
              => u = v /\ i = m
    BY <1>0, <1>3 DEF Stops
  <2>6. \A k, p, u, i : At(k, p, u, i)' /\ p # "stop" => k \notin done' \ done
    <3> SUFFICES ASSUME NEW k, NEW p, NEW u, NEW i, At(k, p, u, i)', p # "stop",
                        k \in done' \ done
                 PROVE FALSE
      OBVIOUS
    <3>1. At(k, p, u, i) /\ u \notin T
      BY <1>3
    <3>2. PICK q, n, v : v \in T /\ q # "stop" /\ At(k, q, v, n)
      BY <1>5
    <3> QED
      BY <1>0, <3>1, <3>2 DEF Stops
  <2> QED
    BY <1>0, <2>1, <2>2, <2>3, <2>4, <2>5, <2>6, StopsKept
<1>7. ASSUME Quiet PROVE Quiet'
  <2>0. \A k, p, u, i : At(k, p, u, i) /\ p # "stop" => At(k, p, u, i)' \/ k \in astray'
    BY <1>3, <1>5
  <2>1. \A k : Past(k, {"notify"})' => k \in astray' \/ Past(k, {"notify"})
    BY <1>0, <2>0 DEF Past
  <2>2. \A k : Past(k, {"notify", "kill"})' => k \in astray' \/ Past(k, {"notify", "kill"})
    BY <1>0, <2>0 DEF Past
  <2>3. \A u \in Task : AtStep(u)' <=> AtStep(u)
    BY <1>0 DEF AtStep, Program
  <2>4. \A k \in Job : <<"down", k>> \in procs' => k \in astray' \/ \E u, i : At(k, "hooks", u, i)'
    BY <1>0, <1>5, <1>7, <2>0 DEF Quiet
  <2>5. \A u \in Task : stack'[u] # <<>> => pc'[u] > 0 /\ ~AtStep(u)'
    BY <1>0, <1>3, <1>7, <2>3 DEF Quiet
  <2>6. \A u \in Task : AtStep(u)' =>
            \/ ~Past(u[2], {"notify"})' \/ u[2] \in astray'
            \/ AtStep(u) /\ Past(u[2], {"notify"})
    BY <2>1, <2>3
  <2>7. \A u \in Task : u \in procs' =>
            \/ ~Past(u[2], {"notify", "kill"})' \/ u[2] \in astray'
            \/ (u \in procs \/ AtStep(u)) /\ Past(u[2], {"notify", "kill"})
    BY <1>0, <2>2
  <2> QED
    BY <1>5, <1>7, <2>4, <2>5, <2>6, <2>7, QuietKept
<1> QED
  BY <1>4, <1>6, <1>7

LEMMA CallStopStep ==
  ASSUME IInv, NEW t \in Task, CallStop(t)
  PROVE Typed' /\ Stops' /\ (StopsLast /\ Quiet => Quiet')
<1>0. Typed /\ Stops /\ done \subseteq stopped /\ Doing(t, "stop") /\ t \in Stacks
  BY DEF IInv, Flagged, CallStop, Stacks
<1>1. /\ pc[t] \in 1..Len(Program(t)) /\ Len(Program(t)) \in Nat /\ AtStep(t)
      /\ stack[t] = <<>> /\ t[1] = "hook" /\ Program(t)[pc[t]][2] \in Job
  BY <1>0, DoingStep
<1>2. PICK j \in Job : j = Program(t)[pc[t]][2]
  BY <1>1
<1>3. /\ pc' = [pc EXCEPT ![t] = @ + 1]
      /\ stack' = [stack EXCEPT ![t] = <<Frame(j, "stop", <<>>)>>]
      /\ UNCHANGED <<tree, ends, kids, started, stopped, done, queue, seen, procs, astray>>
  BY <1>2 DEF CallStop, waiters, flags, Frame
<1>4. /\ stack' \in [Stacks -> Seq(Calls)]
      /\ \A k, p, u, i :
            At(k, p, u, i)' <=>
              At(k, p, u, i) \/ (k = j /\ p = "stop" /\ u = t /\ i = 1)
      /\ \A u \in Stacks : u # t => stack'[u] = stack[u]
  BY <1>0, <1>1, <1>3, Called
<1>5. pc' \in [Task -> Nat] /\ pc'[t] = pc[t] + 1 /\ \A u \in Task : u # t => pc'[u] = pc[u]
  BY <1>0, <1>1, <1>3 DEF Typed
<1>6. Typed'
  BY <1>0, <1>3, <1>4, <1>5 DEF Typed
<1>7. Stops'
  <2>1. /\ ends' # "itself" => stack'[Outer] = <<>>
        /\ \A k \in Job : stack'[<<"act", k>>] = <<>>
    BY <1>0, <1>1, <1>3, <1>4, Names DEF Stops, Stacks, Task
  <2>2. \A k, p, u, i : At(k, p, u, i)' /\ p # "stop" =>
            k \in stopped' \ stopped \/ \E r : r # "stop" /\ At(k, r, u, i)
    BY <1>4
  <2>3. \A k, u, i : At(k, "stop", u, i)' => i = 1
    BY <1>0, <1>4 DEF Stops
  <2>4. stopped \subseteq stopped' /\ done' = done
    BY <1>3
  <2>5. \A k, p, u, i, r, v, m :
           At(k, p, u, i)' /\ At(k, r, v, m)' /\ p # "stop" /\ r # "stop" /\ k \notin stopped
              => u = v /\ i = m
    BY <1>0, <1>4 DEF Stops
  <2>6. \A k, p, u, i : At(k, p, u, i)' /\ p # "stop" => k \notin done' \ done
    BY <2>4
  <2> QED
    BY <1>0, <2>1, <2>2, <2>3, <2>4, <2>5, <2>6, StopsKept
<1>8. ASSUME StopsLast, Quiet PROVE Quiet'
  <2>0. \A k, p, u, i : p # "stop" => (At(k, p, u, i)' <=> At(k, p, u, i))
    BY <1>4
  <2>1. \A k : Past(k, {"notify"})' => Past(k, {"notify"})
    BY <1>3, <2>0 DEF Past
  <2>2. \A k : Past(k, {"notify", "kill"})' => Past(k, {"notify", "kill"})
    BY <1>3, <2>0 DEF Past
  <2>a. \A u \in Task : Program(u)' = Program(u)
    BY <1>3 DEF Program
  <2>b. \A u \in Task : u # t => (AtStep(u)' <=> AtStep(u))
    BY <1>5, <2>a DEF AtStep
  <2>c. ~AtStep(t)' /\ pc'[t] > 0
    <3>1. PICK m \in Job : t = <<"hook", m>>
      BY <1>1 DEF Task
    <3>2. Program(t) = tree.hook[m] /\ tree \in Trees
      BY <1>0, <3>1 DEF Program, Typed
    <3>3. Program(t)[pc[t]][1] = "stop" /\ pc[t] \in DOMAIN Program(t)
      BY <1>0, <1>1, <3>2, ProgramType, <3>1 DEF Doing
    <3>4. pc[t] = Len(Program(t))
      BY <1>8, <3>2, <3>3 DEF StopsLast
    <3> QED
      BY <1>1, <1>5, <2>a, <3>4 DEF AtStep
  <2>4. \A k \in Job : <<"down", k>> \in procs' => k \in astray' \/ \E u, i : At(k, "hooks", u, i)'
    BY <1>3, <1>8, <2>0 DEF Quiet
  <2>5. \A u \in Task : stack'[u] # <<>> => pc'[u] > 0 /\ ~AtStep(u)'
    BY <1>4, <1>5, <1>8, <2>b, <2>c DEF Quiet, Stacks
  <2>6. \A u \in Task : AtStep(u)' =>
            \/ ~Past(u[2], {"notify"})' \/ u[2] \in astray'
            \/ AtStep(u) /\ Past(u[2], {"notify"})
    BY <2>1, <2>b, <2>c
  <2>7. \A u \in Task : u \in procs' =>
            \/ ~Past(u[2], {"notify", "kill"})' \/ u[2] \in astray'
            \/ (u \in procs \/ AtStep(u)) /\ Past(u[2], {"notify", "kill"})
    BY <1>3, <2>2
  <2>8. astray \subseteq astray'
    BY <1>3
  <2> QED
    BY <1>8, <2>4, <2>5, <2>6, <2>7, <2>8, QuietKept
<1> QED
  BY <1>6, <1>7, <1>8

LEMMA CancelTasksStep ==
  ASSUME IInv, NEW t \in DOMAIN stack, CancelTasks(t)
  PROVE Typed' /\ Stops' /\ (Quiet => Quiet')
<1>0. Typed /\ Stops /\ done \subseteq stopped /\ InPhase(t, "notify")
  BY DEF IInv, Flagged, CancelTasks
<1>1. PICK j, n : j \in Job /\ j = Stopping(t) /\ n = Len(stack[t])
  BY <1>0, InCall
<1>2. t \in Stacks /\ stack[t] # <<>> /\ At(j, "notify", t, n)
  BY <1>0, <1>1, InCall
<1> DEFINE cut == {<<"hook", j>>, <<"act", j>>} \ {t}
           f == Frame(j, "kill", <<>>)
<1>3. /\ pc' = [u \in Task |-> IF u \in cut /\ pc[u] > 0 THEN Len(Program(u)) + 1 ELSE pc[u]]
      /\ stack' = [u \in DOMAIN stack |->
                     IF u \in cut THEN <<>>
                     ELSE IF u = t THEN Append(Front(stack[t]), f) ELSE stack[u]]
      /\ done' = done \cup StopsOf(cut) /\ astray' = astray \cup StopsOf(cut)
      /\ UNCHANGED <<tree, ends, kids, started, stopped, queue, seen, procs>>
  BY <1>1 DEF CancelTasks, waiters
<1>4. cut \in SUBSET Stacks /\ t \notin cut /\ cut \subseteq Task
  BY <1>1 DEF Stacks, Task
<1>5. f \in Calls /\ f.job = j /\ f.phase = "kill"
  BY <1>1 DEF Frame, Calls, Phases
<1>6. \A u \in Task : u[2] = j => u \in cut \/ u = t
  BY DEF Task
<1> HIDE DEF cut, f
<1>7. /\ stack' \in [Stacks -> Seq(Calls)]
      /\ \A k, p, u, i :
            At(k, p, u, i)' <=>
              IF u = t /\ i = n THEN k = f.job /\ p = f.phase
                                ELSE At(k, p, u, i) /\ u \notin cut
      /\ \A u \in Stacks : stack[u] = <<>> => stack'[u] = <<>>
      /\ \A u \in cut : stack'[u] = <<>>
  <2>1. /\ stack' = [u \in DOMAIN stack |->
                       IF u \in cut THEN <<>>
                       ELSE IF u = t THEN Append(Front(stack[t]), f) ELSE stack[u]]
    BY <1>3
  <2> QED
    BY <1>0, <1>1, <1>2, <1>4, <1>5, <2>1, Cancelled
<1>8. \A k : k \in StopsOf(cut) <=> \E p, i, u : u \in cut /\ p # "stop" /\ At(k, p, u, i)
  BY <1>0, <1>4, CutStops
<1>9. \A k, p : At(k, p, t, n) => k = j /\ p = "notify"
  BY <1>2 DEF At
<1>10. \A u \in Task : Len(Program(u)) \in Nat /\ Program(u)' = Program(u)
  BY <1>0, <1>3, ProgramType DEF Typed, Task, Program
<1>11. \A u \in Task :
          /\ pc'[u] = IF u \in cut /\ pc[u] > 0 THEN Len(Program(u)) + 1 ELSE pc[u]
          /\ pc[u] \in Nat
  BY <1>0, <1>3 DEF Typed
<1>12. pc' \in [Task -> Nat]
  BY <1>0, <1>3, <1>10 DEF Typed
<1>13. Typed'
  BY <1>0, <1>3, <1>7, <1>12 DEF Typed
<1>14. \A k, p, u, i : At(k, p, u, i)' /\ p # "stop" => \E r : r # "stop" /\ At(k, r, u, i)
  BY <1>2, <1>5, <1>7
<1>15. Stops'
  <2>1. /\ ends' # "itself" => stack'[Outer] = <<>>
        /\ \A k \in Job : stack'[<<"act", k>>] = <<>>
    BY <1>0, <1>3, <1>7 DEF Stops, Stacks, Task
  <2>2. \A k, p, u, i : At(k, p, u, i)' /\ p # "stop" =>
            k \in stopped' \ stopped \/ \E r : r # "stop" /\ At(k, r, u, i)
    BY <1>14
  <2>3. \A k, u, i : At(k, "stop", u, i)' => i = 1
    BY <1>0, <1>5, <1>7 DEF Stops
  <2>4. stopped \subseteq stopped'
    BY <1>3
  <2>5. \A k, p, u, i, r, v, m :
           At(k, p, u, i)' /\ At(k, r, v, m)' /\ p # "stop" /\ r # "stop" /\ k \notin stopped
              => u = v /\ i = m
    BY <1>0, <1>14 DEF Stops
  <2>6. \A k, p, u, i : At(k, p, u, i)' /\ p # "stop" => k \notin done' \ done
    <3> SUFFICES ASSUME NEW k, NEW p, NEW u, NEW i, At(k, p, u, i)', p # "stop",
                        k \in done' \ done
                 PROVE FALSE
      OBVIOUS
    <3>1. PICK r : r # "stop" /\ At(k, r, u, i)
      BY <1>14
    <3>2. PICK q, m, v : v \in cut /\ q # "stop" /\ At(k, q, v, m)
      BY <1>3, <1>8
    <3>3. u \notin cut
      BY <1>4, <1>7
    <3> QED
      BY <1>0, <3>1, <3>2, <3>3 DEF Stops
  <2> QED
    BY <1>0, <2>1, <2>2, <2>3, <2>4, <2>5, <2>6, StopsKept
<1>16. ASSUME Quiet PROVE Quiet'
  <2>1. \A k, p, u, i : k # j /\ p # "stop" /\ At(k, p, u, i) => At(k, p, u, i)' \/ k \in astray'
    BY <1>3, <1>7, <1>8, <1>9
  <2>2. \A u \in Task : AtStep(u)' => AtStep(u) /\ u \notin cut
    <3> SUFFICES ASSUME NEW u \in Task, AtStep(u)' PROVE AtStep(u) /\ u \notin cut
      OBVIOUS
    <3>1. Len(Program(u)) \in Nat /\ Program(u)' = Program(u)
      BY <1>10
    <3>2. pc'[u] \in 1..Len(Program(u))
      BY <3>1 DEF AtStep
    <3> QED
      BY <1>11, <3>1, <3>2 DEF AtStep
  <2>3. \A u \in Task : stack'[u] # <<>> => pc'[u] > 0 /\ ~AtStep(u)'
    <3> SUFFICES ASSUME NEW u \in Task, stack'[u] # <<>> PROVE pc'[u] > 0 /\ ~AtStep(u)'
      OBVIOUS
    <3>1. stack[u] # <<>> /\ u \notin cut
      BY <1>7 DEF Stacks
    <3>2. pc[u] > 0 /\ ~AtStep(u)
      BY <1>16, <3>1 DEF Quiet
    <3> QED
      BY <1>11, <2>2, <3>1, <3>2
  <2>4. \A u \in Task : AtStep(u)' => u[2] # j
    BY <1>2, <1>6, <1>16, <2>2 DEF Quiet
  <2>5. \A k : k # j /\ Past(k, {"notify"})' => k \in astray' \/ Past(k, {"notify"})
    BY <1>3, <2>1 DEF Past
  <2>6. \A k : k # j /\ Past(k, {"notify", "kill"})' => k \in astray' \/ Past(k, {"notify", "kill"})
    BY <1>3, <2>1 DEF Past
  <2>7. ~Past(j, {"notify", "kill"})'
    BY <1>5, <1>7 DEF Past
  <2>8. \A u \in Task : AtStep(u)' =>
            \/ ~Past(u[2], {"notify"})' \/ u[2] \in astray'
            \/ AtStep(u) /\ Past(u[2], {"notify"})
    BY <2>2, <2>4, <2>5
  <2>9. \A u \in Task : u \in procs' =>
            \/ ~Past(u[2], {"notify", "kill"})' \/ u[2] \in astray'
            \/ (u \in procs \/ AtStep(u)) /\ Past(u[2], {"notify", "kill"})
    <3> TAKE u \in Task
    <3>1. CASE u[2] = j
      BY <2>7, <3>1
    <3>2. CASE u[2] # j
      BY <1>3, <2>6, <3>2
    <3> QED
      BY <3>1, <3>2
  <2>10. \A k \in Job : <<"down", k>> \in procs' => k \in astray' \/ \E u, i : At(k, "hooks", u, i)'
    <3> SUFFICES ASSUME NEW k \in Job, <<"down", k>> \in procs', k \notin astray'
                 PROVE \E u, i : At(k, "hooks", u, i)'
      OBVIOUS
    <3>1. PICK u, i : At(k, "hooks", u, i)
      BY <1>3, <1>16 DEF Quiet
    <3>2. ~(u = t /\ i = n)
      BY <1>9, <3>1
    <3>3. u \notin cut
      BY <1>3, <1>8, <3>1
    <3> QED
      BY <1>7, <3>1, <3>2, <3>3
  <2>11. astray \subseteq astray'
    BY <1>3
  <2> QED
    BY <1>16, <2>3, <2>8, <2>9, <2>10, <2>11, QuietKept
<1> QED
  BY <1>13, <1>15, <1>16

(* What a job has left running is killed. *)
LEMMA Killing ==
  ASSUME IInv, NEW t \in DOMAIN stack, NEW q \in {"kill", "hooks"}, InPhase(t, q),
         NEW j \in Job, j = Stopping(t),
         NEW f \in Calls, f.job = j, f.phase \in {"hooks", "kids"}, stack' = Turn(t, f),
         KillAll(j),
         \A u \in procs' : \/ u \in procs \ Processes(j)
                           \/ u = <<"down", j>> /\ f.phase = "hooks",
         UNCHANGED <<tree, ends, kids, started, stopped, done, queue, seen, astray>>
  PROVE Typed' /\ Stops' /\ (Quiet => Quiet')
<1>0. Typed /\ Stops /\ done \subseteq stopped
  BY DEF IInv, Flagged
<1>1. PICK n : n = Len(stack[t])
  OBVIOUS
<1>2. t \in Stacks /\ stack[t] # <<>> /\ At(j, q, t, n)
  BY <1>0, <1>1, InCall
<1>3. /\ stack' \in [Stacks -> Seq(Calls)]
      /\ \A k, p, u, i :
            At(k, p, u, i)' <=>
              IF u = t /\ i = n THEN k = f.job /\ p = f.phase ELSE At(k, p, u, i)
      /\ \A u \in Stacks : (stack'[u] = <<>>) <=> (stack[u] = <<>>)
  BY <1>0, <1>1, <1>2, Turned
<1>4. \A k, p : At(k, p, t, n) => k = j /\ p = q
  BY <1>2 DEF At
<1>5. \A u \in Task : Len(Program(u)) \in Nat /\ Program(u)' = Program(u)
  BY <1>0, ProgramType DEF Typed, Task, Program
<1>6. \A u \in Task : pc[u] \in Nat /\ (pc'[u] = pc[u] \/ pc'[u] = Len(Program(u)) + 1)
  BY <1>0 DEF Typed, KillAll
<1>7. pc' \in [Task -> Nat]
  BY <1>0, <1>5 DEF Typed, KillAll
<1>8. Typed'
  BY <1>0, <1>3, <1>7 DEF Typed
<1>9. \A k, p, u, i : At(k, p, u, i)' /\ p # "stop" => \E r : r # "stop" /\ At(k, r, u, i)
  BY <1>2, <1>3
<1>10. Stops'
  <2>1. /\ ends' # "itself" => stack'[Outer] = <<>>
        /\ \A k \in Job : stack'[<<"act", k>>] = <<>>
    BY <1>0, <1>3 DEF Stops, Stacks, Task
  <2>2. \A k, p, u, i : At(k, p, u, i)' /\ p # "stop" =>
            k \in stopped' \ stopped \/ \E r : r # "stop" /\ At(k, r, u, i)
    BY <1>9
  <2>3. \A k, u, i : At(k, "stop", u, i)' => i = 1
    BY <1>0, <1>3 DEF Stops
  <2>4. stopped \subseteq stopped' /\ done' = done
    OBVIOUS
  <2>5. \A k, p, u, i, r, v, m :
           At(k, p, u, i)' /\ At(k, r, v, m)' /\ p # "stop" /\ r # "stop" /\ k \notin stopped
              => u = v /\ i = m
    BY <1>0, <1>9 DEF Stops
  <2>6. \A k, p, u, i : At(k, p, u, i)' /\ p # "stop" => k \notin done' \ done
    BY <2>4
  <2> QED
    BY <1>0, <2>1, <2>2, <2>3, <2>4, <2>5, <2>6, StopsKept
<1>11. ASSUME Quiet PROVE Quiet'
  <2>1. \A k, p, u, i : k # j /\ At(k, p, u, i) => At(k, p, u, i)'
    BY <1>3, <1>4
  <2>2. \A u, i : At(j, "notify", u, i) => At(j, "notify", u, i)'
    BY <1>3, <1>4
  <2>3. \A k : Past(k, {"notify"})' => Past(k, {"notify"})
    BY <2>1, <2>2 DEF Past
  <2>4. \A k : k # j /\ Past(k, {"notify", "kill"})' => Past(k, {"notify", "kill"})
    BY <2>1 DEF Past
  <2>5. \A u \in Task : AtStep(u)' => AtStep(u)
    <3> SUFFICES ASSUME NEW u \in Task, AtStep(u)' PROVE AtStep(u)
      OBVIOUS
    <3>1. Len(Program(u)) \in Nat /\ Program(u)' = Program(u)
      BY <1>5
    <3>2. pc'[u] \in 1..Len(Program(u))
      BY <3>1 DEF AtStep
    <3> QED
      BY <1>6, <3>1, <3>2 DEF AtStep
  <2>6. \A u \in Task : stack'[u] # <<>> => pc'[u] > 0 /\ ~AtStep(u)'
    <3> SUFFICES ASSUME NEW u \in Task, stack'[u] # <<>> PROVE pc'[u] > 0 /\ ~AtStep(u)'
      OBVIOUS
    <3>1. pc[u] > 0 /\ ~AtStep(u)
      BY <1>3, <1>11 DEF Quiet, Stacks
    <3> QED
      BY <1>5, <1>6, <2>5, <3>1
  <2>7. \A u \in Task : u \in procs' => u \in procs /\ u[2] # j
    BY DEF Task, Processes
  <2>8. \A u \in Task : AtStep(u)' =>
            \/ ~Past(u[2], {"notify"})' \/ u[2] \in astray'
            \/ AtStep(u) /\ Past(u[2], {"notify"})
    BY <2>3, <2>5
  <2>9. \A u \in Task : u \in procs' =>
            \/ ~Past(u[2], {"notify", "kill"})' \/ u[2] \in astray'
            \/ (u \in procs \/ AtStep(u)) /\ Past(u[2], {"notify", "kill"})
    BY <2>4, <2>7
  <2>10. \A k \in Job : <<"down", k>> \in procs' => k \in astray' \/ \E u, i : At(k, "hooks", u, i)'
    <3> SUFFICES ASSUME NEW k \in Job, <<"down", k>> \in procs', k \notin astray'
                 PROVE \E u, i : At(k, "hooks", u, i)'
      OBVIOUS
    <3>1. CASE k = j
      <4>1. f.phase = "hooks"
        BY <3>1 DEF Processes
      <4> QED
        BY <1>3, <3>1, <4>1
    <3>2. CASE k # j
      <4>1. <<"down", k>> \in procs
        BY <3>2
      <4>2. PICK u, i : At(k, "hooks", u, i)
        BY <1>11, <4>1 DEF Quiet
      <4> QED
        BY <2>1, <3>2, <4>2
    <3> QED
      BY <3>1, <3>2
  <2> QED
    BY <1>11, <2>6, <2>8, <2>9, <2>10, QuietKept
<1> QED
  BY <1>8, <1>10, <1>11

LEMMA HooksStartStep ==
  ASSUME IInv, NEW t \in DOMAIN stack, HooksStart(t)
  PROVE Typed' /\ Stops' /\ (Quiet => Quiet')
<1>0. Typed /\ InPhase(t, "kill")
  BY DEF IInv, HooksStart
<1>1. PICK j \in Job : j = Stopping(t)
  BY <1>0, InCall
<1> DEFINE f == Frame(j, "hooks", <<>>)
<1>2. f \in Calls /\ f.job = j /\ f.phase = "hooks"
  BY DEF Frame, Calls, Phases
<1>3. /\ stack' = Turn(t, f) /\ KillAll(j)
      /\ procs' = (procs \ Processes(j)) \cup ({<<"down", j>>} \cap ({"down"} \X tree.down))
      /\ UNCHANGED <<tree, ends, kids, started, stopped, done, queue, seen, astray>>
  BY <1>1 DEF HooksStart, waiters
<1> HIDE DEF f
<1>4. \A u \in procs' : \/ u \in procs \ Processes(j)
                        \/ u = <<"down", j>> /\ f.phase = "hooks"
  BY <1>2, <1>3
<1> QED
  BY <1>0, <1>1, <1>2, <1>3, <1>4, Killing

LEMMA HooksEndStep ==
  ASSUME IInv, NEW t \in DOMAIN stack, HooksEnd(t)
  PROVE Typed' /\ Stops' /\ (Quiet => Quiet')
<1>0. Typed /\ InPhase(t, "hooks")
  BY DEF IInv, HooksEnd
<1>1. PICK j \in Job : j = Stopping(t)
  BY <1>0, InCall
<1> DEFINE f == Frame(j, "kids", Reverse(kids[j]))
<1>2. Reverse(kids[j]) \in Seq(Job)
  <2>1. kids[j] \in Seq(Job)
    BY <1>0 DEF Typed
  <2> QED
    BY <2>1 DEF Reverse
<1>3. f \in Calls /\ f.job = j /\ f.phase = "kids"
  BY <1>2 DEF Frame, Calls, Phases
<1>4. /\ stack' = Turn(t, f) /\ KillAll(j)
      /\ procs' = procs \ Processes(j)
      /\ UNCHANGED <<tree, ends, kids, started, stopped, done, queue, seen, astray>>
  BY <1>1 DEF HooksEnd, waiters
<1> HIDE DEF f
<1>5. \A u \in procs' : \/ u \in procs \ Processes(j)
                        \/ u = <<"down", j>> /\ f.phase = "hooks"
  BY <1>4
<1> QED
  BY <1>0, <1>1, <1>3, <1>4, <1>5, Killing

---------------------------------------------------------------------------
(* The steps of the tasks and of run(), which leave the calls alone.       *)

LEMMA Work ==
  ASSUME IInv, UNCHANGED <<tree, ends, stack, stopped, done>>,
         kids' \in [Job -> Seq(Job)], queue' \subseteq Event, seen' \in [Job -> SUBSET Event],
         pc' \in [Task -> Nat], astray \subseteq astray',
         Quiet => \A u \in Task : stack[u] # <<>> => pc'[u] = pc[u],
         \A u \in Task : AtStep(u)' =>
            AtStep(u) \/ ~Past(u[2], {"notify"}) \/ u[2] \in astray',
         \A u \in procs' : u \in procs \/ (u \in Task /\ AtStep(u))
  PROVE Typed' /\ Stops' /\ (Quiet => Quiet')
<1>0. Typed /\ Stops
  BY DEF IInv
<1>1. \A k, p, u, i : At(k, p, u, i)' <=> At(k, p, u, i)
  BY DEF At
<1>2. Typed'
  BY <1>0 DEF Typed
<1>3. Stops'
  BY <1>0, <1>1 DEF Stops
<1>4. ASSUME Quiet PROVE Quiet'
  <2>1. \A k : Past(k, {"notify"})' <=> Past(k, {"notify"})
    BY <1>1 DEF Past
  <2>2. \A k : Past(k, {"notify", "kill"})' <=> Past(k, {"notify", "kill"})
    BY <1>1 DEF Past
  <2>3. \A u \in Task : stack'[u] # <<>> => pc'[u] > 0 /\ ~AtStep(u)'
    <3> SUFFICES ASSUME NEW u \in Task, stack[u] # <<>> PROVE pc'[u] > 0 /\ ~AtStep(u)'
      OBVIOUS
    <3>1. pc'[u] = pc[u] /\ pc[u] > 0 /\ ~AtStep(u) /\ Program(u)' = Program(u)
      BY <1>4 DEF Quiet, Program
    <3> QED
      BY <3>1 DEF AtStep
  <2>4. \A u \in Task : AtStep(u)' =>
            \/ ~Past(u[2], {"notify"})' \/ u[2] \in astray'
            \/ AtStep(u) /\ Past(u[2], {"notify"})
    BY <2>1
  <2>5. \A u \in Task : u \in procs' =>
            \/ ~Past(u[2], {"notify", "kill"})' \/ u[2] \in astray'
            \/ (u \in procs \/ AtStep(u)) /\ Past(u[2], {"notify", "kill"})
    BY <2>2
  <2>6. \A k \in Job : <<"down", k>> \in procs' => k \in astray' \/ \E u, i : At(k, "hooks", u, i)'
    <3>1. \A k \in Job : <<"down", k>> \notin Task
      BY DEF Task
    <3> QED
      BY <1>1, <1>4, <3>1 DEF Quiet
  <2> QED
    BY <1>4, <2>3, <2>4, <2>5, <2>6, QuietKept
<1> QED
  BY <1>2, <1>3, <1>4

(* Nor do they move a task. *)
LEMMA Idling ==
  ASSUME IInv, UNCHANGED <<tree, ends, stack, stopped, done, kids, queue, seen, pc, procs, astray>>
  PROVE Typed' /\ Stops' /\ (Quiet => Quiet')
<1>1. /\ kids' \in [Job -> Seq(Job)] /\ queue' \subseteq Event /\ seen' \in [Job -> SUBSET Event]
      /\ pc' \in [Task -> Nat]
  BY DEF IInv, Typed
<1>2. \A u \in Task : AtStep(u)' <=> AtStep(u)
  BY DEF AtStep, Program
<1>3. \A u \in Task : AtStep(u)' => AtStep(u) \/ ~Past(u[2], {"notify"}) \/ u[2] \in astray'
  BY <1>2
<1> QED
  BY <1>1, <1>3, Work

(* A task goes on, or a task of a job that is not past its cancelling begins. *)
LEMMA Moving ==
  ASSUME IInv, UNCHANGED <<tree, ends, stack, stopped, done, kids, queue, seen, astray>>,
         NEW t \in Task, NEW n \in Nat, pc' = [pc EXCEPT ![t] = n],
         AtStep(t) \/ t[2] \notin stopped, Quiet => stack[t] = <<>>,
         procs' \subseteq procs
  PROVE Typed' /\ Stops' /\ (Quiet => Quiet')
<1>1. /\ kids' \in [Job -> Seq(Job)] /\ queue' \subseteq Event /\ seen' \in [Job -> SUBSET Event]
      /\ pc' \in [Task -> Nat] /\ \A u \in Task : u # t => pc'[u] = pc[u]
  BY DEF IInv, Typed
<1>2. \A u \in Task : u # t => (AtStep(u)' <=> AtStep(u))
  BY <1>1 DEF AtStep, Program
<1>3. \A u \in Task : AtStep(u)' => AtStep(u) \/ ~Past(u[2], {"notify"}) \/ u[2] \in astray'
  BY <1>2 DEF Past
<1>4. Quiet => \A u \in Task : stack[u] # <<>> => pc'[u] = pc[u]
  BY <1>1
<1> QED
  BY <1>1, <1>3, <1>4, Work

LEMMA Launching ==
  ASSUME IInv, NEW j \in Job, j \notin started, j \notin stopped, Launch(j),
         UNCHANGED <<tree, ends, stack, stopped, done, kids, queue, seen, astray, procs>>
  PROVE Typed' /\ Stops' /\ (Quiet => Quiet')
<1>1. PICK t \in Task : t = <<"hook", j>>
  BY DEF Task
<1>2. pc' = [pc EXCEPT ![t] = 1] /\ t[2] \notin stopped /\ procs' \subseteq procs
  BY <1>1 DEF Launch
<1>3. pc[t] = 0
  BY <1>1 DEF IInv, Launched, Typed
<1>4. Quiet => stack[t] = <<>>
  BY <1>3 DEF Quiet
<1>5. 1 \in Nat
  OBVIOUS
<1> QED
  BY <1>2, <1>4, <1>5, Moving

LEMMA RunCmdStep ==
  ASSUME IInv, NEW t \in Task, RunCmd(t)
  PROVE Typed' /\ Stops' /\ (Quiet => Quiet')
<1>1. AtStep(t) /\ procs' = procs \cup {t}
  BY DEF RunCmd, Doing
<1>2. UNCHANGED <<tree, ends, stack, stopped, done, kids, queue, seen, pc, astray>>
  BY DEF RunCmd, waiters, flags
<1>3. /\ kids' \in [Job -> Seq(Job)] /\ queue' \subseteq Event /\ seen' \in [Job -> SUBSET Event]
      /\ pc' \in [Task -> Nat] /\ astray \subseteq astray'
  BY <1>2 DEF IInv, Typed
<1>4. \A u \in Task : AtStep(u)' => AtStep(u) \/ ~Past(u[2], {"notify"}) \/ u[2] \in astray'
  BY <1>2 DEF AtStep, Program
<1>5. Quiet => \A u \in Task : stack[u] # <<>> => pc'[u] = pc[u]
  BY <1>2
<1>6. \A u \in procs' : u \in procs \/ (u \in Task /\ AtStep(u))
  BY <1>1
<1>7. UNCHANGED <<tree, ends, stack, stopped, done>>
  BY <1>2
<1> QED
  BY <1>3, <1>4, <1>5, <1>6, <1>7, Work

LEMMA CmdEndsStep ==
  ASSUME IInv, NEW t \in Task, CmdEnds(t)
  PROVE Typed' /\ Stops' /\ (Quiet => Quiet')
<1>0. Typed /\ Doing(t, "run")
  BY DEF IInv, CmdEnds
<1>1. /\ pc[t] \in 1..Len(Program(t)) /\ Len(Program(t)) \in Nat
      /\ AtStep(t) /\ stack[t] = <<>>
  BY <1>0, DoingStep
<1>2. PICK ok \in BOOLEAN :
         pc' = [pc EXCEPT ![t] = IF ok THEN pc[t] + 1 ELSE Len(Program(t)) + 1]
  BY DEF CmdEnds
<1>3. PICK n \in Nat : n = IF ok THEN pc[t] + 1 ELSE Len(Program(t)) + 1
  BY <1>1
<1>4. /\ pc' = [pc EXCEPT ![t] = n] /\ procs' \subseteq procs
      /\ UNCHANGED <<tree, ends, stack, stopped, done, kids, queue, seen, astray>>
  BY <1>2, <1>3 DEF CmdEnds, waiters
<1> QED
  BY <1>1, <1>4, Moving

LEMMA PastCancelled ==
  ASSUME Typed, NEW j, Past(j, {"notify"})
  PROVE PastCancel(j)
<1> SUFFICES ASSUME NEW t \in DOMAIN stack, NEW i \in DOMAIN stack[t],
                    stack[t][i] = [job |-> j, phase |-> "notify", rest |-> <<>>]
             PROVE FALSE
  BY DEF Past, PastCancel
<1>1. stack[t][i].job = j /\ stack[t][i].phase = "notify" /\ t \in Stacks
  BY DEF Typed
<1>2. At(j, "notify", t, i)
  BY <1>1 DEF At
<1> QED
  BY <1>2 DEF Past

LEMMA EmitStep ==
  ASSUME IInv, NEW t \in Task, Emit(t)
  PROVE Typed' /\ Stops' /\ (Quiet => Quiet')
<1>0. Typed /\ Stops /\ Doing(t, "emit")
  BY DEF IInv, Emit
<1>1. /\ pc[t] \in 1..Len(Program(t)) /\ Len(Program(t)) \in Nat
      /\ AtStep(t) /\ stack[t] = <<>> /\ Program(t)[pc[t]][2] \in Event
  BY <1>0, DoingStep
<1>2. PICK e \in Event : e = Program(t)[pc[t]][2]
  BY <1>1
<1>3. /\ queue' = queue \cup {e}
      /\ seen' = [j \in Job |-> IF j \in (tree.waits \cap Present) \ fired
                                THEN seen[j] \cup ({e} \cap tree.deps[j]) ELSE seen[j]]
      /\ astray' = astray \cup {j \in Fires(e) : PastCancel(j)}
      /\ pc' = [u \in Task |-> IF u = t THEN pc[t] + 1
                               ELSE IF u[1] = "act" /\ u[2] \in Fires(e) THEN 1 ELSE pc[u]]
  BY <1>2 DEF Emit, Hear
<1>4. UNCHANGED <<tree, ends, stack, stopped, done, kids, procs>>
  BY DEF Emit
<1>5. pc' \in [Task -> Nat]
  BY <1>0, <1>1, <1>3 DEF Typed
<1>6. seen' \in [Job -> SUBSET Event] /\ queue' \subseteq Event /\ kids' \in [Job -> Seq(Job)]
  BY <1>0, <1>3, <1>4 DEF Typed
<1>7. \A u \in Task : stack[u] # <<>> => pc'[u] = pc[u]
  <2> SUFFICES ASSUME NEW u \in Task, stack[u] # <<>> PROVE pc'[u] = pc[u]
    OBVIOUS
  <2>1. u # t /\ u[1] # "act"
    BY <1>0, <1>1 DEF Stops, Task
  <2> QED
    BY <1>3, <2>1
<1>8. \A u \in Task : AtStep(u)' => AtStep(u) \/ ~Past(u[2], {"notify"}) \/ u[2] \in astray'
  <2> SUFFICES ASSUME NEW u \in Task, AtStep(u)', Past(u[2], {"notify"})
               PROVE AtStep(u) \/ u[2] \in astray'
    OBVIOUS
  <2>1. Program(u)' = Program(u)
    BY <1>4 DEF Program
  <2>2. CASE u = t
    BY <1>1, <2>2
  <2>3. CASE u # t /\ u[1] = "act" /\ u[2] \in Fires(e)
    <3>1. PastCancel(u[2])
      BY <1>0, PastCancelled
    <3> QED
      BY <1>3, <2>3, <3>1
  <2>4. CASE u # t /\ ~(u[1] = "act" /\ u[2] \in Fires(e))
    <3>1. pc'[u] = pc[u]
      BY <1>3, <2>4
    <3> QED
      BY <2>1, <3>1 DEF AtStep
  <2> QED
    BY <2>2, <2>3, <2>4
<1>9. /\ astray \subseteq astray' /\ \A u \in procs' : u \in procs \/ (u \in Task /\ AtStep(u))
      /\ UNCHANGED <<tree, ends, stack, stopped, done>>
  BY <1>3, <1>4
<1> QED
  BY <1>5, <1>6, <1>7, <1>8, <1>9, Work

(* Task t adds job k to job j. *)
Adds(t, k, j) ==
  /\ k = Program(t)[pc[t]][2]
  /\ j = Parent(k) /\ k \notin Present /\ k \notin stopped
  /\ kids' = [kids EXCEPT ![j] = Append(kids[j], k)] /\ Replay(k)
  /\ held' = held \cup ({k} \cap tree.holds)
  /\ tasks' = IF j \in started \ stopped THEN tasks \cup {<<"launch", k>>} ELSE tasks
  /\ <<"act", k>> # t /\ <<"act", k>> \in Task
  /\ pc' \in [Task -> Nat] /\ pc'[t] = pc[t] + 1
  /\ pc'[<<"act", k>>] = IF k \in fired' THEN 1 ELSE 0
  /\ \A u \in Task : u # t /\ u # <<"act", k>> => pc'[u] = pc[u]

LEMMA Adding ==
  ASSUME IInv, NEW t \in Task, AddChild(t)
  PROVE \E k, j \in Job : Adds(t, k, j)
<1>0. Typed /\ Doing(t, "add") /\ tree \in Trees
  BY DEF IInv, Typed, AddChild
<1>1. /\ pc[t] \in 1..Len(Program(t)) /\ t[1] = "hook" /\ Program(t)[pc[t]][2] \in Job
  BY <1>0, DoingStep
<1>2. PICK k \in Job : k = Program(t)[pc[t]][2]
  BY <1>1
<1>3. Parent(k) \in Job
  BY <1>0, TreeParts DEF Parent
<1>4. /\ k \notin Present /\ k \notin stopped
      /\ kids' = [kids EXCEPT ![Parent(k)] = Append(@, k)] /\ Replay(k)
      /\ held' = held \cup ({k} \cap tree.holds)
      /\ tasks' = IF Parent(k) \in started \ stopped THEN tasks \cup {<<"launch", k>>} ELSE tasks
      /\ pc' = [pc EXCEPT ![t] = @ + 1, ![<<"act", k>>] = IF k \in fired' THEN 1 ELSE 0]
  BY <1>2 DEF AddChild
<1>5. <<"act", k>> # t /\ <<"act", k>> \in Task
  BY <1>1 DEF Task
<1>6. PICK n \in {0, 1} : n = IF k \in fired' THEN 1 ELSE 0
  OBVIOUS
<1>7. /\ pc \in [Task -> Nat] /\ pc' = [pc EXCEPT ![t] = @ + 1, ![<<"act", k>>] = n]
  BY <1>0, <1>4, <1>6 DEF Typed
<1>8. /\ pc' \in [Task -> Nat] /\ pc'[t] = pc[t] + 1 /\ pc'[<<"act", k>>] = n
      /\ \A u \in Task : u # t /\ u # <<"act", k>> => pc'[u] = pc[u]
  BY <1>5, <1>7
<1>9. kids' = [kids EXCEPT ![Parent(k)] = Append(kids[Parent(k)], k)]
  BY <1>0, <1>3, <1>4 DEF Typed
<1> QED
  BY <1>2, <1>3, <1>4, <1>5, <1>6, <1>8, <1>9 DEF Adds

LEMMA AddChildStep ==
  ASSUME IInv, NEW t \in Task, AddChild(t)
  PROVE Typed' /\ Stops' /\ (Quiet => Quiet')
<1>0. Typed /\ Stops /\ Doing(t, "add")
  BY DEF IInv, AddChild
<1>1. AtStep(t) /\ stack[t] = <<>>
  BY <1>0 DEF Doing
<1>a. PICK k \in Job, j \in Job : Adds(t, k, j)
  BY Adding
<1>2. /\ k \notin stopped
      /\ kids' = [kids EXCEPT ![j] = Append(kids[j], k)] /\ Replay(k)
      /\ <<"act", k>> # t /\ <<"act", k>> \in Task
      /\ pc' \in [Task -> Nat]
      /\ \A u \in Task : u # t /\ u # <<"act", k>> => pc'[u] = pc[u]
  BY <1>a DEF Adds
<1>3. UNCHANGED <<tree, ends, stack, stopped, done, queue, procs, astray>>
  BY DEF AddChild
<1>4. kids' \in [Job -> Seq(Job)]
  BY <1>0, <1>2 DEF Typed
<1>5. seen' \in [Job -> SUBSET Event] /\ queue' \subseteq Event
  BY <1>0, <1>2, <1>3 DEF Typed, Replay
<1>6. \A u \in Task : stack[u] # <<>> => pc'[u] = pc[u]
  BY <1>0, <1>1, <1>2 DEF Stops
<1>7. \A u \in Task : AtStep(u)' => AtStep(u) \/ ~Past(u[2], {"notify"}) \/ u[2] \in astray'
  <2> TAKE u \in Task
  <2>1. CASE u = t
    BY <1>1, <2>1
  <2>2. CASE u = <<"act", k>>
    BY <1>2, <2>2 DEF Past
  <2>3. CASE u # t /\ u # <<"act", k>>
    <3>1. pc'[u] = pc[u] /\ Program(u)' = Program(u)
      BY <1>2, <1>3, <2>3 DEF Program
    <3> QED
      BY <3>1 DEF AtStep
  <2> QED
    BY <2>1, <2>2, <2>3
<1>8. /\ astray \subseteq astray' /\ \A u \in procs' : u \in procs \/ (u \in Task /\ AtStep(u))
      /\ UNCHANGED <<tree, ends, stack, stopped, done>>
  BY <1>3
<1> QED
  BY <1>2, <1>4, <1>5, <1>6, <1>7, <1>8, Work

---------------------------------------------------------------------------
(* Who hears what.                                                         *)

LEMMA EmitHeard ==
  ASSUME IInv, NEW t \in Task, Emit(t)
  PROVE Heard'
<1>0. Typed /\ Heard
  BY DEF IInv
<1>1. PICK e : e = Program(t)[pc[t]][2]
  OBVIOUS
<1>2. /\ queue' = queue \cup {e}
      /\ seen' = [j \in Job |-> IF j \in (tree.waits \cap Present) \ fired
                                THEN seen[j] \cup ({e} \cap tree.deps[j]) ELSE seen[j]]
      /\ fired' = fired \cup Fires(e)
      /\ tree' = tree /\ kids' = kids
  BY <1>1 DEF Emit, Hear
<1>3. Present' = Present
  BY <1>2 DEF Present
<1>4. tree.waits \subseteq Job /\ tree.deps \in [Job -> SUBSET Event]
  BY <1>0, TreeParts DEF Typed
<1>5. \A j : j \in Fires(e) <=> /\ j \in (tree.waits \cap Present) \ fired
                                /\ tree.deps[j] \subseteq seen[j] \cup {e}
  BY DEF Fires
<1>6. fired' \subseteq tree'.waits
  BY <1>0, <1>2, <1>5 DEF Heard
<1>7. \A j \in fired' : tree'.deps[j] \subseteq queue' /\ seen'[j] = tree'.deps[j]
  <2> SUFFICES ASSUME NEW j \in fired'
               PROVE tree.deps[j] \subseteq queue' /\ seen'[j] = tree.deps[j]
    BY <1>2
  <2>0. j \in Job
    BY <1>2, <1>4, <1>6
  <2>1. CASE j \in fired
    BY <1>0, <1>2, <2>0, <2>1 DEF Heard
  <2>2. CASE j \notin fired
    <3>1. j \in (tree.waits \cap Present) \ fired /\ tree.deps[j] \subseteq seen[j] \cup {e}
      BY <1>2, <1>5, <2>2
    <3>2. seen[j] = queue \cap tree.deps[j] /\ seen'[j] = seen[j] \cup ({e} \cap tree.deps[j])
      BY <1>0, <1>2, <2>0, <3>1 DEF Heard
    <3> QED
      BY <1>2, <3>1, <3>2
  <2> QED
    BY <2>1, <2>2
<1>8. \A j \in (tree'.waits \cap Present') \ fired' :
         seen'[j] = queue' \cap tree'.deps[j] /\ ~(tree'.deps[j] \subseteq queue')
  <2> SUFFICES ASSUME NEW j \in (tree.waits \cap Present) \ fired'
               PROVE seen'[j] = queue' \cap tree.deps[j] /\ ~(tree.deps[j] \subseteq queue')
    BY <1>2, <1>3
  <2>1. /\ j \in (tree.waits \cap Present) \ fired /\ j \in Job
        /\ ~(tree.deps[j] \subseteq seen[j] \cup {e})
    BY <1>2, <1>4, <1>5
  <2>2. seen[j] = queue \cap tree.deps[j] /\ seen'[j] = seen[j] \cup ({e} \cap tree.deps[j])
    BY <1>0, <1>2, <2>1 DEF Heard
  <2> QED
    BY <1>2, <2>1, <2>2
<1> QED
  BY <1>6, <1>7, <1>8 DEF Heard

LEMMA AddedPresent ==
  ASSUME Typed, NEW k \in Job, NEW j \in Job, kids' = [kids EXCEPT ![j] = Append(kids[j], k)]
  PROVE /\ Present' = Present \cup {k}
        /\ \A i \in Job : ToSet(kids'[i]) = ToSet(kids[i]) \cup (IF i = j THEN {k} ELSE {})
<1>1. kids \in [Job -> Seq(Job)]
  BY DEF Typed
<1>2. ToSet(Append(kids[j], k)) = ToSet(kids[j]) \cup {k}
  <2>1. kids[j] \in Seq(Job)
    BY <1>1
  <2>2. /\ Len(kids[j]) \in Nat /\ DOMAIN kids[j] = 1..Len(kids[j])
        /\ DOMAIN Append(kids[j], k) = 1..(Len(kids[j]) + 1)
        /\ Append(kids[j], k)[Len(kids[j]) + 1] = k
        /\ \A i \in 1..Len(kids[j]) : Append(kids[j], k)[i] = kids[j][i]
    BY <2>1
  <2>3. ASSUME NEW x \in ToSet(Append(kids[j], k)) PROVE x \in ToSet(kids[j]) \cup {k}
    BY <2>2 DEF ToSet
  <2>4. ASSUME NEW x \in ToSet(kids[j]) PROVE x \in ToSet(Append(kids[j], k))
    BY <2>2 DEF ToSet
  <2>5. k \in ToSet(Append(kids[j], k))
    BY <2>2 DEF ToSet
  <2> QED
    BY <2>3, <2>4, <2>5
<1>3. \A i \in Job : ToSet(kids'[i]) = ToSet(kids[i]) \cup (IF i = j THEN {k} ELSE {})
  BY <1>1, <1>2
<1>4. Present' = Present \cup {k}
  BY <1>3 DEF Present
<1> QED
  BY <1>3, <1>4

LEMMA AddChildHeard ==
  ASSUME IInv, NEW t \in Task, AddChild(t)
  PROVE Heard'
<1>0. Typed /\ Heard
  BY DEF IInv
<1>a. PICK k \in Job, j \in Job : Adds(t, k, j)
  BY Adding
<1>1. k \notin Present /\ kids' = [kids EXCEPT ![j] = Append(kids[j], k)] /\ Replay(k)
  BY <1>a DEF Adds
<1>2. /\ tree' = tree /\ queue' = queue
      /\ seen' = [seen EXCEPT ![k] = queue \cap tree.deps[k]]
      /\ fired' = IF k \in tree.waits /\ queue # {} /\ tree.deps[k] \subseteq queue
                  THEN fired \cup {k} ELSE fired
  BY <1>1 DEF AddChild, Replay
<1>3. Present' = Present \cup {k}
  BY <1>0, <1>1, AddedPresent
<1>4. /\ seen'[k] = queue \cap tree.deps[k]
      /\ \A i \in Job : i # k => seen'[i] = seen[i]
  BY <1>0, <1>2 DEF Typed
<1>5. tree.waits \subseteq Job /\ fired \subseteq Job
  BY <1>0, TreeParts DEF Typed, Heard
<1>6. fired' \subseteq tree'.waits
  BY <1>0, <1>2 DEF Heard
<1>7. \A i \in fired' : tree'.deps[i] \subseteq queue' /\ seen'[i] = tree'.deps[i]
  <2> SUFFICES ASSUME NEW i \in fired'
               PROVE tree.deps[i] \subseteq queue /\ seen'[i] = tree.deps[i]
    BY <1>2
  <2>1. CASE i = k
    <3>1. tree.deps[k] \subseteq queue
      BY <1>0, <1>2, <2>1 DEF Heard
    <3> QED
      BY <1>4, <2>1, <3>1
  <2>2. CASE i # k
    BY <1>0, <1>2, <1>4, <1>5, <2>2 DEF Heard
  <2> QED
    BY <2>1, <2>2
<1>8. \A i \in (tree'.waits \cap Present') \ fired' :
         seen'[i] = queue' \cap tree'.deps[i] /\ (queue' # {} => ~(tree'.deps[i] \subseteq queue'))
  <2> SUFFICES ASSUME NEW i \in (tree.waits \cap Present') \ fired'
               PROVE /\ seen'[i] = queue \cap tree.deps[i]
                     /\ queue # {} => ~(tree.deps[i] \subseteq queue)
    BY <1>2
  <2>1. CASE i = k
    BY <1>2, <1>4, <2>1
  <2>2. CASE i # k
    BY <1>0, <1>2, <1>3, <1>4, <1>5, <2>2 DEF Heard
  <2> QED
    BY <2>1, <2>2
<1> QED
  BY <1>6, <1>7, <1>8 DEF Heard

LEMMA HeardKept ==
  ASSUME IInv, UNCHANGED <<tree, kids, queue, seen, fired>>
  PROVE Heard'
BY DEF IInv, Heard, Present

---------------------------------------------------------------------------
(* Who is launched.                                                        *)

LEMMA LaunchedKept ==
  ASSUME Launched, UNCHANGED <<tree, kids, started>>,
         mpc' = "start" => mpc = "start" /\ UNCHANGED <<tasks, stopped, stack>>,
         \A k \in Job : <<"launch", k>> \in tasks' => <<"launch", k>> \in tasks,
         \A k \in Job : pc'[<<"hook", k>>] > 0 => pc[<<"hook", k>>] > 0
  PROVE Launched'
<1>1. Present' = Present /\ \A k \in Job : Parent(k)' = Parent(k)
  BY DEF Present, Parent
<1>2. mpc' = "start" =>
        started' = {} /\ tasks' = {} /\ stopped' = {} /\ \A t \in Stacks : stack'[t] = <<>>
  BY DEF Launched
<1>3. \A j \in Job : \A k \in ToSet(kids'[j]) : k # Root /\ Parent(k)' = j
  BY DEF Launched, Parent
<1>4. /\ \A k \in Job : k \in started' \/ <<"launch", k>> \in tasks' => k \in Present'
      /\ \A k \in Job : <<"launch", k>> \in tasks' => k \notin started'
      /\ \A k \in Job \ {Root} :
            k \in started' \/ <<"launch", k>> \in tasks' => Parent(k)' \in started'
      /\ \A j \in Job : pc'[<<"hook", j>>] > 0 => j \in started'
  BY <1>1 DEF Launched
<1> QED
  BY <1>2, <1>3, <1>4 DEF Launched

LEMMA LaunchLaunched ==
  ASSUME IInv, NEW j \in Job, Launch(j), j \notin started, j \in Present,
         j = Root \/ Parent(j) \in started, mpc' # "start", UNCHANGED <<tree, kids>>
  PROVE Launched'
<1>0. Typed /\ Launched
  BY DEF IInv
<1>1. Present' = Present /\ \A k \in Job : Parent(k)' = Parent(k)
  BY DEF Present, Parent
<1>2. /\ started' = started \cup {j}
      /\ \A k \in Job : <<"launch", k>> \in tasks' <=>
                           (<<"launch", k>> \in tasks /\ k # j) \/ k \in ToSet(kids[j])
      /\ pc' = [pc EXCEPT ![<<"hook", j>>] = 1]
  BY DEF Launch
<1>3. \A k \in ToSet(kids[j]) : k \in Present /\ k # Root /\ Parent(k) = j
  BY <1>0 DEF Launched, Present
<1>4. \A i \in Job : \A k \in ToSet(kids'[i]) : k # Root /\ Parent(k)' = i
  BY <1>0 DEF Launched, Parent
<1>5. \A k \in Job : k \in started' \/ <<"launch", k>> \in tasks' => k \in Present'
  BY <1>0, <1>1, <1>2, <1>3 DEF Launched
<1>6. \A k \in Job : <<"launch", k>> \in tasks' => k \notin started'
  <2> SUFFICES ASSUME NEW k \in Job, <<"launch", k>> \in tasks' PROVE k \notin started'
    OBVIOUS
  <2>1. CASE k \in ToSet(kids[j])
    <3>1. k # Root /\ Parent(k) = j
      BY <1>3, <2>1
    <3>2. k \notin started
      BY <1>0, <3>1 DEF Launched
    <3>3. k # j
      BY <3>1
    <3> QED
      BY <1>2, <3>2, <3>3
  <2>2. CASE k \notin ToSet(kids[j])
    BY <1>0, <1>2, <2>2 DEF Launched
  <2> QED
    BY <2>1, <2>2
<1>7. \A k \in Job \ {Root} :
         k \in started' \/ <<"launch", k>> \in tasks' => Parent(k)' \in started'
  BY <1>0, <1>1, <1>2, <1>3 DEF Launched
<1>8. \A k \in Job : pc'[<<"hook", k>>] > 0 => k \in started'
  <2>1. \A k \in Job : <<"hook", k>> \in Task
    BY DEF Task
  <2>2. \A k \in Job : k # j => pc'[<<"hook", k>>] = pc[<<"hook", k>>]
    BY <1>0, <1>2, <2>1 DEF Typed
  <2> QED
    BY <1>0, <1>2, <2>2 DEF Launched
<1> QED
  BY <1>4, <1>5, <1>6, <1>7, <1>8 DEF Launched

LEMMA AddChildLaunched ==
  ASSUME IInv, NEW t \in Task, AddChild(t)
  PROVE Launched'
<1>0. Typed /\ Launched /\ Doing(t, "add")
  BY DEF IInv, AddChild
<1>1. PICK k \in Job, j \in Job : Adds(t, k, j)
  BY Adding
<1>a. /\ j = Parent(k) /\ k \notin Present
      /\ kids' = [kids EXCEPT ![j] = Append(kids[j], k)]
      /\ tasks' = IF j \in started \ stopped THEN tasks \cup {<<"launch", k>>} ELSE tasks
      /\ <<"act", k>> # t
      /\ \A u \in Task : u # t /\ u # <<"act", k>> => pc'[u] = pc[u]
  BY <1>1 DEF Adds
<1>2. UNCHANGED <<tree, mpc, started, stopped>> /\ Doing(t, "add")
  BY DEF AddChild
<1>3. /\ Present' = Present \cup {k}
      /\ \A i \in Job : ToSet(kids'[i]) = ToSet(kids[i]) \cup (IF i = j THEN {k} ELSE {})
  BY <1>0, <1>a, AddedPresent
<1>4. t[1] = "hook" /\ pc[t] \in 1..Len(Program(t)) /\ Len(Program(t)) \in Nat
  BY <1>0, DoingStep
<1>5. PICK m \in Job : t = <<"hook", m>>
  BY <1>4 DEF Task
<1>6. m \in started
  <2>1. pc[<<"hook", m>>] > 0
    BY <1>4, <1>5
  <2> QED
    BY <1>0, <2>1 DEF Launched
<1>7. mpc' # "start"
  BY <1>0, <1>2, <1>6 DEF Launched
<1>8. k # Root /\ k \notin started
  BY <1>0, <1>a DEF Launched, Present
<1>9. \A i \in Job : Parent(i)' = Parent(i)
  BY <1>2 DEF Parent
<1>10. \A i \in Job : \A l \in ToSet(kids'[i]) : l # Root /\ Parent(l)' = i
  <2> SUFFICES ASSUME NEW i \in Job, NEW l \in ToSet(kids'[i])
               PROVE l # Root /\ tree.parent[l] = i
    BY <1>2 DEF Parent
  <2>1. CASE l \in ToSet(kids[i])
    BY <1>0, <2>1 DEF Launched, Parent
  <2>2. CASE l \notin ToSet(kids[i])
    BY <1>a, <1>3, <1>8, <2>2 DEF Parent
  <2> QED
    BY <2>1, <2>2
<1>11. \A i \in Job : <<"launch", i>> \in tasks' =>
          <<"launch", i>> \in tasks \/ (i = k /\ j \in started)
  BY <1>a
<1>12. /\ \A i \in Job : i \in started' \/ <<"launch", i>> \in tasks' => i \in Present'
       /\ \A i \in Job : <<"launch", i>> \in tasks' => i \notin started'
  BY <1>0, <1>2, <1>3, <1>8, <1>11 DEF Launched
<1>13. \A i \in Job \ {Root} :
          i \in started' \/ <<"launch", i>> \in tasks' => Parent(i)' \in started'
  BY <1>0, <1>a, <1>2, <1>9, <1>11 DEF Launched
<1>14. \A i \in Job : pc'[<<"hook", i>>] > 0 => i \in started'
  <2>1. \A i \in Job : <<"hook", i>> \in Task /\ <<"hook", i>> # <<"act", k>>
    BY DEF Task
  <2>2. \A i \in Job : i # m => pc'[<<"hook", i>>] = pc[<<"hook", i>>]
    BY <1>a, <1>5, <2>1
  <2> QED
    BY <1>0, <1>2, <1>6, <2>2 DEF Launched
<1> QED
  BY <1>7, <1>10, <1>12, <1>13, <1>14 DEF Launched

---------------------------------------------------------------------------
(* The flags of a job.                                                     *)

PcBound == \A t \in Task : pc[t] \in 0..(Len(Program(t)) + 1)

LEMMA Lengths ==
  ASSUME Typed, tree' = tree
  PROVE \A t \in Task : Len(Program(t)) \in Nat /\ Program(t)' = Program(t) /\ pc[t] \in Nat
BY ProgramType DEF Typed, Task, Program

LEMMA StopBeginsFlagged ==
  ASSUME Flagged, NEW t, NEW s, NEW j \in Job, Enter(t, s, j),
         UNCHANGED <<tree, mpc, tasks, started, ready, done, pc, procs>>
  PROVE Flagged'
<1>1. \A u \in Task : Program(u)' = Program(u)
  BY DEF Program
<1> QED
  BY <1>1 DEF Flagged, Enter

LEMMA RunDrivesFlagged ==
  ASSUME Flagged, mpc' \in {"start", "scan", "wait", "final", "gather", "cut", "over"},
         wake' \in BOOLEAN,
         UNCHANGED <<tree, tasks, started, ready, stopped, done, held, pc, procs>>
  PROVE Flagged'
<1>1. \A u \in Task : Program(u)' = Program(u)
  BY DEF Program
<1> QED
  BY <1>1 DEF Flagged

LEMMA LaunchFlagged ==
  ASSUME IInv, NEW j \in Job, j \notin started, Launch(j), mpc' \in {mpc, "scan"},
         UNCHANGED <<tree, wake, ready, stopped, held, done, procs>>
  PROVE Flagged'
<1>0. Typed /\ Flagged /\ tree' = tree
  BY DEF IInv
<1>1. \A t \in Task : Len(Program(t)) \in Nat /\ Program(t)' = Program(t) /\ pc[t] \in Nat
  BY <1>0, Lengths
<1>2. \A t \in Task : pc'[t] \in {pc[t], 1}
  BY <1>0 DEF Launch, Typed
<1>3. PcBound'
  BY <1>0, <1>1, <1>2 DEF Flagged, PcBound
<1>4. /\ started' = started \cup {j}
      /\ \A k \in Job : <<"watch", k>> \in tasks' => <<"watch", k>> \in tasks \/ k = j
  BY DEF Launch
<1>5. \A k \in Job : <<"watch", k>> \in tasks' => k \in started' \ ready'
  BY <1>0, <1>4 DEF Flagged
<1> QED
  BY <1>0, <1>3, <1>4, <1>5 DEF Flagged, PcBound

LEMMA BecomeReadyFlagged ==
  ASSUME IInv, NEW j \in Job, BecomeReady(j)
  PROVE Flagged'
<1>1. \A u \in Task : Program(u)' = Program(u)
  BY DEF BecomeReady, Program
<1>2. /\ tasks' = tasks \ {<<"watch", j>>} /\ ready' = ready \cup {j} /\ wake' = TRUE
      /\ <<"watch", j>> \in tasks
      /\ UNCHANGED <<tree, mpc, started, stopped, held, done, pc, procs>>
  BY DEF BecomeReady, waiters
<1>3. Flagged /\ j \in started
  BY <1>2 DEF IInv, Flagged
<1>4. \A k \in Job : <<"watch", k>> \in tasks' => k \in started' \ ready'
  BY <1>2, <1>3 DEF Flagged
<1> QED
  BY <1>1, <1>2, <1>3, <1>4 DEF Flagged

(* Task t goes on to step n. *)
LEMMA GoesOnFlagged ==
  ASSUME IInv, NEW t \in Task, NEW n \in 0..(Len(Program(t)) + 1),
         pc' = [pc EXCEPT ![t] = n] \/ \E k \in Task :
            /\ pc'[t] = n /\ pc'[k] \in {0, 1}
            /\ \A u \in Task : u # t /\ u # k => pc'[u] = pc[u],
         wake' \in BOOLEAN, held' \subseteq tree.holds,
         procs' \subseteq {"hook", "act", "down"} \X Job,
         \A k \in Job : <<"watch", k>> \in tasks' => <<"watch", k>> \in tasks,
         UNCHANGED <<tree, mpc, started, ready, stopped, done>>
  PROVE Flagged'
<1>0. Typed /\ Flagged /\ tree' = tree
  BY DEF IInv
<1>1. \A u \in Task : Len(Program(u)) \in Nat /\ Program(u)' = Program(u) /\ pc[u] \in Nat
  BY <1>0, Lengths
<1>2. \A u \in Task : pc'[u] \in {pc[u], 0, 1} \/ (u = t /\ pc'[u] = n)
  BY <1>0 DEF Typed
<1>3. PcBound'
  BY <1>0, <1>1, <1>2 DEF Flagged, PcBound
<1> QED
  BY <1>0, <1>3 DEF Flagged, PcBound

LEMMA ReleaseKeeps ==
  ASSUME IInv, NEW t \in Task, NEW n, NEW ok \in BOOLEAN, Release(t, n, ok)
  PROVE wake' \in BOOLEAN /\ held' \subseteq tree.holds
BY DEF IInv, Flagged, Release

LEMMA TaskStepFlagged ==
  ASSUME IInv, NEW t \in Task, TaskStep(t)
  PROVE Flagged'
<1>0. Typed /\ Flagged /\ tree' = tree
  BY DEF IInv, TaskStep, RunCmd, CmdEnds, Emit, AddChild, CallStop
<1>1. PICK op : Doing(t, op)
  BY DEF TaskStep, RunCmd, CmdEnds, Emit, AddChild, CallStop
<1>2. /\ pc[t] \in 1..Len(Program(t)) /\ Len(Program(t)) \in Nat
      /\ pc[t] + 1 \in 0..(Len(Program(t)) + 1)
      /\ Len(Program(t)) + 1 \in 0..(Len(Program(t)) + 1) /\ pc[t] \in 0..(Len(Program(t)) + 1)
  BY <1>0, <1>1, DoingStep
<1>3. TRUE \in BOOLEAN /\ t \in {"hook", "act", "down"} \X Job
  BY DEF Task
<1>4. CASE RunCmd(t)
  <2>1. /\ procs' = procs \cup {t}
        /\ UNCHANGED <<tree, mpc, wake, tasks, started, ready, stopped, held, done, pc>>
    BY <1>4 DEF RunCmd, flags
  <2>2. \A u \in Task : Program(u)' = Program(u)
    BY <2>1 DEF Program
  <2> QED
    BY <1>0, <1>3, <2>1, <2>2 DEF Flagged
<1>5. CASE CmdEnds(t)
  <2>1. PICK ok \in BOOLEAN :
           /\ pc' = [pc EXCEPT ![t] = IF ok THEN pc[t] + 1 ELSE Len(Program(t)) + 1]
           /\ Release(t, IF ok THEN pc[t] + 1 ELSE Len(Program(t)) + 1, ok)
    BY <1>5 DEF CmdEnds
  <2>2. PICK n \in 0..(Len(Program(t)) + 1) : n = IF ok THEN pc[t] + 1 ELSE Len(Program(t)) + 1
    BY <1>2
  <2>3. wake' \in BOOLEAN /\ held' \subseteq tree.holds
    BY <2>1, ReleaseKeeps
  <2>4. /\ procs' \subseteq {"hook", "act", "down"} \X Job
        /\ UNCHANGED <<tree, mpc, started, ready, stopped, done>>
        /\ \A k \in Job : <<"watch", k>> \in tasks' => <<"watch", k>> \in tasks
    BY <1>0, <1>5 DEF CmdEnds, Flagged
  <2>5. pc' = [pc EXCEPT ![t] = n]
    BY <2>1, <2>2
  <2> QED
    BY <1>3, <2>2, <2>3, <2>4, <2>5, GoesOnFlagged
<1>6. CASE Emit(t)
  <2>1. \A u \in Task : u # t => pc'[u] \in {pc[u], 1}
    BY <1>6 DEF Emit
  <2>2. pc'[t] = pc[t] + 1
    BY <1>6 DEF Emit
  <2>3. wake' \in BOOLEAN /\ held' \subseteq tree.holds
    BY <1>3, <1>6, ReleaseKeeps DEF Emit
  <2>4. UNCHANGED <<tree, mpc, tasks, started, ready, stopped, done, procs>>
    BY <1>6 DEF Emit
  <2>5. \A u \in Task : Len(Program(u)) \in Nat /\ Program(u)' = Program(u) /\ pc[u] \in Nat
    BY <1>0, Lengths
  <2>6. PcBound'
    BY <1>0, <1>2, <2>1, <2>2, <2>5 DEF Flagged, PcBound
  <2> QED
    BY <1>0, <2>3, <2>4, <2>6 DEF Flagged, PcBound
<1>7. CASE AddChild(t)
  <2>1. PICK k \in Job, j \in Job : Adds(t, k, j)
    BY <1>7, Adding
  <2>2. /\ <<"act", k>> \in Task /\ pc'[t] = pc[t] + 1 /\ pc'[<<"act", k>>] \in {0, 1}
        /\ \A u \in Task : u # t /\ u # <<"act", k>> => pc'[u] = pc[u]
    BY <2>1 DEF Adds
  <2>3. wake' \in BOOLEAN /\ held' \subseteq tree.holds
    BY <1>0, <1>7, <2>1 DEF Adds, AddChild, Flagged
  <2>4. /\ procs' \subseteq {"hook", "act", "down"} \X Job
        /\ UNCHANGED <<tree, mpc, started, ready, stopped, done>>
    BY <1>0, <1>7 DEF AddChild, Flagged
  <2>5. \A i \in Job : <<"watch", i>> \in tasks' => <<"watch", i>> \in tasks
    BY <2>1 DEF Adds
  <2>6. PICK n \in 0..(Len(Program(t)) + 1) : n = pc[t] + 1
    BY <1>2
  <2> QED
    BY <1>3, <2>2, <2>3, <2>4, <2>5, <2>6, GoesOnFlagged
<1>8. CASE CallStop(t)
  <2>1. PICK n \in 0..(Len(Program(t)) + 1) : n = pc[t] + 1
    BY <1>2
  <2>2. /\ pc' = [pc EXCEPT ![t] = n]
        /\ UNCHANGED <<tree, mpc, wake, tasks, started, ready, stopped, held, done, procs>>
    BY <1>0, <1>8, <2>1 DEF CallStop, flags, Typed
  <2>3. /\ wake' \in BOOLEAN /\ held' \subseteq tree.holds
        /\ procs' \subseteq {"hook", "act", "down"} \X Job
        /\ \A i \in Job : <<"watch", i>> \in tasks' => <<"watch", i>> \in tasks
        /\ UNCHANGED <<tree, mpc, started, ready, stopped, done>>
    BY <1>0, <2>2 DEF Flagged
  <2> QED
    BY <1>3, <2>1, <2>2, <2>3, GoesOnFlagged
<1> QED
  BY <1>4, <1>5, <1>6, <1>7, <1>8 DEF TaskStep

(* A stop that ends, or is cut short, has begun. *)
LEMMA CutHasStopped ==
  ASSUME IInv, NEW T \in SUBSET Stacks
  PROVE StopsOf(T) \subseteq stopped
<1>1. \A j : j \in StopsOf(T) => \E p, i, t : p # "stop" /\ At(j, p, t, i)
  BY CutStops DEF IInv
<1> QED
  BY <1>1 DEF IInv, Stops

LEMMA KillFlagged ==
  ASSUME IInv, NEW j \in Job, KillAll(j), procs' \subseteq procs \cup {<<"down", j>>},
         UNCHANGED <<tree, mpc, wake, tasks, started, ready, stopped, done>>
  PROVE Flagged'
<1>0. Typed /\ Flagged /\ tree' = tree
  BY DEF IInv
<1>1. \A u \in Task : Len(Program(u)) \in Nat /\ Program(u)' = Program(u) /\ pc[u] \in Nat
  BY <1>0, Lengths
<1>2. \A u \in Task : pc'[u] \in {pc[u], Len(Program(u)) + 1}
  BY DEF KillAll
<1>3. PcBound'
  BY <1>0, <1>1, <1>2 DEF Flagged, PcBound
<1> QED
  BY <1>0, <1>3 DEF Flagged, PcBound, KillAll

LEMMA StopStepFlagged ==
  ASSUME IInv, NEW t \in DOMAIN stack, StopStep(t)
  PROVE Flagged'
<1>0. Typed /\ Flagged /\ tree' = tree /\ t \in Stacks
  BY DEF IInv, Typed, StopStep, StopCall, CancelTasks, HooksStart, HooksEnd, NextChild, StopDone
<1>1. PICK phase : InPhase(t, phase)
  BY DEF StopStep, StopCall, CancelTasks, HooksStart, HooksEnd, NextChild, StopDone
<1>2. PICK j \in Job : j = Stopping(t)
  BY <1>0, <1>1, InCall
<1>3. CASE StopCall(t)
  <2>1. UNCHANGED <<tree, mpc, tasks, started, ready, done, pc, procs>>
    BY <1>3 DEF StopCall
  <2>2. CASE j \notin stopped
    <3>1. Enter(t, stack[t], j)
      BY <1>2, <1>3, <2>2 DEF StopCall
    <3> QED
      BY <1>0, <2>1, <3>1, StopBeginsFlagged
  <2>3. CASE j \in stopped
    <3>1. UNCHANGED <<stopped, held, wake>>
      BY <1>2, <1>3, <2>3 DEF StopCall
    <3>2. mpc' \in {"start", "scan", "wait", "final", "gather", "cut", "over"} /\ wake' \in BOOLEAN
      BY <1>0, <2>1, <3>1 DEF Flagged
    <3> QED
      BY <1>0, <2>1, <3>1, <3>2, RunDrivesFlagged
  <2> QED
    BY <2>2, <2>3
<1>4. CASE CancelTasks(t)
  <2> DEFINE cut == {<<"hook", j>>, <<"act", j>>} \ {t}
  <2>1. /\ pc' = [u \in Task |-> IF u \in cut /\ pc[u] > 0 THEN Len(Program(u)) + 1 ELSE pc[u]]
        /\ tasks' \subseteq tasks
        /\ done' = done \cup StopsOf(cut) /\ wake' = (wake \/ StopsOf(cut) # {})
        /\ UNCHANGED <<tree, mpc, started, ready, stopped, held, procs>>
    BY <1>2, <1>4 DEF CancelTasks
  <2>2. cut \in SUBSET Stacks
    BY DEF Stacks, Task
  <2> HIDE DEF cut
  <2>3. StopsOf(cut) \subseteq stopped
    BY <2>2, CutHasStopped
  <2>4. wake' \in BOOLEAN
    BY <2>1
  <2>5. \A u \in Task : Len(Program(u)) \in Nat /\ Program(u)' = Program(u) /\ pc[u] \in Nat
    BY <1>0, Lengths
  <2>6. PcBound'
    BY <1>0, <2>1, <2>5 DEF Flagged, PcBound
  <2>7. done' \subseteq stopped'
    BY <1>0, <2>1, <2>3 DEF Flagged
  <2> QED
    BY <1>0, <2>1, <2>4, <2>6, <2>7 DEF Flagged, PcBound
<1>5. CASE HooksStart(t)
  <2>1. /\ KillAll(j) /\ procs' \subseteq procs \cup {<<"down", j>>}
        /\ UNCHANGED <<tree, mpc, wake, tasks, started, ready, stopped, done>>
    BY <1>2, <1>5 DEF HooksStart
  <2> QED
    BY <2>1, KillFlagged
<1>6. CASE HooksEnd(t)
  <2>1. /\ KillAll(j) /\ procs' \subseteq procs \cup {<<"down", j>>}
        /\ UNCHANGED <<tree, mpc, wake, tasks, started, ready, stopped, done>>
    BY <1>2, <1>6 DEF HooksEnd
  <2> QED
    BY <2>1, KillFlagged
<1>7. CASE NextChild(t)
  <2> DEFINE r == Last(stack[t]).rest
             s == Append(Front(stack[t]), [Last(stack[t]) EXCEPT !.rest = Tail(@)])
  <2>1. UNCHANGED <<tree, mpc, tasks, started, ready, done, pc, procs>>
    BY <1>7 DEF NextChild
  <2>2. CASE Head(r) \notin stopped
    <3>1. Enter(t, s, Head(r))
      BY <1>7, <2>2 DEF NextChild
    <3>2. Last(stack[t]) \in Calls /\ r # <<>>
      BY <1>0, <1>1, <1>7, InCall DEF NextChild
    <3>3. r \in Seq(Job)
      BY <3>2 DEF Calls
    <3>4. Head(r) \in Job
      BY <3>2, <3>3
    <3> HIDE DEF r, s
    <3>5. PICK k \in Job : k = Head(r)
      BY <3>4
    <3>6. Enter(t, s, k)
      BY <3>1, <3>5
    <3> QED
      BY <1>0, <2>1, <3>6, StopBeginsFlagged
  <2>3. CASE Head(r) \in stopped
    <3>1. UNCHANGED <<stopped, held, wake>>
      BY <1>7, <2>3 DEF NextChild
    <3>2. mpc' \in {"start", "scan", "wait", "final", "gather", "cut", "over"} /\ wake' \in BOOLEAN
      BY <1>0, <2>1, <3>1 DEF Flagged
    <3> QED
      BY <1>0, <2>1, <3>1, <3>2, RunDrivesFlagged
  <2> QED
    BY <2>2, <2>3
<1>8. CASE StopDone(t)
  <2>1. /\ InPhase(t, "kids") /\ done' = done \cup {j} /\ wake' = TRUE
        /\ UNCHANGED <<tree, mpc, tasks, started, ready, stopped, held, pc, procs>>
    BY <1>2, <1>8 DEF StopDone
  <2>2. At(j, "kids", t, Len(stack[t]))
    BY <1>0, <1>2, <2>1, InCall
  <2>3. j \in stopped
    BY <2>2 DEF IInv, Stops
  <2>4. \A u \in Task : Program(u)' = Program(u)
    BY <1>0 DEF Program
  <2> QED
    BY <1>0, <2>1, <2>3, <2>4 DEF Flagged
<1> QED
  BY <1>3, <1>4, <1>5, <1>6, <1>7, <1>8 DEF StopStep

LEMMA InterruptFlagged ==
  ASSUME IInv, Interrupt
  PROVE Flagged'
<1>0. Flagged /\ tree' = tree
  BY DEF IInv, Interrupt
<1>1. {Main} \in SUBSET Stacks
  BY DEF Stacks
<1>2. done' \subseteq stopped /\ mpc' \in {mpc, "cut"}
  BY <1>0, <1>1, CutHasStopped DEF Interrupt, Flagged
<1>3. UNCHANGED <<wake, tasks, started, ready, stopped, held, pc, procs>>
  BY DEF Interrupt
<1>4. \A u \in Task : Program(u)' = Program(u)
  BY <1>0 DEF Program
<1> QED
  BY <1>0, <1>2, <1>3, <1>4 DEF Flagged

---------------------------------------------------------------------------
(* All of it together.                                                     *)

LEMMA Start0 ==
  ASSUME Init
  PROVE IInv /\ Quiet
<1>0. /\ tree \in Trees /\ ends = tree.ends /\ mpc = "start" /\ kids = tree.kids
      /\ tasks = {} /\ started = {} /\ ready = {} /\ stopped = {} /\ done = {} /\ wake = FALSE
      /\ held = tree.holds \ tree.late
      /\ queue = {} /\ seen = [j \in Job |-> {}] /\ fired = {}
      /\ pc = [t \in Task |-> 0] /\ procs = {} /\ astray = {}
      /\ stack = [t \in Task \cup {Main, Outer} |-> <<>>]
  BY DEF Init
<1>1. /\ tree.kids \in [Job -> Seq(Job)]
      /\ \A j \in Job : \A k \in ToSet(tree.kids[j]) : k # Root /\ tree.parent[k] = j
  BY <1>0, TreeParts
<1>2. \A t \in Stacks : stack[t] = <<>>
  BY <1>0 DEF Stacks
<1>3. Typed
  BY <1>0, <1>1 DEF Typed, Stacks
<1>4. Heard
  BY <1>0, TreeParts DEF Heard
<1>5. Launched
  BY <1>0, <1>1, <1>2 DEF Launched, Parent, Task
<1>6. \A t \in Task : pc[t] = 0 /\ Len(Program(t)) \in Nat
  BY <1>0, <1>3, ProgramType DEF Task
<1>7. Flagged
  <2>1. \A t \in Task : pc[t] \in 0..(Len(Program(t)) + 1)
    BY <1>6
  <2>2. held \subseteq tree.holds
    BY <1>0
  <2> QED
    BY <1>0, <2>1, <2>2 DEF Flagged
<1>8. \A j, p, t, i : ~At(j, p, t, i)
  BY <1>2 DEF At
<1>9. Stops
  BY <1>2, <1>8 DEF Stops, Stacks, Task
<1>10. Quiet
  BY <1>0, <1>2, <1>6 DEF Quiet, AtStep, Past, Stacks
<1> QED
  BY <1>3, <1>4, <1>5, <1>7, <1>9, <1>10 DEF IInv
---------------------------------------------------------------------------
(* The invariant is kept.                                                  *)

LEMMA TaskStepLaunched ==
  ASSUME IInv, NEW t \in Task, TaskStep(t)
  PROVE Launched'
<1>1. /\ Typed /\ Launched /\ pc \in [Task -> Nat]
      /\ \A j \in Job : pc[<<"hook", j>>] > 0 => j \in started
  BY DEF IInv, Typed, Launched
<1>2. \A j \in Job : <<"hook", j>> \in Task
  BY DEF Task
<1>3. CASE RunCmd(t)
  <2>1. UNCHANGED <<tree, kids, started, mpc, tasks, stopped, stack, pc>>
    BY <1>3 DEF RunCmd, flags
  <2> QED
    BY <1>1, <2>1, LaunchedKept
<1>4. CASE CmdEnds(t)
  <2>1. UNCHANGED <<tree, kids, started, mpc, tasks, stopped, stack>>
    BY <1>4 DEF CmdEnds
  <2>2. pc[t] > 0
    <3>1. Doing(t, "run")
      BY <1>4 DEF CmdEnds
    <3> QED
      BY <1>1, <3>1, DoingStep
  <2>3. PICK n : pc' = [pc EXCEPT ![t] = n]
    BY <1>4 DEF CmdEnds
  <2>4. \A k \in Job : pc'[<<"hook", k>>] > 0 => pc[<<"hook", k>>] > 0
    BY <1>1, <1>2, <2>2, <2>3
  <2> QED
    BY <1>1, <2>1, <2>4, LaunchedKept
<1>5. CASE Emit(t)
  <2>1. UNCHANGED <<tree, kids, started, mpc, tasks, stopped, stack>>
    BY <1>5 DEF Emit
  <2>2. pc[t] > 0
    <3>1. Doing(t, "emit")
      BY <1>5 DEF Emit
    <3> QED
      BY <1>1, <3>1, DoingStep
  <2>3. PICK F : pc' = [u \in Task |-> IF u = t THEN pc[t] + 1
                                   ELSE IF u[1] = "act" /\ u[2] \in F THEN 1
                                   ELSE pc[u]]
    BY <1>5 DEF Emit
  <2>4. \A k \in Job : pc'[<<"hook", k>>] > 0 => pc[<<"hook", k>>] > 0
    BY <1>1, <1>2, <2>2, <2>3
  <2> QED
    BY <1>1, <2>1, <2>4, LaunchedKept
<1>6. CASE AddChild(t)
  BY <1>6, AddChildLaunched
<1>7. CASE CallStop(t)
  <2>1. UNCHANGED <<tree, kids, started, mpc, tasks, stopped>> /\ pc' = [pc EXCEPT ![t] = @ + 1]
    BY <1>7 DEF CallStop, flags
  <2>2. pc[t] > 0 /\ t[1] = "hook"
    <3>1. Doing(t, "stop")
      BY <1>7 DEF CallStop
    <3> QED
      BY <1>1, <3>1, DoingStep
  <2>3. PICK j \in Job : t = <<"hook", j>>
    BY <2>2 DEF Task
  <2>4. mpc # "start"
    BY <1>1, <2>2, <2>3 DEF Launched
  <2>5. \A k \in Job : pc'[<<"hook", k>>] > 0 => pc[<<"hook", k>>] > 0
    BY <1>1, <1>2, <2>1, <2>2
  <2> QED
    BY <1>1, <2>1, <2>4, <2>5, LaunchedKept
<1> QED
  BY <1>3, <1>4, <1>5, <1>6, <1>7 DEF TaskStep

LEMMA StopStepLaunched ==
  ASSUME IInv, NEW t \in DOMAIN stack, StopStep(t)
  PROVE Launched'
<1>1. /\ Launched /\ pc \in [Task -> Nat] /\ t \in Stacks
  BY DEF IInv, Typed
<1>2. stack[t] # <<>>
  BY DEF StopStep, StopCall, CancelTasks, HooksStart, HooksEnd, NextChild, StopDone, InPhase
<1>3. mpc # "start"
  BY <1>1, <1>2 DEF Launched
<1>4. /\ UNCHANGED <<tree, kids, started, mpc>>
      /\ \A k \in Job : <<"launch", k>> \in tasks' => <<"launch", k>> \in tasks
  BY DEF StopStep, StopCall, CancelTasks, HooksStart, HooksEnd, NextChild, StopDone
<1>5. \A k \in Job : pc'[<<"hook", k>>] > 0 => pc[<<"hook", k>>] > 0
  <2>1. CASE pc' = pc
    BY <2>1
  <2>2. CASE CancelTasks(t)
    <3>1. PICK C, n : pc' = [u \in Task |-> IF u \in C /\ pc[u] > 0 THEN n[u] ELSE pc[u]]
      <4>1. PICK C : pc' = [u \in Task |-> IF u \in C /\ pc[u] > 0
                                           THEN Len(Program(u)) + 1 ELSE pc[u]]
        BY <2>2 DEF CancelTasks
      <4> DEFINE m == [u \in Task |-> Len(Program(u)) + 1]
      <4>2. pc' = [u \in Task |-> IF u \in C /\ pc[u] > 0 THEN m[u] ELSE pc[u]]
        BY <4>1
      <4> QED
        BY <4>2
    <3> QED
      BY <3>1 DEF Task
  <2>3. CASE HooksStart(t) \/ HooksEnd(t)
    <3>1. PICK j : KillAll(j)
      BY <2>3 DEF HooksStart, HooksEnd
    <3>2. \A u \in Task : pc'[u] # pc[u] => AtStep(u)
      BY <3>1 DEF KillAll
    <3>3. \A u \in Task : AtStep(u) => pc[u] > 0
      BY <1>1 DEF AtStep
    <3> QED
      BY <3>2, <3>3 DEF Task
  <2> QED
    BY <2>1, <2>2, <2>3 DEF StopStep, StopCall, NextChild, StopDone
<1> QED
  BY <1>1, <1>3, <1>4, <1>5, LaunchedKept
LEMMA RunKeeps ==
  ASSUME IInv, Run
  PROVE IInv' /\ (Quiet => Quiet')
<1>1. /\ mpc = "start" /\ mpc' = "scan" /\ Launch(Root)
      /\ UNCHANGED <<tree, ends, wake, kids, ready, stopped, held, done, queue, seen, fired,
                     procs, stack, downs, astray>>
  BY DEF Run, waiters
<1>2. /\ Launched /\ Root \in Job /\ Root \in Present
  BY JobTreeAssumption DEF IInv, Present
<1>3. Root \notin started /\ Root \notin stopped
  BY <1>1, <1>2 DEF Launched
<1>4. Typed' /\ Stops' /\ (Quiet => Quiet')
  BY <1>1, <1>2, <1>3, Launching
<1>5. Heard'
  BY <1>1, HeardKept
<1>6. Launched'
  BY <1>1, <1>2, <1>3, LaunchLaunched
<1>7. Flagged'
  BY <1>1, <1>2, <1>3, LaunchFlagged
<1> QED
  BY <1>4, <1>5, <1>6, <1>7 DEF IInv

LEMMA StartKeeps ==
  ASSUME IInv, NEW j \in Job, Start(j)
  PROVE IInv' /\ (Quiet => Quiet')
<1>1. /\ <<"launch", j>> \in tasks
      /\ UNCHANGED <<tree, ends, mpc, wake, kids, ready, stopped, held, done, queue, seen,
                     fired, procs, stack, downs, astray>>
  BY DEF Start, waiters
<1>2. Launched /\ Flagged
  BY DEF IInv
<1>3. mpc # "start"
  BY <1>1, <1>2 DEF Launched
<1>4. Heard'
  BY <1>1, HeardKept
<1>5. CASE j \in stopped
  <2>1. tasks' = tasks \ {<<"launch", j>>} /\ UNCHANGED <<started, pc>>
    BY <1>5 DEF Start
  <2>2. Typed' /\ Stops' /\ (Quiet => Quiet')
    BY <1>1, <2>1, Idling
  <2>3. Launched'
    BY <1>1, <1>2, <1>3, <2>1, LaunchedKept
  <2>4. Flagged'
    BY <1>1, <1>2, <2>1 DEF Flagged, Program
  <2> QED
    BY <1>4, <2>2, <2>3, <2>4 DEF IInv
<1>6. CASE j \notin stopped
  <2>1. Launch(j)
    BY <1>6 DEF Start
  <2>2. j \notin started /\ j \in Present /\ (j = Root \/ Parent(j) \in started)
    BY <1>1, <1>2 DEF Launched
  <2>3. Typed' /\ Stops' /\ (Quiet => Quiet')
    BY <1>1, <1>6, <2>1, <2>2, Launching
  <2>4. Launched'
    BY <1>1, <1>3, <2>1, <2>2, LaunchLaunched
  <2>5. Flagged'
    BY <1>1, <2>1, <2>2, LaunchFlagged
  <2> QED
    BY <1>4, <2>3, <2>4, <2>5 DEF IInv
<1> QED
  BY <1>5, <1>6

LEMMA BecomeReadyKeeps ==
  ASSUME IInv, NEW j \in Job, BecomeReady(j)
  PROVE IInv' /\ (Quiet => Quiet')
<1>1. /\ tasks' = tasks \ {<<"watch", j>>}
      /\ UNCHANGED <<tree, ends, mpc, kids, started, stopped, held, done, queue, seen,
                     fired, pc, procs, stack, astray>>
  BY DEF BecomeReady, waiters
<1>2. Typed' /\ Stops' /\ (Quiet => Quiet')
  BY <1>1, Idling
<1>3. Heard'
  BY <1>1, HeardKept
<1>4. Launched'
  <2>1. mpc # "start"
    BY DEF BecomeReady, IInv, Launched
  <2> QED
    BY <1>1, <2>1, LaunchedKept DEF IInv
<1>5. Flagged'
  BY BecomeReadyFlagged
<1> QED
  BY <1>2, <1>3, <1>4, <1>5 DEF IInv

LEMMA TaskStepKeeps ==
  ASSUME IInv, NEW t \in Task, TaskStep(t)
  PROVE IInv' /\ (StopsLast /\ Quiet => Quiet')
<1>1. Typed' /\ Stops' /\ (StopsLast /\ Quiet => Quiet')
  BY RunCmdStep, CmdEndsStep, EmitStep, AddChildStep, CallStopStep DEF TaskStep
<1>2. Heard'
  <2>1. CASE RunCmd(t) \/ CmdEnds(t) \/ CallStop(t)
    <3>1. UNCHANGED <<tree, kids, queue, seen, fired>>
      BY <2>1 DEF RunCmd, CmdEnds, CallStop, waiters
    <3> QED
      BY <3>1, HeardKept
  <2> QED
    BY <2>1, EmitHeard, AddChildHeard DEF TaskStep
<1>3. Launched' /\ Flagged'
  BY TaskStepLaunched, TaskStepFlagged
<1> QED
  BY <1>1, <1>2, <1>3 DEF IInv

LEMMA StopStepKeeps ==
  ASSUME IInv, NEW t \in DOMAIN stack, StopStep(t)
  PROVE IInv' /\ (Quiet => Quiet')
<1>1. Typed' /\ Stops' /\ (Quiet => Quiet')
  BY StopCallStep, CancelTasksStep, HooksStartStep, HooksEndStep, NextChildStep, StopDoneStep
  DEF StopStep
<1>2. UNCHANGED <<tree, kids, queue, seen, fired>>
  BY DEF StopStep, StopCall, CancelTasks, HooksStart, HooksEnd, NextChild, StopDone, waiters
<1>3. Heard'
  BY <1>2, HeardKept
<1>4. Launched' /\ Flagged'
  BY StopStepLaunched, StopStepFlagged
<1> QED
  BY <1>1, <1>3, <1>4 DEF IInv

(* run() begins to stop a job itself. *)
LEMMA MainKeeps ==
  ASSUME IInv, ScanStops \/ FinalStop
  PROVE IInv' /\ (Quiet => Quiet')
<1>1. /\ stack[Main] = <<>> /\ mpc \in {"scan", "final"}
      /\ UNCHANGED <<tree, ends, mpc, kids, tasks, started, ready, done, queue, seen,
                     fired, pc, procs, downs, astray>>
  BY DEF ScanStops, FinalStop, waiters
<1>2. PICK j \in Job : j \notin stopped /\ Enter(Main, <<>>, j)
  BY JobTreeAssumption DEF ScanStops, FinalStop
<1>3. Typed' /\ Stops' /\ (Quiet => Quiet')
  BY <1>1, <1>2, MainStops
<1>4. Heard'
  BY <1>1, HeardKept
<1>5. Launched'
  BY <1>1, LaunchedKept DEF IInv
<1>6. Flagged'
  BY <1>1, <1>2, StopBeginsFlagged DEF IInv
<1> QED
  BY <1>3, <1>4, <1>5, <1>6 DEF IInv

(* run() goes on, or the process ends. *)
LEMMA DrivingKeeps ==
  ASSUME IInv, ScanEnds \/ Wakes \/ Gather \/ Over
  PROVE IInv' /\ (Quiet => Quiet')
<1>1. /\ mpc' \in {"scan", "wait", "final", "gather", "over"} /\ wake' \in {wake, FALSE}
      /\ UNCHANGED <<tree, ends, kids, tasks, started, ready, stopped, held, done, queue,
                     seen, fired, pc, procs, stack, downs, astray>>
  BY DEF ScanEnds, Wakes, Gather, Over, flags, waiters
<1>2. Typed' /\ Stops' /\ (Quiet => Quiet')
  BY <1>1, Idling
<1>3. Heard'
  BY <1>1, HeardKept
<1>4. Launched'
  BY <1>1, LaunchedKept DEF IInv
<1>5. Flagged'
  <2>1. Flagged /\ wake' \in BOOLEAN
    BY <1>1 DEF IInv, Flagged
  <2> QED
    BY <1>1, <2>1, RunDrivesFlagged
<1> QED
  BY <1>2, <1>3, <1>4, <1>5 DEF IInv

LEMMA InterruptKeeps ==
  ASSUME IInv, Interrupt
  PROVE IInv' /\ (Quiet => Quiet')
<1>1. /\ mpc # "start" /\ mpc' \in {mpc, "cut"}
      /\ UNCHANGED <<tree, kids, tasks, started, queue, seen, fired, pc>>
  BY DEF Interrupt, waiters
<1>2. Typed' /\ Stops' /\ (Quiet => Quiet') /\ Flagged'
  BY InterruptStep, InterruptFlagged
<1>3. Heard'
  BY <1>1, HeardKept
<1>4. Launched'
  BY <1>1, LaunchedKept DEF IInv
<1> QED
  BY <1>2, <1>3, <1>4 DEF IInv

LEMMA StutterKeeps ==
  ASSUME IInv, UNCHANGED vars
  PROVE IInv' /\ (Quiet => Quiet')
<1>1. UNCHANGED <<tree, ends, mpc, scan, wake, kids, tasks, started, ready, stopped, held,
                  done, queue, seen, fired, pc, procs, stack, downs, astray>>
  BY DEF vars
<1>2. Typed' /\ Stops' /\ (Quiet => Quiet')
  BY <1>1, Idling
<1>3. Heard' /\ Launched'
  BY <1>1, HeardKept, LaunchedKept DEF IInv
<1>4. Flagged'
  BY <1>1 DEF IInv, Flagged, Program
<1> QED
  BY <1>2, <1>3, <1>4 DEF IInv

LEMMA StepKeeps ==
  ASSUME IInv, [Next]_vars
  PROVE IInv' /\ (StopsLast /\ Quiet => Quiet')
<1>1. CASE Run
  BY <1>1, RunKeeps
<1>2. ASSUME NEW j \in Job, Start(j) \/ BecomeReady(j)
      PROVE IInv' /\ (Quiet => Quiet')
  BY <1>2, StartKeeps, BecomeReadyKeeps
<1>3. ASSUME NEW t \in Task, TaskStep(t)
      PROVE IInv' /\ (StopsLast /\ Quiet => Quiet')
  BY <1>3, TaskStepKeeps
<1>4. ASSUME NEW t \in DOMAIN stack, StopStep(t)
      PROVE IInv' /\ (Quiet => Quiet')
  BY <1>4, StopStepKeeps
<1>5. CASE RunStep
  BY <1>5, MainKeeps, DrivingKeeps DEF RunStep
<1>6. CASE Interrupt
  BY <1>6, InterruptKeeps
<1>7. CASE UNCHANGED vars
  BY <1>7, StutterKeeps
<1> QED
  BY <1>1, <1>2, <1>3, <1>4, <1>5, <1>6, <1>7 DEF Next, AllOver

---------------------------------------------------------------------------
(* What follows.                                                           *)

(* What is known of every state of a tree, whatever its hooks do. *)
THEOREM JobTreeInvariant == Spec => []IInv
<1>1. Init => IInv
  BY Start0
<1>2. IInv /\ [Next]_vars => IInv'
  BY StepKeeps
<1> QED
  BY <1>1, <1>2, PTL DEF Spec

(* No event is lost between a deployer's dependencies and its waiters: in  *)
(* any tree, with any number of jobs, events and waiters, made before the  *)
(* run or by a hook in the middle of it, a registered waiter has fired if  *)
(* and only if all it waits for has been emitted.                          *)
THEOREM EventsReachWaiters == Spec => []NoEventLost
<1>1. Heard => NoEventLost
  BY DEF Heard, NoEventLost
<1> QED
  BY <1>1, JobTreeInvariant, PTL DEF IInv

(* The flags of a job are in order: no job is ready that has not started,  *)
(* or watched that is ready, none has done with stopping that never began, *)
(* none is held that no waiter holds, no task is past its program's end,   *)
(* and a waiter has seen all it waits for when it fires.                   *)
THEOREM FlagsInOrder == Spec => []FlagsOK
<1>1. IInv => FlagsOK
  BY DEF IInv, Typed, Heard, Flagged, FlagsOK
<1> QED
  BY <1>1, JobTreeInvariant, PTL

LEMMA QuietStopped ==
  ASSUME IInv, Quiet
  PROVE StoppedIsQuiet
<1>1. ASSUME NEW j \in done \ astray PROVE ~Working(j)
  <2>1. /\ j \in stopped /\ j \in Job
    BY DEF IInv, Flagged
  <2>2. \A p, t, i : At(j, p, t, i) => p = "stop"
    BY DEF IInv, Stops
  <2>3. Past(j, {"notify"}) /\ Past(j, {"notify", "kill"})
    BY <2>1, <2>2 DEF Past
  <2>4. ASSUME NEW t \in Task, t[2] = j PROVE ~AtStep(t) /\ t \notin procs
    BY <2>3, <2>4 DEF Quiet
  <2>5. <<"down", j>> \notin procs
    BY <2>1, <2>2 DEF Quiet
  <2>6. procs \cap Processes(j) = {}
    BY <2>1, <2>4, <2>5 DEF Processes, Task
  <2> QED
    BY <2>4, <2>6 DEF Working
<1>2. ASSUME NEW j \in Job \ astray, <<"down", j>> \in procs
      PROVE {<<"hook", j>>, <<"act", j>>} \cap procs = {}
  <2>1. PICK t, i : At(j, "hooks", t, i)
    BY <1>2 DEF Quiet
  <2>2. j \in stopped
    BY <2>1 DEF IInv, Stops
  <2>3. ASSUME NEW p \in {"notify", "kill"}, NEW u, NEW n PROVE ~At(j, p, u, n)
    <3>1. SUFFICES ASSUME At(j, p, u, n) PROVE FALSE
      OBVIOUS
    <3>2. t = u /\ i = n
      BY <2>1, <3>1 DEF IInv, Stops
    <3> QED
      BY <2>1, <3>1, <3>2 DEF At
  <2>4. Past(j, {"notify", "kill"})
    BY <2>2, <2>3 DEF Past
  <2>5. <<"hook", j>> \notin procs /\ <<"act", j>> \notin procs
    BY <2>4 DEF Quiet, Task
  <2> QED
    BY <2>5
<1> QED
  BY <1>1, <1>2 DEF StoppedIsQuiet

(* A job that has stopped does nothing any more, and its stop hooks work   *)
(* alone, but for the jobs that are astray.  The hypothesis says that a    *)
(* hook that calls stop() has nothing left to do: after it, its own job    *)
(* may have stopped around it.                                             *)
THEOREM StoppedStaysQuiet ==
  ASSUME StopsLast
  PROVE Spec => []StoppedIsQuiet
<1>1. Init => IInv /\ Quiet
  BY Start0
<1>2. IInv /\ Quiet /\ [Next]_vars => IInv' /\ Quiet'
  BY StepKeeps, StopsLast
<1>3. IInv /\ Quiet => StoppedIsQuiet
  BY QuietStopped
<1> QED
  BY <1>1, <1>2, <1>3, PTL DEF Spec

---------------------------------------------------------------------------
(* The tree, and who is at work.                                           *)

Orderly ==
  /\ ends \in {tree.ends, "itself"}
  /\ Present \subseteq Reach(kids, Root)
  /\ fired \subseteq Present
  /\ \A j \in Job : pc[<<"act", j>>] > 0 => j \in fired
  /\ \A j \in ready : ~AtStep(<<"hook", j>>)

(* No task begins its program, or goes back to it. *)
NoNewStep == \A t \in Task : (AtStep(t)' => AtStep(t)) /\ (pc'[t] > 0 => pc[t] > 0)

LEMMA TasksOf == \A j \in Job : <<"hook", j>> \in Task /\ <<"act", j>> \in Task
BY DEF Task

LEMMA TaskIs ==
  ASSUME NEW t \in Task
  PROVE \E j \in Job : t = <<"hook", j>> \/ t = <<"act", j>>
BY DEF Task

LEMMA AtStepAt ==
  ASSUME IInv, NEW t \in Task
  PROVE /\ pc[t] \in Nat /\ Len(Program(t)) \in Nat
        /\ AtStep(t) <=> pc[t] > 0 /\ pc[t] <= Len(Program(t))
<1>1. pc[t] \in Nat /\ tree \in Trees
  BY DEF IInv, Typed
<1>2. Len(Program(t)) \in Nat
  BY <1>1, ProgramType, TaskIs
<1> QED
  BY <1>1, <1>2 DEF AtStep

LEMMA PresentJobs == Typed => Present \subseteq Job
<1> SUFFICES ASSUME Typed PROVE Present \subseteq Job
  OBVIOUS
<1>1. kids \in [Job -> Seq(Job)] /\ Root \in Job
  BY JobTreeAssumption DEF Typed
<1>2. ASSUME NEW j \in Job PROVE ToSet(kids[j]) \subseteq Job
  <2>1. kids[j] \in Seq(Job)
    BY <1>1
  <2> QED
    BY <2>1 DEF ToSet
<1> QED
  BY <1>1, <1>2 DEF Present

LEMMA OrderlyKept ==
  ASSUME IInv, Orderly, UNCHANGED <<tree, kids, fired>>, ends' \in {ends, "itself"},
         ready' \subseteq ready, NoNewStep
  PROVE Orderly'
<1>1. Present' = Present
  BY DEF Present
<1>2. ready \subseteq Job
  BY DEF IInv, Flagged
<1>3. \A j \in ready' : ~AtStep(<<"hook", j>>)'
  BY <1>2, TasksOf DEF Orderly, NoNewStep
<1>4. \A j \in Job : pc'[<<"act", j>>] > 0 => j \in fired'
  BY TasksOf DEF Orderly, NoNewStep
<1>5. Present' \subseteq Reach(kids', Root)
  BY <1>1 DEF Orderly
<1> QED
  BY <1>1, <1>3, <1>4, <1>5 DEF Orderly

LEMMA LaunchOrderly ==
  ASSUME IInv, Orderly, NEW j \in Job, j \notin started, Launch(j),
         UNCHANGED <<tree, ends, kids, fired, ready>>
  PROVE Orderly'
<1>1. Present' = Present
  BY DEF Present
<1>2. pc' = [pc EXCEPT ![<<"hook", j>>] = 1] /\ pc \in [Task -> Nat]
  BY DEF Launch, IInv, Typed
<1>3. j \notin ready /\ ready \subseteq Job
  BY DEF IInv, Flagged
<1>4. \A k \in ready' : ~AtStep(<<"hook", k>>)'
  BY <1>2, <1>3, TasksOf DEF Orderly, AtStep, Program
<1>5. \A k \in Job : pc'[<<"act", k>>] > 0 => k \in fired'
  BY <1>2, TasksOf DEF Orderly
<1>6. Present' \subseteq Reach(kids', Root)
  BY <1>1 DEF Orderly
<1> QED
  BY <1>1, <1>4, <1>5, <1>6 DEF Orderly

LEMMA EmitOrderly ==
  ASSUME IInv, Orderly, NEW t \in Task, Emit(t)
  PROVE Orderly'
<1>1. Present' = Present /\ UNCHANGED <<tree, ends, kids, ready>>
  BY DEF Emit, Present
<1>2. PICK e : /\ fired' = fired \cup Fires(e)
               /\ pc' = [u \in Task |-> IF u = t THEN pc[t] + 1
                                   ELSE IF u[1] = "act" /\ u[2] \in Fires(e) THEN 1
                                   ELSE pc[u]]
  BY DEF Emit, Hear
<1>3. AtStep(t) /\ pc[t] > 0
  <2>1. Doing(t, "emit")
    BY DEF Emit
  <2> QED
    BY <2>1, AtStepAt DEF Doing
<1>4. Fires(e) \subseteq Present
  BY DEF Fires
<1>5. ASSUME NEW k \in ready' PROVE ~AtStep(<<"hook", k>>)'
  <2>1. k \in ready /\ k \in Job
    BY <1>1 DEF IInv, Flagged
  <2>2. ~AtStep(<<"hook", k>>) /\ <<"hook", k>> \in Task /\ <<"hook", k>> # t
    BY <1>3, <2>1, TasksOf DEF Orderly
  <2>3. pc'[<<"hook", k>>] = pc[<<"hook", k>>]
    BY <1>2, <2>2
  <2> QED
    BY <1>1, <2>2, <2>3 DEF AtStep, Program
<1>6. ASSUME NEW k \in Job, pc'[<<"act", k>>] > 0 PROVE k \in fired'
  <2>1. CASE <<"act", k>> = t
    BY <1>2, <1>3, <2>1 DEF Orderly
  <2>2. CASE <<"act", k>> # t
    BY <1>2, <1>6, <2>2, TasksOf DEF Orderly
  <2> QED
    BY <2>1, <2>2
<1>7. Present' \subseteq Reach(kids', Root) /\ fired' \subseteq Present'
  BY <1>1, <1>2, <1>4 DEF Orderly
<1> QED
  BY <1>1, <1>5, <1>6, <1>7 DEF Orderly

(* A hook adds to its own job. *)
LEMMA AddedToOwn ==
  ASSUME IInv, AddsToOwn, NEW t \in Task, AddChild(t), NEW k, NEW j, Adds(t, k, j)
  PROVE t = <<"hook", j>> /\ j \in started
<1>1. tree \in Trees /\ Doing(t, "add") /\ Typed
  BY DEF IInv, Typed, AddChild
<1>2. /\ pc[t] \in 1..Len(Program(t)) /\ Len(Program(t)) \in Nat /\ t[1] = "hook"
      /\ Program(t)[pc[t]][1] = "add" /\ pc[t] > 0
  <2>1. Program(t)[pc[t]][1] = "add"
    BY <1>1 DEF Doing
  <2> QED
    BY <1>1, <2>1, DoingStep
<1>3. PICK m \in Job : t = <<"hook", m>>
  BY <1>2 DEF Task
<1>4. /\ Program(t) = tree.hook[m]
      /\ tree.hook[m] \in Seq(Emits \cup ({"run", "stop", "add", "sleep"} \X Job))
  BY <1>1, <1>3, ProgramType DEF Program
<1>5. pc[t] \in DOMAIN tree.hook[m] /\ tree.hook[m][pc[t]][1] = "add"
  BY <1>2, <1>4
<1>6. tree.parent[tree.hook[m][pc[t]][2]] = m
  BY <1>1, <1>5 DEF AddsToOwn
<1>7. j = m
  BY <1>4, <1>6 DEF Adds, Parent
<1>8. m \in started
  BY <1>2, <1>3 DEF IInv, Launched
<1> QED
  BY <1>3, <1>7, <1>8

LEMMA AddChildOrderly ==
  ASSUME IInv, AddsToOwn, Orderly, NEW t \in Task, AddChild(t)
  PROVE Orderly'
<1>1. PICK k \in Job, j \in Job : Adds(t, k, j)
  BY Adding
<1>2. t = <<"hook", j>> /\ j \in started
  BY <1>1, AddedToOwn
<1>3. /\ Present' = Present \cup {k}
      /\ \A i \in Job : ToSet(kids'[i]) = ToSet(kids[i]) \cup (IF i = j THEN {k} ELSE {})
  BY <1>1, AddedPresent DEF Adds, IInv
<1>4. UNCHANGED <<tree, ends, ready>> /\ Doing(t, "add")
  BY DEF AddChild
<1>5. j \in Present
  BY <1>2 DEF IInv, Launched
<1>6. Present' \subseteq Reach(kids', Root)
  <2>0. Present' \subseteq Job
    BY <1>3, PresentJobs DEF IInv
  <2> SUFFICES ASSUME NEW i \in Present', NEW S \in SUBSET Job, Root \in S, Closed(kids', S)
               PROVE i \in S
    BY <2>0 DEF Reach
  <2>1. Closed(kids, S)
    BY <1>3 DEF Closed
  <2>2. Present \subseteq S
    BY <2>1 DEF Orderly, Reach
  <2>3. k \in S
    BY <1>3, <1>5, <2>2 DEF Closed
  <2> QED
    BY <1>3, <2>2, <2>3
<1>7. fired' \subseteq Present'
  BY <1>1, <1>3 DEF Adds, Replay, Orderly
<1>8. ASSUME NEW i \in ready' PROVE ~AtStep(<<"hook", i>>)'
  <2>1. i \in ready /\ i \in Job /\ AtStep(t)
    BY <1>4 DEF IInv, Flagged, Doing
  <2>2. ~AtStep(<<"hook", i>>) /\ <<"hook", i>> \in Task
    BY <2>1, TasksOf DEF Orderly
  <2>3. pc'[<<"hook", i>>] = pc[<<"hook", i>>]
    BY <1>1, <2>1, <2>2 DEF Adds
  <2> QED
    BY <1>4, <2>2, <2>3 DEF AtStep, Program
<1>9. ASSUME NEW i \in Job, pc'[<<"act", i>>] > 0 PROVE i \in fired'
  <2>1. CASE i = k
    <3>1. pc'[<<"act", k>>] = IF k \in fired' THEN 1 ELSE 0
      BY <1>1 DEF Adds
    <3>2. pc'[<<"act", k>>] > 0
      BY <1>9, <2>1
    <3>3. k \notin fired' => pc'[<<"act", k>>] = 0
      BY <3>1
    <3> QED
      BY <2>1, <3>2, <3>3
  <2>2. CASE i # k
    <3>1. <<"act", i>> \in Task /\ <<"act", i>> # t /\ <<"act", i>> # <<"act", k>>
      BY <1>2, <2>2, TasksOf
    <3>2. pc'[<<"act", i>>] = pc[<<"act", i>>]
      BY <1>1, <3>1 DEF Adds
    <3>3. i \in fired
      BY <1>9, <3>2 DEF Orderly
    <3> QED
      BY <1>1, <3>3 DEF Adds, Replay
  <2> QED
    BY <2>1, <2>2
<1> QED
  BY <1>4, <1>6, <1>7, <1>8, <1>9 DEF Orderly

LEMMA NothingNew ==
  ASSUME UNCHANGED <<tree, pc>>
  PROVE NoNewStep
BY DEF NoNewStep, AtStep, Program

LEMMA MovesOn ==
  ASSUME IInv, tree' = tree, NEW t \in Task, AtStep(t), NEW n, pc' = [pc EXCEPT ![t] = n]
  PROVE NoNewStep
<1>1. pc \in [Task -> Nat] /\ pc[t] > 0
  BY AtStepAt DEF IInv, Typed
<1>2. ASSUME NEW u \in Task, u # t PROVE pc'[u] = pc[u] /\ Program(u)' = Program(u)
  BY <1>1, <1>2 DEF Program
<1> QED
  BY <1>1, <1>2 DEF NoNewStep, AtStep

LEMMA TaskStepMovesOn ==
  ASSUME IInv, NEW t \in Task, RunCmd(t) \/ CmdEnds(t) \/ CallStop(t)
  PROVE NoNewStep
<1>1. tree' = tree /\ AtStep(t)
  BY DEF RunCmd, CmdEnds, CallStop, Doing
<1>2. CASE RunCmd(t)
  BY <1>2, NothingNew DEF RunCmd
<1>3. CASE CmdEnds(t)
  <2>1. PICK n : pc' = [pc EXCEPT ![t] = n]
    BY <1>3 DEF CmdEnds
  <2> QED
    BY <1>1, <2>1, MovesOn
<1>4. CASE CallStop(t)
  <2>1. PICK n : pc' = [pc EXCEPT ![t] = n]
    BY <1>4 DEF CallStop
  <2> QED
    BY <1>1, <2>1, MovesOn
<1> QED
  BY <1>2, <1>3, <1>4

(* A stop only ends programs. *)
LEMMA StopEndsPrograms ==
  ASSUME IInv, NEW t \in DOMAIN stack, StopStep(t)
  PROVE /\ NoNewStep
        /\ UNCHANGED <<tree, ends, mpc, kids, queue, seen, fired, started, ready>>
        /\ \A j \in Job : <<"launch", j>> \in tasks' => <<"launch", j>> \in tasks
<1>1. /\ UNCHANGED <<tree, ends, mpc, kids, queue, seen, fired, started, ready>>
      /\ \A j \in Job : <<"launch", j>> \in tasks' => <<"launch", j>> \in tasks
  BY DEF StopStep, StopCall, CancelTasks, HooksStart, HooksEnd, NextChild, StopDone, waiters
<1> DEFINE Ended(u) == Len(Program(u)) + 1
<1>2. NoNewStep
  <2>1. CASE StopCall(t) \/ NextChild(t) \/ StopDone(t)
    <3>1. UNCHANGED <<tree, pc>>
      BY <2>1 DEF StopCall, NextChild, StopDone
    <3> QED
      BY <3>1, NothingNew
  <2>2. CASE CancelTasks(t) \/ HooksStart(t) \/ HooksEnd(t)
    <3>1. ASSUME NEW u \in Task
          PROVE pc'[u] = pc[u] \/ (pc[u] > 0 /\ pc'[u] = Ended(u))
      <4>1. CASE CancelTasks(t)
        BY <4>1 DEF CancelTasks
      <4>2. CASE HooksStart(t) \/ HooksEnd(t)
        <5>1. PICK j : KillAll(j)
          BY <4>2 DEF HooksStart, HooksEnd
        <5>2. pc'[u] = pc[u] \/ (AtStep(u) /\ pc'[u] = Ended(u))
          BY <5>1 DEF KillAll
        <5> QED
          BY <5>2, AtStepAt
      <4> QED
        BY <2>2, <4>1, <4>2
    <3>2. ASSUME NEW u \in Task PROVE (AtStep(u)' => AtStep(u)) /\ (pc'[u] > 0 => pc[u] > 0)
      <4>1. Program(u)' = Program(u)
        BY <1>1 DEF Program
      <4>2. Len(Program(u)) \in Nat
        BY AtStepAt
      <4>3. CASE pc'[u] = pc[u]
        BY <4>1, <4>3 DEF AtStep
      <4>4. CASE pc[u] > 0 /\ pc'[u] = Ended(u)
        BY <4>1, <4>2, <4>4 DEF AtStep
      <4> QED
        BY <3>1, <4>3, <4>4
    <3> QED
      BY <3>2 DEF NoNewStep
  <2> QED
    BY <2>1, <2>2 DEF StopStep
<1> QED
  BY <1>1, <1>2

LEMMA OrderlyStep ==
  ASSUME IInv, AddsToOwn, Orderly, [Next]_vars
  PROVE Orderly'
<1>1. CASE Run
  <2>1. Launch(Root) /\ UNCHANGED <<tree, ends, kids, fired, ready>> /\ mpc = "start"
    BY <1>1 DEF Run, waiters
  <2>2. Root \in Job /\ Root \notin started
    BY <2>1, JobTreeAssumption DEF IInv, Launched
  <2> QED
    BY <2>1, <2>2, LaunchOrderly
<1>2. ASSUME NEW j \in Job, Start(j) PROVE Orderly'
  <2>1. UNCHANGED <<tree, ends, kids, fired, ready>> /\ <<"launch", j>> \in tasks
    BY <1>2 DEF Start, waiters
  <2>2. j \notin started
    BY <2>1 DEF IInv, Launched
  <2>3. Launch(j) \/ pc' = pc
    BY <1>2 DEF Start
  <2> QED
    BY <2>1, <2>2, <2>3, LaunchOrderly, OrderlyKept, NothingNew
<1>3. ASSUME NEW j \in Job, BecomeReady(j) PROVE Orderly'
  <2>1. /\ UNCHANGED <<tree, ends, kids, fired, pc>> /\ ready' = ready \cup {j}
        /\ Settled(<<"hook", j>>)
    BY <1>3 DEF BecomeReady, waiters
  <2>2. ~AtStep(<<"hook", j>>)
    <3>1. PICK t \in Task : t = <<"hook", j>>
      BY TasksOf
    <3>2. pc[t] > Len(Program(t))
      BY <2>1, <3>1 DEF Settled
    <3> QED
      BY <3>1, <3>2, AtStepAt
  <2>3. Present' = Present
    BY <2>1 DEF Present
  <2>4. \A u : AtStep(u)' <=> AtStep(u)
    BY <2>1 DEF AtStep, Program
  <2> QED
    BY <2>1, <2>2, <2>3, <2>4 DEF Orderly
<1>4. ASSUME NEW t \in Task, TaskStep(t) PROVE Orderly'
  <2>1. CASE RunCmd(t) \/ CmdEnds(t) \/ CallStop(t)
    <3>1. UNCHANGED <<tree, ends, kids, fired, ready>>
      BY <2>1 DEF RunCmd, CmdEnds, CallStop, flags, waiters
    <3> QED
      BY <2>1, <3>1, TaskStepMovesOn, OrderlyKept
  <2> QED
    BY <1>4, <2>1, EmitOrderly, AddChildOrderly DEF TaskStep
<1>5. ASSUME NEW t \in DOMAIN stack, StopStep(t) PROVE Orderly'
  BY <1>5, StopEndsPrograms, OrderlyKept
<1>6. CASE RunStep \/ Interrupt
  <2>1. UNCHANGED <<tree, kids, fired, ready, pc>> /\ ends' \in {ends, "itself"}
    BY <1>6 DEF RunStep, ScanStops, ScanEnds, Wakes, FinalStop, Gather, Over, Interrupt,
                flags, waiters
  <2> QED
    BY <2>1, OrderlyKept, NothingNew
<1>7. CASE UNCHANGED vars
  <2>1. UNCHANGED <<tree, kids, fired, ready, pc, ends>>
    BY <1>7 DEF vars
  <2> QED
    BY <2>1, OrderlyKept, NothingNew
<1> QED
  BY <1>1, <1>2, <1>3, <1>4, <1>5, <1>6, <1>7 DEF Next, AllOver

LEMMA OrderlyInit == Init => Orderly
<1> SUFFICES ASSUME Init PROVE Orderly
  OBVIOUS
<1>1. /\ tree \in Trees /\ ends = tree.ends /\ kids = tree.kids /\ fired = {} /\ ready = {}
      /\ pc = [t \in Task |-> 0]
  BY DEF Init
<1>2. Root \in Reach(kids, Root)
  BY JobTreeAssumption DEF Reach
<1>3. \A j \in Job : ToSet(kids[j]) \subseteq Reach(kids, Root)
  BY <1>1, JobTreeAssumption
<1>4. Present \subseteq Reach(kids, Root)
  BY <1>2, <1>3 DEF Present
<1>5. \A j \in Job : pc[<<"act", j>>] = 0
  BY <1>1, TasksOf
<1> QED
  BY <1>1, <1>4, <1>5 DEF Orderly

---------------------------------------------------------------------------
(* The run of a tree that nobody stops.                                    *)

(* The waiter of job j, if it has one, has fired, and its action is over. *)
Attended(j) == (j \in tree.waits => j \in fired) /\ ~AtStep(<<"act", j>>)

(* The calls run() is in stop jobs that have no children. *)
LeavesOnly ==
  \A i \in DOMAIN stack[Main] :
     stack[Main][i].rest = <<>> /\ stack[Main][i].phase # "stop" /\ stack[Main][i].job \in stopped

(* While run() loops, who is not held is attended to, and who is stopped   *)
(* was a leaf with nothing left to do.                                     *)
Unhurried ==
  /\ \A j \in Present \ (held \cup stopped) : Attended(j)
  /\ \A j \in stopped : kids[j] = <<>> /\ j \in ready /\ Attended(j)
  /\ LeavesOnly

(* When it has left the loop there is nothing left to do. *)
Served ==
  /\ tree.waits \cap Present \subseteq fired
  /\ \A t \in Task : ~AtStep(t)
  /\ \A j \in Job : <<"launch", j>> \in tasks => j \in stopped

Looping == {"start", "scan", "wait"}
Closing == {"final", "gather", "over"}

Driven ==
  ByItself =>
    /\ mpc # "cut"
    /\ \A t \in Task \cup {Outer} : stack[t] = <<>>
    /\ mpc \in Looping => Unhurried
    /\ mpc \in Closing => Served

NoNewAct == \A j \in Job : AtStep(<<"act", j>>)' => AtStep(<<"act", j>>)

LEMMA ByItselfSame ==
  ASSUME UNCHANGED <<tree, ends>>
  PROVE ByItself' = ByItself
BY DEF ByItself, StopsNothing, Program

LEMMA UnhurriedKept ==
  ASSUME IInv, Unhurried, UNCHANGED <<tree, kids, fired, stopped, stack>>,
         ready \subseteq ready', NoNewAct,
         \A j \in held \ held' : j \in stopped \/ (j \in fired /\ ~AtStep(<<"act", j>>)')
  PROVE Unhurried'
<1>1. Present' = Present /\ Present \subseteq Job /\ stopped \subseteq Job
  BY PresentJobs DEF Present, IInv, Flagged
<1>2. ASSUME NEW j \in Job, Attended(j) PROVE Attended(j)'
  BY <1>2 DEF Attended, NoNewAct
<1>3. ASSUME NEW j \in Present', j \notin held' \cup stopped' PROVE Attended(j)'
  <2>1. CASE j \in held
    BY <1>3, <2>1 DEF Attended
  <2>2. CASE j \notin held
    BY <1>1, <1>2, <1>3, <2>2 DEF Unhurried
  <2> QED
    BY <2>1, <2>2
<1>4. \A j \in stopped' : kids'[j] = <<>> /\ j \in ready' /\ Attended(j)'
  BY <1>1, <1>2 DEF Unhurried
<1>5. LeavesOnly'
  BY DEF Unhurried, LeavesOnly
<1> QED
  BY <1>3, <1>4, <1>5 DEF Unhurried

LEMMA ServedKept ==
  ASSUME Served, UNCHANGED <<tree, kids, fired>>, stopped \subseteq stopped', NoNewStep,
         \A j \in Job : <<"launch", j>> \in tasks' => <<"launch", j>> \in tasks
  PROVE Served'
<1>1. Present' = Present
  BY DEF Present
<1>2. \A t \in Task : ~AtStep(t)'
  BY DEF Served, NoNewStep
<1> QED
  BY <1>1, <1>2 DEF Served

LEMMA EmitUnhurried ==
  ASSUME IInv, Orderly, Unhurried, NEW t \in Task, Emit(t)
  PROVE Unhurried'
<1>1. UNCHANGED <<tree, kids, stopped, ready, stack>> /\ Present' = Present
  BY DEF Emit, Present
<1>2. PICK e : /\ fired' = fired \cup Fires(e)
               /\ pc' = [u \in Task |-> IF u = t THEN pc[t] + 1
                                   ELSE IF u[1] = "act" /\ u[2] \in Fires(e) THEN 1
                                   ELSE pc[u]]
  BY DEF Emit, Hear
<1>3. AtStep(t) /\ pc[t] > 0
  <2>1. Doing(t, "emit")
    BY DEF Emit
  <2> QED
    BY <2>1, AtStepAt DEF Doing
<1>4. ASSUME NEW j \in Job, Attended(j) PROVE Attended(j)'
  <2>1. <<"act", j>> # t /\ <<"act", j>> \in Task
    BY <1>3, <1>4, TasksOf DEF Attended
  <2>2. j \notin Fires(e)
    BY <1>4 DEF Attended, Fires
  <2>3. pc'[<<"act", j>>] = pc[<<"act", j>>]
    BY <1>2, <2>1, <2>2
  <2> QED
    BY <1>1, <1>2, <1>4, <2>3 DEF Attended, AtStep, Program
<1>5. ASSUME NEW j \in held \ held' PROVE Attended(j)'
  <2>1. Release(t, pc[t] + 1, TRUE)
    BY DEF Emit
  <2>2. t[1] = "act" /\ pc[t] + 1 > Len(Program(t)) /\ j = t[2]
    BY <1>5, <2>1 DEF Release
  <2>3. PICK m \in Job : t = <<"act", m>>
    BY <2>2 DEF Task
  <2>4. t = <<"act", j>> /\ j \in Job
    BY <2>2, <2>3
  <2>5. j \in fired
    BY <1>3, <2>4 DEF Orderly
  <2>6. pc'[t] = pc[t] + 1 /\ Program(t)' = Program(t) /\ Len(Program(t)) \in Nat /\ pc[t] \in Nat
    BY <1>1, <1>2, AtStepAt DEF Program
  <2>7. ~AtStep(t)'
    BY <2>2, <2>6 DEF AtStep
  <2> QED
    BY <1>2, <2>4, <2>5, <2>7 DEF Attended
<1>6. Present \subseteq Job /\ stopped \subseteq Job
  BY PresentJobs DEF IInv, Flagged
<1>7. \A j \in Present' \ (held' \cup stopped') : Attended(j)'
  BY <1>1, <1>4, <1>5, <1>6 DEF Unhurried
<1>8. \A j \in stopped' : kids'[j] = <<>> /\ j \in ready' /\ Attended(j)'
  BY <1>1, <1>4, <1>6 DEF Unhurried
<1>9. LeavesOnly'
  BY <1>1 DEF Unhurried, LeavesOnly
<1> QED
  BY <1>7, <1>8, <1>9 DEF Unhurried

LEMMA AddChildUnhurried ==
  ASSUME IInv, AddsToOwn, WaitersHeld, Orderly, Unhurried, NEW t \in Task, AddChild(t)
  PROVE Unhurried'
<1>1. PICK k \in Job, j \in Job : Adds(t, k, j)
  BY Adding
<1>2. t = <<"hook", j>>
  BY <1>1, AddedToOwn
<1>3. /\ Present' = Present \cup {k}
      /\ \A i \in Job : i # j => kids'[i] = kids[i]
  BY <1>1, AddedPresent DEF Adds, IInv, Typed
<1>4. UNCHANGED <<tree, ready, stopped, stack>> /\ AtStep(t) /\ tree \in Trees
  BY DEF AddChild, Doing, IInv, Typed
<1>5. j \notin stopped
  BY <1>2, <1>4 DEF Orderly, Unhurried
<1>6. /\ k \notin stopped /\ held' = held \cup ({k} \cap tree.holds) /\ Replay(k)
      /\ pc'[<<"act", k>>] = IF k \in fired' THEN 1 ELSE 0
  BY <1>1 DEF Adds
<1>7. ASSUME NEW i \in Job, i # k, Attended(i) PROVE Attended(i)'
  <2>1. <<"act", i>> \in Task /\ <<"act", i>> # t /\ <<"act", i>> # <<"act", k>>
    BY <1>2, <1>7, TasksOf
  <2>2. pc'[<<"act", i>>] = pc[<<"act", i>>]
    BY <1>1, <2>1 DEF Adds
  <2> QED
    BY <1>4, <1>6, <1>7, <2>2 DEF Attended, AtStep, Program, Replay
<1>8. ASSUME k \notin held' PROVE Attended(k)'
  <2>1. k \notin tree.waits
    BY <1>4, <1>6, <1>8 DEF WaitersHeld
  <2>2. k \notin fired'
    BY <1>6, <2>1 DEF IInv, Heard, Replay
  <2>3. pc'[<<"act", k>>] = 0
    BY <1>6, <2>2
  <2> QED
    BY <1>4, <2>1, <2>3 DEF Attended, AtStep
<1>9. Present \subseteq Job /\ stopped \subseteq Job
  BY PresentJobs DEF IInv, Flagged
<1>10. \A i \in Present' \ (held' \cup stopped') : Attended(i)'
  BY <1>3, <1>4, <1>6, <1>7, <1>8, <1>9 DEF Unhurried
<1>11. \A i \in stopped' : kids'[i] = <<>> /\ i \in ready' /\ Attended(i)'
  BY <1>3, <1>4, <1>5, <1>6, <1>7, <1>9 DEF Unhurried
<1>12. LeavesOnly'
  BY <1>4 DEF Unhurried, LeavesOnly
<1> QED
  BY <1>10, <1>11, <1>12 DEF Unhurried

LEMMA NoNewActs == NoNewStep => NoNewAct
BY TasksOf DEF NoNewStep, NoNewAct

LEMMA CmdEndsUnhurried ==
  ASSUME IInv, Orderly, Unhurried, NEW t \in Task, CmdEnds(t)
  PROVE Unhurried'
<1>1. UNCHANGED <<tree, kids, fired, stopped, stack, ready>> /\ AtStep(t) /\ pc[t] > 0
  <2>1. Doing(t, "run") /\ UNCHANGED <<tree, kids, fired, stopped, stack, ready>>
    BY DEF CmdEnds, waiters
  <2> QED
    BY <2>1, AtStepAt DEF Doing
<1>2. PICK n, ok : n \in Nat /\ pc' = [pc EXCEPT ![t] = n] /\ Release(t, n, ok)
  <2>1. PICK ok \in BOOLEAN :
          LET n == IF ok THEN pc[t] + 1 ELSE Len(Program(t)) + 1
          IN /\ pc' = [pc EXCEPT ![t] = n]
             /\ Release(t, n, ok)
    BY DEF CmdEnds
  <2>2. (IF ok THEN pc[t] + 1 ELSE Len(Program(t)) + 1) \in Nat
    BY AtStepAt
  <2> QED
    BY <2>1, <2>2
<1>3. NoNewAct
  BY TaskStepMovesOn, NoNewActs
<1>4. ASSUME NEW j \in held \ held' PROVE j \in fired /\ ~AtStep(<<"act", j>>)'
  <2>1. t[1] = "act" /\ n > Len(Program(t)) /\ j = t[2]
    BY <1>2, <1>4 DEF Release
  <2>2. PICK m \in Job : t = <<"act", m>>
    BY <2>1 DEF Task
  <2>3. t = <<"act", j>> /\ j \in Job
    BY <2>1, <2>2
  <2>4. j \in fired
    BY <1>1, <2>3 DEF Orderly
  <2>5. pc'[t] = n /\ Program(t)' = Program(t) /\ Len(Program(t)) \in Nat
    BY <1>1, <1>2, AtStepAt DEF Program, IInv, Typed
  <2>6. ~AtStep(t)'
    BY <1>2, <2>1, <2>5 DEF AtStep
  <2> QED
    BY <2>3, <2>4, <2>6
<1> QED
  BY <1>1, <1>3, <1>4, UnhurriedKept

LEMMA TaskStepDriven ==
  ASSUME IInv, AddsToOwn, WaitersHeld, Orderly, Driven, NEW t \in Task, TaskStep(t)
  PROVE Driven'
<1>1. /\ mpc # "over" /\ AtStep(t) /\ UNCHANGED <<tree, ends, mpc>>
  BY DEF TaskStep, RunCmd, CmdEnds, Emit, AddChild, CallStop, Doing
<1> SUFFICES ASSUME ByItself PROVE Driven'
  BY <1>1, ByItselfSame DEF Driven
<1>2. mpc \in Looping /\ Unhurried
  BY <1>1 DEF Driven, Looping, Closing, Served, IInv, Flagged
<1>3. ~CallStop(t)
  BY <1>1 DEF CallStop, Doing, ByItself, StopsNothing, AtStep
<1>4. UNCHANGED stack
  BY <1>3 DEF TaskStep, RunCmd, CmdEnds, Emit, AddChild
<1>5. Unhurried'
  <2>1. CASE RunCmd(t)
    <3>1. UNCHANGED <<tree, pc, kids, fired, stopped, stack, ready, held>>
      BY <2>1 DEF RunCmd, flags, waiters
    <3>2. NoNewAct
      BY <3>1, NothingNew, NoNewActs
    <3> QED
      BY <1>2, <3>1, <3>2, UnhurriedKept
  <2> QED
    BY <1>2, <1>3, <2>1, CmdEndsUnhurried, EmitUnhurried, AddChildUnhurried DEF TaskStep
<1>6. \A u \in Task \cup {Outer} : stack'[u] = <<>>
  BY <1>4 DEF Driven
<1> QED
  BY <1>1, <1>2, <1>5, <1>6 DEF Driven, Looping, Closing

LEMMA UnhurriedGoesOn ==
  ASSUME IInv, Unhurried, UNCHANGED <<tree, kids, fired, stopped>>,
         ready \subseteq ready', NoNewAct, held \ held' \subseteq stopped, LeavesOnly'
  PROVE Unhurried'
<1>1. Present' = Present /\ Present \subseteq Job /\ stopped \subseteq Job
  BY PresentJobs DEF Present, IInv, Flagged
<1>2. ASSUME NEW j \in Job, Attended(j) PROVE Attended(j)'
  BY <1>2 DEF Attended, NoNewAct
<1>3. \A j \in Present' \ (held' \cup stopped') : Attended(j)'
  BY <1>1, <1>2 DEF Unhurried
<1>4. \A j \in stopped' : kids'[j] = <<>> /\ j \in ready' /\ Attended(j)'
  BY <1>1, <1>2 DEF Unhurried
<1> QED
  BY <1>3, <1>4 DEF Unhurried

(* The call on top of run()'s, which stops a leaf, goes on or is over. *)
LEMMA LeavesKept ==
  ASSUME Typed, LeavesOnly, stack[Main] # <<>>, stopped' = stopped,
         \/ stack'[Main] = Front(stack[Main])
         \/ \E ph \in Phases \ {"stop"} :
               stack'[Main] = Append(Front(stack[Main]), Frame(Stopping(Main), ph, <<>>))
  PROVE LeavesOnly'
<1> DEFINE s == stack[Main]
           f(ph) == Frame(Stopping(Main), ph, <<>>)
<1>1. s \in Seq(Calls)
  BY DEF Typed, Stacks
<1>2. /\ Len(s) \in Nat \ {0} /\ DOMAIN s = 1..Len(s)
      /\ Front(s) \in Seq(Calls) /\ Len(Front(s)) = Len(s) - 1
      /\ \A i \in 1..(Len(s) - 1) : Front(s)[i] = s[i]
  BY <1>1, FrontOf
<1>3. Last(s) = s[Len(s)]
  BY DEF Last
<1>4. Stopping(Main) \in stopped
  BY <1>2, <1>3 DEF LeavesOnly, Stopping
<1>5. CASE stack'[Main] = Front(s)
  <2>1. DOMAIN stack'[Main] = 1..(Len(s) - 1)
    BY <1>2, <1>5
  <2> QED
    BY <1>2, <1>5, <2>1 DEF LeavesOnly
<1>6. ASSUME NEW ph \in Phases \ {"stop"}, stack'[Main] = Append(Front(s), f(ph))
      PROVE LeavesOnly'
  <2>1. f(ph).rest = <<>> /\ f(ph).phase = ph /\ f(ph).job = Stopping(Main)
    BY DEF Frame
  <2> HIDE DEF f
  <2>2. /\ DOMAIN stack'[Main] = 1..Len(s)
        /\ stack'[Main][Len(s)] = f(ph)
        /\ \A i \in 1..(Len(s) - 1) : stack'[Main][i] = s[i]
    BY <1>2, <1>6
  <2>3. ASSUME NEW i \in DOMAIN stack'[Main]
        PROVE /\ stack'[Main][i].rest = <<>> /\ stack'[Main][i].phase # "stop"
              /\ stack'[Main][i].job \in stopped'
    <3>1. CASE i = Len(s)
      BY <1>4, <2>1, <2>2, <3>1
    <3>2. CASE i # Len(s)
      <4>1. i \in 1..(Len(s) - 1) /\ i \in DOMAIN s
        BY <1>2, <2>2, <3>2
      <4> QED
        BY <2>2, <4>1 DEF LeavesOnly
    <3> QED
      BY <3>1, <3>2
  <2> QED
    BY <2>3 DEF LeavesOnly
<1> QED
  BY <1>5, <1>6

LEMMA StopStepDriven ==
  ASSUME IInv, Driven, NEW t \in DOMAIN stack, StopStep(t)
  PROVE Driven'
<1>1. /\ NoNewStep
      /\ UNCHANGED <<tree, ends, mpc, kids, queue, seen, fired, started, ready>>
      /\ \A j \in Job : <<"launch", j>> \in tasks' => <<"launch", j>> \in tasks
      /\ stopped \subseteq stopped'
  BY StopEndsPrograms DEF StopStep, StopCall, CancelTasks, HooksStart, HooksEnd, NextChild,
                          StopDone, Enter, flags
<1> SUFFICES ASSUME ByItself PROVE Driven'
  BY <1>1, ByItselfSame DEF Driven
<1>2. t = Main /\ stack[t] # <<>> /\ Typed /\ DOMAIN stack = Stacks
  <2>1. stack[t] # <<>>
    BY DEF StopStep, StopCall, CancelTasks, HooksStart, HooksEnd, NextChild, StopDone, InPhase
  <2> QED
    BY <2>1 DEF Driven, Stacks, IInv, Typed
<1>3. \A u \in Task \cup {Outer} : stack'[u] = <<>>
  <2>1. ASSUME NEW u \in Task \cup {Outer} PROVE stack[u] = <<>> /\ u # Main /\ u \in DOMAIN stack
    BY <1>2, Names DEF Driven, Stacks
  <2>2. CASE CancelTasks(t)
    <3>1. PICK C, f : stack' = [u \in DOMAIN stack |-> IF u \in C THEN <<>>
                                                      ELSE IF u = t THEN f ELSE stack[u]]
      BY <2>2 DEF CancelTasks
    <3> QED
      BY <1>2, <2>1, <3>1
  <2>3. CASE ~CancelTasks(t)
    <3>1. \E s : stack' = [stack EXCEPT ![t] = s]
      BY <1>2, <2>3 DEF StopStep, StopCall, HooksStart, HooksEnd, NextChild, StopDone, Enter, Turn
    <3> QED
      BY <1>2, <2>1, <3>1
  <2> QED
    BY <2>2, <2>3
<1>4. mpc \in Closing => Served'
  BY <1>1, ServedKept DEF Driven, Closing
<1>5. ASSUME mpc \in Looping PROVE Unhurried'
  <2> DEFINE s == stack[Main]
  <2>1. Unhurried /\ LeavesOnly
    BY <1>5 DEF Driven, Looping, Unhurried
  <2>2. Last(s).rest = <<>> /\ Last(s).phase # "stop" /\ Last(s).job \in stopped
    <3>1. s \in Seq(Calls) /\ s # <<>>
      BY <1>2 DEF Typed, Stacks
    <3>2. Len(s) \in DOMAIN s /\ Last(s) = s[Len(s)]
      BY <3>1 DEF Last
    <3> QED
      BY <2>1, <3>2 DEF LeavesOnly
  <2>3. ~StopCall(t) /\ ~NextChild(t)
    BY <1>2, <2>2 DEF StopCall, NextChild, InPhase
  <2>4. stopped' = stopped /\ held \ held' \subseteq {Stopping(Main)}
    BY <1>2, <2>3 DEF StopStep, CancelTasks, HooksStart, HooksEnd, StopDone, KillAll
  <2>5. held \ held' \subseteq stopped
    BY <2>2, <2>4 DEF Stopping
  <2>6. \/ stack'[Main] = Front(s)
        \/ \E ph \in Phases \ {"stop"} :
               stack'[Main] = Append(Front(s), Frame(Stopping(Main), ph, <<>>))
    <3>1. CASE CancelTasks(t)
      <4>1. PICK C : stack' = [u \in DOMAIN stack |->
                         IF u \in C \ {t} THEN <<>>
                         ELSE IF u = t THEN Append(Front(stack[t]), Frame(Stopping(t), "kill", <<>>))
                         ELSE stack[u]]
        BY <3>1 DEF CancelTasks
      <4>2. stack'[Main] = Append(Front(s), Frame(Stopping(Main), "kill", <<>>))
        BY <1>2, <4>1
      <4> QED
        BY <4>2 DEF Phases
    <3>2. CASE HooksStart(t)
      <4>1. stack'[Main] = Append(Front(s), Frame(Stopping(Main), "hooks", <<>>))
        BY <1>2, <3>2 DEF HooksStart, Turn
      <4> QED
        BY <4>1 DEF Phases
    <3>3. CASE HooksEnd(t)
      <4>1. kids[Stopping(Main)] = <<>>
        BY <2>1, <2>2 DEF Unhurried, Stopping
      <4>2. Reverse(<<>>) = <<>>
        BY DEF Reverse
      <4>3. stack'[Main] = Append(Front(s), Frame(Stopping(Main), "kids", <<>>))
        BY <1>2, <3>3, <4>1, <4>2 DEF HooksEnd, Turn
      <4> QED
        BY <4>3 DEF Phases
    <3>4. CASE StopDone(t)
      BY <1>2, <3>4 DEF StopDone
    <3> QED
      BY <2>3, <3>1, <3>2, <3>3, <3>4 DEF StopStep
  <2>7. LeavesOnly'
    BY <1>2, <2>1, <2>4, <2>6, LeavesKept
  <2> QED
    BY <1>1, <2>1, <2>4, <2>5, <2>7, NoNewActs, UnhurriedGoesOn
<1> QED
  BY <1>1, <1>3, <1>4, <1>5 DEF Driven, Looping, Closing

LEMMA LaunchActsNothing ==
  ASSUME IInv, NEW j \in Job, Launch(j), tree' = tree
  PROVE NoNewAct
<1>1. pc' = [pc EXCEPT ![<<"hook", j>>] = 1] /\ pc \in [Task -> Nat]
  BY DEF Launch, IInv, Typed
<1>2. \A k \in Job : pc'[<<"act", k>>] = pc[<<"act", k>>]
  BY <1>1, TasksOf
<1> QED
  BY <1>2 DEF NoNewAct, AtStep, Program

LEMMA StartDriven ==
  ASSUME IInv, Driven, Run \/ \E j \in Job : Start(j) \/ BecomeReady(j)
  PROVE Driven'
<1>1. /\ UNCHANGED <<tree, ends, kids, fired, stopped, stack, held>> /\ ready \subseteq ready'
      /\ mpc' = mpc \/ (mpc = "start" /\ mpc' = "scan")
  BY DEF Run, Start, BecomeReady, waiters
<1> SUFFICES ASSUME ByItself PROVE Driven'
  BY <1>1, ByItselfSame DEF Driven
<1>2. ASSUME mpc \in Looping PROVE Unhurried'
  <2>1. NoNewAct
    <3>1. CASE pc' = pc
      BY <1>1, <3>1, NothingNew, NoNewActs
    <3>2. CASE \E j \in Job : Launch(j)
      BY <1>1, <3>2, LaunchActsNothing
    <3> QED
      BY <3>1, <3>2, JobTreeAssumption DEF Run, Start, BecomeReady
  <2> QED
    BY <1>1, <1>2, <2>1, UnhurriedKept DEF Driven
<1>3. ASSUME mpc \in Closing PROVE Served'
  <2>1. Served /\ mpc' = mpc /\ ~Run
    BY <1>1, <1>3 DEF Driven, Closing, Run
  <2>2. PICK j \in Job : Start(j) \/ BecomeReady(j)
    BY <2>1
  <2>3. pc' = pc /\ tasks' \subseteq tasks
    <3>1. CASE Start(j)
      <4>1. j \in stopped
        BY <2>1, <3>1 DEF Start, Served
      <4> QED
        BY <3>1, <4>1 DEF Start
    <3>2. CASE BecomeReady(j)
      BY <3>2 DEF BecomeReady
    <3> QED
      BY <2>2, <3>1, <3>2
  <2> QED
    BY <1>1, <2>1, <2>3, NothingNew, ServedKept
<1>4. \A u \in Task \cup {Outer} : stack'[u] = <<>>
  BY <1>1 DEF Driven
<1> QED
  BY <1>1, <1>2, <1>3, <1>4 DEF Driven, Looping, Closing

(* When every job is ready, or has been stopped, nothing is left to do. *)
LEMMA NothingLeft ==
  ASSUME IInv, Orderly, Unhurried,
         \A j \in Present : j \in stopped \/ (j \notin held /\ j \in ready)
  PROVE Served
<1>1. \A j \in Present : j \in ready /\ Attended(j)
  BY DEF Unhurried
<1>2. Present \subseteq Job
  BY PresentJobs DEF IInv
<1>3. tree.waits \cap Present \subseteq fired
  BY <1>1 DEF Attended
<1>4. ASSUME NEW t \in Task, AtStep(t) PROVE FALSE
  <2>1. pc[t] > 0
    BY <1>4, AtStepAt
  <2>2. PICK j \in Job : t = <<"hook", j>> \/ t = <<"act", j>>
    BY TaskIs
  <2>3. CASE t = <<"hook", j>>
    <3>1. j \in Present
      BY <2>1, <2>3 DEF IInv, Launched
    <3> QED
      BY <1>1, <1>4, <2>3, <3>1 DEF Orderly
  <2>4. CASE t = <<"act", j>>
    <3>1. j \in Present
      BY <2>1, <2>4 DEF Orderly
    <3> QED
      BY <1>1, <1>4, <2>4, <3>1 DEF Attended
  <2> QED
    BY <2>2, <2>3, <2>4
<1>5. ASSUME NEW j \in Job, <<"launch", j>> \in tasks PROVE j \in stopped
  <2>1. j \in Present /\ j \notin started
    BY <1>5 DEF IInv, Launched
  <2> QED
    BY <1>1, <2>1 DEF IInv, Flagged
<1> QED
  BY <1>3, <1>4, <1>5 DEF Served

LEMMA RunStepDriven ==
  ASSUME IInv, Orderly, Driven, RunStep
  PROVE Driven'
<1>1. UNCHANGED <<tree, ends, kids, fired, pc, tasks, ready>> /\ stopped \subseteq stopped'
  BY DEF RunStep, ScanStops, ScanEnds, Wakes, FinalStop, Gather, Over, Enter, flags, waiters
<1>2. NoNewStep /\ NoNewAct
  BY <1>1, NothingNew, NoNewActs
<1> SUFFICES ASSUME ByItself PROVE Driven'
  BY <1>1, ByItselfSame DEF Driven
<1>3. stack \in [Stacks -> Seq(Calls)]
  BY DEF IInv, Typed
<1>4. CASE ScanStops
  <2>1. PICK j \in Job, n \in DOMAIN scan : /\ scan[n] = j /\ IsCompleted(j) /\ j \notin stopped
                                            /\ Enter(Main, <<>>, j)
    BY <1>4 DEF ScanStops
  <2>2. mpc' = "scan" /\ mpc = "scan" /\ Unhurried
    BY <1>4 DEF ScanStops, Driven, Looping
  <2>3. /\ stack' = [stack EXCEPT ![Main] = Append(<<>>, Frame(j, "notify", <<>>))]
        /\ stopped' = stopped \cup {j} /\ held' = held \ {j}
    BY <2>1 DEF Enter
  <2>4. kids[j] = <<>> /\ j \in ready /\ j \notin held
    BY <2>1 DEF IsCompleted
  <2>5. j \in Present
    BY <2>4 DEF IInv, Flagged, Launched
  <2>6. Attended(j)
    BY <2>1, <2>2, <2>4, <2>5 DEF Unhurried
  <2>7. Present' = Present /\ \A i \in Job : Attended(i) => Attended(i)'
    BY <1>1, <1>2 DEF Present, Attended, NoNewAct
  <2>8. Present \subseteq Job /\ stopped \subseteq Job
    BY PresentJobs DEF IInv, Flagged
  <2>9. LeavesOnly'
    <3>1. stack'[Main] = <<Frame(j, "notify", <<>>)>>
      BY <1>3, <2>3 DEF Stacks
    <3>2. /\ DOMAIN stack'[Main] = {1}
          /\ stack'[Main][1].rest = <<>> /\ stack'[Main][1].phase = "notify"
          /\ stack'[Main][1].job = j
      BY <3>1 DEF Frame
    <3> QED
      BY <2>3, <3>2 DEF LeavesOnly
  <2>10. Unhurried'
    <3>1. \A i \in Present' \ (held' \cup stopped') : Attended(i)'
      BY <2>2, <2>3, <2>7, <2>8 DEF Unhurried
    <3>2. \A i \in stopped' : kids'[i] = <<>> /\ i \in ready' /\ Attended(i)'
      BY <1>1, <2>2, <2>3, <2>4, <2>6, <2>7, <2>8 DEF Unhurried
    <3> QED
      BY <2>9, <3>1, <3>2 DEF Unhurried
  <2>11. \A u \in Task \cup {Outer} : stack'[u] = <<>>
    BY <1>3, <2>3, Names DEF Driven, Stacks
  <2> QED
    BY <2>2, <2>10, <2>11 DEF Driven, Closing
<1>5. CASE ScanEnds \/ Wakes
  <2>1. /\ UNCHANGED <<stopped, stack, held>> /\ mpc \in Looping /\ Unhurried
        /\ mpc' \in {"scan", "wait", "final"}
    BY <1>5 DEF ScanEnds, Wakes, Driven, Looping, flags
  <2>2. Unhurried'
    BY <1>1, <1>2, <2>1, UnhurriedKept
  <2>3. ASSUME mpc' = "final" PROVE Served'
    <3>1. \A j \in Present : j \in stopped \/ (j \notin held /\ j \in ready)
      <4>1. CASE ScanEnds
        <5>1. ~Busy
          BY <2>3, <4>1 DEF ScanEnds
        <5> QED
          BY <5>1 DEF Busy, BusyJob, Orderly
      <4>2. CASE Wakes
        <5>1. Root \in stopped
          BY <2>3, <4>2 DEF Wakes
        <5>2. Closed(kids, {Root})
          BY <2>1, <5>1 DEF Closed, Unhurried, ToSet
        <5>3. Present \subseteq {Root}
          BY <5>2, JobTreeAssumption DEF Orderly, Reach
        <5> QED
          BY <5>1, <5>3
      <4> QED
        BY <1>5, <4>1, <4>2
    <3>2. Served
      BY <2>1, <3>1, NothingLeft
    <3> QED
      BY <1>1, <1>2, <3>2, ServedKept
  <2>4. \A u \in Task \cup {Outer} : stack'[u] = <<>>
    BY <2>1 DEF Driven
  <2> QED
    BY <2>1, <2>2, <2>3, <2>4 DEF Driven, Closing
<1>6. CASE FinalStop \/ Gather \/ Over
  <2>1. mpc \in Closing /\ mpc' \in Closing
    BY <1>6 DEF FinalStop, Gather, Over, Driven, Closing
  <2>2. Served'
    BY <1>1, <1>2, <2>1, ServedKept DEF Driven
  <2>3. \A u \in Task \cup {Outer} : stack'[u] = <<>>
    <3>1. stack' = stack \/ \E s : stack' = [stack EXCEPT ![Main] = s]
      BY <1>6 DEF FinalStop, Gather, Over, Enter
    <3> QED
      BY <1>3, <3>1, Names DEF Driven, Stacks
  <2> QED
    BY <2>1, <2>2, <2>3 DEF Driven, Looping, Closing
<1> QED
  BY <1>4, <1>5, <1>6 DEF RunStep

LEMMA DrivenStep ==
  ASSUME IInv, AddsToOwn, WaitersHeld, Orderly, Driven, [Next]_vars
  PROVE Driven'
<1>1. CASE Interrupt
  <2>1. tree' = tree /\ ends # "itself" /\ ends' = "itself"
    BY <1>1 DEF Interrupt
  <2>2. ~ByItself'
    BY <2>1 DEF ByItself, Orderly
  <2> QED
    BY <2>2 DEF Driven
<1>2. CASE UNCHANGED vars
  <2>1. UNCHANGED <<tree, ends, mpc, kids, tasks, ready, stopped, held, fired, pc, stack>>
    BY <1>2 DEF vars
  <2>2. NoNewStep /\ NoNewAct
    BY <2>1, NothingNew, NoNewActs
  <2>3. (Unhurried => Unhurried') /\ (Served => Served')
    BY <2>1, <2>2, UnhurriedKept, ServedKept
  <2> QED
    BY <2>1, <2>3, ByItselfSame DEF Driven
<1> QED
  BY <1>1, <1>2, TaskStepDriven, StopStepDriven, StartDriven, RunStepDriven DEF Next, AllOver

LEMMA DrivenInit ==
  ASSUME Init, WaitersHeld
  PROVE Driven
<1>1. /\ tree \in Trees /\ mpc = "start" /\ kids = tree.kids /\ stopped = {} /\ fired = {}
      /\ held = tree.holds \ tree.late
      /\ pc = [t \in Task |-> 0] /\ stack = [t \in Task \cup {Main, Outer} |-> <<>>]
  BY DEF Init
<1>2. \A j \in Job : ~AtStep(<<"act", j>>)
  <2>1. \A t \in Task : pc[t] = 0
    BY <1>1
  <2>2. \A t \in Task : ~AtStep(t)
    BY <2>1, Start0, AtStepAt
  <2> QED
    BY <2>2, TasksOf
<1>3. Present \cap tree.late = {} /\ tree.waits \subseteq tree.holds /\ Present \subseteq Job
  <2>1. /\ tree.waits \subseteq tree.holds /\ Root \notin tree.late
        /\ \A j \in Job : ToSet(kids[j]) \cap tree.late = {}
    BY <1>1 DEF WaitersHeld
  <2>2. Present \subseteq Job
    BY PresentJobs, Start0 DEF IInv
  <2> QED
    BY <2>1, <2>2 DEF Present
<1>4. \A j \in Present \ held : Attended(j)
  BY <1>1, <1>2, <1>3 DEF Attended
<1>5. LeavesOnly
  BY <1>1 DEF LeavesOnly
<1> QED
  BY <1>1, <1>4, <1>5 DEF Driven, Unhurried, Closing

(* run() takes no job that waits, or whose waiter works, for a completed   *)
(* one: in any tree whose waiters hold their jobs from the making and      *)
(* whose hooks add to their own jobs, when run() returns and nobody has    *)
(* stopped the tree every waiter has fired and every program is over.      *)
THEOREM NothingIsSkipped ==
  ASSUME AddsToOwn, WaitersHeld
  PROVE Spec => []NothingSkipped
<1>1. Init => IInv /\ Orderly /\ Driven
  BY Start0, OrderlyInit, DrivenInit, WaitersHeld
<1>2. IInv /\ Orderly /\ Driven /\ [Next]_vars => IInv' /\ Orderly' /\ Driven'
  BY StepKeeps, OrderlyStep, DrivenStep, AddsToOwn, WaitersHeld
<1>3. Driven => NothingSkipped
  BY DEF Driven, NothingSkipped, Closing, Served
<1> QED
  BY <1>1, <1>2, <1>3, PTL DEF Spec

---------------------------------------------------------------------------
(* What is taken down.                                                     *)

(* The jobs whose stop may have been cut short. *)
CutShort == IF Unhindered THEN {} ELSE astray

(* The stop of job j has still to come to child k. *)
Left(j, k) == \E t, i : At(j, "kids", t, i) /\ k \in ToSet(stack[t][i].rest)

Halted(j) == Past(j, {"notify"}) => ~AtStep(<<"hook", j>>)

Cleared(j) ==
  Past(j, {"notify", "kill", "hooks"}) =>
    j \in downs /\ \A k \in ToSet(kids[j]) : k \in stopped \/ Left(j, k)

(* Only run() and who interrupts it stop jobs, and the latter begins with  *)
(* a stop() of the root.                                                   *)
Stoppers ==
  /\ \A t \in Task : stack[t] = <<>>
  /\ stack[Outer] # <<>> => At(Root, "stop", Outer, 1)
  /\ mpc \in {"gather", "cut", "over"} => stack[Main] = <<>>
  /\ mpc \in {"gather", "over"} => Root \in stopped
  /\ mpc = "cut" => Root \in stopped \/ stack[Outer] # <<>>
  /\ mpc = "over" => stack[Outer] = <<>>

Clearing == \A j \in stopped \ CutShort : Halted(j) /\ Cleared(j)

Torn == StopsNothing => Stoppers /\ Clearing

LEMMA StopsNothingSame == tree' = tree => (StopsNothing' <=> StopsNothing)
BY DEF StopsNothing, Program

LEMMA CutShortGrows ==
  ASSUME tree' = tree, ends' \in {ends, "itself"}, astray \subseteq astray'
  PROVE CutShort \subseteq CutShort'
<1>1. Unhindered' => Unhindered
  BY StopsNothingSame DEF Unhindered
<1> QED
  BY <1>1 DEF CutShort

(* A step keeps what is cleared if no stop passes by what is to be done.   *)
LEMMA ClearingKept ==
  ASSUME Clearing, CutShort \subseteq CutShort', stopped' \subseteq Job,
         UNCHANGED <<tree, kids>>, downs \subseteq downs', stopped \subseteq stopped',
         \A j \in stopped' \ CutShort' : Past(j, {"notify"})' =>
            \/ ~AtStep(<<"hook", j>>)'
            \/ Past(j, {"notify"}) /\ (AtStep(<<"hook", j>>)' => AtStep(<<"hook", j>>)),
         \A j \in stopped' \ CutShort' : Past(j, {"notify", "kill", "hooks"})' =>
            \/ j \in downs' /\ \A k \in ToSet(kids[j]) : Left(j, k)'
            \/ /\ Past(j, {"notify", "kill", "hooks"})
               /\ \A k : Left(j, k) => Left(j, k)' \/ k \in stopped'
  PROVE Clearing'
<1> SUFFICES ASSUME NEW j \in stopped', j \notin CutShort' PROVE Halted(j)' /\ Cleared(j)'
  BY DEF Clearing
<1>1. \A P : Past(j, P) => j \in stopped \ CutShort
  BY DEF Past
<1>2. Halted(j)'
  BY <1>1 DEF Clearing, Halted
<1>3. Cleared(j)'
  BY <1>1 DEF Clearing, Cleared
<1> QED
  BY <1>2, <1>3

LEMMA SamePast ==
  ASSUME UNCHANGED <<stopped, stack>>
  PROVE /\ \A j, P : Past(j, P)' <=> Past(j, P)
        /\ \A j, k : Left(j, k)' <=> Left(j, k)
BY DEF Past, Left, At

(* A step that stops nothing. *)
LEMMA ClearingSame ==
  ASSUME IInv, Orderly, Clearing, UNCHANGED <<tree, kids, stopped, stack>>,
         ends' \in {ends, "itself"}, downs \subseteq downs', astray \subseteq astray',
         \A j \in stopped : AtStep(<<"hook", j>>)' => AtStep(<<"hook", j>>)
  PROVE Clearing'
<1>1. stopped \subseteq Job
  BY DEF IInv, Flagged
<1> QED
  BY <1>1, SamePast, CutShortGrows, ClearingKept

(* The calls a task is in, when it enters one more. *)
LEMMA EnteredCalls ==
  ASSUME Typed, NEW t \in Stacks, NEW s \in Seq(Calls), Len(s) = Len(stack[t]), NEW f \in Calls,
         stack' = [stack EXCEPT ![t] = Append(s, f)]
  PROVE \A u \in Stacks : \A i \in DOMAIN stack[u] :
           i \in DOMAIN stack'[u] /\ stack'[u][i] = IF u = t THEN s[i] ELSE stack[u][i]
<1>1. stack \in [Stacks -> Seq(Calls)] /\ stack[t] \in Seq(Calls)
  BY DEF Typed
<1>2. stack'[t] = Append(s, f) /\ \A u \in Stacks : u # t => stack'[u] = stack[u]
  BY <1>1
<1>3. /\ DOMAIN stack[t] = 1..Len(s) /\ DOMAIN stack'[t] = 1..(Len(s) + 1) /\ Len(s) \in Nat
      /\ \A i \in 1..Len(s) : stack'[t][i] = s[i]
  BY <1>1, <1>2
<1> QED
  BY <1>2, <1>3

LEMMA TurnedCalls ==
  ASSUME Typed, NEW t \in Stacks, stack[t] # <<>>, NEW f \in Calls, stack' = Turn(t, f)
  PROVE \A u \in Stacks : \A i \in DOMAIN stack[u] :
           /\ i \in DOMAIN stack'[u]
           /\ stack'[u][i] = IF u = t /\ i = Len(stack[t]) THEN f ELSE stack[u][i]
<1>1. stack \in [Stacks -> Seq(Calls)] /\ stack[t] \in Seq(Calls)
  BY DEF Typed
<1>2. /\ Len(stack[t]) \in Nat \ {0} /\ DOMAIN stack[t] = 1..Len(stack[t])
      /\ Front(stack[t]) \in Seq(Calls) /\ Len(Front(stack[t])) = Len(stack[t]) - 1
      /\ \A i \in 1..(Len(stack[t]) - 1) : Front(stack[t])[i] = stack[t][i]
  BY <1>1, FrontOf
<1>3. /\ stack'[t] = Append(Front(stack[t]), f)
      /\ \A u \in Stacks : u # t => stack'[u] = stack[u]
  BY <1>1 DEF Turn
<1>4. /\ DOMAIN stack'[t] = DOMAIN stack[t] /\ stack'[t][Len(stack[t])] = f
      /\ \A i \in 1..(Len(stack[t]) - 1) : stack'[t][i] = stack[t][i]
  BY <1>2, <1>3
<1>5. \A i \in DOMAIN stack[t] : i = Len(stack[t]) \/ i \in 1..(Len(stack[t]) - 1)
  BY <1>2
<1> QED
  BY <1>3, <1>4, <1>5

(* A stop begins. *)
LEMMA EnterClears ==
  ASSUME IInv, Clearing, NEW t \in Stacks, NEW s \in Seq(Calls), NEW j \in Job,
         SameCalls(s, t), Enter(t, s, j),
         \A i \in DOMAIN stack[t] : ToSet(stack[t][i].rest) \subseteq ToSet(s[i].rest) \cup {j},
         UNCHANGED <<tree, kids, ends, downs, pc, astray>>
  PROVE Clearing'
<1> DEFINE f == Frame(j, "notify", <<>>)
<1>0. /\ Typed /\ stopped \subseteq Job /\ stopped' = stopped \cup {j}
      /\ stack' = [stack EXCEPT ![t] = Append(s, f)] /\ Len(s) = Len(stack[t])
  BY DEF IInv, Flagged, Enter, SameCalls
<1>1. f \in Calls
  BY DEF Frame, Calls, Phases
<1>2. /\ \A k, p, u, i : At(k, p, u, i)' <=>
              At(k, p, u, i) \/ (k = j /\ p = "notify" /\ u = t /\ i = Above(t))
  BY <1>0, Entered
<1> HIDE DEF f
<1>3. \A u \in Stacks : \A i \in DOMAIN stack[u] :
         i \in DOMAIN stack'[u] /\ stack'[u][i] = IF u = t THEN s[i] ELSE stack[u][i]
  BY <1>0, <1>1, EnteredCalls
<1>4. \A i, P : i # j /\ Past(i, P)' => Past(i, P)
  BY <1>0, <1>2 DEF Past
<1>5. ~Past(j, {"notify"})' /\ ~Past(j, {"notify", "kill", "hooks"})'
  BY <1>2 DEF Past
<1>6. ASSUME NEW i, NEW k, Left(i, k) PROVE Left(i, k)' \/ k \in stopped'
  <2>1. PICK u, m : At(i, "kids", u, m) /\ k \in ToSet(stack[u][m].rest)
    BY <1>6 DEF Left
  <2>2. u \in Stacks /\ m \in DOMAIN stack[u]
    BY <2>1 DEF At
  <2>4. At(i, "kids", u, m)'
    BY <1>2, <2>1
  <2>3. k \in ToSet(stack'[u][m].rest) \/ k = j
    BY <1>3, <2>1, <2>2
  <2> QED
    BY <1>0, <2>3, <2>4 DEF Left
<1>7. \A i : AtStep(<<"hook", i>>)' <=> AtStep(<<"hook", i>>)
  BY DEF AtStep, Program
<1> QED
  BY <1>0, <1>4, <1>5, <1>6, <1>7, CutShortGrows, ClearingKept

(* A stop goes on. *)
LEMMA TurnClears ==
  ASSUME IInv, Clearing, NEW t \in Stacks, stack[t] # <<>>, NEW f \in Calls,
         NEW j, j = Stopping(t), stack' = Turn(t, f), f.job = j, Last(stack[t]).phase # "stop",
         UNCHANGED <<tree, kids, ends, stopped>>, astray \subseteq astray', downs \subseteq downs',
         \A i \in stopped : AtStep(<<"hook", i>>)' => AtStep(<<"hook", i>>),
         \/ f.phase = "kill" /\ ~AtStep(<<"hook", j>>)'
         \/ f.phase = "hooks" /\ Last(stack[t]).phase = "kill"
         \/ /\ f.phase = "kids" /\ Last(stack[t]).phase = "hooks" /\ j \in downs'
            /\ ToSet(kids[j]) \subseteq ToSet(f.rest)
         \/ /\ f.phase = "kids" /\ Last(stack[t]).phase = "kids"
            /\ ToSet(Last(stack[t]).rest) \subseteq ToSet(f.rest) \cup stopped
  PROVE Clearing'
<1>1. PICK n, p0 : n = Len(stack[t]) /\ p0 = Last(stack[t]).phase
  OBVIOUS
<1>2. /\ \A k, p, u, i :
            At(k, p, u, i)' <=>
              IF u = t /\ i = n THEN k = f.job /\ p = f.phase ELSE At(k, p, u, i)
      /\ At(j, p0, t, n)
  BY <1>1, Turned DEF IInv, Stopping
<1>3. \A u \in Stacks : \A i \in DOMAIN stack[u] :
           /\ i \in DOMAIN stack'[u]
           /\ stack'[u][i] = IF u = t /\ i = n THEN f ELSE stack[u][i]
  BY <1>1, TurnedCalls DEF IInv
<1>4. stack[t][n] = Last(stack[t])
  BY <1>1 DEF Last
<1>5. /\ stopped \subseteq Job /\ f.job = j /\ p0 # "stop" /\ j \in stopped
      /\ \A p, u, i : At(j, p, u, i) /\ p # "stop" => u = t /\ i = n
  BY <1>1, <1>2 DEF IInv, Flagged, Stops
<1>6. \A k, p : At(k, p, t, n) => k = j /\ p = p0
  BY <1>2 DEF At
<1>7. \A k, P : k # j /\ Past(k, P)' => Past(k, P)
  BY <1>2, <1>5, <1>6 DEF Past
<1>8. ASSUME NEW k, NEW c, Left(k, c), k # j PROVE Left(k, c)'
  <2>1. PICK u, m : At(k, "kids", u, m) /\ c \in ToSet(stack[u][m].rest)
    BY <1>8 DEF Left
  <2>2. ~(u = t /\ m = n)
    BY <1>6, <1>8, <2>1
  <2>3. u \in Stacks /\ m \in DOMAIN stack[u]
    BY <2>1 DEF At
  <2>4. At(k, "kids", u, m)'
    BY <1>2, <2>1, <2>2
  <2> QED
    BY <1>3, <2>1, <2>2, <2>3, <2>4 DEF Left
<1>9. Past(j, {"notify"})' =>
         \/ ~AtStep(<<"hook", j>>)'
         \/ Past(j, {"notify"}) /\ (AtStep(<<"hook", j>>)' => AtStep(<<"hook", j>>))
  <2>1. CASE f.phase = "kill" /\ ~AtStep(<<"hook", j>>)'
    BY <2>1
  <2>2. CASE p0 # "notify"
    <3>1. \A u, i : ~At(j, "notify", u, i)
      BY <1>5, <1>6, <2>2
    <3> QED
      BY <1>5, <3>1 DEF Past
  <2> QED
    BY <1>1, <2>1, <2>2
<1>10. Past(j, {"notify", "kill", "hooks"})' =>
         \/ j \in downs' /\ \A c \in ToSet(kids[j]) : Left(j, c)'
         \/ /\ Past(j, {"notify", "kill", "hooks"})
            /\ \A c : Left(j, c) => Left(j, c)' \/ c \in stopped'
  <2>1. CASE f.phase \in {"kill", "hooks"}
    <3>1. At(j, f.phase, t, n)'
      BY <1>2, <1>5
    <3> QED
      BY <2>1, <3>1 DEF Past
  <2>2. ASSUME f.phase = "kids" PROVE At(j, "kids", t, n)' /\ stack'[t][n] = f
    <3>1. At(j, "kids", t, n)'
      BY <1>2, <1>5, <2>2
    <3>2. n \in DOMAIN stack[t]
      BY <1>2 DEF At
    <3> QED
      BY <1>3, <3>1, <3>2
  <2>3. CASE f.phase = "kids" /\ j \in downs' /\ ToSet(kids[j]) \subseteq ToSet(f.rest)
    BY <2>2, <2>3 DEF Left
  <2>4. CASE /\ f.phase = "kids" /\ p0 = "kids"
             /\ ToSet(Last(stack[t]).rest) \subseteq ToSet(f.rest) \cup stopped
    <3>1. Past(j, {"notify", "kill", "hooks"})
      <4>1. \A p \in {"notify", "kill", "hooks"} : \A u, i : ~At(j, p, u, i)
        BY <1>5, <1>6, <2>4
      <4> QED
        BY <1>5, <4>1 DEF Past
    <3>2. ASSUME NEW c, Left(j, c) PROVE Left(j, c)' \/ c \in stopped'
      <4>1. PICK u, m : At(j, "kids", u, m) /\ c \in ToSet(stack[u][m].rest)
        BY <3>2 DEF Left
      <4>2. u = t /\ m = n
        BY <1>5, <4>1
      <4>3. c \in ToSet(f.rest) \cup stopped
        BY <1>4, <2>4, <4>1, <4>2
      <4> QED
        BY <2>2, <2>4, <4>3 DEF Left
    <3> QED
      BY <3>1, <3>2
  <2> QED
    BY <1>1, <2>1, <2>3, <2>4
<1>11. \A i \in stopped' \ CutShort' : Past(i, {"notify"})' =>
            \/ ~AtStep(<<"hook", i>>)'
            \/ Past(i, {"notify"}) /\ (AtStep(<<"hook", i>>)' => AtStep(<<"hook", i>>))
  BY <1>7, <1>9
<1>12. \A i \in stopped' \ CutShort' : Past(i, {"notify", "kill", "hooks"})' =>
            \/ i \in downs' /\ \A k \in ToSet(kids[i]) : Left(i, k)'
            \/ /\ Past(i, {"notify", "kill", "hooks"})
               /\ \A k : Left(i, k) => Left(i, k)' \/ k \in stopped'
  BY <1>7, <1>8, <1>10
<1> QED
  BY <1>5, <1>11, <1>12, CutShortGrows, ClearingKept

LEMMA ReverseHasAll ==
  ASSUME NEW S, NEW s \in Seq(S)
  PROVE Reverse(s) \in Seq(S) /\ ToSet(s) \subseteq ToSet(Reverse(s))
<1>1. /\ Len(s) \in Nat /\ DOMAIN s = 1..Len(s) /\ \A i \in 1..Len(s) : s[i] \in S
      /\ Reverse(s) = [i \in 1..Len(s) |-> s[(Len(s) - i) + 1]]
  BY DEF Reverse
<1>2. \A i \in 1..Len(s) : (Len(s) - i) + 1 \in 1..Len(s)
  BY <1>1
<1>3. \A i \in 1..Len(s) : Reverse(s)[i] = s[(Len(s) - i) + 1] /\ Reverse(s)[i] \in S
  BY <1>1, <1>2
<1>4. Reverse(s) \in Seq(S) /\ DOMAIN Reverse(s) = 1..Len(s)
  BY <1>1, <1>3
<1>5. ASSUME NEW i \in 1..Len(s) PROVE \E n \in DOMAIN Reverse(s) : Reverse(s)[n] = s[i]
  <2>1. (Len(s) - i) + 1 \in 1..Len(s) /\ (Len(s) - ((Len(s) - i) + 1)) + 1 = i
    BY <1>1
  <2> QED
    BY <1>3, <1>4, <2>1
<1>6. ASSUME NEW x \in ToSet(s) PROVE x \in ToSet(Reverse(s))
  <2>1. PICK i \in 1..Len(s) : x = s[i]
    BY <1>1 DEF ToSet
  <2>2. PICK n \in DOMAIN Reverse(s) : Reverse(s)[n] = x
    BY <1>5, <2>1
  <2> QED
    BY <2>2 DEF ToSet
<1> QED
  BY <1>4, <1>6

LEMMA CancelClears ==
  ASSUME IInv, Stoppers, Clearing, NEW t \in DOMAIN stack, CancelTasks(t)
  PROVE Clearing'
<1>0. Typed /\ InPhase(t, "notify") /\ stack \in [Stacks -> Seq(Calls)]
  BY DEF IInv, Typed, CancelTasks
<1>1. PICK j \in Job : j = Stopping(t)
  BY <1>0, InCall
<1>2. /\ t \in Stacks /\ stack[t] # <<>> /\ Last(stack[t]).phase = "notify" /\ t \notin Task
  BY <1>0, InCall DEF Stoppers
<1> DEFINE cut == {<<"hook", j>>, <<"act", j>>}
           f == Frame(j, "kill", <<>>)
<1>3. cut \subseteq Task /\ cut \in SUBSET Stacks /\ cut \ {t} = cut
  BY <1>2, TasksOf DEF Stacks
<1>4. /\ pc' = [u \in Task |-> IF u \in cut \ {t} /\ pc[u] > 0 THEN Len(Program(u)) + 1 ELSE pc[u]]
      /\ stack' = [u \in DOMAIN stack |->
                     IF u \in cut \ {t} THEN <<>>
                     ELSE IF u = t THEN Append(Front(stack[t]), f) ELSE stack[u]]
      /\ astray' = astray \cup StopsOf(cut \ {t})
      /\ UNCHANGED <<tree, ends, kids, stopped, downs>>
  BY <1>1 DEF CancelTasks
<1>5. f \in Calls /\ f.job = j /\ f.phase = "kill"
  BY <1>1 DEF Frame, Calls, Phases
<1>6. \A u \in cut : stack[u] = <<>>
  BY <1>3 DEF Stoppers
<1>7. ~AtStep(<<"hook", j>>)'
  <2>1. <<"hook", j>> \in Task /\ <<"hook", j>> \in cut \ {t}
    BY <1>1, <1>3, TasksOf
  <2>2. pc'[<<"hook", j>>] = IF pc[<<"hook", j>>] > 0
                             THEN Len(Program(<<"hook", j>>)) + 1 ELSE pc[<<"hook", j>>]
    BY <1>4, <2>1
  <2>3. Program(<<"hook", j>>)' = Program(<<"hook", j>>)
    BY <1>4 DEF Program
  <2> QED
    BY <2>1, <2>2, <2>3, AtStepAt DEF AtStep
<1> HIDE DEF cut, f
<1>8. stack' = Turn(t, f)
  <2>1. stack' = [u \in Stacks |-> IF u = t THEN Append(Front(stack[t]), f) ELSE stack[u]]
    BY <1>0, <1>3, <1>4, <1>6
  <2> QED
    BY <1>0, <1>2, <2>1 DEF Turn
<1>9. \A i \in stopped : AtStep(<<"hook", i>>)' => AtStep(<<"hook", i>>)
  <2>1. NoNewStep
    BY StopEndsPrograms DEF StopStep
  <2> QED
    BY <2>1, TasksOf DEF NoNewStep, IInv, Flagged
<1> QED
  BY <1>1, <1>2, <1>4, <1>5, <1>7, <1>8, <1>9, TurnClears

LEMMA HooksClear ==
  ASSUME IInv, Clearing, NEW t \in DOMAIN stack, HooksStart(t) \/ HooksEnd(t)
  PROVE Clearing'
<1>0. Typed /\ kids \in [Job -> Seq(Job)]
  BY DEF IInv, Typed
<1>1. PICK j \in Job : j = Stopping(t)
  BY <1>0, InCall DEF HooksStart, HooksEnd
<1>2. t \in Stacks /\ stack[t] # <<>>
  BY <1>0, InCall DEF HooksStart, HooksEnd
<1>3. \A i \in stopped : AtStep(<<"hook", i>>)' => AtStep(<<"hook", i>>)
  <2>1. NoNewStep
    BY StopEndsPrograms DEF StopStep
  <2> QED
    BY <2>1, TasksOf DEF NoNewStep, IInv, Flagged
<1>4. CASE HooksStart(t)
  <2> DEFINE f == Frame(j, "hooks", <<>>)
  <2>1. f \in Calls /\ f.job = j /\ f.phase = "hooks"
    BY <1>1 DEF Frame, Calls, Phases
  <2>2. stack' = Turn(t, f) /\ UNCHANGED <<tree, kids, ends, stopped, astray, downs>>
    BY <1>1, <1>4 DEF HooksStart
  <2>3. Last(stack[t]).phase = "kill"
    BY <1>4 DEF HooksStart, InPhase
  <2> HIDE DEF f
  <2> QED
    BY <1>1, <1>2, <1>3, <2>1, <2>2, <2>3, TurnClears
<1>5. CASE HooksEnd(t)
  <2> DEFINE f == Frame(j, "kids", Reverse(kids[j]))
  <2>1. kids[j] \in Seq(Job)
    BY <1>0, <1>1
  <2>2. Reverse(kids[j]) \in Seq(Job) /\ ToSet(kids[j]) \subseteq ToSet(Reverse(kids[j]))
    BY <2>1, ReverseHasAll
  <2>3. f \in Calls /\ f.job = j /\ f.phase = "kids" /\ f.rest = Reverse(kids[j])
    BY <1>1, <2>2 DEF Frame, Calls, Phases
  <2>4. /\ stack' = Turn(t, f) /\ UNCHANGED <<tree, kids, ends, stopped, astray>>
        /\ downs \subseteq downs' /\ j \in downs'
    BY <1>1, <1>5 DEF HooksEnd
  <2>5. Last(stack[t]).phase = "hooks"
    BY <1>5 DEF HooksEnd, InPhase
  <2> HIDE DEF f
  <2> QED
    BY <1>1, <1>2, <1>3, <2>2, <2>3, <2>4, <2>5, TurnClears
<1> QED
  BY <1>4, <1>5

LEMMA TailHasRest ==
  ASSUME NEW S, NEW s \in Seq(S), s # <<>>
  PROVE /\ Head(s) \in S /\ Tail(s) \in Seq(S)
        /\ ToSet(s) \subseteq ToSet(Tail(s)) \cup {Head(s)}
<1>1. /\ Head(s) \in S /\ Tail(s) \in Seq(S) /\ Len(s) \in Nat \ {0} /\ DOMAIN s = 1..Len(s)
      /\ Head(s) = s[1] /\ Len(Tail(s)) = Len(s) - 1
      /\ \A i \in 1..(Len(s) - 1) : Tail(s)[i] = s[i + 1]
  OBVIOUS
<1>2. ASSUME NEW x \in ToSet(s), x # Head(s) PROVE x \in ToSet(Tail(s))
  <2>1. PICK i \in 1..Len(s) : x = s[i]
    BY <1>1 DEF ToSet
  <2>2. i - 1 \in 1..(Len(s) - 1) /\ Tail(s)[i - 1] = s[(i - 1) + 1] /\ (i - 1) + 1 = i
    BY <1>1, <1>2, <2>1
  <2>3. i - 1 \in DOMAIN Tail(s) /\ Tail(s)[i - 1] = x
    BY <1>1, <2>1, <2>2
  <2> QED
    BY <2>3 DEF ToSet
<1> QED
  BY <1>1, <1>2

LEMMA NextChildClears ==
  ASSUME IInv, Clearing, NEW t \in DOMAIN stack, NextChild(t)
  PROVE Clearing'
<1> DEFINE f == Last(stack[t])
           g == [f EXCEPT !.rest = Tail(@)]
           s == Append(Front(stack[t]), g)
<1>0. Typed /\ InPhase(t, "kids")
  BY DEF IInv, NextChild
<1>1. /\ t \in Stacks /\ stack[t] # <<>> /\ stack[t] \in Seq(Calls) /\ f \in Calls
      /\ f.phase = "kids" /\ Len(stack[t]) \in Nat \ {0} /\ f.job = Stopping(t)
  BY <1>0, InCall DEF Stopping
<1>2. f.rest # <<>> /\ f.rest \in Seq(Job)
  BY <1>1 DEF NextChild, Calls
<1>3. PICK j \in Job : j = Head(f.rest)
  BY <1>2
<1>4. Tail(f.rest) \in Seq(Job) /\ ToSet(f.rest) \subseteq ToSet(Tail(f.rest)) \cup {j}
  BY <1>2, <1>3, TailHasRest
<1>5. g \in Calls /\ g.job = f.job /\ g.phase = f.phase /\ g.rest = Tail(f.rest)
  BY <1>1, <1>4 DEF Calls
<1>6. CASE j \in stopped
  <2>1. /\ stack' = Turn(t, g)
        /\ UNCHANGED <<tree, ends, kids, stopped, astray, downs, pc>>
    BY <1>0, <1>1, <1>3, <1>6 DEF NextChild, Turn, Typed
  <2>2. \A i \in stopped : AtStep(<<"hook", i>>)' => AtStep(<<"hook", i>>)
    BY <2>1 DEF AtStep, Program
  <2>3. f.phase = "kids" /\ ToSet(f.rest) \subseteq ToSet(g.rest) \cup stopped
    BY <1>1, <1>4, <1>5, <1>6
  <2>4. /\ g.job = Stopping(t) /\ g.phase = "kids"
    BY <1>1, <1>5
  <2> HIDE DEF g
  <2> QED
    BY <1>1, <1>5, <2>1, <2>2, <2>3, <2>4, TurnClears
<1>7. CASE j \notin stopped
  <2>1. /\ Enter(t, s, j)
        /\ UNCHANGED <<tree, ends, kids, downs, pc, astray>>
    BY <1>3, <1>7 DEF NextChild
  <2>2. /\ Front(stack[t]) \in Seq(Calls) /\ Len(Front(stack[t])) = Len(stack[t]) - 1
        /\ \A i \in 1..(Len(stack[t]) - 1) : Front(stack[t])[i] = stack[t][i]
    <3> HIDE DEF g, f, s
    <3> QED
      BY <1>1, FrontOf
  <2>5. f = stack[t][Len(stack[t])]
    BY DEF Last
  <2>6. ToSet(f.rest) \subseteq ToSet(g.rest) \cup {j}
    BY <1>4, <1>5
  <2> HIDE DEF g, f
  <2>3. /\ s \in Seq(Calls) /\ Len(s) = Len(stack[t]) /\ s[Len(stack[t])] = g
        /\ \A i \in 1..(Len(stack[t]) - 1) : s[i] = stack[t][i]
    BY <1>1, <1>5, <2>2
  <2>4. SameCalls(s, t)
    BY <1>1, <1>5, <2>3, <2>5 DEF SameCalls
  <2> HIDE DEF s
  <2>7. ASSUME NEW i \in DOMAIN stack[t]
        PROVE ToSet(stack[t][i].rest) \subseteq ToSet(s[i].rest) \cup {j}
    <3>1. CASE i = Len(stack[t])
      BY <2>3, <2>5, <2>6, <3>1
    <3>2. CASE i # Len(stack[t])
      <4>1. i \in 1..(Len(stack[t]) - 1)
        BY <1>1, <3>2
      <4> QED
        BY <2>3, <4>1
    <3> QED
      BY <3>1, <3>2
  <2> QED
    BY <1>1, <2>1, <2>3, <2>4, <2>7, EnterClears
<1> QED
  BY <1>6, <1>7

(* A call in which nothing is left to do ends. *)
LEMMA EndClears ==
  ASSUME IInv, Clearing,
         \A k, p, u, i : At(k, p, u, i) =>
            At(k, p, u, i)' \/ p = "stop" \/ (p = "kids" /\ stack[u][i].rest = <<>>),
         \A k, u, i : At(k, "kids", u, i) /\ At(k, "kids", u, i)' => stack'[u][i] = stack[u][i],
         UNCHANGED <<tree, kids, ends, stopped, downs, pc, astray>>
  PROVE Clearing'
<1>1. \A k, P : "stop" \notin P /\ "kids" \notin P /\ Past(k, P)' => Past(k, P)
  BY DEF Past
<1>2. ASSUME NEW k, NEW c, Left(k, c) PROVE Left(k, c)'
  <2>1. PICK u, i : At(k, "kids", u, i) /\ c \in ToSet(stack[u][i].rest)
    BY <1>2 DEF Left
  <2>2. stack[u][i].rest # <<>>
    BY <2>1 DEF ToSet
  <2>3. At(k, "kids", u, i)'
    BY <2>1, <2>2
  <2> QED
    BY <2>1, <2>3 DEF Left
<1>3. \A i : AtStep(<<"hook", i>>)' <=> AtStep(<<"hook", i>>)
  BY DEF AtStep, Program
<1>4. stopped' \subseteq Job /\ CutShort \subseteq CutShort'
  BY CutShortGrows DEF IInv, Flagged
<1>5. /\ \A j : Past(j, {"notify"})' => Past(j, {"notify"})
      /\ \A j : Past(j, {"notify", "kill", "hooks"})' => Past(j, {"notify", "kill", "hooks"})
  BY <1>1
<1> QED
  BY <1>2, <1>3, <1>4, <1>5, ClearingKept

LEMMA StopDoneClears ==
  ASSUME IInv, Clearing, NEW t \in DOMAIN stack, StopDone(t)
  PROVE Clearing'
<1>0. Typed /\ InPhase(t, "kids") /\ stack \in [Stacks -> Seq(Calls)]
  BY DEF IInv, Typed, StopDone
<1>1. PICK n : n = Len(stack[t])
  OBVIOUS
<1>2. /\ t \in Stacks /\ stack[t] # <<>> /\ stack[t] \in Seq(Calls) /\ n \in Nat \ {0}
      /\ At(Stopping(t), "kids", t, n)
  BY <1>0, <1>1, InCall
<1>3. /\ stack' = [stack EXCEPT ![t] = Front(@)] /\ Last(stack[t]).rest = <<>>
      /\ UNCHANGED <<tree, ends, kids, stopped, downs, pc, astray>>
  BY DEF StopDone
<1>4. \A k, p, u, i : At(k, p, u, i)' <=> At(k, p, u, i) /\ ~(u = t /\ i = n)
  BY <1>0, <1>1, <1>2, <1>3, Popped
<1>5. stack[t][n].rest = <<>> /\ \A k, p : At(k, p, t, n) => p = "kids"
  BY <1>1, <1>2, <1>3 DEF At, Last
<1>6. \A k, p, u, i : At(k, p, u, i) =>
         At(k, p, u, i)' \/ p = "stop" \/ (p = "kids" /\ stack[u][i].rest = <<>>)
  BY <1>4, <1>5
<1>7. ASSUME NEW k, NEW u, NEW i, At(k, "kids", u, i), At(k, "kids", u, i)'
      PROVE stack'[u][i] = stack[u][i]
  <2>1. u \in Stacks /\ i \in DOMAIN stack[u]
    BY <1>7 DEF At
  <2>2. ~(u = t /\ i = n)
    BY <1>4, <1>7
  <2>3. CASE u # t
    BY <1>0, <1>3, <2>1, <2>3
  <2>4. CASE u = t
    <3>1. i \in 1..(n - 1)
      BY <1>1, <1>2, <2>1, <2>2, <2>4
    <3>2. stack'[t] = Front(stack[t])
      BY <1>0, <1>2, <1>3
    <3> QED
      BY <1>1, <1>2, <2>4, <3>1, <3>2, FrontOf
  <2> QED
    BY <2>3, <2>4
<1> QED
  BY <1>3, <1>6, <1>7, EndClears

LEMMA StopCallClears ==
  ASSUME IInv, Clearing, NEW t \in DOMAIN stack, StopCall(t)
  PROVE Clearing'
<1>0. Typed /\ InPhase(t, "stop") /\ stack \in [Stacks -> Seq(Calls)] /\ tree \in Trees
  BY DEF IInv, Typed, StopCall
<1>1. PICK j \in Job : j = Stopping(t)
  BY <1>0, InCall
<1>2. /\ t \in Stacks /\ stack[t] # <<>> /\ stack[t] \in Seq(Calls)
      /\ At(j, "stop", t, Len(stack[t]))
  BY <1>0, <1>1, InCall
<1>3. UNCHANGED <<tree, kids, ends, downs, pc, astray>>
  BY DEF StopCall
<1>4. CASE j \notin stopped
  <2>1. Enter(t, stack[t], j)
    BY <1>1, <1>4 DEF StopCall
  <2>2. SameCalls(stack[t], t)
    BY DEF SameCalls
  <2> QED
    BY <1>2, <1>3, <2>1, <2>2, EnterClears
<1>5. CASE j \in stopped
  <2>1. Len(stack[t]) = 1
    BY <1>2 DEF IInv, Stops
  <2>2. \A k, p, i : At(k, p, t, i) => p = "stop"
    BY <1>2, <2>1 DEF At
  <2>3. PICK s : stack' = [stack EXCEPT ![t] = s] /\ stopped' = stopped
    BY <1>1, <1>5 DEF StopCall, Turn
  <2>4. \A u \in Stacks : u # t => stack'[u] = stack[u]
    BY <1>0, <2>3
  <2>5. ASSUME NEW k, NEW p, NEW u, NEW i, At(k, p, u, i), u # t PROVE At(k, p, u, i)'
    BY <2>4, <2>5 DEF At
  <2>6. \A k, p, u, i : At(k, p, u, i) =>
           At(k, p, u, i)' \/ p = "stop" \/ (p = "kids" /\ stack[u][i].rest = <<>>)
    BY <2>2, <2>5
  <2>7. \A k, u, i : At(k, "kids", u, i) => u \in Stacks /\ u # t
    <3>1. \A k, u, i : At(k, "kids", u, i) => u \in Stacks
      BY DEF At
    <3> QED
      BY <2>2, <3>1
  <2> QED
    BY <1>3, <2>3, <2>4, <2>6, <2>7, EndClears
<1> QED
  BY <1>4, <1>5

LEMMA StopStepClears ==
  ASSUME IInv, Stoppers, Clearing, NEW t \in DOMAIN stack, StopStep(t)
  PROVE Clearing'
BY CancelClears, HooksClear, NextChildClears, StopDoneClears, StopCallClears DEF StopStep

LEMMA InterruptClears ==
  ASSUME IInv, Orderly, StopsNothing, Clearing, Interrupt
  PROVE Clearing'
<1> DEFINE T == IF ends = "timeout" THEN {Main} ELSE {}
<1>0. /\ Typed /\ stopped \subseteq Job /\ stack[Outer] = <<>> /\ Root \in Job
      /\ ends \in {tree.ends, "itself"} /\ ends # "itself" /\ ends' = "itself"
      /\ stack \in [Stacks -> Seq(Calls)]
      /\ UNCHANGED <<tree, kids, pc, stopped, downs>>
  BY JobTreeAssumption DEF IInv, Typed, Flagged, Stops, Orderly, Interrupt
<1>1. T \in SUBSET {Main} /\ T \in SUBSET Stacks /\ (T = {Main} <=> ends = "timeout")
  BY DEF Stacks
<1>2. /\ stack' = [stack EXCEPT ![Outer] = <<Frame(Root, "stop", <<>>)>>,
                                ![Main] = IF T = {Main} THEN <<>> ELSE @]
      /\ T = {Main} => astray' = astray \cup StopsOf(T)
      /\ T # {Main} => astray' = astray
  BY DEF Interrupt
<1> HIDE DEF T
<1>3. \A k, p, u, i :
         At(k, p, u, i)' <=>
           \/ At(k, p, u, i) /\ u \notin T
           \/ k = Root /\ p = "stop" /\ u = Outer /\ i = 1
  <2>1. stack' = [stack EXCEPT ![Outer] = <<Frame(Root, "stop", <<>>)>>,
                               ![Main] = IF T = {Main} THEN <<>> ELSE @]
    BY <1>2
  <2> QED
    BY <1>0, <1>1, <2>1, Interrupted
<1>4. CutShort \subseteq CutShort' /\ astray \subseteq astray'
  BY <1>0, <1>2, CutShortGrows
<1>5. ASSUME NEW j, j \notin CutShort', NEW p, NEW u, NEW i, p # "stop", At(j, p, u, i)
      PROVE At(j, p, u, i)'
  <2>1. CASE T = {Main}
    <3>1. ~Unhindered'
      BY <1>0, <1>1, <2>1 DEF Unhindered
    <3>2. j \notin StopsOf(T)
      BY <1>2, <1>5, <2>1, <3>1 DEF CutShort
    <3>3. u \notin T
      BY <1>0, <1>1, <1>5, <3>2, CutStops
    <3> QED
      BY <1>3, <1>5, <3>3
  <2>2. CASE T = {}
    BY <1>3, <1>5, <2>2
  <2> QED
    BY <1>1, <2>1, <2>2
<1>6. ASSUME NEW j, j \notin CutShort', NEW k, Left(j, k) PROVE Left(j, k)'
  <2>1. PICK u, i : At(j, "kids", u, i) /\ k \in ToSet(stack[u][i].rest)
    BY <1>6 DEF Left
  <2>2. At(j, "kids", u, i)'
    BY <1>5, <1>6, <2>1
  <2>3. u \in Stacks /\ i \in DOMAIN stack[u] /\ u # Outer /\ u \notin T
    <3>1. u \in Stacks /\ i \in DOMAIN stack[u]
      BY <2>1 DEF At
    <3>2. u # Outer
      BY <1>0, <3>1
    <3> QED
      BY <1>3, <2>2, <3>1, <3>2
  <2>4. stack'[u] = stack[u]
    <3>1. CASE u = Main
      BY <1>0, <1>1, <1>2, <2>3, <3>1, Names
    <3>2. CASE u # Main
      BY <1>0, <1>2, <2>3, <3>2
    <3> QED
      BY <3>1, <3>2
  <2> QED
    BY <2>1, <2>2, <2>4 DEF Left
<1>7. \A j \in stopped' \ CutShort' :
         /\ Past(j, {"notify"})' => Past(j, {"notify"})
         /\ Past(j, {"notify", "kill", "hooks"})' => Past(j, {"notify", "kill", "hooks"})
  BY <1>0, <1>5 DEF Past
<1>8. \A j : AtStep(<<"hook", j>>)' <=> AtStep(<<"hook", j>>)
  BY <1>0 DEF AtStep, Program
<1> QED
  BY <1>0, <1>4, <1>6, <1>7, <1>8, ClearingKept

LEMMA AddChildClears ==
  ASSUME IInv, AddsToOwn, Clearing, NEW t \in Task, AddChild(t)
  PROVE Clearing'
<1>1. PICK k \in Job, j \in Job : Adds(t, k, j)
  BY Adding
<1>2. t = <<"hook", j>> /\ AtStep(t)
  BY <1>1, AddedToOwn DEF AddChild, Doing
<1>3. UNCHANGED <<tree, ends, stopped, stack, astray, downs>> /\ stopped \subseteq Job
  BY DEF AddChild, IInv, Flagged
<1>4. \A i \in Job : i # j => kids'[i] = kids[i]
  BY <1>1 DEF Adds, IInv, Typed
<1>5. CutShort' = CutShort
  BY <1>3, StopsNothingSame DEF CutShort, Unhindered
<1>6. \A i \in stopped : AtStep(<<"hook", i>>)' => AtStep(<<"hook", i>>)
  <2> SUFFICES ASSUME NEW i \in stopped, i # j
               PROVE AtStep(<<"hook", i>>)' => AtStep(<<"hook", i>>)
    BY <1>2
  <2>1. <<"hook", i>> \in Task /\ <<"hook", i>> # t
    BY <1>2, <1>3, TasksOf
  <2>2. pc'[<<"hook", i>>] = pc[<<"hook", i>>]
    BY <1>1, <2>1 DEF Adds
  <2> QED
    BY <1>3, <2>2 DEF AtStep, Program
<1>7. (\A i, P : Past(i, P)' <=> Past(i, P)) /\ (\A i, c : Left(i, c)' <=> Left(i, c))
  BY <1>3, SamePast
<1>8. ASSUME NEW i \in stopped \ CutShort PROVE Halted(i)' /\ Cleared(i)'
  <2>1. Halted(i) /\ Cleared(i)
    BY <1>8 DEF Clearing
  <2>2. Halted(i)'
    BY <1>6, <1>7, <2>1 DEF Halted
  <2>3. CASE i = j
    <3>1. ~Past(j, {"notify"})
      BY <1>2, <2>1, <2>3 DEF Halted
    <3>2. ~Past(j, {"notify", "kill", "hooks"})
      BY <3>1 DEF Past
    <3> QED
      BY <1>7, <2>2, <2>3, <3>2 DEF Cleared
  <2>4. CASE i # j
    BY <1>3, <1>4, <1>7, <2>1, <2>2, <2>4 DEF Cleared
  <2> QED
    BY <2>3, <2>4
<1> QED
  BY <1>3, <1>5, <1>8 DEF Clearing

LEMMA OthersClear ==
  ASSUME IInv, Orderly, Clearing,
         \/ Run
         \/ \E j \in Job : Start(j) \/ BecomeReady(j)
         \/ \E t \in Task : RunCmd(t) \/ CmdEnds(t) \/ Emit(t)
         \/ ScanEnds \/ Wakes \/ Gather \/ Over
         \/ UNCHANGED vars
  PROVE Clearing'
<1>1. /\ UNCHANGED <<tree, kids, stopped, stack, ends>>
      /\ downs \subseteq downs' /\ astray \subseteq astray'
  BY DEF Run, Start, BecomeReady, RunCmd, CmdEnds, Emit, Hear, ScanEnds, Wakes, Gather, Over,
         vars, flags
<1>2. stopped \subseteq Job
  BY DEF IInv, Flagged
<1>3. ASSUME NEW j \in stopped PROVE AtStep(<<"hook", j>>)' => AtStep(<<"hook", j>>)
  <2>1. j \in Job /\ <<"hook", j>> \in Task
    BY <1>2, TasksOf
  <2>2. CASE pc' = pc
    BY <1>1, <2>2 DEF AtStep, Program
  <2>3. ASSUME NEW i \in Job, i # j, Launch(i)
        PROVE AtStep(<<"hook", j>>)' => AtStep(<<"hook", j>>)
    <3>1. pc' = [pc EXCEPT ![<<"hook", i>>] = 1] /\ pc \in [Task -> Nat]
      BY <2>3 DEF Launch, IInv, Typed
    <3>2. pc'[<<"hook", j>>] = pc[<<"hook", j>>]
      BY <2>1, <2>3, <3>1
    <3> QED
      BY <1>1, <3>2 DEF AtStep, Program
  <2>4. CASE Run
    <3>1. stopped = {}
      BY <2>4 DEF Run, IInv, Launched
    <3> QED
      BY <3>1
  <2>5. ASSUME NEW i \in Job, Start(i) PROVE AtStep(<<"hook", j>>)' => AtStep(<<"hook", j>>)
    BY <2>2, <2>3, <2>5 DEF Start
  <2>6. ASSUME NEW t \in Task, RunCmd(t) \/ CmdEnds(t)
        PROVE AtStep(<<"hook", j>>)' => AtStep(<<"hook", j>>)
    BY <2>1, <2>6, TaskStepMovesOn DEF NoNewStep
  <2>7. ASSUME NEW t \in Task, Emit(t) PROVE AtStep(<<"hook", j>>)' => AtStep(<<"hook", j>>)
    <3>1. AtStep(t)
      BY <2>7 DEF Emit, Doing
    <3>2. PICK e : pc' = [u \in Task |-> IF u = t THEN pc[t] + 1
                                   ELSE IF u[1] = "act" /\ u[2] \in Fires(e) THEN 1
                                   ELSE pc[u]]
      BY <2>7 DEF Emit
    <3>3. <<"hook", j>> # t => pc'[<<"hook", j>>] = pc[<<"hook", j>>]
      BY <2>1, <3>2
    <3> QED
      BY <1>1, <3>1, <3>3 DEF AtStep, Program
  <2>8. CASE \/ \E i \in Job : BecomeReady(i)
             \/ ScanEnds \/ Wakes \/ Gather \/ Over \/ UNCHANGED vars
    <3>1. pc' = pc
      BY <2>8 DEF BecomeReady, ScanEnds, Wakes, Gather, Over, vars
    <3> QED
      BY <2>2, <3>1
  <2> QED
    BY <2>4, <2>5, <2>6, <2>7, <2>8
<1> QED
  BY <1>1, <1>3, ClearingSame

LEMMA MainClears ==
  ASSUME IInv, Clearing, ScanStops \/ FinalStop
  PROVE Clearing'
<1>1. stack[Main] = <<>> /\ UNCHANGED <<tree, kids, ends, downs, pc, astray>>
  BY DEF ScanStops, FinalStop
<1>2. PICK j \in Job : Enter(Main, <<>>, j)
  BY JobTreeAssumption DEF ScanStops, FinalStop
<1>3. SameCalls(<<>>, Main) /\ <<>> \in Seq(Calls) /\ Main \in Stacks
  BY <1>1 DEF SameCalls, Stacks
<1> QED
  BY <1>1, <1>2, <1>3, EnterClears

LEMMA ClearingStep ==
  ASSUME IInv, AddsToOwn, Orderly, StopsNothing, Stoppers, Clearing, [Next]_vars
  PROVE Clearing'
<1>1. \A t \in Task : ~CallStop(t)
  BY DEF CallStop, Doing, StopsNothing, AtStep
<1> QED
  BY <1>1, OthersClear, MainClears, InterruptClears, AddChildClears, StopStepClears
  DEF Next, TaskStep, RunStep, AllOver

---------------------------------------------------------------------------
(* Who stops it.                                                           *)

LEMMA StoppersSame ==
  ASSUME Stoppers, UNCHANGED stack, stopped \subseteq stopped',
         \/ mpc' = mpc \/ mpc' \in {"scan", "wait", "final"}
         \/ mpc' = "gather" /\ stack[Main] = <<>> /\ Root \in stopped
         \/ mpc' = "over" /\ stack[Outer] = <<>> /\ mpc \in {"cut", "gather"}
  PROVE Stoppers'
<1>1. At(Root, "stop", Outer, 1)' <=> At(Root, "stop", Outer, 1)
  BY DEF At
<1> QED
  BY <1>1 DEF Stoppers

(* Who stops the tree from outside begins with stop() of the root, to the  *)
(* end.                                                                    *)
LEMMA OuterStops ==
  ASSUME IInv, Stoppers, Outer \in DOMAIN stack, StopStep(Outer)
  PROVE \/ At(Root, "stop", Outer, 1)'
        \/ stack'[Outer] = <<>> /\ Root \in stopped'
<1> DEFINE n == Len(stack[Outer])
<1>0. Typed /\ Stops /\ stack \in [Stacks -> Seq(Calls)] /\ Outer \in Stacks
  BY DEF IInv, Typed
<1>1. /\ stack[Outer] # <<>> /\ stack[Outer] \in Seq(Calls) /\ n \in Nat \ {0}
      /\ Last(stack[Outer]) \in Calls
  <2>1. \E phase : InPhase(Outer, phase)
    BY DEF StopStep, StopCall, CancelTasks, HooksStart, HooksEnd, NextChild, StopDone
  <2> QED
    BY <1>0, <2>1, InCall
<1>2. At(Root, "stop", Outer, 1)
  BY <1>1 DEF Stoppers
<1>3. ASSUME Last(stack[Outer]).phase # "stop" PROVE n # 1
  BY <1>2, <1>3 DEF At, Last
<1>4. ASSUME NEW f \in Calls, stack' = Turn(Outer, f), Last(stack[Outer]).phase # "stop"
      PROVE At(Root, "stop", Outer, 1)'
  BY <1>0, <1>1, <1>2, <1>3, <1>4, Turned
<1>5. CASE StopCall(Outer)
  <2>1. InPhase(Outer, "stop")
    BY <1>5 DEF StopCall
  <2>2. At(Stopping(Outer), "stop", Outer, n)
    BY <1>0, <2>1, InCall
  <2>3. n = 1
    BY <1>0, <2>2 DEF Stops
  <2>4. Stopping(Outer) = Root
    BY <1>2, <2>2, <2>3 DEF At
  <2>5. CASE Root \in stopped
    <3>1. stack' = [stack EXCEPT ![Outer] = <<>>] /\ stopped' = stopped
      BY <1>5, <2>4, <2>5 DEF StopCall
    <3> QED
      BY <1>0, <2>5, <3>1
  <2>6. CASE Root \notin stopped
    <3>1. Enter(Outer, stack[Outer], Root) /\ Root \in Job
      BY <1>5, <2>4, <2>6, JobTreeAssumption DEF StopCall
    <3>2. SameCalls(stack[Outer], Outer)
      BY DEF SameCalls
    <3>3. stack' = [stack EXCEPT ![Outer] = Append(stack[Outer], Frame(Root, "notify", <<>>))]
      BY <3>1 DEF Enter
    <3>4. \A k, p, u, i : At(k, p, u, i) => At(k, p, u, i)'
      BY <1>0, <1>1, <3>1, <3>2, <3>3, Entered
    <3> QED
      BY <1>2, <3>4
  <2> QED
    BY <2>5, <2>6
<1>6. CASE CancelTasks(Outer)
  <2>1. PICK C : stack' = [u \in DOMAIN stack |->
                     IF u \in C \ {Outer} THEN <<>>
                     ELSE IF u = Outer
                          THEN Append(Front(stack[Outer]), Frame(Stopping(Outer), "kill", <<>>))
                          ELSE stack[u]]
    BY <1>6 DEF CancelTasks
  <2>2. DOMAIN stack = Stacks /\ InPhase(Outer, "notify")
    BY <1>0, <1>6 DEF CancelTasks
  <2>3. Last(stack[Outer]).phase # "stop" /\ Stopping(Outer) \in Job
    BY <1>0, <2>2, InCall
  <2> DEFINE f == Frame(Stopping(Outer), "kill", <<>>)
  <2>4. f \in Calls
    BY <2>3 DEF Frame, Calls, Phases
  <2> HIDE DEF f
  <2>5. stack'[Outer] = Append(Front(stack[Outer]), f)
    BY <1>0, <2>1 DEF f
  <2>6. /\ Front(stack[Outer]) \in Seq(Calls) /\ Len(Front(stack[Outer])) = n - 1
        /\ \A i \in 1..(n - 1) : Front(stack[Outer])[i] = stack[Outer][i]
    BY <1>1, FrontOf
  <2>7. 1 \in 1..(n - 1) /\ 1 \in DOMAIN stack'[Outer] /\ stack'[Outer][1] = stack[Outer][1]
    BY <1>1, <1>3, <2>3, <2>4, <2>5, <2>6
  <2> QED
    BY <1>2, <2>7 DEF At
<1>7. CASE HooksStart(Outer)
  <2>1. InPhase(Outer, "kill")
    BY <1>7 DEF HooksStart
  <2>2. Stopping(Outer) \in Job /\ Last(stack[Outer]).phase # "stop"
    BY <1>0, <2>1, InCall
  <2>3. Frame(Stopping(Outer), "hooks", <<>>) \in Calls
    BY <2>2 DEF Frame, Calls, Phases
  <2> QED
    BY <1>4, <1>7, <2>2, <2>3 DEF HooksStart
<1>8. CASE HooksEnd(Outer)
  <2>1. InPhase(Outer, "hooks")
    BY <1>8 DEF HooksEnd
  <2>2. Stopping(Outer) \in Job /\ Last(stack[Outer]).phase # "stop"
    BY <1>0, <2>1, InCall
  <2>3. kids[Stopping(Outer)] \in Seq(Job)
    BY <1>0, <2>2 DEF Typed
  <2>4. Reverse(kids[Stopping(Outer)]) \in Seq(Job)
    BY <2>3, ReverseHasAll
  <2>5. Frame(Stopping(Outer), "kids", Reverse(kids[Stopping(Outer)])) \in Calls
    BY <2>2, <2>4 DEF Frame, Calls, Phases
  <2> QED
    BY <1>4, <1>8, <2>2, <2>5 DEF HooksEnd
<1>9. CASE NextChild(Outer)
  <2> DEFINE f == Last(stack[Outer])
             g == [f EXCEPT !.rest = Tail(@)]
             s == Append(Front(stack[Outer]), g)
  <2>1. InPhase(Outer, "kids") /\ f.rest # <<>>
    BY <1>9 DEF NextChild
  <2>2. f.phase = "kids" /\ f.rest \in Seq(Job)
    BY <1>0, <1>1, <2>1, InCall DEF Calls
  <2>3. Tail(f.rest) \in Seq(Job)
    BY <2>1, <2>2
  <2>4. g \in Calls
    BY <1>1, <2>3 DEF Calls
  <2>5. stack'[Outer] = s \/ \E h : stack'[Outer] = Append(s, h)
    BY <1>0, <1>9 DEF NextChild, Enter
  <2> HIDE DEF g
  <2>6. /\ Front(stack[Outer]) \in Seq(Calls) /\ Len(Front(stack[Outer])) = n - 1
        /\ \A i \in 1..(n - 1) : Front(stack[Outer])[i] = stack[Outer][i]
    BY <1>1, FrontOf
  <2>7. /\ s \in Seq(Calls) /\ Len(s) = n /\ 1 \in 1..(n - 1)
        /\ s[1] = stack[Outer][1]
    BY <1>1, <1>3, <2>2, <2>4, <2>6
  <2> HIDE DEF s
  <2>8. 1 \in DOMAIN stack'[Outer] /\ stack'[Outer][1] = stack[Outer][1]
    <3>1. CASE stack'[Outer] = s
      BY <2>7, <3>1
    <3>2. ASSUME NEW h, stack'[Outer] = Append(s, h)
          PROVE 1 \in DOMAIN stack'[Outer] /\ stack'[Outer][1] = stack[Outer][1]
      BY <1>1, <2>7, <3>2
    <3> QED
      BY <2>5, <3>1, <3>2
  <2> QED
    BY <1>2, <2>8 DEF At
<1>10. CASE StopDone(Outer)
  <2>1. stack' = [stack EXCEPT ![Outer] = Front(@)] /\ InPhase(Outer, "kids")
    BY <1>10 DEF StopDone
  <2>2. Last(stack[Outer]).phase # "stop"
    BY <2>1 DEF InPhase
  <2> QED
    BY <1>0, <1>1, <1>2, <1>3, <2>1, <2>2, Popped
<1> QED
  BY <1>5, <1>6, <1>7, <1>8, <1>9, <1>10 DEF StopStep

LEMMA StopStepStoppers ==
  ASSUME IInv, Stoppers, NEW t \in DOMAIN stack, StopStep(t)
  PROVE Stoppers'
<1>0. /\ stack \in [Stacks -> Seq(Calls)] /\ mpc' = mpc /\ stopped \subseteq stopped'
      /\ mpc # "over" /\ stack[t] # <<>>
  BY StopEndsPrograms DEF IInv, Typed, StopStep, StopCall, CancelTasks, HooksStart, HooksEnd,
                          NextChild, StopDone, Enter, flags, InPhase
<1>1. t \in {Main, Outer}
  BY <1>0 DEF Stoppers, Stacks
<1>2. ASSUME NEW u \in Stacks, u # t PROVE stack'[u] = stack[u] \/ (u \in Task /\ stack'[u] = <<>>)
  <2>1. CASE CancelTasks(t)
    <3>1. PICK C, f : /\ C \subseteq {<<"hook", Stopping(t)>>, <<"act", Stopping(t)>>}
                      /\ stack' = [u0 \in DOMAIN stack |->
                              IF u0 \in C THEN <<>> ELSE IF u0 = t THEN f ELSE stack[u0]]
      BY <2>1 DEF CancelTasks
    <3>2. Stopping(t) \in Job
      BY <2>1, InCall DEF CancelTasks, IInv
    <3>3. C \subseteq Task
      BY <3>1, <3>2, TasksOf
    <3> QED
      BY <1>0, <1>2, <3>1, <3>3
  <2>2. CASE ~CancelTasks(t)
    <3>1. \E s : stack' = [stack EXCEPT ![t] = s]
      BY <2>2 DEF StopStep, StopCall, HooksStart, HooksEnd, NextChild, StopDone, Enter, Turn
    <3> QED
      BY <1>0, <1>2, <3>1
  <2> QED
    BY <2>1, <2>2
<1>3. \A u \in Task : stack'[u] = <<>>
  <2>1. \A u \in Task : u \in Stacks /\ u # t
    BY <1>1, Names DEF Stacks
  <2> QED
    BY <1>2, <2>1 DEF Stoppers
<1>4. CASE t = Main
  <2>1. stack'[Outer] = stack[Outer] /\ mpc \notin {"gather", "cut", "over"}
    BY <1>0, <1>2, <1>4, Names DEF Stoppers, Stacks
  <2>2. At(Root, "stop", Outer, 1)' <=> At(Root, "stop", Outer, 1)
    BY <2>1 DEF At
  <2> QED
    BY <1>0, <1>3, <2>1, <2>2 DEF Stoppers
<1>5. CASE t = Outer
  <2>1. stack'[Main] = stack[Main]
    BY <1>2, <1>5, Names DEF Stacks
  <2>2. \/ At(Root, "stop", Outer, 1)'
        \/ stack'[Outer] = <<>> /\ Root \in stopped'
    BY <1>5, OuterStops
  <2>3. At(Root, "stop", Outer, 1)' => stack'[Outer] # <<>>
    BY DEF At
  <2> QED
    BY <1>0, <1>3, <2>1, <2>2, <2>3 DEF Stoppers
<1> QED
  BY <1>1, <1>4, <1>5

LEMMA InterruptStoppers ==
  ASSUME IInv, Stoppers, Interrupt
  PROVE Stoppers'
<1> DEFINE T == IF ends = "timeout" THEN {Main} ELSE {}
<1>0. /\ Typed /\ Root \in Job /\ stack[Outer] = <<>> /\ stopped' = stopped
      /\ mpc \notin {"start", "cut", "over"}
      /\ stack \in [Stacks -> Seq(Calls)]
  BY JobTreeAssumption DEF IInv, Typed, Stops, Interrupt
<1>1. T \in SUBSET {Main}
  OBVIOUS
<1>2. /\ stack' = [stack EXCEPT ![Outer] = <<Frame(Root, "stop", <<>>)>>,
                                ![Main] = IF T = {Main} THEN <<>> ELSE @]
      /\ T = {Main} => mpc' = "cut"
      /\ T # {Main} => mpc' = mpc
  BY DEF Interrupt
<1> HIDE DEF T
<1>3. At(Root, "stop", Outer, 1)' /\ \A u \in Task : stack'[u] = stack[u]
  <2>1. stack' = [stack EXCEPT ![Outer] = <<Frame(Root, "stop", <<>>)>>,
                               ![Main] = IF T = {Main} THEN <<>> ELSE @]
    BY <1>2
  <2>2. /\ \A k, p, u, i :
              At(k, p, u, i)' <=>
                \/ At(k, p, u, i) /\ u \notin T
                \/ k = Root /\ p = "stop" /\ u = Outer /\ i = 1
        /\ \A u \in Task : stack'[u] = stack[u]
    BY <1>0, <1>1, <2>1, Interrupted
  <2> QED
    BY <2>2
<1>4. stack'[Outer] # <<>>
  BY <1>3 DEF At
<1>5. stack'[Main] = IF T = {Main} THEN <<>> ELSE stack[Main]
  BY <1>0, <1>2, Names DEF Stacks
<1> QED
  BY <1>0, <1>2, <1>3, <1>4, <1>5 DEF Stoppers

LEMMA StoppersStep ==
  ASSUME IInv, StopsNothing, Stoppers, [Next]_vars
  PROVE Stoppers'
<1>1. CASE Run \/ \E j \in Job : Start(j) \/ BecomeReady(j)
  <2>1. UNCHANGED <<stack, stopped>> /\ (mpc' = mpc \/ mpc' = "scan")
    BY <1>1 DEF Run, Start, BecomeReady
  <2> QED
    BY <2>1, StoppersSame
<1>2. ASSUME NEW t \in Task, TaskStep(t) PROVE Stoppers'
  <2>1. ~CallStop(t)
    BY DEF CallStop, Doing, StopsNothing, AtStep
  <2>2. UNCHANGED <<stack, stopped, mpc>>
    BY <1>2, <2>1 DEF TaskStep, RunCmd, CmdEnds, Emit, AddChild, flags
  <2> QED
    BY <2>2, StoppersSame
<1>3. CASE ScanStops \/ FinalStop
  <2>1. /\ mpc' = mpc /\ mpc \in {"scan", "final"} /\ stopped \subseteq stopped'
        /\ \E s : stack' = [stack EXCEPT ![Main] = s]
    BY <1>3 DEF ScanStops, FinalStop, Enter
  <2>2. \A u \in Task \cup {Outer} : stack'[u] = stack[u]
    BY <2>1, Names DEF IInv, Typed, Stacks
  <2>3. At(Root, "stop", Outer, 1)' <=> At(Root, "stop", Outer, 1)
    BY <2>2 DEF At
  <2> QED
    BY <2>1, <2>2, <2>3 DEF Stoppers
<1>4. CASE ScanEnds \/ Wakes \/ Gather \/ Over
  <2>1. /\ UNCHANGED <<stack, stopped>>
        /\ \/ mpc' \in {"scan", "wait", "final"}
           \/ mpc' = "gather" /\ stack[Main] = <<>> /\ Root \in stopped
           \/ mpc' = "over" /\ stack[Outer] = <<>> /\ mpc \in {"cut", "gather"}
    BY <1>4 DEF ScanEnds, Wakes, Gather, Over, flags
  <2> QED
    BY <2>1, StoppersSame
<1>5. CASE UNCHANGED vars
  <2>1. UNCHANGED <<stack, stopped, mpc>>
    BY <1>5 DEF vars
  <2> QED
    BY <2>1, StoppersSame
<1> QED
  BY <1>1, <1>2, <1>3, <1>4, <1>5, StopStepStoppers, InterruptStoppers DEF Next, RunStep, AllOver

---------------------------------------------------------------------------
(* What is there to take down is taken down.                               *)

LEMMA ReachOn ==
  ASSUME NEW k, NEW i \in Reach(kids, k), NEW c \in ToSet(kids[i]), c \in Job
  PROVE c \in Reach(kids, k)
<1> SUFFICES ASSUME NEW S \in SUBSET Job, k \in S, Closed(kids, S) PROVE c \in S
  BY DEF Reach
<1>1. i \in S
  BY DEF Reach
<1> QED
  BY <1>1 DEF Closed

LEMMA ReachAt ==
  ASSUME NEW k \in Job, NEW c \in ToSet(kids[k]), c \in Job
  PROVE k \in Reach(kids, k) /\ c \in Reach(kids, k)
<1>1. k \in Reach(kids, k)
  BY DEF Reach
<1> QED
  BY <1>1, ReachOn

LEMMA AllTornDown ==
  ASSUME IInv, Orderly, StopsNothing, Stoppers, Clearing
  PROVE TornDown
<1> SUFFICES ASSUME mpc = "over", NEW j \in tree.down \cap Present
             PROVE j \in downs \/ (~Unhindered /\ \E k \in astray : j \in Reach(kids, k))
  BY DEF TornDown
<1>1. \A t \in Stacks : stack[t] = <<>>
  BY DEF Stoppers, Stacks
<1>2. \A k, p, t, i : ~At(k, p, t, i)
  BY <1>1 DEF At
<1>3. ASSUME NEW k \in stopped \ CutShort
      PROVE k \in downs /\ ToSet(kids[k]) \subseteq stopped
  BY <1>2, <1>3 DEF Clearing, Cleared, Past, Left
<1> DEFINE S == {i \in Job : i \in stopped \/ \E k \in CutShort : i \in Reach(kids, k)}
<1>4. Root \in S
  BY JobTreeAssumption DEF Stoppers
<1>5. ASSUME NEW i \in S, NEW c \in ToSet(kids[i]) PROVE c \in S
  <2>1. c \in Job
    <3>1. c \in Present
      BY DEF Present
    <3> QED
      BY <3>1, PresentJobs DEF IInv
  <2>2. CASE i \in stopped \ CutShort
    BY <1>3, <2>1, <2>2
  <2>3. CASE i \in CutShort
    BY <2>1, <2>3, ReachAt
  <2>4. ASSUME NEW k \in CutShort, i \in Reach(kids, k) PROVE c \in S
    BY <2>1, <2>4, ReachOn
  <2> QED
    BY <2>2, <2>3, <2>4
<1>6. Present \subseteq S
  <2>1. Closed(kids, S) /\ S \in SUBSET Job
    BY <1>5 DEF Closed
  <2> HIDE DEF S
  <2> QED
    BY <1>4, <2>1 DEF Orderly, Reach
<1>7. CASE j \in stopped \ CutShort
  BY <1>3, <1>7
<1>8. ASSUME NEW k \in CutShort, j \in Reach(kids, k) \/ j = k
      PROVE ~Unhindered /\ \E i \in astray : j \in Reach(kids, i)
  <2>1. ~Unhindered /\ k \in astray
    BY <1>8 DEF CutShort
  <2>2. j \in Reach(kids, k)
    BY <1>6, <1>8 DEF Reach
  <2> QED
    BY <2>1, <2>2
<1> QED
  BY <1>6, <1>7, <1>8

LEMMA TornInit ==
  ASSUME Init
  PROVE Stoppers /\ Clearing
BY DEF Init, Stoppers, Clearing, Stacks

(* What a job brought up is taken down: in any tree whose hooks stop no    *)
(* job and add to their own, when the run is over, be it by itself, by a   *)
(* signal or by a timeout, every job with stop hooks has run them, or a    *)
(* timeout has cut short the stop of that job or of one above it.          *)
THEOREM AllIsTornDown ==
  ASSUME AddsToOwn
  PROVE Spec => [](StopsNothing => TornDown)
<1>1. Init => IInv /\ Orderly /\ Torn
  BY Start0, OrderlyInit, TornInit DEF Torn
<1>2. IInv /\ Orderly /\ Torn /\ [Next]_vars => IInv' /\ Orderly' /\ Torn'
  <2> SUFFICES ASSUME IInv, Orderly, Torn, [Next]_vars PROVE IInv' /\ Orderly' /\ Torn'
    OBVIOUS
  <2>1. tree' = tree
    BY DEF Next, Run, Start, BecomeReady, TaskStep, RunCmd, CmdEnds, Emit, AddChild, CallStop,
           StopStep, StopCall, CancelTasks, HooksStart, HooksEnd, NextChild, StopDone,
           RunStep, ScanStops, ScanEnds, Wakes, FinalStop, Gather, Over, Interrupt, AllOver, vars
  <2>2. Torn'
    BY <2>1, AddsToOwn, StopsNothingSame, StoppersStep, ClearingStep DEF Torn
  <2> QED
    BY <2>2, StepKeeps, OrderlyStep, AddsToOwn
<1>3. IInv /\ Orderly /\ Torn => (StopsNothing => TornDown)
  BY AllTornDown DEF Torn
<1> QED
  BY <1>1, <1>2, <1>3, PTL DEF Spec
---------------------------------------------------------------------------
(* What run() looks at.                                                    *)

LEMMA LeastExists ==
  ASSUME NEW S \in SUBSET Nat, S # {}
  PROVE  \E x \in S : \A y \in S : x <= y
<1>1. PICK x \in S : \A y \in S : ~ (<<y, x>> \in OpToRel(<, Nat))
  BY NatLessThanWellFounded, WFMin, Zenon
<1>2. \A y \in S : ~ (y < x)
  BY <1>1, Zenon DEF OpToRel
<1> QED
  BY <1>2

(* The first sequence with the first k parts behind it. *)
Linked(first, parts, upto, k) == IF k = 0 THEN first ELSE upto[k - 1] \o parts[k]

IsChain(first, n, parts, upto) == upto = [k \in 0..n |-> Linked(first, parts, upto, k)]

LEMMA ChainExists ==
  ASSUME NEW first, NEW n \in Nat, NEW parts
  PROVE  \E upto : IsChain(first, n, parts, upto)
<1> DEFINE Bad == {m \in 0..n : ~ \E upto : IsChain(first, m, parts, upto)}
<1>1. SUFFICES ASSUME Bad # {} PROVE FALSE
  OBVIOUS
<1>2. PICK m \in Bad : \A k \in Bad : m <= k
  <2>1. Bad \subseteq Nat
    OBVIOUS
  <2> HIDE DEF Bad
  <2> QED
    BY <1>1, <2>1, LeastExists
<1>3. m # 0
  <2> DEFINE one == [k \in 0..0 |-> first]
  <2>1. \A k \in 0..0 : one[k] = Linked(first, parts, one, k)
    BY DEF Linked
  <2>2. IsChain(first, 0, parts, one)
    BY <2>1 DEF IsChain
  <2> QED
    BY <1>2, <2>2
<1>4. m - 1 \in 0..n /\ m - 1 \notin Bad /\ m \in 1..n
  BY <1>2, <1>3
<1>5. PICK upto : IsChain(first, m - 1, parts, upto)
  BY <1>4
<1> DEFINE long == [k \in 0..m |-> IF k = m THEN Linked(first, parts, upto, m) ELSE upto[k]]
<1>6. \A k \in 0..m : Linked(first, parts, long, k) = Linked(first, parts, upto, k)
  <2> TAKE k \in 0..m
  <2>1. k # 0 => k - 1 \in 0..m /\ k - 1 # m /\ long[k - 1] = upto[k - 1]
    BY <1>4
  <2> HIDE DEF long
  <2> QED
    BY <2>1 DEF Linked
<1>7. \A k \in 0..m : long[k] = Linked(first, parts, long, k)
  <2> TAKE k \in 0..m
  <2>1. CASE k = m
    BY <2>1, <1>6
  <2>2. CASE k # m
    <3>1. k \in 0..(m - 1)
      BY <2>2, <1>4
    <3>2. upto[k] = Linked(first, parts, upto, k)
      BY <1>5, <3>1 DEF IsChain
    <3> QED
      BY <2>2, <3>2, <1>6
  <2> QED
    BY <2>1, <2>2
<1>8. IsChain(first, m, parts, long)
  BY <1>7 DEF IsChain
<1> QED
  BY <1>2, <1>8

LEMMA ChainedType ==
  ASSUME NEW S, NEW first \in Seq(S), NEW n \in Nat, NEW parts,
         \A k \in 1..n : parts[k] \in Seq(S)
  PROVE  Chained(first, n, parts) \in Seq(S)
<1> DEFINE upto == CHOOSE f : IsChain(first, n, parts, f)
<1>1. IsChain(first, n, parts, upto)
  BY ChainExists
<1>2. Chained(first, n, parts) = upto[n]
  BY DEF Chained, IsChain, Linked
<1> HIDE DEF upto
<1>3. \A k \in 0..n : upto[k] = Linked(first, parts, upto, k)
  BY <1>1 DEF IsChain
<1> DEFINE Bad == {k \in 0..n : upto[k] \notin Seq(S)}
<1>4. SUFFICES ASSUME Bad # {} PROVE FALSE
  BY <1>2
<1>5. PICK k \in Bad : \A i \in Bad : k <= i
  <2>1. Bad \subseteq Nat
    OBVIOUS
  <2> HIDE DEF Bad
  <2> QED
    BY <1>4, <2>1, LeastExists
<1>6. k # 0
  BY <1>3, <1>5 DEF Linked
<1>7. k - 1 \in 0..n /\ k - 1 \notin Bad /\ k \in 1..n
  BY <1>5, <1>6
<1>8. upto[k] = upto[k - 1] \o parts[k]
  BY <1>3, <1>6, <1>7 DEF Linked
<1>9. \A s, u \in Seq(S) : s \o u \in Seq(S)
  OBVIOUS
<1>10. upto[k - 1] \in Seq(S) /\ parts[k] \in Seq(S)
  BY <1>7
<1>11. upto[k] \in Seq(S)
  BY <1>8, <1>9, <1>10, Zenon
<1> QED
  BY <1>5, <1>11

(* The jobs at and below job j, down to depth n. *)
Down(children, below, n) ==
  [j \in Job |-> IF n = 0 THEN <<j>>
                 ELSE Chained(<<j>>, Len(children[j]),
                              [i \in DOMAIN children[j] |-> below[n - 1][children[j][i]]])]

IsBelow(children, m, below) == below = [n \in 0..m |-> Down(children, below, n)]

LEMMA BelowExists ==
  ASSUME NEW children, NEW depth \in Nat
  PROVE  \E below : IsBelow(children, depth, below)
<1> DEFINE Bad == {m \in 0..depth : ~ \E below : IsBelow(children, m, below)}
<1>1. SUFFICES ASSUME Bad # {} PROVE FALSE
  OBVIOUS
<1>2. PICK m \in Bad : \A k \in Bad : m <= k
  <2>1. Bad \subseteq Nat
    OBVIOUS
  <2> HIDE DEF Bad
  <2> QED
    BY <1>1, <2>1, LeastExists
<1>3. m # 0
  <2> DEFINE leaf == [n \in 0..0 |-> [j \in Job |-> <<j>>]]
  <2>1. \A n \in 0..0 : leaf[n] = Down(children, leaf, n)
    BY DEF Down
  <2>2. IsBelow(children, 0, leaf)
    BY <2>1 DEF IsBelow
  <2> QED
    BY <1>2, <2>2
<1>4. m - 1 \in 0..depth /\ m - 1 \notin Bad /\ m \in 1..depth
  BY <1>2, <1>3
<1>5. PICK below : IsBelow(children, m - 1, below)
  BY <1>4
<1> DEFINE deep == [n \in 0..m |-> IF n = m THEN Down(children, below, m) ELSE below[n]]
<1>6. \A n \in 0..m : Down(children, deep, n) = Down(children, below, n)
  <2> TAKE n \in 0..m
  <2>1. n # 0 => deep[n - 1] = below[n - 1]
    <3>1. n # 0 => n - 1 \in 0..m /\ n - 1 # m
      BY <1>4
    <3> QED
      BY <3>1
  <2> HIDE DEF deep
  <2>2. CASE n = 0
    BY <2>2 DEF Down
  <2>3. CASE n # 0
    BY <2>1, <2>3 DEF Down
  <2> QED
    BY <2>2, <2>3
<1>7. \A n \in 0..m : deep[n] = Down(children, deep, n)
  <2> TAKE n \in 0..m
  <2>1. CASE n = m
    BY <2>1, <1>6
  <2>2. CASE n # m
    <3>1. n \in 0..(m - 1)
      BY <2>2, <1>4
    <3>2. below[n] = Down(children, below, n)
      BY <1>5, <3>1 DEF IsBelow
    <3> QED
      BY <2>2, <3>2, <1>6
  <2> QED
    BY <2>1, <2>2
<1>8. IsBelow(children, m, deep)
  BY <1>7 DEF IsBelow
<1> QED
  BY <1>2, <1>8

LEMMA SubtreeIsJobs ==
  ASSUME kids \in [Job -> Seq(Job)]
  PROVE  Subtree \in Seq(Job)
<1> DEFINE depth == Cardinality(Job)
           below == CHOOSE b : IsBelow(kids, depth, b)
<1>1. depth \in Nat /\ Root \in Job
  BY JobTreeAssumption, FS_CardinalityType
<1>2. IsBelow(kids, depth, below)
  BY <1>1, BelowExists
<1>3. Subtree = below[depth][Root]
  BY DEF Subtree, IsBelow, Down
<1> HIDE DEF below, depth
<1>4. \A n \in 0..depth : below[n] = Down(kids, below, n)
  BY <1>2 DEF IsBelow
<1> DEFINE Bad == {n \in 0..depth : below[n] \notin [Job -> Seq(Job)]}
<1>5. Bad = {}
  <2>1. SUFFICES ASSUME Bad # {} PROVE FALSE
    OBVIOUS
  <2>2. PICK n \in Bad : \A k \in Bad : n <= k
    <3>1. Bad \subseteq Nat
      BY <1>1
    <3> HIDE DEF Bad
    <3> QED
      BY <2>1, <3>1, LeastExists
  <2>3. below[n] = Down(kids, below, n)
    BY <1>4, <2>2
  <2>4. CASE n = 0
    <3>1. Down(kids, below, n) \in [Job -> Seq(Job)]
      BY <2>4 DEF Down
    <3> QED
      BY <2>2, <2>3, <3>1
  <2>5. CASE n # 0
    <3>1. n - 1 \in 0..depth /\ n - 1 \notin Bad
      BY <1>1, <2>2, <2>5
    <3>2. below[n - 1] \in [Job -> Seq(Job)]
      BY <3>1
    <3>3. ASSUME NEW j \in Job
          PROVE  Chained(<<j>>, Len(kids[j]),
                         [i \in DOMAIN kids[j] |-> below[n - 1][kids[j][i]]]) \in Seq(Job)
      <4> DEFINE parts == [i \in DOMAIN kids[j] |-> below[n - 1][kids[j][i]]]
      <4>1. kids[j] \in Seq(Job)
        OBVIOUS
      <4>2. Len(kids[j]) \in Nat /\ DOMAIN kids[j] = 1..Len(kids[j])
        BY <4>1
      <4>3. \A i \in 1..Len(kids[j]) : kids[j][i] \in Job
        BY <4>1
      <4>4. \A i \in 1..Len(kids[j]) : parts[i] \in Seq(Job)
        BY <3>2, <4>2, <4>3, Zenon
      <4> HIDE DEF parts
      <4>5. <<j>> \in Seq(Job)
        OBVIOUS
      <4>6. Chained(<<j>>, Len(kids[j]), parts) \in Seq(Job)
        BY <4>2, <4>4, <4>5, ChainedType
      <4> QED
        BY <4>6 DEF parts
    <3>4. Down(kids, below, n) \in [Job -> Seq(Job)]
      BY <2>5, <3>3 DEF Down
    <3> QED
      BY <2>2, <2>3, <3>4
  <2> QED
    BY <2>4, <2>5
<1>6. depth \in 0..depth
  BY <1>1
<1>7. below[depth] \in [Job -> Seq(Job)]
  BY <1>5, <1>6, Zenon
<1> QED
  BY <1>1, <1>3, <1>7

LEMMA AmongType ==
  ASSUME NEW S, NEW T, NEW s \in Seq(S)
  PROVE  Among(s, T) \in Seq(S)
<1> DEFINE parts == [i \in DOMAIN s |-> IF s[i] \in T THEN <<s[i]>> ELSE <<>>]
<1>1. Len(s) \in Nat /\ DOMAIN s = 1..Len(s) /\ \A i \in 1..Len(s) : s[i] \in S
  OBVIOUS
<1>2. \A x \in S : <<x>> \in Seq(S)
  OBVIOUS
<1>3. <<>> \in Seq(S)
  OBVIOUS
<1>4. \A i \in 1..Len(s) : parts[i] \in Seq(S)
  BY <1>1, <1>2, <1>3, Zenon
<1> HIDE DEF parts
<1>5. Chained(<<>>, Len(s), parts) \in Seq(S)
  BY <1>1, <1>3, <1>4, ChainedType
<1> QED
  BY <1>5 DEF Among, parts

(* What run() looks at, or waits for, are jobs. *)
ScanJobs == scan \in Seq(Job)

LEMMA ScanStep ==
  ASSUME IInv, ScanJobs, [Next]_vars
  PROVE  ScanJobs'
<1>1. Subtree \in Seq(Job)
  BY SubtreeIsJobs DEF IInv, Typed
<1>2. CASE Run
  BY <1>1, <1>2 DEF Run, ScanJobs
<1>3. CASE ScanStops
  <2>1. PICK n \in DOMAIN scan : scan' = SubSeq(scan, n + 1, Len(scan))
    BY <1>3 DEF ScanStops
  <2>2. SubSeq(scan, n + 1, Len(scan)) \in Seq(Job)
    BY DEF ScanJobs
  <2> QED
    BY <2>1, <2>2 DEF ScanJobs
<1>4. CASE ScanEnds
  BY <1>4 DEF ScanEnds, ScanJobs
<1>5. CASE Wakes
  <2>1. scan' = <<>> \/ scan' = Subtree
    BY <1>5 DEF Wakes
  <2>2. <<>> \in Seq(Job)
    OBVIOUS
  <2> QED
    BY <1>1, <2>1, <2>2, Zenon DEF ScanJobs
<1>6. CASE Gather
  BY <1>1, <1>6, AmongType DEF Gather, ScanJobs
<1>7. CASE UNCHANGED scan
  BY <1>7 DEF ScanJobs
<1>8. FinalStop \/ Over \/ Interrupt \/ AllOver \/ UNCHANGED vars => UNCHANGED scan
  BY DEF FinalStop, Over, Interrupt, AllOver, vars
<1>9. ASSUME NEW j \in Job, Start(j) \/ BecomeReady(j)
      PROVE  UNCHANGED scan
  BY <1>9 DEF Start, BecomeReady
<1>10. ASSUME NEW t \in Task, TaskStep(t)
       PROVE  UNCHANGED scan
  BY <1>10 DEF TaskStep, RunCmd, CmdEnds, Emit, AddChild, CallStop
<1>11. ASSUME NEW t \in DOMAIN stack, StopStep(t)
       PROVE  UNCHANGED scan
  BY <1>11 DEF StopStep, StopCall, CancelTasks, HooksStart, HooksEnd, NextChild, StopDone
<1> QED
  BY <1>2, <1>3, <1>4, <1>5, <1>6, <1>7, <1>8, <1>9, <1>10, <1>11 DEF Next, RunStep

(* At every moment the flags of a job are in order, and what run() goes    *)
(* through (the walk of _subtree, or the stops it gathers) is a list of    *)
(* jobs.                                                                   *)
THEOREM TypesAreOK == Spec => []TypeOK
<1>1. Init => ScanJobs
  BY DEF Init, ScanJobs
<1>2. IInv /\ ScanJobs /\ [Next]_vars => ScanJobs'
  BY ScanStep
<1>3. ScanJobs => ToSet(scan) \subseteq Job
  BY DEF ScanJobs, ToSet
<1>4. FlagsOK /\ ScanJobs => TypeOK
  BY <1>3 DEF TypeOK
<1> QED
  BY <1>1, <1>2, <1>4, JobTreeInvariant, FlagsInOrder, PTL DEF Spec
=============================================================================
