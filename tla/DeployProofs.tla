---------------------------- MODULE DeployProofs ----------------------------
(***************************************************************************)
(* What holds of Deploy for every declaration that meets the conditions of *)
(* DeployPlans, every host before it, and any number of runs, failing      *)
(* commands, deaths and reboots: what others have on the host stays;       *)
(* nothing refers to what is not there; a create completes, and the delete *)
(* after it runs into nothing unexpected; and a delete leaves nothing.     *)
(*                                                                         *)
(* The commands of an operation run one after the other, so all need a     *)
(* fact about RunOf first: what every command keeps, the whole keeps,      *)
(* wherever it breaks off.  RunOf is a recursive function; that there is   *)
(* such a function, and what it keeps, is shown by the least number of     *)
(* commands for which it would fail.                                       *)
(***************************************************************************)
EXTENDS DeployPlans, TLAPS, NaturalsInduction, WellFoundedInduction, SequenceTheorems

LEMMA LeastExists ==
  ASSUME NEW S \in SUBSET Nat, S # {}
  PROVE  \E x \in S : \A y \in S : x <= y
<1>1. PICK x \in S : \A y \in S : ~ (<<y, x>> \in OpToRel(<, Nat))
  BY NatLessThanWellFounded, WFMin, Zenon
<1>2. \A y \in S : ~ (y < x)
  BY <1>1, Zenon DEF OpToRel
<1> QED
  BY <1>2

(* What a run looks like after n commands. *)
After(before, cmds, hit, lenient, run, n) ==
  IF n = 0 THEN Started(before)
  ELSE IF lenient \/ run[n - 1].go THEN Ran(run[n - 1], cmds[n], hit) ELSE run[n - 1]

IsRun(before, cmds, hit, lenient, run) ==
  run = [n \in 0..Len(cmds) |-> After(before, cmds, hit, lenient, run, n)]

LEMMA RunExists ==
  ASSUME NEW before, NEW cmds, Len(cmds) \in Nat, NEW hit, NEW lenient
  PROVE  \E run : IsRun(before, cmds, hit, lenient, run)
<1> DEFINE Bad == {m \in 0..Len(cmds) :
                     ~ \E run : run = [n \in 0..m |-> After(before, cmds, hit, lenient, run, n)]}
<1>1. SUFFICES ASSUME Bad # {} PROVE FALSE
  BY DEF IsRun
<1>2. PICK m \in Bad : \A k \in Bad : m <= k
  <2>1. Bad \subseteq Nat
    OBVIOUS
  <2> HIDE DEF Bad
  <2> QED
    BY <1>1, <2>1, LeastExists
<1>3. m \in Nat /\ m <= Len(cmds)
  OBVIOUS
<1>4. m # 0
  <2> SUFFICES ASSUME m = 0 PROVE FALSE
    OBVIOUS
  <2> DEFINE run == [n \in 0..0 |-> Started(before)]
  <2>1. run = [n \in 0..0 |-> After(before, cmds, hit, lenient, run, n)]
    BY DEF After
  <2> QED
    BY <2>1, <1>2
<1>5. m - 1 \in 0..Len(cmds) /\ m - 1 \notin Bad
  BY <1>2, <1>3, <1>4
<1>6. PICK run : run = [n \in 0..(m - 1) |-> After(before, cmds, hit, lenient, run, n)]
  BY <1>5
<1> DEFINE long == [n \in 0..m |-> IF n = m THEN After(before, cmds, hit, lenient, run, m) ELSE run[n]]
<1>7. \A n \in 0..m : After(before, cmds, hit, lenient, long, n) = After(before, cmds, hit, lenient, run, n)
  <2> TAKE n \in 0..m
  <2>1. n # 0 => n - 1 \in 0..m /\ n - 1 # m /\ long[n - 1] = run[n - 1]
    BY <1>3
  <2> HIDE DEF long
  <2> QED
    BY <2>1 DEF After
<1>8. \A n \in 0..m : long[n] = After(before, cmds, hit, lenient, long, n)
  <2> TAKE n \in 0..m
  <2>1. CASE n = m
    BY <2>1, <1>7
  <2>2. CASE n # m
    <3>1. n \in 0..(m - 1)
      BY <2>2, <1>3
    <3>2. run[n] = After(before, cmds, hit, lenient, run, n)
      BY <1>6, <3>1
    <3> QED
      BY <2>2, <3>2, <1>7
  <2> QED
    BY <2>1, <2>2
<1>9. long = [n \in 0..m |-> After(before, cmds, hit, lenient, long, n)]
  BY <1>8
<1> QED
  BY <1>2, <1>9

(* So RunOf is what its definition says. *)
LEMMA RunIsRun ==
  ASSUME NEW before, NEW cmds, Len(cmds) \in Nat, NEW hit, NEW lenient
  PROVE  \E run :
           /\ \A n \in 0..Len(cmds) : run[n] = After(before, cmds, hit, lenient, run, n)
           /\ RunOf(before, cmds, hit, lenient) = run[Len(cmds)]
<1> DEFINE run == CHOOSE f : IsRun(before, cmds, hit, lenient, f)
<1>1. RunOf(before, cmds, hit, lenient) = run[Len(cmds)]
  BY DEF RunOf, After, IsRun
<1>2. IsRun(before, cmds, hit, lenient, run)
  BY RunExists
<1> HIDE DEF run
<1> QED
  BY <1>1, <1>2 DEF IsRun
---------------------------------------------------------------------------
(* What others have.                                                       *)

(* The host has all that others have, and nothing of it is tied to what    *)
(* the plan may take away.                                                 *)
Apart(x, units) ==
  /\ Others(units) \subseteq x.objs
  /\ \A t \in x.ties : \A o, p \in t : Exposed(o, units) => ~ Holds(p, Others(units))

Clean(c, units) ==
  /\ c \in CommandsOf(units)
  /\ \A o \in Takes(c) : ~ Holds(o, Others(units))
  /\ \A d \in c.prune : Holds(d, Others(units)) => Holds(d, Others(units) \ c.prune)

LEMMA TakesExposed ==
  ASSUME NEW units, NEW c, Clean(c, units), NEW q \in Takes(c) \cup c.prune
  PROVE  /\ Exposed(q, units)
         /\ \A o : IsPrefix(q, o) => Exposed(o, units)
  BY DEF Clean, Exposed, IsStrictPrefix

(* What goes with what a command drops or prunes is nobody else's. *)
LEMMA GoneApart ==
  ASSUME NEW units, NEW c, Clean(c, units), NEW x, Apart(x, units)
  PROVE  Others(units) \cap Gone(x, c.drop \cup EmptyUpwards(x, c.prune)) = {}
<1> DEFINE tops == c.drop \cup EmptyUpwards(x, c.prune)
<1>1. tops \subseteq Takes(c) \cup c.prune
  BY DEF EmptyUpwards, Takes
<1>2. \A q \in tops : ~ Holds(q, Others(units))
  <2> SUFFICES ASSUME NEW q \in tops, Holds(q, Others(units)) PROVE FALSE
    OBVIOUS
  <2>1. q \notin c.drop
    BY DEF Clean, Takes
  <2>2. q \in EmptyUpwards(x, c.prune) /\ q \in c.prune
    BY <2>1 DEF EmptyUpwards
  <2>3. PICK f \in Others(units) \ c.prune : IsPrefix(q, f)
    BY <2>2 DEF Clean, Holds
  <2>4. f \in x.objs
    BY DEF Apart
  <2> QED
    BY <2>2, <2>3, <2>4 DEF EmptyUpwards
<1>3. SUFFICES ASSUME NEW f \in Others(units), f \in Gone(x, tops) PROVE FALSE
  OBVIOUS
<1> HIDE DEF tops
<1>4. CASE f \in Within(x.objs, tops)
  BY <1>2, <1>4 DEF Within, Holds
<1>5. CASE f \notin Within(x.objs, tops)
  <2>1. PICK p, o : o \in Within(x.objs, tops) /\ {o, p} \in x.ties /\ IsPrefix(p, f)
    BY <1>3, <1>5 DEF Gone, Within
  <2>2. Exposed(o, units)
    BY <2>1, <1>1, TakesExposed DEF Within
  <2>3. ~ Holds(p, Others(units))
    BY <2>1, <2>2 DEF Apart
  <2> QED
    BY <2>1, <2>3 DEF Holds
<1> QED
  BY <1>4, <1>5

LEMMA EffectApart ==
  ASSUME NEW units, NEW c, Clean(c, units), NEW x, Apart(x, units)
  PROVE  Apart(Effect(x, c), units)
<1>1. CASE c.moves = <<>>
  <2> DEFINE gone == Gone(x, c.drop \cup EmptyUpwards(x, c.prune))
             y == Effect(x, c)
  <2>1. /\ y.objs = (x.objs \ gone) \cup c.adds
        /\ y.ties = {t \in x.ties : t \cap gone = {}} \cup c.tie
    BY <1>1 DEF Effect, Dropped
  <2>2. Others(units) \cap gone = {}
    BY GoneApart
  <2> HIDE DEF gone, y
  <2>3. Others(units) \subseteq y.objs
    BY <2>1, <2>2 DEF Apart
  <2>4. ASSUME NEW t \in y.ties, NEW o \in t, NEW p \in t, Exposed(o, units)
        PROVE  ~ Holds(p, Others(units))
    <3>1. CASE t \in x.ties
      BY <2>4, <3>1 DEF Apart
    <3>2. CASE t \in c.tie
      <4>1. p \in Takes(c)
        BY <3>2 DEF Takes
      <4> QED
        BY <4>1 DEF Clean
    <3> QED
      BY <2>1, <3>1, <3>2
  <2>5. Apart(y, units)
    BY <2>3, <2>4 DEF Apart
  <2> QED
    BY <2>5 DEF y
<1>2. CASE c.moves # <<>>
  <2> DEFINE from == c.moves[1]
             to == c.moves[2]
             y == Effect(x, c)
  <2>1. /\ y.objs = (x.objs \ Within(x.objs, {from})) \cup {to}
        /\ y.ties = {IF from \in t THEN (t \ {from}) \cup {to} ELSE t : t \in x.ties}
    BY <1>2 DEF Effect, Moved
  <2>2. from \in Takes(c) /\ to \in Takes(c)
    BY <1>2 DEF Takes
  <2>3. ~ Holds(from, Others(units)) /\ ~ Holds(to, Others(units)) /\ Exposed(from, units)
    BY <2>2, TakesExposed DEF Clean
  <2> HIDE DEF from, to, y
  <2>4. Others(units) \subseteq y.objs
    BY <2>1, <2>3 DEF Apart, Within, Holds
  <2>5. ASSUME NEW t \in y.ties, NEW o \in t, NEW p \in t, Exposed(o, units)
        PROVE  ~ Holds(p, Others(units))
    <3>1. PICK s \in x.ties : t = IF from \in s THEN (s \ {from}) \cup {to} ELSE s
      BY <2>1
    <3>2. CASE from \notin s
      BY <2>5, <3>1, <3>2 DEF Apart
    <3>3. CASE from \in s
      <4>1. p = to \/ p \in s
        BY <3>1, <3>3
      <4> QED
        BY <2>3, <3>3, <4>1 DEF Apart
    <3> QED
      BY <3>2, <3>3
  <2>6. Apart(y, units)
    BY <2>4, <2>5 DEF Apart
  <2> QED
    BY <2>6 DEF y
<1> QED
  BY <1>1, <1>2

(* Whatever a sequence of such commands comes to. *)
LEMMA RunApart ==
  ASSUME NEW units, NEW x, Apart(x, units), NEW hit, NEW lenient,
         NEW cmds, Len(cmds) \in Nat, \A n \in 1..Len(cmds) : Clean(cmds[n], units)
  PROVE  Apart(RunOf(x, cmds, hit, lenient).host, units)
<1>1. PICK run :
        /\ \A n \in 0..Len(cmds) : run[n] = After(x, cmds, hit, lenient, run, n)
        /\ RunOf(x, cmds, hit, lenient) = run[Len(cmds)]
  BY RunIsRun
<1> DEFINE Bad == {n \in 0..Len(cmds) : ~ Apart(run[n].host, units)}
<1>2. SUFFICES ASSUME Bad # {} PROVE FALSE
  BY <1>1
<1>3. PICK n \in Bad : \A k \in Bad : n <= k
  <2>1. Bad \subseteq Nat
    OBVIOUS
  <2> HIDE DEF Bad
  <2> QED
    BY <1>2, <2>1, LeastExists
<1>4. CASE n = 0
  <2>1. run[n].host = x
    BY <1>1, <1>4 DEF After, Started
  <2> QED
    BY <2>1
<1>5. CASE n # 0
  <2>1. n - 1 \in 0..Len(cmds) /\ n - 1 \notin Bad /\ n \in 1..Len(cmds)
    BY <1>3, <1>5
  <2>2. Apart(run[n - 1].host, units)
    BY <2>1
  <2>3. run[n] = IF lenient \/ run[n - 1].go THEN Ran(run[n - 1], cmds[n], hit) ELSE run[n - 1]
    BY <1>1, <1>5, <2>1 DEF After
  <2>4. \/ run[n].host = run[n - 1].host
        \/ run[n].host = Effect(run[n - 1].host, cmds[n])
    BY <2>3 DEF Ran
  <2>5. Apart(Effect(run[n - 1].host, cmds[n]), units)
    BY <2>1, <2>2, EffectApart
  <2> QED
    BY <2>2, <2>4, <2>5
<1> QED
  BY <1>4, <1>5
---------------------------------------------------------------------------
(* The plan, and how far a run is.                                         *)

LEMMA SequenceIsFunction ==
  ASSUME NEW s, IsSequence(s)
  PROVE  Len(s) \in Nat /\ DOMAIN s = 1..Len(s)
<1> DEFINE S == ToSet(s)
<1>1. s \in Seq(S)
  BY DEF IsSequence
<1> HIDE DEF S
<1> QED
  BY <1>1

PlanOf(units) == \E h \in ToSet(IR.hosts) : units = PlanUnits(h)

LEMMA PlanIsSequence ==
  ASSUME NEW units, PlanOf(units)
  PROVE  /\ Len(units) \in Nat /\ DOMAIN units = 1..Len(units)
         /\ \A i \in 1..Len(units) : /\ IsSequence(units[i].op.create)
                                     /\ IsSequence(units[i].op.delete)
<1>1. /\ IsSequence(units)
      /\ \A i \in DOMAIN units : IsSequence(units[i].op.create) /\ IsSequence(units[i].op.delete)
  BY PlanAssumption DEF PlanOf
<1> QED
  BY <1>1, SequenceIsFunction

LEMMA NextAtIsNext ==
  ASSUME Len(plan) \in Nat, NEW i \in 1..(Len(plan) + 1), NEW scopes
  PROVE  /\ NextAt(i, scopes) \in i..(Len(plan) + 1)
         /\ \A j \in i..(NextAt(i, scopes) - 1) : Blocked(j, scopes)
         /\ NextAt(i, scopes) <= Len(plan) => ~ Blocked(NextAt(i, scopes), scopes)
<1> DEFINE open == {j \in i..Len(plan) : ~ Blocked(j, scopes)}
           next == CHOOSE j \in open : \A k \in open : j <= k
<1>1. open \subseteq Nat
  OBVIOUS
<1>2. open # {} => next \in open /\ \A k \in open : next <= k
  <2> SUFFICES ASSUME open # {} PROVE \E j \in open : \A k \in open : j <= k
    OBVIOUS
  <2> HIDE DEF open
  <2> QED
    BY <1>1, LeastExists
<1>3. NextAt(i, scopes) = IF open = {} THEN Len(plan) + 1 ELSE next
  BY DEF NextAt
<1> HIDE DEF next
<1> QED
  BY <1>2, <1>3

Ranged ==
  /\ PlanOf(plan)
  /\ act \in {"idle", "create", "delete"}
  /\ at \in 1..(Len(plan) + 1)

LEMMA RangedInit == Init => Ranged
  BY PlanIsSequence DEF Init, Ranged, PlanOf

(* The operation at hand is one of the plan, in either direction. *)
LEMMA AtHand ==
  ASSUME Ranged, at <= Len(plan)
  PROVE  /\ at \in 1..Len(plan)
         /\ act # "delete" => OpAt(at) = plan[at].op
         /\ \E i \in DOMAIN plan : OpAt(at) = plan[i].op
<1>1. Len(plan) \in Nat /\ DOMAIN plan = 1..Len(plan) /\ at \in 1..Len(plan)
  BY PlanIsSequence DEF Ranged
<1> QED
  BY <1>1 DEF OpAt

(* Its commands, or the first of them. *)
LEMMA CommandsAtHand ==
  ASSUME Ranged, at <= Len(plan),
         NEW cmds, cmds \in {OpAt(at).create, OpAt(at).delete}
  PROVE  /\ Len(cmds) \in Nat /\ DOMAIN cmds = 1..Len(cmds)
         /\ \A n \in 1..Len(cmds) : cmds[n] \in CommandsOf(plan)
         /\ \A m \in DOMAIN cmds :
              /\ Len(SubSeq(cmds, 1, m)) = m /\ m \in 1..Len(cmds)
              /\ \A n \in 1..m : SubSeq(cmds, 1, m)[n] = cmds[n]
<1>1. PICK i \in DOMAIN plan : OpAt(at) = plan[i].op
  BY AtHand
<1>2. IsSequence(cmds)
  BY <1>1, PlanIsSequence DEF Ranged
<1>3. Len(cmds) \in Nat /\ DOMAIN cmds = 1..Len(cmds)
  BY <1>2, SequenceIsFunction
<1>4. \A n \in 1..Len(cmds) : cmds[n] \in ToSet(cmds)
  BY <1>3 DEF ToSet
<1>5. ToSet(cmds) \subseteq CommandsOf(plan)
  BY <1>1 DEF CommandsOf
<1>6. ASSUME NEW m \in DOMAIN cmds
      PROVE  /\ Len(SubSeq(cmds, 1, m)) = m /\ m \in 1..Len(cmds)
             /\ \A n \in 1..m : SubSeq(cmds, 1, m)[n] = cmds[n]
  <2> DEFINE S == ToSet(cmds)
  <2>1. cmds \in Seq(S)
    BY <1>2 DEF IsSequence
  <2> HIDE DEF S
  <2> QED
    BY <1>3, <2>1
<1> QED
  BY <1>3, <1>4, <1>5, <1>6

LEMMA RangedStep ==
  ASSUME Ranged, [Next]_vars
  PROVE  Ranged'
<1>1. Len(plan) \in Nat
  BY PlanIsSequence DEF Ranged
<1>2. CASE UNCHANGED <<plan, act, at>>
  BY <1>2 DEF Ranged, PlanOf
<1>3. ASSUME NEW action \in {"create", "delete"}, Begin(action) PROVE Ranged'
  BY <1>1, <1>3 DEF Ranged, Begin, PlanOf
<1>4. CASE CreateStep
  <2>1. at + 1 \in 1..(Len(plan) + 1) /\ UNCHANGED <<plan, act>>
    BY <1>1, <1>4 DEF CreateStep, Ranged
  <2>2. PICK scopes : at' = NextAt(at + 1, scopes)
    BY <1>4 DEF CreateStep
  <2> QED
    BY <1>1, <2>1, <2>2, NextAtIsNext DEF Ranged, PlanOf
<1>5. CASE GiveUp
  <2>1. at + 1 \in 1..(Len(plan) + 1) /\ UNCHANGED <<plan, act>>
    BY <1>1, <1>5 DEF GiveUp, Ranged
  <2>2. PICK scopes : at' = NextAt(at + 1, scopes)
    BY <1>5 DEF GiveUp
  <2> QED
    BY <1>1, <2>1, <2>2, NextAtIsNext DEF Ranged, PlanOf
<1>6. CASE DeleteStep
  BY <1>1, <1>6 DEF DeleteStep, Ranged, PlanOf
<1>7. CASE Finish \/ Die \/ Reboot
  BY <1>7 DEF Finish, Die, Reboot, Ranged, PlanOf
<1> QED
  BY <1>2, <1>3, <1>4, <1>5, <1>6, <1>7 DEF Next, Register, AllOver, vars
---------------------------------------------------------------------------
(* What others have stays.                                                 *)

LEMMA CommandsAreClean ==
  ASSUME KeepsToItself, NEW units, PlanOf(units), NEW c \in CommandsOf(units)
  PROVE  Clean(c, units)
BY DEF KeepsToItself, PlanOf, Clean

LEMMA ApartInit ==
  ASSUME KeepsToItself, Init
  PROVE  Apart(host, plan)
<1>1. PlanOf(plan) /\ host = Before
  BY DEF Init, PlanOf
<1> QED
  BY <1>1 DEF KeepsToItself, PlanOf, Apart, Others

(* The commands of the operation at hand, all or the first few of them. *)
LEMMA StepApart ==
  ASSUME KeepsToItself, Ranged, Apart(host, plan), at <= Len(plan),
         NEW cmds, cmds \in {OpAt(at).create, OpAt(at).delete}, NEW hit, NEW lenient
  PROVE  /\ Apart(RunOf(host, cmds, hit, lenient).host, plan)
         /\ \A m \in DOMAIN cmds : Apart(RunOf(host, SubSeq(cmds, 1, m), hit, lenient).host, plan)
<1>1. /\ Len(cmds) \in Nat /\ DOMAIN cmds = 1..Len(cmds)
      /\ \A n \in 1..Len(cmds) : Clean(cmds[n], plan)
  BY CommandsAtHand, CommandsAreClean DEF Ranged
<1>2. Apart(RunOf(host, cmds, hit, lenient).host, plan)
  BY <1>1, RunApart
<1>3. ASSUME NEW m \in DOMAIN cmds
      PROVE  Apart(RunOf(host, SubSeq(cmds, 1, m), hit, lenient).host, plan)
  <2> DEFINE some == SubSeq(cmds, 1, m)
  <2>1. Len(some) = m /\ m \in 1..Len(cmds) /\ \A n \in 1..m : some[n] = cmds[n]
    BY <1>3, CommandsAtHand
  <2> HIDE DEF some
  <2>2. Len(some) \in Nat /\ \A n \in 1..Len(some) : Clean(some[n], plan)
    BY <1>1, <2>1
  <2>3. Apart(RunOf(host, some, hit, lenient).host, plan)
    BY <2>2, RunApart
  <2> QED
    BY <2>3 DEF some
<1> QED
  BY <1>2, <1>3

LEMMA ApartStep ==
  ASSUME KeepsToItself, Ranged, Apart(host, plan), [Next]_vars
  PROVE  Apart(host, plan)'
<1>1. CASE UNCHANGED <<plan, host>>
  BY <1>1 DEF Apart, Others, Exposed, CommandsOf, Holds
<1>2. SUFFICES ASSUME plan' = plan, CreateStep \/ DeleteStep \/ Die \/ Reboot
               PROVE  Apart(host', plan)
  <2>1. \/ UNCHANGED <<plan, host>>
        \/ plan' = plan /\ (CreateStep \/ DeleteStep \/ Die \/ Reboot)
    BY DEF Next, Register, Begin, CreateStep, GiveUp, DeleteStep, Finish, Die, Reboot, AllOver, vars
  <2>2. plan' = plan => (Apart(host, plan)' <=> Apart(host', plan))
    BY DEF Apart, Others, Exposed, CommandsOf, Holds
  <2> QED
    BY <1>1, <1>2, <2>1, <2>2
<1>3. CASE CreateStep
  <2>1. at <= Len(plan)
    BY <1>3 DEF CreateStep
  <2>2. PICK hit : host' = host \/ host' = RunOf(host, OpAt(at).create, hit, FALSE).host
    BY <1>3 DEF CreateStep, Strict
  <2> QED
    BY <2>1, <2>2, StepApart
<1>4. CASE DeleteStep
  <2>1. at <= Len(plan)
    BY <1>4 DEF DeleteStep
  <2>2. PICK hit : host' = RunOf(host, OpAt(at).delete, hit, TRUE).host
    BY <1>4 DEF DeleteStep, Lenient
  <2> QED
    BY <2>1, <2>2, StepApart
<1>5. CASE Die
  <2>1. at <= Len(plan)
    BY <1>5 DEF Die
  <2>2. PICK cmds \in {OpAt(at).create, OpAt(at).delete} :
          \E hit \in Hits(cmds), lenient \in BOOLEAN :
            host' = RunOf(host, SubSeq(cmds, 1, hit.at), hit, lenient).host
    BY <1>5 DEF Die, Strict, Lenient
  <2>3. PICK hit, lenient : /\ hit.at \in DOMAIN cmds
                            /\ host' = RunOf(host, SubSeq(cmds, 1, hit.at), hit, lenient).host
    BY <2>2 DEF Hits
  <2> QED
    BY <2>1, <2>3, StepApart
<1>6. CASE Reboot
  BY <1>6 DEF Reboot, Apart, Others
<1> QED
  BY <1>2, <1>3, <1>4, <1>5, <1>6

(* What others have on the host is there at every moment of every create   *)
(* and delete, whatever commands fail and wherever the service dies: with  *)
(* any declaration whose commands name nothing that others have something  *)
(* in.  A directory that a delete prunes (os.removedirs) stays while there  *)
(* is something of theirs in it.                                           *)
THEOREM OthersAreUntouched ==
  ASSUME KeepsToItself
  PROVE  Spec => []ForeignUntouched
<1>1. Init => Ranged /\ Apart(host, plan)
  BY RangedInit, ApartInit
<1>2. Ranged /\ Apart(host, plan) /\ [Next]_vars => Ranged' /\ Apart(host, plan)'
  BY RangedStep, ApartStep
<1>3. Apart(host, plan) => ForeignUntouched
  BY DEF Apart, Others, ForeignUntouched, Known
<1> QED
  BY <1>1, <1>2, <1>3, PTL DEF Spec
---------------------------------------------------------------------------
(* What refers to a chassis.                                               *)

LEMMA EffectBrings ==
  ASSUME NEW c, NEW x
  PROVE  Effect(x, c).objs \subseteq x.objs \cup Brings(c)
BY DEF Effect, Moved, Dropped, Brings

(* A sequence of commands makes only what one of them makes. *)
LEMMA RunBrings ==
  ASSUME NEW x, NEW hit, NEW lenient, NEW cmds, Len(cmds) \in Nat,
         NEW o \in RunOf(x, cmds, hit, lenient).host.objs, o \notin x.objs
  PROVE  \E n \in 1..Len(cmds) : o \in Brings(cmds[n])
<1>1. PICK run :
        /\ \A n \in 0..Len(cmds) : run[n] = After(x, cmds, hit, lenient, run, n)
        /\ RunOf(x, cmds, hit, lenient) = run[Len(cmds)]
  BY RunIsRun
<1> DEFINE There == {n \in 0..Len(cmds) : o \in run[n].host.objs}
<1>2. There \subseteq Nat /\ Len(cmds) \in There
  BY <1>1
<1>3. PICK n \in There : \A k \in There : n <= k
  <2> HIDE DEF There
  <2> QED
    BY <1>2, LeastExists
<1>4. n # 0
  <2>1. run[0].host = x
    BY <1>1 DEF After, Started
  <2> QED
    BY <2>1
<1>5. n - 1 \in 0..Len(cmds) /\ n - 1 \notin There /\ n \in 1..Len(cmds)
  BY <1>3, <1>4
<1>6. run[n] = IF lenient \/ run[n - 1].go THEN Ran(run[n - 1], cmds[n], hit) ELSE run[n - 1]
  BY <1>1, <1>4, <1>5 DEF After
<1>7. \/ run[n].host = run[n - 1].host
      \/ run[n].host = Effect(run[n - 1].host, cmds[n])
  BY <1>6 DEF Ran
<1>8. o \in Brings(cmds[n])
  BY <1>5, <1>7, EffectBrings
<1> QED
  BY <1>5, <1>8

(* A create is at an operation that is not blocked, and behind it every    *)
(* chassis was found that an operation of a scope in order waited for.     *)
Passed ==
  act = "create" =>
    /\ at <= Len(plan) => ~ Blocked(at, broken)
    /\ \A j \in 1..(at - 1) : ~ Blocked(j, broken) => plan[j].op.waits \subseteq registered

LEMMA PassedStep ==
  ASSUME Ranged, Passed, [Next]_vars
  PROVE  Passed'
<1>1. Len(plan) \in Nat /\ at \in Nat
  BY PlanIsSequence DEF Ranged
<1>2. CASE UNCHANGED <<plan, act, at, broken>> /\ registered \subseteq registered'
  BY <1>2 DEF Passed, Blocked, ScopeAt
<1>3. ASSUME NEW action \in {"create", "delete"}, Begin(action) PROVE Passed'
  BY <1>1, <1>3 DEF Begin, Afresh, Passed, Blocked, ScopeAt
<1>4. ASSUME NEW scopes, broken \subseteq scopes, broken' = scopes, at' = NextAt(at + 1, scopes),
             act = "create", at <= Len(plan), UNCHANGED <<plan, act, registered>>,
             Blocked(at, scopes) \/ plan[at].op.waits \subseteq registered
      PROVE  Passed'
  <2>1. at + 1 \in 1..(Len(plan) + 1)
    BY <1>1, <1>4
  <2>2. /\ at' \in (at + 1)..(Len(plan) + 1)
        /\ \A j \in (at + 1)..(at' - 1) : Blocked(j, scopes)
        /\ at' <= Len(plan) => ~ Blocked(at', scopes)
    BY <1>1, <1>4, <2>1, NextAtIsNext
  <2>3. \A j : Blocked(j, broken) => Blocked(j, scopes)
    BY <1>4 DEF Blocked
  <2>4. \A j : Blocked(j, broken)' <=> Blocked(j, scopes)
    BY <1>4 DEF Blocked, ScopeAt
  <2>5. at' <= Len(plan') => ~ Blocked(at, broken)'
    BY <1>4, <2>2 DEF Blocked, ScopeAt
  <2>6. ASSUME NEW j \in 1..(at' - 1), ~ Blocked(j, scopes)
        PROVE  plan[j].op.waits \subseteq registered
    <3>1. CASE j < at
      BY <1>1, <1>4, <2>3, <2>6, <3>1 DEF Passed
    <3>2. CASE j = at
      BY <1>4, <2>6, <3>2
    <3>3. CASE j > at
      BY <1>1, <2>2, <2>6, <3>3
    <3> QED
      BY <1>1, <2>2, <3>1, <3>2, <3>3
  <2> QED
    BY <1>4, <2>4, <2>5, <2>6 DEF Passed
<1>5. CASE CreateStep
  <2>1. OpAt(at) = plan[at].op
    BY <1>5, AtHand DEF CreateStep
  <2>2. PICK scopes : /\ broken \subseteq scopes /\ broken' = scopes /\ at' = NextAt(at + 1, scopes)
    BY <1>5 DEF CreateStep
  <2> QED
    BY <1>4, <1>5, <2>1, <2>2 DEF CreateStep
<1>6. CASE GiveUp
  <2>1. at' = NextAt(at + 1, broken') /\ broken' = broken \cup {ScopeAt(at)}
    BY <1>6 DEF GiveUp
  <2>2. Blocked(at, broken')
    BY <2>1 DEF Blocked
  <2> QED
    BY <1>4, <1>6, <2>1, <2>2 DEF GiveUp
<1>7. CASE DeleteStep
  BY <1>7 DEF DeleteStep, Passed
<1>8. CASE Finish \/ Die \/ Reboot
  BY <1>8 DEF Finish, Die, Reboot, Passed
<1> QED
  BY <1>2, <1>3, <1>5, <1>6, <1>7, <1>8 DEF Next, Register, AllOver, vars

(* What the operation at hand makes, and refers to a chassis, finds it     *)
(* registered; a delete makes nothing of the kind.                         *)
LEMMA MadeIsRegistered ==
  ASSUME CapturedBefore, Ranged, Passed, at <= Len(plan), act # "idle",
         NEW i \in DOMAIN plan, NEW j \in DOMAIN plan, Refers(plan, i, j), plan[j].op.waits # {},
         NEW c \in ToSet(IF act = "create" THEN OpAt(at).create ELSE OpAt(at).delete),
         plan[i].op.key \in Brings(c)
  PROVE  plan[j].op.waits \subseteq registered
<1>1. Len(plan) \in Nat /\ DOMAIN plan = 1..Len(plan)
  BY PlanIsSequence DEF Ranged
<1>2. /\ \A k \in DOMAIN plan : \A d \in ToSet(plan[k].op.create) :
            plan[i].op.key \in Brings(d) => Refers(plan, k, j)
      /\ \A k \in DOMAIN plan : \A d \in ToSet(plan[k].op.delete) :
            plan[i].op.key \notin Brings(d)
  BY DEF CapturedBefore, Ranged, PlanOf
<1>3. act = "create"
  BY <1>2, AtHand DEF Ranged
<1>4. at \in DOMAIN plan /\ OpAt(at) = plan[at].op
  BY <1>1, <1>3, AtHand
<1>5. Refers(plan, at, j)
  BY <1>2, <1>3, <1>4
<1>6. j < at /\ plan[j].scope = plan[at].scope
  BY <1>4, <1>5 DEF CapturedBefore, Ranged, PlanOf
<1>7. ~ Blocked(at, broken)
  BY <1>3 DEF Passed
<1>8. ~ Blocked(j, broken)
  BY <1>6, <1>7 DEF Blocked, ScopeAt
<1> QED
  BY <1>1, <1>3, <1>4, <1>6, <1>8 DEF Passed

LEMMA PinnedStep ==
  ASSUME CapturedBefore, Ranged, Passed, PinnedIsRegistered, [Next]_vars
  PROVE  PinnedIsRegistered'
<1>1. plan' = plan /\ registered \subseteq registered'
  BY DEF Next, Register, Begin, CreateStep, GiveUp, DeleteStep, Finish, Die, Reboot, AllOver, vars
<1>2. SUFFICES ASSUME NEW i \in DOMAIN plan, NEW j \in DOMAIN plan, Refers(plan, i, j),
                      plan[i].op.key \in host'.objs, plan[j].op.waits # {}
               PROVE  plan[j].op.waits \subseteq registered
  BY <1>1 DEF PinnedIsRegistered, Refers
<1> DEFINE key == plan[i].op.key
<1>3. CASE key \in host.objs
  BY <1>2, <1>3 DEF PinnedIsRegistered
<1>4. ASSUME key \notin host.objs, at <= Len(plan), act # "idle", NEW hit, NEW lenient,
             NEW cmds, cmds = (IF act = "create" THEN OpAt(at).create ELSE OpAt(at).delete),
             \/ host' = RunOf(host, cmds, hit, lenient).host
             \/ \E m \in DOMAIN cmds : host' = RunOf(host, SubSeq(cmds, 1, m), hit, lenient).host
      PROVE  plan[j].op.waits \subseteq registered
  <2>1. /\ Len(cmds) \in Nat /\ DOMAIN cmds = 1..Len(cmds)
        /\ \A m \in DOMAIN cmds :
             /\ Len(SubSeq(cmds, 1, m)) = m /\ m \in 1..Len(cmds)
             /\ \A n \in 1..m : SubSeq(cmds, 1, m)[n] = cmds[n]
    BY <1>4, CommandsAtHand
  <2>2. \E n \in 1..Len(cmds) : key \in Brings(cmds[n])
    <3>1. CASE host' = RunOf(host, cmds, hit, lenient).host
      BY <1>2, <1>4, <2>1, <3>1, RunBrings
    <3>2. ASSUME NEW m \in DOMAIN cmds, host' = RunOf(host, SubSeq(cmds, 1, m), hit, lenient).host
          PROVE  \E n \in 1..Len(cmds) : key \in Brings(cmds[n])
      <4> DEFINE some == SubSeq(cmds, 1, m)
      <4>1. Len(some) = m /\ m \in 1..Len(cmds) /\ \A n \in 1..m : some[n] = cmds[n]
        BY <2>1
      <4> HIDE DEF some
      <4>2. key \in RunOf(host, some, hit, lenient).host.objs
        BY <1>2, <3>2 DEF some
      <4>3. PICK n \in 1..Len(some) : key \in Brings(some[n])
        BY <1>4, <4>1, <4>2, RunBrings
      <4> QED
        BY <2>1, <4>1, <4>3
    <3> QED
      BY <1>4, <3>1, <3>2
  <2>3. PICK c \in ToSet(cmds) : key \in Brings(c)
    BY <2>1, <2>2 DEF ToSet
  <2> QED
    BY <1>2, <1>4, <2>3, MadeIsRegistered
<1>5. CASE CreateStep /\ key \notin host.objs
  <2>1. at <= Len(plan) /\ act = "create"
    BY <1>5 DEF CreateStep
  <2>2. PICK hit : host' = host \/ host' = RunOf(host, OpAt(at).create, hit, FALSE).host
    BY <1>5 DEF CreateStep, Strict
  <2>3. host' # host
    BY <1>2, <1>5
  <2> QED
    BY <1>4, <1>5, <2>1, <2>2, <2>3
<1>6. CASE DeleteStep /\ key \notin host.objs
  <2>1. at <= Len(plan) /\ act = "delete"
    BY <1>6 DEF DeleteStep
  <2>2. PICK hit : host' = RunOf(host, OpAt(at).delete, hit, TRUE).host
    BY <1>6 DEF DeleteStep, Lenient
  <2> QED
    BY <1>4, <1>6, <2>1, <2>2
<1>7. CASE Die /\ key \notin host.objs
  <2> DEFINE cmds == IF act = "create" THEN OpAt(at).create ELSE OpAt(at).delete
  <2>1. at <= Len(plan) /\ act # "idle"
    BY <1>7 DEF Die
  <2>2. PICK hit, lenient : /\ hit.at \in DOMAIN cmds
                            /\ host' = RunOf(host, SubSeq(cmds, 1, hit.at), hit, lenient).host
    BY <1>7 DEF Die, Strict, Lenient, Hits
  <2> HIDE DEF cmds
  <2> QED
    BY <1>4, <1>7, <2>1, <2>2 DEF cmds
<1>8. CASE Reboot
  <2>1. key \notin Before.objs
    BY <1>2 DEF CapturedBefore, Ranged, PlanOf
  <2> QED
    BY <1>2, <1>3, <1>8, <2>1 DEF Reboot
<1>9. key \notin host.objs => CreateStep \/ DeleteStep \/ Die \/ Reboot
  BY <1>2 DEF Next, Register, Begin, GiveUp, Finish, AllOver, vars
<1> QED
  BY <1>3, <1>5, <1>6, <1>7, <1>8, <1>9

(* What refers to the chassis of another host is there only when that host *)
(* has registered, whatever fails: the operation that waited for it is in  *)
(* the same scope, and if it gave up nothing behind it is created.  This   *)
(* is the part of NothingDangles on ports that are pinned to a chassis.    *)
THEOREM ReferredIsRegistered ==
  ASSUME CapturedBefore
  PROVE  Spec => []PinnedIsRegistered
<1>1. Init => Ranged /\ Passed
  BY RangedInit DEF Init, Passed
<1>2. Init => PinnedIsRegistered
  <2> SUFFICES ASSUME Init, NEW i \in DOMAIN plan, NEW j \in DOMAIN plan,
                      plan[i].op.key \in host.objs, Refers(plan, i, j)
               PROVE  plan[j].op.waits = {}
    BY DEF PinnedIsRegistered
  <2> QED
    BY DEF Init, CapturedBefore
<1>3. Ranged /\ Passed /\ PinnedIsRegistered /\ [Next]_vars =>
        Ranged' /\ Passed' /\ PinnedIsRegistered'
  BY RangedStep, PassedStep, PinnedStep
<1> QED
  BY <1>1, <1>2, <1>3, PTL DEF Spec
-----------------------------------------------------------------------------
(* A create on the host as it was before.                                  *)

(* The host has what stands at step s, and not what lacks. *)
Abreast(x, units, s) ==
  \A o : /\ Stands(o, units, s) => o \in x.objs
         /\ Lacks(o, units, s) => o \notin x.objs

(* A step is none of those before it. *)
LEMMA StepsOrdered ==
  ASSUME NEW units, PlanOf(units), NEW s \in Steps(units)
  PROVE  /\ s[1] \in 1..Len(units) /\ s[2] \in 1..Len(units[s[1]].op.create)
         /\ s = <<s[1], s[2]>>
         /\ \A r \in Earlier(units, s) : Precedes(r, s) /\ ~ Precedes(s, r)
         /\ ~ Precedes(s, s) /\ s \notin Earlier(units, s)
<1>1. ASSUME NEW r \in Steps(units)
      PROVE  /\ r[1] \in 1..Len(units) /\ r[2] \in 1..Len(units[r[1]].op.create)
             /\ r[1] \in Nat /\ r[2] \in Nat /\ r = <<r[1], r[2]>>
  <2>1. PICK i \in DOMAIN units : r \in {i} \X DOMAIN units[i].op.create
    BY DEF Steps
  <2>2. /\ Len(units) \in Nat /\ DOMAIN units = 1..Len(units)
        /\ IsSequence(units[i].op.create)
    BY PlanIsSequence
  <2>3. /\ Len(units[i].op.create) \in Nat
        /\ DOMAIN units[i].op.create = 1..Len(units[i].op.create)
    BY <2>2, SequenceIsFunction
  <2> QED
    BY <2>1, <2>2, <2>3
<1> QED
  BY <1>1 DEF Earlier, Precedes

(* One step further: s has been done. *)
LEMMA StepFurther ==
  ASSUME NEW units, PlanOf(units), NEW s \in Steps(units), NEW x, NEW next,
         Earlier(units, next) = Earlier(units, s) \cup {s},
         Timely(units, s), Abreast(x, units, s)
  PROVE  LET c == Command(units, s)
         IN  /\ c.optional => ~ Applies(x, c) /\ Abreast(x, units, next)
             /\ ~ c.optional => Applies(x, c) /\ c.ends /\ Abreast(Effect(x, c), units, next)
<1> DEFINE c == Command(units, s)
           before == Earlier(units, s)
<1>1. /\ s \notin before /\ ~ Precedes(s, s)
      /\ \A r \in before : Precedes(r, s) /\ ~ Precedes(s, r)
  BY StepsOrdered
<1>2. CASE c.optional
  <2>1. ~ Applies(x, c)
    BY <1>2 DEF Timely, Abreast, Applies
  <2>2. ASSUME NEW o, Stands(o, units, next) PROVE Stands(o, units, s)
    <3>1. CASE /\ o \in Before.objs
               /\ \A r \in Earlier(units, next) : ~ Displaces(Command(units, r), o)
      BY <3>1 DEF Stands
    <3>2. ASSUME NEW q \in Earlier(units, next),
                 o \in Brings(Command(units, q)), ~ Command(units, q).optional,
                 \A r \in Earlier(units, next) :
                   Precedes(q, r) => ~ Displaces(Command(units, r), o)
          PROVE  Stands(o, units, s)
      <4>1. q \in before
        BY <1>2, <3>2
      <4> QED
        BY <3>2, <4>1 DEF Stands
    <3> QED
      BY <2>2, <3>1, <3>2 DEF Stands
  <2>3. ASSUME NEW o, Lacks(o, units, next) PROVE Lacks(o, units, s)
    <3>1. CASE /\ o \notin Before.objs
               /\ \A r \in Earlier(units, next) : o \notin Brings(Command(units, r))
      BY <3>1 DEF Lacks
    <3>2. ASSUME NEW q \in Earlier(units, next),
                 Displaces(Command(units, q), o), ~ Command(units, q).optional,
                 \A r \in Earlier(units, next) :
                   Precedes(q, r) => o \notin Brings(Command(units, r))
          PROVE  Lacks(o, units, s)
      <4>1. q \in before
        BY <1>2, <3>2
      <4> QED
        BY <3>2, <4>1 DEF Lacks
    <3> QED
      BY <2>3, <3>1, <3>2 DEF Lacks
  <2> QED
    BY <1>2, <2>1, <2>2, <2>3 DEF Abreast
<1>3. CASE ~ c.optional
  <2>1. Applies(x, c) /\ c.ends /\ c.drop = {} /\ c.prune = {}
    BY <1>3 DEF Timely, Abreast, Applies
  <2> DEFINE y == Effect(x, c)
  <2>2. y.objs = {o \in x.objs : ~ Displaces(c, o)} \cup Brings(c)
    <3>1. CASE c.moves = <<>>
      <4>1. EmptyUpwards(x, {}) = {}
        BY DEF EmptyUpwards
      <4>2. Gone(x, {}) = {}
        BY DEF Gone, Within
      <4>3. y.objs = x.objs \cup c.adds
        BY <2>1, <3>1, <4>1, <4>2 DEF Effect, Dropped
      <4> QED
        BY <3>1, <4>3 DEF Displaces, Brings
    <3>2. CASE c.moves # <<>>
      BY <3>2 DEF Effect, Moved, Within, Displaces, Brings
    <3> QED
      BY <3>1, <3>2
  <2> HIDE DEF y
  <2>3. ASSUME NEW o, Stands(o, units, next) PROVE o \in y.objs
    <3>1. CASE /\ o \in Before.objs
               /\ \A r \in Earlier(units, next) : ~ Displaces(Command(units, r), o)
      <4>1. Stands(o, units, s) /\ ~ Displaces(c, o)
        BY <3>1 DEF Stands
      <4> QED
        BY <2>2, <4>1 DEF Abreast
    <3>2. ASSUME NEW q \in Earlier(units, next),
                 o \in Brings(Command(units, q)), ~ Command(units, q).optional,
                 \A r \in Earlier(units, next) :
                   Precedes(q, r) => ~ Displaces(Command(units, r), o)
          PROVE  o \in y.objs
      <4>1. CASE q = s
        BY <2>2, <3>2, <4>1
      <4>2. CASE q # s
        <5>1. q \in before /\ Precedes(q, s)
          BY <1>1, <3>2, <4>2
        <5>2. Stands(o, units, s) /\ ~ Displaces(c, o)
          BY <3>2, <5>1 DEF Stands
        <5> QED
          BY <2>2, <5>2 DEF Abreast
      <4> QED
        BY <4>1, <4>2
    <3> QED
      BY <2>3, <3>1, <3>2 DEF Stands
  <2>4. ASSUME NEW o, Lacks(o, units, next) PROVE o \notin y.objs
    <3>1. CASE /\ o \notin Before.objs
               /\ \A r \in Earlier(units, next) : o \notin Brings(Command(units, r))
      <4>1. Lacks(o, units, s) /\ o \notin Brings(c)
        BY <3>1 DEF Lacks
      <4> QED
        BY <2>2, <4>1 DEF Abreast
    <3>2. ASSUME NEW q \in Earlier(units, next),
                 Displaces(Command(units, q), o), ~ Command(units, q).optional,
                 \A r \in Earlier(units, next) :
                   Precedes(q, r) => o \notin Brings(Command(units, r))
          PROVE  o \notin y.objs
      <4>1. CASE q = s
        <5>1. o \notin Brings(c)
          BY <3>2, <4>1 DEF Displaces, Brings
        <5> QED
          BY <2>2, <3>2, <4>1, <5>1
      <4>2. CASE q # s
        <5>1. q \in before /\ Precedes(q, s)
          BY <1>1, <3>2, <4>2
        <5>2. Lacks(o, units, s) /\ o \notin Brings(c)
          BY <3>2, <5>1 DEF Lacks
        <5> QED
          BY <2>2, <5>2 DEF Abreast
      <4> QED
        BY <4>1, <4>2
    <3> QED
      BY <2>4, <3>1, <3>2 DEF Lacks
  <2>5. Abreast(y, units, next)
    BY <2>3, <2>4 DEF Abreast
  <2> QED
    BY <1>3, <2>1, <2>5 DEF y
<1> QED
  BY <1>2, <1>3

(* What is earlier than the next step of an operation, and than the first  *)
(* of the next operation.                                                  *)
LEMMA EarlierNext ==
  ASSUME NEW units, PlanOf(units), NEW i \in DOMAIN units
  PROVE  /\ Earlier(units, <<i, Len(units[i].op.create) + 1>>) = Earlier(units, <<i + 1, 1>>)
         /\ \A n \in 1..Len(units[i].op.create) :
              /\ <<i, n>> \in Steps(units)
              /\ Earlier(units, <<i, n + 1>>) = Earlier(units, <<i, n>>) \cup {<<i, n>>}
<1> DEFINE len == Len(units[i].op.create)
<1>1. /\ Len(units) \in Nat /\ DOMAIN units = 1..Len(units)
      /\ len \in Nat /\ DOMAIN units[i].op.create = 1..len
  BY PlanIsSequence, SequenceIsFunction
<1>2. ASSUME NEW r \in Steps(units)
      PROVE  /\ r[1] \in Nat /\ r[2] \in Nat \ {0} /\ r = <<r[1], r[2]>>
             /\ r[1] = i => r[2] <= len
  BY StepsOrdered
<1>3. \A n \in 1..len : <<i, n>> \in Steps(units)
  BY <1>1 DEF Steps
<1> HIDE DEF len
<1>4. Earlier(units, <<i, len + 1>>) = Earlier(units, <<i + 1, 1>>)
  BY <1>1, <1>2 DEF Earlier, Precedes
<1>5. ASSUME NEW n \in 1..len
      PROVE  Earlier(units, <<i, n + 1>>) = Earlier(units, <<i, n>>) \cup {<<i, n>>}
  <2>1. ASSUME NEW r \in Steps(units)
        PROVE  Precedes(r, <<i, n + 1>>) <=> Precedes(r, <<i, n>>) \/ r = <<i, n>>
    BY <1>1, <1>2 DEF Precedes
  <2> QED
    BY <1>3, <2>1 DEF Earlier
<1> QED
  BY <1>3, <1>4, <1>5 DEF len

(* All commands of an operation go through when nothing strikes it. *)
LEMMA RunInOrder ==
  ASSUME NEW units, PlanOf(units), \A s \in Steps(units) : Timely(units, s),
         NEW i \in DOMAIN units, NEW x, Abreast(x, units, <<i, 1>>)
  PROVE  LET run == Strict(x, units[i].op.create, NoHit)
         IN  run.go /\ Abreast(run.host, units, <<i + 1, 1>>)
<1> DEFINE cmds == units[i].op.create
<1>1. Len(cmds) \in Nat /\ DOMAIN cmds = 1..Len(cmds)
  BY PlanIsSequence, SequenceIsFunction
<1>2. /\ Earlier(units, <<i, Len(cmds) + 1>>) = Earlier(units, <<i + 1, 1>>)
      /\ \A n \in 1..Len(cmds) :
              /\ <<i, n>> \in Steps(units) /\ Command(units, <<i, n>>) = cmds[n]
              /\ Earlier(units, <<i, n + 1>>) = Earlier(units, <<i, n>>) \cup {<<i, n>>}
  BY EarlierNext DEF Command
<1> DEFINE lenient == FALSE
<1>a. ~ lenient /\ Strict(x, cmds, NoHit) = RunOf(x, cmds, NoHit, lenient)
  BY DEF Strict
<1> HIDE DEF cmds, lenient
<1>3. PICK run :
        /\ \A n \in 0..Len(cmds) : run[n] = After(x, cmds, NoHit, lenient, run, n)
        /\ RunOf(x, cmds, NoHit, lenient) = run[Len(cmds)]
  BY <1>1, RunIsRun
<1> DEFINE Good(n) == run[n].go /\ run[n].n = n + 1 /\ Abreast(run[n].host, units, <<i, n + 1>>)
           Bad == {n \in 0..Len(cmds) : ~ Good(n)}
<1>4. Bad = {}
  <2>1. SUFFICES ASSUME Bad # {} PROVE FALSE
    OBVIOUS
  <2>2. PICK n \in Bad : \A k \in Bad : n <= k
    <3>1. Bad \subseteq Nat
      OBVIOUS
    <3> HIDE DEF Bad
    <3> QED
      BY <2>1, <3>1, LeastExists
  <2>3. CASE n = 0
    <3>1. run[0] = Started(x)
      BY <1>1, <1>3 DEF After
    <3>2. run[0].go /\ run[0].n = 1 /\ run[0].host = x
      BY <3>1 DEF Started
    <3>3. Good(0)
      BY <3>2
    <3> HIDE DEF Good
    <3> QED
      BY <2>2, <2>3, <3>3
  <2>4. CASE n # 0
    <3>1. n - 1 \in 0..Len(cmds) /\ n - 1 \notin Bad /\ n \in 1..Len(cmds)
      BY <2>2, <2>4
    <3>2. Good(n - 1)
      BY <3>1
    <3> DEFINE w == run[n - 1]
               c == cmds[n]
    <3>3. w.go /\ w.n = n /\ Abreast(w.host, units, <<i, n>>)
      <4>1. (n - 1) + 1 = n
        BY <3>1
      <4> QED
        BY <3>2, <4>1
    <3>4. run[n] = Ran(w, c, NoHit)
      BY <1>a, <1>3, <3>1, <3>3, <2>4 DEF After
    <3>5. /\ c.optional => ~ Applies(w.host, c) /\ Abreast(w.host, units, <<i, n + 1>>)
          /\ ~ c.optional => /\ Applies(w.host, c) /\ c.ends
                             /\ Abreast(Effect(w.host, c), units, <<i, n + 1>>)
      <4> DEFINE s == <<i, n>>
                 next == <<i, n + 1>>
      <4>1. /\ s \in Steps(units) /\ Earlier(units, next) = Earlier(units, s) \cup {s}
            /\ Timely(units, s) /\ Abreast(w.host, units, s) /\ Command(units, s) = c
        BY <1>2, <3>1, <3>3
      <4> HIDE DEF s, next, w, c
      <4>2. LET d == Command(units, s)
            IN /\ d.optional => ~ Applies(w.host, d) /\ Abreast(w.host, units, next)
               /\ ~ d.optional => /\ Applies(w.host, d) /\ d.ends
                                  /\ Abreast(Effect(w.host, d), units, next)
        BY <4>1, StepFurther
      <4> QED
        BY <4>1, <4>2 DEF next
    <3> HIDE DEF w, c
    <3>6. w.n # NoHit.at
      BY <3>1, <3>3 DEF NoHit
    <3>7. run[n].n = n + 1
      BY <3>3, <3>4 DEF Ran
    <3>8. run[n].go /\ Abreast(run[n].host, units, <<i, n + 1>>)
      <4>1. CASE c.optional
        <5>1. Ran(w, c, NoHit).host = w.host /\ Ran(w, c, NoHit).go
          BY <3>5, <4>1 DEF Ran
        <5> QED
          BY <3>4, <3>5, <4>1, <5>1
      <4>2. CASE ~ c.optional
        <5>1. Ran(w, c, NoHit).host = Effect(w.host, c) /\ Ran(w, c, NoHit).go
          BY <3>5, <3>6, <4>2 DEF Ran
        <5> QED
          BY <3>4, <3>5, <4>2, <5>1
      <4> QED
        BY <4>1, <4>2
    <3>9. Good(n)
      BY <3>7, <3>8
    <3> QED
      BY <2>2, <3>9
  <2> QED
    BY <2>3, <2>4
<1>5. Good(Len(cmds))
  <2>1. Len(cmds) \in 0..Len(cmds)
    BY <1>1
  <2> HIDE DEF Good
  <2> QED
    BY <1>4, <2>1
<1>6. Abreast(run[Len(cmds)].host, units, <<i + 1, 1>>)
  <2>1. Abreast(run[Len(cmds)].host, units, <<i, Len(cmds) + 1>>)
    BY <1>5
  <2> DEFINE s == <<i, Len(cmds) + 1>>
             next == <<i + 1, 1>>
  <2>2. Earlier(units, s) = Earlier(units, next)
    BY <1>2
  <2> HIDE DEF s, next
  <2>3. \A o : /\ Stands(o, units, s) <=> Stands(o, units, next)
               /\ Lacks(o, units, s) <=> Lacks(o, units, next)
    BY <2>2 DEF Stands, Lacks
  <2>4. Abreast(run[Len(cmds)].host, units, s) => Abreast(run[Len(cmds)].host, units, next)
    BY <2>3 DEF Abreast
  <2> QED
    BY <2>1, <2>4 DEF s, next
<1>7. run[Len(cmds)].go
  BY <1>5
<1>8. Strict(x, cmds, NoHit).go /\ Abreast(Strict(x, cmds, NoHit).host, units, <<i + 1, 1>>)
  BY <1>a, <1>3, <1>6, <1>7
<1> QED
  BY <1>8 DEF cmds
(* Before the first step. *)
LEMMA AbreastFirst ==
  ASSUME NEW units, PlanOf(units)
  PROVE  Abreast(Before, units, <<1, 1>>)
<1>1. Earlier(units, <<1, 1>>) = {}
  <2> SUFFICES ASSUME NEW r \in Steps(units), Precedes(r, <<1, 1>>) PROVE FALSE
    BY DEF Earlier
  <2>1. Len(units) \in Nat /\ DOMAIN units = 1..Len(units) /\ r[1] \in 1..Len(units)
    BY PlanIsSequence, StepsOrdered
  <2>2. /\ Len(units[r[1]].op.create) \in Nat
        /\ r[2] \in 1..Len(units[r[1]].op.create)
    BY <2>1, PlanIsSequence, SequenceIsFunction, StepsOrdered
  <2> QED
    BY <2>1, <2>2 DEF Precedes
<1> QED
  BY <1>1 DEF Abreast, Stands, Lacks

(* A host nobody else creates on: as it was before when nothing runs, and  *)
(* abreast of the plan in a create that nothing has struck.                *)
Going ==
  /\ fresh = "clean" /\ act = "idle" => host = Before
  /\ fresh = "clean" /\ act = "create" =>
       /\ broken = {}
       /\ Abreast(host, plan, <<at, 1>>)
       /\ \A j \in 1..(at - 1) : plan[j].op.gets \subseteq store
  /\ fresh = "whole" /\ act = "idle" => Abreast(host, plan, Complete(plan))

LEMMA NextIsNext ==
  ASSUME Len(plan) \in Nat, NEW i \in 1..(Len(plan) + 1)
  PROVE  NextAt(i, {}) = i
<1>1. \A j : ~ Blocked(j, {})
  BY DEF Blocked
<1> QED
  BY <1>1, NextAtIsNext

LEMMA GoingInit == Init => Going
BY DEF Init, Going

LEMMA GoingStep ==
  ASSUME InOrder, Ranged, Going, [Next]_vars
  PROVE  Going'
<1>1. Len(plan) \in Nat /\ DOMAIN plan = 1..Len(plan) /\ at \in 1..(Len(plan) + 1) /\ PlanOf(plan)
  BY PlanIsSequence DEF Ranged
<1>2. CASE UNCHANGED <<plan, host, act, at, broken, store, fresh>>
  BY <1>2 DEF Going, Complete
<1>3. ASSUME NEW action \in {"create", "delete"}, Begin(action) PROVE Going'
  <2>1. /\ act' = action /\ at' = 1 /\ broken' = {} /\ act = "idle"
        /\ UNCHANGED <<plan, host>>
    BY <1>3 DEF Begin, Afresh
  <2>2. CASE action = "delete"
    BY <2>1, <2>2 DEF Going
  <2>3. CASE action = "create" /\ fresh' = "clean"
    <3>1. fresh = "clean"
      BY <1>3, <2>3 DEF Begin, Afresh
    <3>2. host = Before
      BY <2>1, <3>1 DEF Going
    <3>3. Abreast(host', plan', <<at', 1>>)
      BY <1>1, <2>1, <3>2, AbreastFirst
    <3>4. \A j \in 1..(at' - 1) : FALSE
      BY <2>1
    <3> QED
      BY <2>1, <2>3, <3>3, <3>4 DEF Going
  <2>4. CASE action = "create" /\ fresh' # "clean"
    BY <2>1, <2>4 DEF Going
  <2> QED
    BY <2>2, <2>3, <2>4
<1>4. CASE CreateStep
  <2>1. act = "create" /\ act' = "create" /\ at \in 1..Len(plan) /\ plan' = plan
    BY <1>1, <1>4 DEF CreateStep
  <2>2. CASE fresh' # "clean"
    BY <2>1, <2>2 DEF Going
  <2>3. CASE fresh' = "clean"
    <3> DEFINE op == plan[at].op
               run == Strict(host, op.create, NoHit)
    <3>1. OpAt(at) = op
      BY <1>1, <2>1, AtHand
    <3>2. PICK hit \in Strokes(OpAt(at).create) :
            LET r == Strict(host, OpAt(at).create, hit)
                resolved == OpAt(at).uses \subseteq store
                good == resolved /\ r.go
                scopes == IF good THEN broken ELSE broken \cup {ScopeAt(at)}
            IN  /\ Struck(hit)
                /\ host' = IF resolved THEN r.host ELSE host
                /\ broken' = scopes
                /\ store' = IF good THEN store \cup OpAt(at).gets ELSE store
                /\ at' = NextAt(at + 1, scopes)
      BY <1>4 DEF CreateStep
    <3>3. hit = NoHit /\ fresh = "clean"
      BY <2>3, <3>2 DEF Struck
    <3>4. /\ broken = {} /\ Abreast(host, plan, <<at, 1>>)
          /\ \A j \in 1..(at - 1) : plan[j].op.gets \subseteq store
      BY <2>1, <3>3 DEF Going
    <3>5. /\ \A s \in Steps(plan) : Timely(plan, s)
          /\ op.uses \subseteq UNION {plan[j].op.gets : j \in 1..(at - 1)}
      BY <1>1, <2>1 DEF InOrder, PlanOf
    <3>6. op.uses \subseteq store
      BY <3>4, <3>5
    <3>7. run.go /\ Abreast(run.host, plan, <<at + 1, 1>>)
      BY <1>1, <2>1, <3>4, <3>5, RunInOrder
    <3> HIDE DEF op, run
    <3>8. run = Strict(host, OpAt(at).create, hit)
      BY <3>1, <3>3 DEF run
    <3>9. /\ host' = run.host /\ broken' = {} /\ store' = store \cup op.gets
          /\ at' = NextAt(at + 1, {})
      BY <3>1, <3>2, <3>4, <3>6, <3>7, <3>8
    <3>10. at' = at + 1
      BY <1>1, <2>1, <3>9, NextIsNext
    <3>11. Abreast(host', plan', <<at', 1>>)
      BY <2>1, <3>7, <3>9, <3>10
    <3>12. \A j \in 1..(at' - 1) : plan'[j].op.gets \subseteq store'
      <4> TAKE j \in 1..(at' - 1)
      <4>1. CASE j = at
        BY <2>1, <3>9, <4>1 DEF op
      <4>2. CASE j # at
        BY <1>1, <2>1, <3>4, <3>9, <3>10, <4>2
      <4> QED
        BY <4>1, <4>2
    <3> QED
      BY <2>1, <3>9, <3>11, <3>12 DEF Going
  <2> QED
    BY <2>2, <2>3
<1>5. CASE GiveUp
  BY <1>5 DEF GiveUp, Going
<1>6. CASE DeleteStep
  BY <1>6 DEF DeleteStep, Going
<1>7. CASE Finish
  <2>1. act' = "idle" /\ UNCHANGED <<plan, host>>
    BY <1>7 DEF Finish
  <2>2. fresh' = "clean" => host = Before
    BY <1>7 DEF Finish
  <2>3. ASSUME fresh' = "whole" PROVE Abreast(host, plan, Complete(plan))
    <3>1. act = "create" /\ fresh = "clean" /\ at = Len(plan) + 1
      BY <1>1, <1>7, <2>3 DEF Finish
    <3> QED
      BY <3>1 DEF Going, Complete
  <2>4. Abreast(host, plan, Complete(plan)) => Abreast(host, plan, Complete(plan))'
    BY <2>1 DEF Complete
  <2> QED
    BY <2>1, <2>2, <2>3, <2>4 DEF Going
<1>8. CASE Die \/ Reboot
  BY <1>8 DEF Die, Reboot, Going
<1> QED
  BY <1>2, <1>3, <1>4, <1>5, <1>6, <1>7, <1>8 DEF Next, Register, AllOver, vars

(* A create on a host without anything of the plan breaks no scope unless  *)
(* something strikes it: with any declaration whose commands find what     *)
(* they need brought, and not moved away, by the time their turn comes,    *)
(* and whatever they refer to captured.                                    *)
THEOREM CreatesComplete ==
  ASSUME InOrder
  PROVE  Spec => []CreateCompletes
<1>1. Init => Ranged /\ Going
  BY RangedInit, GoingInit
<1>2. Ranged /\ Going /\ [Next]_vars => Ranged' /\ Going'
  BY RangedStep, GoingStep
<1>3. Going => CreateCompletes
  BY DEF Going, CreateCompletes
<1> QED
  BY <1>1, <1>2, <1>3, PTL DEF Spec

(* No port of a bridge is left without its device, and none is pinned to a *)
(* chassis that has not registered: when all is created, every port on the *)
(* host is called as a link of the root namespace is, as long as the plan  *)
(* creates a link for every port it adds and does not move it away.        *)
THEOREM NothingIsDangling ==
  ASSUME CapturedBefore, InOrder, PortsHaveDevices
  PROVE  Spec => []NothingDangles
<1>1. Init => Ranged /\ Going
  BY RangedInit, GoingInit
<1>2. Ranged /\ Going /\ [Next]_vars => Ranged' /\ Going'
  BY RangedStep, GoingStep
<1> DEFINE Plugged ==
      act = "idle" /\ fresh = "whole" =>
        \A o \in host.objs : Last(o)[1] = "port" => Link(RootNs, Last(o)[2]) \in host.objs
<1>3. Ranged /\ Going => Plugged
  <2> SUFFICES ASSUME Ranged, Going, act = "idle", fresh = "whole",
                      NEW o \in host.objs, Last(o)[1] = "port"
               PROVE  Link(RootNs, Last(o)[2]) \in host.objs
    OBVIOUS
  <2> DEFINE end == Complete(plan)
             all == Before.objs \cup UNION {Brings(Command(plan, s)) : s \in Steps(plan)}
  <2>1. Abreast(host, plan, end)
    BY DEF Going
  <2>2. o \in all
    <3> SUFFICES ASSUME o \notin all PROVE FALSE
      OBVIOUS
    <3>1. Lacks(o, plan, end)
      BY DEF Lacks, Earlier
    <3> QED
      BY <2>1, <3>1 DEF Abreast
  <2>3. Lacks(o, plan, end) \/ Stands(Link(RootNs, Last(o)[2]), plan, end)
    BY <2>2 DEF PortsHaveDevices, Ranged, PlanOf
  <2> HIDE DEF end
  <2> QED
    BY <2>1, <2>3 DEF Abreast
<1>4. PinnedIsRegistered /\ Plugged => NothingDangles
  BY DEF NothingDangles
<1> HIDE DEF Plugged
<1> QED
  BY <1>1, <1>2, <1>3, <1>4, ReferredIsRegistered, PTL DEF Spec

-----------------------------------------------------------------------------
(* Objects and what holds them.                                            *)

LEMMA FirstOf ==
  ASSUME NEW s, IsSequence(s), NEW n \in 0..Len(s)
  PROVE  /\ SubSeq(s, 1, n) = [i \in 1..n |-> s[i]]
         /\ Len(SubSeq(s, 1, n)) = n
         /\ IsSequence(SubSeq(s, 1, n))
<1> DEFINE S == ToSet(s)
           u == [i \in 1..n |-> s[i]]
<1>1. s \in Seq(S) /\ Len(s) \in Nat /\ DOMAIN s = 1..Len(s) /\ n \in Nat /\ n <= Len(s)
  BY SequenceIsFunction DEF IsSequence
<1>2. \A i \in 1..n : s[i] \in S
  BY <1>1 DEF ToSet
<1> HIDE DEF S
<1>3. SubSeq(s, 1, n) = u
  BY <1>1
<1>4. u \in Seq(S) /\ Len(u) = n /\ DOMAIN u = 1..n
  BY <1>1, <1>2
<1>5. \A i \in 1..n : u[i] \in ToSet(u)
  BY <1>4 DEF ToSet
<1>6. u = [i \in 1..n |-> u[i]]
  BY <1>4
<1> HIDE DEF u
<1>7. u \in Seq(ToSet(u))
  BY <1>1, <1>5, <1>6
<1>8. IsSequence(u)
  BY <1>7 DEF IsSequence
<1> QED
  BY <1>3, <1>4, <1>8 DEF u

LEMMA SequenceIsItself ==
  ASSUME NEW s, IsSequence(s)
  PROVE  /\ s = [i \in 1..Len(s) |-> s[i]]
         /\ s # <<>> => Len(s) # 0
<1> DEFINE S == ToSet(s)
<1>1. s \in Seq(S)
  BY DEF IsSequence
<1> HIDE DEF S
<1> QED
  BY <1>1, EmptySeq

LEMMA PrefixIs ==
  ASSUME NEW p, IsSequence(p), NEW o, IsSequence(o)
  PROVE  IsPrefix(p, o) <=> Len(p) <= Len(o) /\ \A i \in 1..Len(p) : p[i] = o[i]
<1>1. Len(p) \in Nat /\ Len(o) \in Nat /\ DOMAIN p = 1..Len(p)
  BY SequenceIsFunction
<1>2. SubSeq(p, 1, Len(p)) = [i \in 1..Len(p) |-> p[i]]
  BY <1>1, FirstOf
<1>3. Len(p) <= Len(o) => SubSeq(o, 1, Len(p)) = [i \in 1..Len(p) |-> o[i]]
  BY <1>1, FirstOf
<1>4. ([i \in 1..Len(p) |-> p[i]] = [i \in 1..Len(p) |-> o[i]]) <=> \A i \in 1..Len(p) : p[i] = o[i]
  OBVIOUS
<1> QED
  BY <1>2, <1>3, <1>4 DEF IsPrefix

LEMMA PrefixOrder ==
  ASSUME NEW p, IsSequence(p), NEW q, IsSequence(q), NEW o, IsSequence(o)
  PROVE  /\ IsPrefix(p, p)
         /\ IsPrefix(p, q) /\ IsPrefix(q, o) => IsPrefix(p, o)
         /\ IsPrefix(p, o) /\ IsPrefix(q, o) => IsPrefix(p, q) \/ IsPrefix(q, p)
         /\ IsPrefix(p, q) /\ IsPrefix(q, p) => p = q
<1>1. /\ Len(p) \in Nat /\ DOMAIN p = 1..Len(p) /\ Len(q) \in Nat /\ DOMAIN q = 1..Len(q)
      /\ Len(o) \in Nat
  BY SequenceIsFunction
<1>2. IsPrefix(p, p)
  BY <1>1, PrefixIs
<1>3. IsPrefix(p, q) /\ IsPrefix(q, o) => IsPrefix(p, o)
  BY <1>1, PrefixIs
<1>4. IsPrefix(p, o) /\ IsPrefix(q, o) => IsPrefix(p, q) \/ IsPrefix(q, p)
  <2>1. CASE Len(p) <= Len(q)
    BY <1>1, <2>1, PrefixIs
  <2>2. CASE Len(q) <= Len(p)
    BY <1>1, <2>2, PrefixIs
  <2> QED
    BY <1>1, <2>1, <2>2
<1>5. IsPrefix(p, q) /\ IsPrefix(q, p) => p = q
  <2> SUFFICES ASSUME IsPrefix(p, q), IsPrefix(q, p) PROVE p = q
    OBVIOUS
  <2>1. Len(p) = Len(q) /\ \A i \in 1..Len(p) : p[i] = q[i]
    <3>1. Len(p) <= Len(q) /\ \A i \in 1..Len(p) : p[i] = q[i]
      BY PrefixIs
    <3>2. Len(q) <= Len(p)
      BY PrefixIs
    <3> DEFINE m == Len(p)
               n == Len(q)
    <3>3. m \in Nat /\ n \in Nat /\ m <= n /\ n <= m
      BY <1>1, <3>1, <3>2
    <3> HIDE DEF m, n
    <3>4. m = n
      BY <3>3
    <3> QED
      BY <3>1, <3>4 DEF m, n
  <2> DEFINE u == [i \in 1..Len(p) |-> p[i]]
             v == [i \in 1..Len(q) |-> q[i]]
  <2>2. p = u /\ q = v
    BY SequenceIsItself
  <2>3. u = v
    BY <2>1
  <2> HIDE DEF u, v
  <2> QED
    BY <2>2, <2>3
<1> QED
  BY <1>2, <1>3, <1>4, <1>5

LEMMA PlacesAre ==
  ASSUME NEW o, IsSequence(o)
  PROVE  /\ \A p \in Places(o) : IsSequence(p) /\ IsPrefix(p, o) /\ Len(p) \in 1..Len(o)
         /\ \A p : IsSequence(p) /\ p # <<>> /\ IsPrefix(p, o) => p \in Places(o)
         /\ o # <<>> => o \in Places(o)
<1>1. Len(o) \in Nat /\ DOMAIN o = 1..Len(o)
  BY SequenceIsFunction
<1>2. ASSUME NEW n \in 1..Len(o)
      PROVE  LET p == SubSeq(o, 1, n)
             IN IsSequence(p) /\ IsPrefix(p, o) /\ Len(p) \in 1..Len(o)
  <2> DEFINE p == SubSeq(o, 1, n)
  <2>1. p = [i \in 1..n |-> o[i]] /\ Len(p) = n /\ IsSequence(p)
    BY <1>1, FirstOf
  <2> HIDE DEF p
  <2>2. IsPrefix(p, o)
    BY <1>1, <2>1, PrefixIs
  <2> QED
    BY <1>1, <2>1, <2>2 DEF p
<1>3. ASSUME NEW p, IsSequence(p), p # <<>>, IsPrefix(p, o)
      PROVE  p \in Places(o)
  <2>1. Len(p) \in Nat /\ Len(p) <= Len(o) /\ \A i \in 1..Len(p) : p[i] = o[i]
    BY <1>3, PrefixIs, SequenceIsFunction
  <2>2. p = [i \in 1..Len(p) |-> p[i]] /\ Len(p) # 0
    BY <1>3, SequenceIsItself
  <2>3. SubSeq(o, 1, Len(p)) = [i \in 1..Len(p) |-> o[i]]
    BY <1>1, <2>1, FirstOf
  <2>4. p = SubSeq(o, 1, Len(p))
    BY <2>1, <2>2, <2>3
  <2>5. Len(p) \in DOMAIN o
    BY <1>1, <2>1, <2>2
  <2> QED
    BY <2>4, <2>5 DEF Places
<1>4. o # <<>> => o \in Places(o)
  BY <1>3, PrefixOrder
<1>5. ASSUME NEW p \in Places(o) PROVE IsSequence(p) /\ IsPrefix(p, o) /\ Len(p) \in 1..Len(o)
  <2>1. PICK n \in 1..Len(o) : p = SubSeq(o, 1, n)
    BY <1>1, <1>5 DEF Places
  <2> QED
    BY <1>2, <2>1
<1> QED
  BY <1>3, <1>4, <1>5

LEMMA FrontIs ==
  ASSUME NEW o, IsSequence(o), Len(o) > 1
  PROVE  /\ Front(o) \in Places(o) /\ Len(Front(o)) < Len(o)
         /\ \A d : IsSequence(d) /\ IsPrefix(d, o) /\ d # o => IsPrefix(d, Front(o))
<1>1. Len(o) \in Nat /\ DOMAIN o = 1..Len(o)
  BY SequenceIsFunction
<1> DEFINE n == Len(o) - 1
<1>2. n \in 1..Len(o) /\ n \in 0..Len(o) /\ n \in Nat
  BY <1>1
<1>3. Front(o) = SubSeq(o, 1, n)
  BY DEF Front
<1>4. Front(o) = [i \in 1..n |-> o[i]] /\ Len(Front(o)) = n /\ IsSequence(Front(o))
  BY <1>2, <1>3, FirstOf
<1>5. Front(o) \in Places(o)
  BY <1>1, <1>2, <1>3 DEF Places
<1>6. ASSUME NEW d, IsSequence(d), IsPrefix(d, o), d # o
      PROVE  IsPrefix(d, Front(o))
  <2>1. Len(d) \in Nat /\ Len(d) <= Len(o) /\ \A i \in 1..Len(d) : d[i] = o[i]
    BY <1>6, PrefixIs, SequenceIsFunction
  <2>2. Len(d) # Len(o)
    <3> SUFFICES ASSUME Len(d) = Len(o) PROVE FALSE
      OBVIOUS
    <3>1. IsPrefix(o, d)
      BY <1>6, <2>1, PrefixIs
    <3> QED
      BY <1>6, <3>1, PrefixOrder
  <2>3. Len(d) <= n
    BY <1>1, <2>1, <2>2
  <2> DEFINE f == Front(o)
  <2>4. IsSequence(f) /\ Len(f) = n
    BY <1>4
  <2>5. \A i \in 1..Len(d) : d[i] = f[i]
    BY <1>2, <1>4, <2>1, <2>3
  <2> HIDE DEF f
  <2>6. IsPrefix(d, f)
    BY <1>6, <2>3, <2>4, <2>5, PrefixIs
  <2> QED
    BY <2>6 DEF f
<1>7. Len(Front(o)) < Len(o)
  BY <1>1, <1>4
<1> QED
  BY <1>5, <1>6, <1>7

(* Of some objects, one with the shortest place. *)
LEMMA Shortest ==
  ASSUME NEW S, S # {}, \A o \in S : IsSequence(o)
  PROVE  \E z \in S : \A o \in S : Len(z) <= Len(o)
<1> DEFINE lens == {Len(o) : o \in S}
<1>1. lens \subseteq Nat /\ lens # {}
  BY SequenceIsFunction
<1>2. PICK n \in lens : \A m \in lens : n <= m
  <2> HIDE DEF lens
  <2> QED
    BY <1>1, LeastExists
<1> QED
  BY <1>2
-----------------------------------------------------------------------------
(* Commands and what they do.                                              *)

(* What a command does not make was there before it. *)
LEMMA EffectIs ==
  ASSUME NEW x, NEW c
  PROVE  /\ Effect(x, c).objs \subseteq x.objs \cup Brings(c)
         /\ c.moves = <<>> =>
              LET gone == Gone(x, c.drop \cup EmptyUpwards(x, c.prune))
              IN  /\ Effect(x, c).objs = (x.objs \ gone) \cup c.adds
                  /\ Effect(x, c).ties = {t \in x.ties : t \cap gone = {}} \cup c.tie
         /\ c.moves # <<>> =>
              /\ Effect(x, c).objs = (x.objs \ Within(x.objs, {c.moves[1]})) \cup {c.moves[2]}
              /\ Effect(x, c).ties = {IF c.moves[1] \in t THEN (t \ {c.moves[1]}) \cup {c.moves[2]} ELSE t
                                        : t \in x.ties}
<1>1. CASE c.moves = <<>>
  BY <1>1 DEF Effect, Dropped, Brings
<1>2. CASE c.moves # <<>>
  BY <1>2 DEF Effect, Moved, Brings
<1> QED
  BY <1>1, <1>2

(* What is in what goes goes too. *)
LEMMA GoneUpwards ==
  ASSUME NEW x, NEW tops, \A o \in x.objs \cup tops : IsSequence(o),
         NEW o \in Gone(x, tops), NEW p \in x.objs, IsPrefix(o, p)
  PROVE  p \in Gone(x, tops)
<1> DEFINE held == Within(x.objs, tops)
           peers == {q \in x.objs : \E h \in held : {h, q} \in x.ties}
<1>1. Gone(x, tops) = held \cup Within(x.objs, peers)
  BY DEF Gone
<1>2. held \subseteq x.objs /\ peers \subseteq x.objs
  BY DEF Within
<1> HIDE DEF held, peers
<1>3. ASSUME NEW S, \A q \in S : IsSequence(q), o \in Within(x.objs, S)
      PROVE  p \in Within(x.objs, S)
  <2>1. PICK t \in S : IsPrefix(t, o) /\ o \in x.objs
    BY <1>3 DEF Within
  <2>2. IsPrefix(t, p)
    BY <1>3, <2>1, PrefixOrder
  <2> QED
    BY <2>2 DEF Within
<1> QED
  BY <1>1, <1>2, <1>3 DEF held

(* Nothing goes when a command drops and prunes nothing. *)
LEMMA NothingGone ==
  ASSUME NEW x
  PROVE  Gone(x, {} \cup EmptyUpwards(x, {})) = {}
<1>1. {} \cup EmptyUpwards(x, {}) = {}
  BY DEF EmptyUpwards
<1>2. Within(x.objs, {}) = {}
  BY DEF Within
<1>3. {p \in x.objs : \E o \in Within(x.objs, {}) : {o, p} \in x.ties} = {}
  BY <1>2
<1> QED
  BY <1>1, <1>2, <1>3 DEF Gone

(* A command of the plan, and the kinds of it that change something. *)
LEMMA CommandIs ==
  ASSUME NEW units, Placed(units), NEW c \in CommandsOf(units)
  PROVE  /\ \A o \in Before.objs \cup Made(units) : IsSequence(o)
         /\ \A o \in Takes(c) \cup c.prune : IsSequence(o)
         /\ Brings(c) \subseteq Made(units)
         /\ \/ c.moves = <<>> /\ c.drop = {} /\ c.prune = {}
            \/ c.moves = <<>> /\ c.adds = {} /\ c.tie = {}
            \/ c \in Movers(units) /\ c.moves # <<>> /\ c.drop = {} /\ c.prune = {}
         /\ c.moves # <<>> =>
              /\ c.moves[1] \in Takes(c) /\ c.moves[2] \in Takes(c)
              /\ c.moves[2] \in Ends(units) /\ Brings(c) = {c.moves[2]}
         /\ c.moves = <<>> => Brings(c) = c.adds
         /\ UNION c.tie \subseteq Ends(units)
<1>1. /\ \A o \in Before.objs \cup Made(units) : IsSequence(o)
      /\ \A o \in Takes(c) \cup c.prune : IsSequence(o)
      /\ c.drop \cup c.prune # {} => c.moves = <<>> /\ c.adds = {} /\ c.tie = {}
  BY DEF Placed
<1>2. Brings(c) \subseteq Made(units)
  BY DEF Made
<1>3. c.moves # <<>> =>
              /\ c.moves[1] \in Takes(c) /\ c.moves[2] \in Takes(c)
              /\ c \in Movers(units) /\ c.moves[2] \in Ends(units) /\ Brings(c) = {c.moves[2]}
  BY DEF Takes, Movers, Ends, Brings
<1>4. UNION c.tie \subseteq Ends(units)
  BY DEF Ends
<1>5. c.moves = <<>> => Brings(c) = c.adds
  BY DEF Brings
<1> QED
  BY <1>1, <1>2, <1>3, <1>4, <1>5
-----------------------------------------------------------------------------
(* What keeps a host in shape, whatever is run on it.                      *)

Shaped(x, units) ==
  /\ x.objs \subseteq Before.objs \cup Made(units)
  /\ \A o \in x.objs : Places(o) \subseteq x.objs

(* A tie is between two objects that are there, and of no other tie. *)
Tied(x, units) ==
  /\ x.ties \subseteq Tethers(units)
  /\ \A t \in x.ties : t \subseteq x.objs \cap Ends(units)
  /\ \A t, u \in x.ties : t \cap u # {} => t = u
  /\ \A o \in x.objs : \A p : TiedTo(units, o, p) => {o, p} \in x.ties

(* A new directory is there with a whole path that is pruned. *)
Pathed(x, units) ==
  \A d \in x.objs \cap NewDirs(units) : \E Q \in Prunes(units) : d \in Q /\ Q \subseteq x.objs

Sound(x, units) == Shaped(x, units) /\ Tied(x, units) /\ Pathed(x, units)

(* What is gone and tied has taken its partner along. *)
LEMMA DropTied ==
  ASSUME NEW units, Placed(units), NEW x, Sound(x, units),
         NEW tops, \A t \in tops : IsSequence(t),
         NEW o \in x.objs, NEW p, TiedTo(units, o, p), o \notin Gone(x, tops)
  PROVE  {o, p} \cap Gone(x, tops) = {}
<1> DEFINE held == Within(x.objs, tops)
           peers == {q \in x.objs : \E h \in held : {h, q} \in x.ties}
<1>1. Gone(x, tops) = held \cup Within(x.objs, peers)
  BY DEF Gone
<1>2. {o, p} \in x.ties /\ o \in x.objs /\ p \in x.objs
  BY DEF Sound, Tied
<1>3. \A f \in x.objs : IsSequence(f)
  BY DEF Sound, Shaped, Placed
<1>4. ASSUME NEW q \in peers PROVE q \in Gone(x, tops)
  <2>1. q \in x.objs /\ IsPrefix(q, q)
    BY <1>3, PrefixOrder
  <2> QED
    BY <1>1, <2>1 DEF Within
<1>5. SUFFICES ASSUME p \in Gone(x, tops) PROVE FALSE
  OBVIOUS
<1>6. p \notin held
  <2> SUFFICES ASSUME p \in held PROVE FALSE
    OBVIOUS
  <2>1. {p, o} = {o, p}
    OBVIOUS
  <2>2. o \in peers
    BY <1>2, <2>1
  <2> QED
    BY <1>4, <2>2
<1>7. PICK q \in peers : IsPrefix(q, p)
  BY <1>1, <1>5, <1>6 DEF Within
<1>8. PICK h \in held : {h, q} \in x.ties
  OBVIOUS
<1>9. q \in Ends(units)
  BY <1>8 DEF Sound, Tied
<1>10. q = p
  BY <1>7, <1>9 DEF TiedTo, IsStrictPrefix
<1>11. {h, q} = {o, p}
  BY <1>2, <1>8, <1>10 DEF Sound, Tied
<1>12. h = o \/ h = p
  BY <1>11
<1> HIDE DEF held, peers
<1> QED
  BY <1>1, <1>6, <1>8, <1>12

LEMMA AddSound ==
  ASSUME NEW units, Placed(units), PrunedUpwards(units), NEW x, Sound(x, units),
         NEW c \in CommandsOf(units), Applies(x, c),
         c.moves = <<>>, c.drop = {}, c.prune = {}
  PROVE  Sound(Effect(x, c), units)
<1> DEFINE y == Effect(x, c)
<1>1. y.objs = x.objs \cup c.adds /\ y.ties = x.ties \cup c.tie
  <2> DEFINE gone == Gone(x, c.drop \cup EmptyUpwards(x, c.prune))
  <2>1. y.objs = (x.objs \ gone) \cup c.adds /\ y.ties = {t \in x.ties : t \cap gone = {}} \cup c.tie
    BY EffectIs
  <2>2. gone = {}
    BY NothingGone
  <2> HIDE DEF gone, y
  <2> QED
    BY <2>1, <2>2
<1>2. Brings(c) = c.adds /\ c.adds \subseteq Made(units) /\ UNION c.tie \subseteq Ends(units)
  BY CommandIs
<1>3. c.needs \subseteq x.objs /\ c.absent \cap x.objs = {}
  BY DEF Applies
<1>4. /\ \A o \in c.adds : \A p \in Places(o) : p \in c.adds \/ \E f \in c.needs : p \in Places(f)
      /\ \A t \in c.tie : t \subseteq c.adds \cap c.absent /\ c.tie = {t}
  BY <1>2 DEF Placed
<1> HIDE DEF y
<1>5. Shaped(y, units)
  <2>1. y.objs \subseteq Before.objs \cup Made(units)
    BY <1>1, <1>2 DEF Sound, Shaped
  <2>2. \A o \in y.objs : Places(o) \subseteq y.objs
    BY <1>1, <1>3, <1>4 DEF Sound, Shaped
  <2> QED
    BY <2>1, <2>2 DEF Shaped
<1>6. Tied(y, units)
  <2>1. y.ties \subseteq Tethers(units)
    <3>1. c.tie \subseteq Tethers(units)
      BY DEF Placed
    <3> QED
      BY <1>1, <3>1 DEF Sound, Tied
  <2>2. \A t \in y.ties : t \subseteq y.objs \cap Ends(units)
    BY <1>1, <1>2, <1>4 DEF Sound, Tied
  <2>3. ASSUME NEW t \in y.ties, NEW u \in y.ties, t \cap u # {} PROVE t = u
    <3>1. CASE t \in x.ties /\ u \in x.ties
      BY <2>3, <3>1 DEF Sound, Tied
    <3>2. CASE t \in c.tie /\ u \in c.tie
      BY <3>2, <1>4
    <3>3. ASSUME NEW a \in x.ties, NEW b \in c.tie PROVE a \cap b = {}
      <4>1. a \subseteq x.objs /\ b \subseteq c.absent
        BY <1>4 DEF Sound, Tied
      <4> QED
        BY <1>3, <4>1
    <3> QED
      BY <1>1, <2>3, <3>1, <3>2, <3>3
  <2>4. ASSUME NEW o \in y.objs, NEW p, TiedTo(units, o, p) PROVE {o, p} \in y.ties
    <3>1. CASE o \in x.objs
      BY <1>1, <2>4, <3>1 DEF Sound, Tied
    <3>2. CASE o \in c.adds
      BY <1>1, <1>2, <2>4, <3>2 DEF TiedTo
    <3> QED
      BY <1>1, <3>1, <3>2
  <2> QED
    BY <2>1, <2>2, <2>3, <2>4 DEF Tied
<1>7. Pathed(y, units)
  <2> SUFFICES ASSUME NEW d \in y.objs \cap NewDirs(units)
               PROVE  \E Q \in Prunes(units) : d \in Q /\ Q \subseteq y.objs
    BY DEF Pathed
  <2>1. CASE d \in x.objs
    BY <1>1, <2>1 DEF Sound, Pathed
  <2>2. CASE d \in c.adds
    BY <1>1, <1>2, <2>2 DEF PrunedUpwards
  <2> QED
    BY <1>1, <2>1, <2>2
<1> QED
  BY <1>5, <1>6, <1>7 DEF Sound, y

LEMMA MoveSound ==
  ASSUME NEW units, Placed(units), PrunedUpwards(units), NEW x, Sound(x, units),
         NEW c \in CommandsOf(units), Applies(x, c), c.moves # <<>>
  PROVE  Sound(Effect(x, c), units)
<1> DEFINE y == Effect(x, c)
           from == c.moves[1]
           to == c.moves[2]
<1>1. /\ y.objs = (x.objs \ Within(x.objs, {from})) \cup {to}
      /\ y.ties = {IF from \in t THEN (t \ {from}) \cup {to} ELSE t : t \in x.ties}
  BY EffectIs
<1>2. /\ c \in Movers(units) /\ to \in Ends(units) /\ from \in Takes(c) /\ to \in Takes(c)
      /\ Brings(c) = {to} /\ to \in Made(units) /\ IsSequence(from) /\ IsSequence(to)
  BY CommandIs
<1>3. /\ c.needs \subseteq x.objs
      /\ to \notin x.objs \/ \A t \in Tethers(units) : from \notin t
      /\ c.tie = {} /\ \A e \in Ends(units) : ~ IsStrictPrefix(from, e)
      /\ \A p \in Places(to) : p = to \/ \E f \in c.needs : p \in Places(f)
      /\ \A d \in UNION Prunes(units) : ~ IsPrefix(from, d) /\ ~ IsPrefix(to, d)
  BY <1>2 DEF Applies, Placed, PrunedUpwards
<1>4. \A o \in x.objs : IsSequence(o)
  BY DEF Sound, Shaped, Placed
<1>5. \A e \in Ends(units) : IsPrefix(from, e) => e = from
  BY <1>3 DEF IsStrictPrefix
<1>6. IsPrefix(from, from) /\ IsPrefix(to, to)
  BY <1>2, PrefixOrder
<1> HIDE DEF y, from, to
<1>7. Shaped(y, units)
  <2>1. y.objs \subseteq Before.objs \cup Made(units)
    BY <1>1, <1>2 DEF Sound, Shaped
  <2>2. ASSUME NEW o \in y.objs, NEW p \in Places(o) PROVE p \in y.objs
    <3>1. CASE o = to
      <4>1. CASE p = to
        BY <1>1, <4>1
      <4>2. CASE p # to
        <5>1. p \in x.objs
          BY <1>3, <2>2, <3>1, <4>2 DEF Sound, Shaped
        <5>2. IsSequence(p) /\ IsPrefix(p, to)
          BY <1>2, <2>2, <3>1, PlacesAre
        <5>3. ~ IsPrefix(from, p)
          <6> SUFFICES ASSUME IsPrefix(from, p) PROVE FALSE
            OBVIOUS
          <6>1. IsPrefix(from, to)
            BY <1>2, <5>2, PrefixOrder
          <6>2. to = from
            BY <1>2, <1>5, <6>1
          <6>3. p = to
            BY <1>2, <5>2, <6>2, PrefixOrder
          <6> QED
            BY <4>2, <6>3
        <5> QED
          BY <1>1, <5>1, <5>3 DEF Within
      <4> QED
        BY <4>1, <4>2
    <3>2. CASE o # to
      <4>1. o \in x.objs /\ ~ IsPrefix(from, o)
        BY <1>1, <3>2 DEF Within
      <4>2. p \in x.objs /\ IsPrefix(p, o)
        BY <1>4, <4>1, PlacesAre DEF Sound, Shaped
      <4>3. ~ IsPrefix(from, p)
        BY <1>2, <1>4, <4>1, <4>2, PrefixOrder
      <4> QED
        BY <1>1, <4>2, <4>3 DEF Within
    <3> QED
      BY <3>1, <3>2
  <2> QED
    BY <2>1, <2>2 DEF Shaped
<1>8. Tied(y, units)
  <2>1. \A t \in x.ties : /\ from \in t => to \notin x.objs
                         /\ t \in Tethers(units) /\ t \subseteq Ends(units) /\ t \subseteq x.objs
    BY <1>3 DEF Sound, Tied
  <2>2. y.ties \subseteq Tethers(units)
    <3> SUFFICES ASSUME NEW t \in x.ties
                 PROVE  (IF from \in t THEN (t \ {from}) \cup {to} ELSE t) \in Tethers(units)
      BY <1>1
    <3>1. t \in Tethers(units)
      BY DEF Sound, Tied
    <3>2. Retied(t, c) \in Tethers(units)
      BY <1>2, <3>1 DEF Placed
    <3> QED
      BY <3>2 DEF Retied, from, to
  <2>3. ASSUME NEW t \in y.ties PROVE t \subseteq y.objs \cap Ends(units)
    <3>1. PICK s \in x.ties : t = IF from \in s THEN (s \ {from}) \cup {to} ELSE s
      BY <1>1
    <3>2. ASSUME NEW e \in t, e # to PROVE e \in y.objs \cap Ends(units)
      <4>1. e \in s /\ e # from /\ e \in Ends(units) /\ e \in x.objs
        BY <2>1, <3>1, <3>2
      <4> QED
        BY <1>1, <1>5, <4>1 DEF Within
    <3> QED
      BY <1>1, <1>2, <3>2
  <2>4. ASSUME NEW t \in y.ties, NEW u \in y.ties, t \cap u # {} PROVE t = u
    <3>1. PICK s \in x.ties : t = IF from \in s THEN (s \ {from}) \cup {to} ELSE s
      BY <1>1
    <3>2. PICK r \in x.ties : u = IF from \in r THEN (r \ {from}) \cup {to} ELSE r
      BY <1>1
    <3>3. PICK e : e \in t /\ e \in u
      BY <2>4
    <3>4. s \cap r # {}
      <4>1. CASE from \in s \/ from \in r
        <5>1. to \notin s /\ to \notin r
          BY <2>1, <4>1
        <5> QED
          BY <3>1, <3>2, <3>3, <5>1
      <4>2. CASE from \notin s /\ from \notin r
        BY <3>1, <3>2, <3>3, <4>2
      <4> QED
        BY <4>1, <4>2
    <3>5. s = r
      BY <3>4 DEF Sound, Tied
    <3> QED
      BY <3>1, <3>2, <3>5
  <2>5. ASSUME NEW o \in y.objs, NEW p, TiedTo(units, o, p) PROVE {o, p} \in y.ties
    <3>1. o # to
      <4>1. o = to => {o, p} \in c.tie
        BY <1>2, <2>5 DEF TiedTo
      <4> QED
        BY <1>3, <4>1
    <3>2. o \in x.objs /\ o # from
      BY <1>1, <1>6, <3>1 DEF Within
    <3>3. {o, p} \in x.ties
      BY <2>5, <3>2 DEF Sound, Tied
    <3>4. p # from
      <4>1. ~ IsPrefix(from, p)
        BY <1>2, <2>5 DEF TiedTo, from
      <4> QED
        BY <1>6, <4>1
    <3> QED
      BY <1>1, <3>2, <3>3, <3>4
  <2> QED
    BY <2>2, <2>3, <2>4, <2>5 DEF Tied
<1>9. Pathed(y, units)
  <2> SUFFICES ASSUME NEW d \in y.objs \cap NewDirs(units)
               PROVE  \E Q \in Prunes(units) : d \in Q /\ Q \subseteq y.objs
    BY DEF Pathed
  <2>1. d \in UNION Prunes(units)
    BY DEF NewDirs
  <2>2. d # to
    BY <1>3, <1>6, <2>1
  <2>3. d \in x.objs
    BY <1>1, <2>2
  <2>4. PICK Q \in Prunes(units) : d \in Q /\ Q \subseteq x.objs
    BY <2>3 DEF Sound, Pathed
  <2>5. \A n \in Q : ~ IsPrefix(from, n)
    BY <1>3
  <2>6. Q \subseteq y.objs
    BY <1>1, <2>4, <2>5 DEF Within
  <2> QED
    BY <2>4, <2>6
<1> QED
  BY <1>7, <1>8, <1>9 DEF Sound, y

(* Of the directories that may be pruned only the empty ones go. *)
LEMMA GoneDirs ==
  ASSUME NEW units, Placed(units), PrunedUpwards(units), NEW x, Sound(x, units),
         NEW c \in CommandsOf(units),
         NEW n \in UNION Prunes(units), n \in Gone(x, c.drop \cup EmptyUpwards(x, c.prune))
  PROVE  n \in EmptyUpwards(x, c.prune)
<1> DEFINE empty == EmptyUpwards(x, c.prune)
           tops == c.drop \cup empty
           held == Within(x.objs, tops)
           peers == {q \in x.objs : \E h \in held : {h, q} \in x.ties}
<1>1. Gone(x, tops) = held \cup Within(x.objs, peers)
  BY DEF Gone
<1>2. /\ \A o \in x.objs \cup c.prune : IsSequence(o)
      /\ \A q \in Takes(c) : ~ IsPrefix(q, n)
      /\ \A e \in Ends(units) : ~ IsPrefix(e, n)
  BY CommandIs DEF Sound, Shaped, Placed, PrunedUpwards
<1>3. \A q \in peers : q \in Ends(units)
  BY DEF Sound, Tied
<1>4. n \in held
  BY <1>1, <1>2, <1>3 DEF Within
<1>5. PICK t \in tops : IsPrefix(t, n) /\ n \in x.objs
  BY <1>4 DEF Within
<1>6. t \in empty
  BY <1>2, <1>5 DEF Takes
<1>7. t \in c.prune /\ c.prune \subseteq x.objs /\ \A o \in x.objs : IsPrefix(t, o) => o \in c.prune
  BY <1>6 DEF EmptyUpwards
<1>8. ASSUME NEW o \in x.objs, IsPrefix(n, o) PROVE o \in c.prune
  <2>1. IsPrefix(t, o)
    BY <1>2, <1>5, <1>7, <1>8, PrefixOrder
  <2> QED
    BY <1>7, <2>1
<1>9. n \in c.prune
  BY <1>5, <1>7
<1> QED
  BY <1>7, <1>8, <1>9 DEF EmptyUpwards

LEMMA DropSound ==
  ASSUME NEW units, Placed(units), PrunedUpwards(units), NEW x, Sound(x, units),
         NEW c \in CommandsOf(units),
         c.moves = <<>>, c.adds = {}, c.tie = {}
  PROVE  Sound(Effect(x, c), units)
<1> DEFINE y == Effect(x, c)
           empty == EmptyUpwards(x, c.prune)
           tops == c.drop \cup empty
           gone == Gone(x, tops)
<1>1. y.objs = x.objs \ gone /\ y.ties = {t \in x.ties : t \cap gone = {}}
  <2>1. y.objs = (x.objs \ gone) \cup c.adds /\ y.ties = {t \in x.ties : t \cap gone = {}} \cup c.tie
    BY EffectIs
  <2> HIDE DEF gone, y
  <2> QED
    BY <2>1
<1>2. /\ \A o \in x.objs : IsSequence(o)
      /\ \A o \in tops : IsSequence(o)
      /\ \A o \in c.prune : IsSequence(o)
  BY CommandIs DEF Sound, Shaped, EmptyUpwards, Takes
<1>3. \A o \in gone : \A p \in x.objs : IsPrefix(o, p) => p \in gone
  <2> HIDE DEF tops
  <2> QED
    BY <1>2, GoneUpwards
<1>4. \A o \in x.objs : \A p : TiedTo(units, o, p) /\ o \notin gone => {o, p} \cap gone = {}
  <2> HIDE DEF tops
  <2> QED
    BY <1>2, DropTied
<1>5. \A n \in UNION Prunes(units) : n \in gone => n \in empty
  BY GoneDirs
<1>6. /\ \A o \in empty : o \in c.prune /\ \A p \in x.objs : IsPrefix(o, p) => p \in c.prune
      /\ empty # {} => c.prune \in Prunes(units) /\ c.prune \subseteq x.objs
  BY DEF EmptyUpwards, Prunes
<1>7. c.prune # {} => c.drop = {}
  BY DEF PrunedUpwards
<1>8. Gone(x, tops) = Within(x.objs, tops)
        \cup Within(x.objs, {q \in x.objs : \E h \in Within(x.objs, tops) : {h, q} \in x.ties})
  BY DEF Gone
<1>9. ASSUME NEW d \in x.objs, d \notin gone, d \in c.prune, empty # {}
      PROVE  \E z \in x.objs : IsPrefix(d, z) /\ z \notin c.prune
  <2>1. d \notin empty
    <3> SUFFICES ASSUME d \in empty PROVE FALSE
      OBVIOUS
    <3>1. IsPrefix(d, d)
      BY <1>2, PrefixOrder
    <3>2. d \in Within(x.objs, tops)
      BY <3>1 DEF Within
    <3> QED
      BY <1>8, <1>9, <3>2
  <2> QED
    BY <1>6, <1>9, <2>1 DEF EmptyUpwards
<1> HIDE DEF y, gone, tops, empty
<1>10. Shaped(y, units)
  <2>1. ASSUME NEW o \in y.objs, NEW p \in Places(o) PROVE p \in y.objs
    <3>1. o \in x.objs /\ o \notin gone /\ p \in x.objs /\ IsPrefix(p, o)
      BY <1>1, <1>2, <2>1, PlacesAre DEF Sound, Shaped
    <3> QED
      BY <1>1, <1>3, <3>1
  <2> QED
    BY <1>1, <2>1 DEF Sound, Shaped
<1>11. Tied(y, units)
  <2>1. y.ties \subseteq Tethers(units) /\ \A t \in y.ties : t \subseteq y.objs \cap Ends(units)
    BY <1>1 DEF Sound, Tied
  <2>2. \A t, u \in y.ties : t \cap u # {} => t = u
    BY <1>1 DEF Sound, Tied
  <2>3. ASSUME NEW o \in y.objs, NEW p, TiedTo(units, o, p) PROVE {o, p} \in y.ties
    BY <1>1, <1>4, <2>3 DEF Sound, Tied
  <2> QED
    BY <2>1, <2>2, <2>3 DEF Tied
<1>12. Pathed(y, units)
  <2> SUFFICES ASSUME NEW d \in y.objs, d \in NewDirs(units)
               PROVE  \E Q \in Prunes(units) : d \in Q /\ Q \subseteq y.objs
    BY DEF Pathed
  <2>1. /\ d \in x.objs /\ d \notin gone /\ IsSequence(d)
        /\ d \in UNION Prunes(units) /\ d \notin Before.objs
    BY <1>1, <1>2 DEF NewDirs
  <2>2. PICK Q \in Prunes(units) : d \in Q /\ Q \subseteq x.objs
    BY <2>1 DEF Sound, Pathed
  <2>3. CASE Q \cap gone = {}
    BY <1>1, <2>2, <2>3
  (* Else d is in the path that is pruned now, and stays: something else is *)
  (* in it.  The shortest such thing has its own path, or is in one.        *)
  <2>4. CASE Q \cap gone # {}
    <3> DEFINE P == c.prune
    <3>1. PICK n \in Q : n \in gone
      BY <2>4
    <3>2. n \in empty
      BY <1>5, <3>1
    <3>3. P \in Prunes(units) /\ P \subseteq x.objs /\ n \in P
      BY <1>6, <3>2
    <3>4. PICK leaf : leaf \in P /\ P = Places(leaf) /\ IsSequence(leaf)
      BY <3>3, <1>2 DEF PrunedUpwards
    <3>5. PICK end : end \in Q /\ Q = Places(end) /\ IsSequence(end)
      BY <2>2, <1>2 DEF PrunedUpwards
    <3>6. ASSUME NEW f \in P, NEW e, IsSequence(e), e # <<>>, IsPrefix(e, f) PROVE e \in P
      <4>1. IsSequence(f) /\ IsPrefix(f, leaf)
        BY <3>4, <3>6, PlacesAre
      <4>2. IsPrefix(e, leaf)
        BY <3>4, <3>6, <4>1, PrefixOrder
      <4> QED
        BY <3>4, <3>6, <4>2, PlacesAre
    <3>7. d # <<>> /\ IsPrefix(d, d)
      <4>1. Len(d) \in 1..Len(end)
        BY <2>2, <3>5, PlacesAre
      <4>2. Len(<<>>) = 0
        BY EmptySeq
      <4> QED
        BY <2>1, <4>1, <4>2, PrefixOrder
    <3>8. d \in P
      <4>1. IsPrefix(d, end) /\ IsPrefix(n, end) /\ IsSequence(n)
        BY <2>2, <3>1, <3>5, PlacesAre
      <4>2. ~ IsPrefix(n, d)
        BY <1>3, <2>1, <3>1
      <4>3. IsPrefix(d, n)
        BY <2>1, <3>5, <4>1, <4>2, PrefixOrder
      <4> QED
        BY <2>1, <3>3, <3>6, <3>7, <4>3
    <3> DEFINE S == {z \in x.objs : IsPrefix(d, z) /\ z \notin P}
    <3>9. S # {}
      BY <1>9, <2>1, <3>2, <3>8
    <3>10. PICK z \in S : \A o \in S : Len(z) <= Len(o)
      <4>1. \A o \in S : IsSequence(o)
        BY <1>2
      <4> HIDE DEF S
      <4> QED
        BY <3>9, <4>1, Shortest
    <3>11. z \in x.objs /\ IsPrefix(d, z) /\ z \notin P /\ IsSequence(z) /\ z # d
      BY <1>2, <3>8, <3>10
    <3> HIDE DEF P
    <3>12. \A e \in empty : ~ IsPrefix(e, z)
      BY <1>6, <3>11 DEF P
    <3>13. ASSUME NEW R \in Prunes(units), R \subseteq x.objs, d \in R,
                  \A e \in R : IsPrefix(e, z) \/ IsPrefix(z, e)
           PROVE  R \subseteq y.objs
      <4>1. SUFFICES ASSUME NEW e \in R, e \in gone PROVE FALSE
        BY <1>1, <3>13
      <4>2. e \in empty /\ e \in P
        BY <1>5, <1>6, <3>13, <4>1 DEF P
      <4>3. IsPrefix(z, e)
        BY <3>12, <3>13, <4>1, <4>2
      <4>4. z # <<>>
        <5>1. Len(d) <= Len(z) /\ Len(d) \in Nat
          BY <2>1, <3>11, PrefixIs, SequenceIsFunction
        <5>2. Len(d) # 0 /\ Len(<<>>) = 0
          BY <2>1, <3>7, SequenceIsItself, EmptySeq
        <5> QED
          BY <5>1, <5>2
      <4>5. z \in P
        BY <3>6, <3>11, <4>2, <4>3, <4>4
      <4> QED
        BY <3>11, <4>5
    <3>14. CASE z \in NewDirs(units)
      <4>1. PICK R \in Prunes(units) : z \in R /\ R \subseteq x.objs
        BY <3>11, <3>14 DEF Sound, Pathed
      <4>2. PICK top : top \in R /\ R = Places(top) /\ IsSequence(top)
        BY <4>1, <1>2 DEF PrunedUpwards
      <4>3. IsPrefix(z, top)
        BY <4>1, <4>2, PlacesAre
      <4>4. d \in R
        <5>1. IsPrefix(d, top)
          BY <2>1, <3>11, <4>2, <4>3, PrefixOrder
        <5> QED
          BY <2>1, <3>7, <4>2, <5>1, PlacesAre
      <4>5. \A e \in R : IsPrefix(e, z) \/ IsPrefix(z, e)
        <5> TAKE e \in R
        <5>1. IsSequence(e) /\ IsPrefix(e, top)
          BY <4>2, PlacesAre
        <5> QED
          BY <3>11, <4>2, <4>3, <5>1, PrefixOrder
      <4> QED
        BY <3>13, <4>1, <4>4, <4>5
    <3>15. CASE z \notin NewDirs(units)
      <4>1. Len(z) \in Nat /\ Len(d) \in Nat /\ Len(d) <= Len(z) /\ Len(d) # 0
        BY <2>1, <3>7, <3>11, PrefixIs, SequenceIsFunction, SequenceIsItself
      <4>2. Len(z) > 1
        <5>1. Len(z) # Len(d)
          <6> SUFFICES ASSUME Len(z) = Len(d) PROVE FALSE
            OBVIOUS
          <6>1. \A i \in 1..Len(d) : d[i] = z[i]
            BY <2>1, <3>11, PrefixIs
          <6>2. IsPrefix(z, d)
            BY <2>1, <3>11, <6>1, PrefixIs
          <6> QED
            BY <2>1, <3>11, <6>2, PrefixOrder
        <5> QED
          BY <4>1, <5>1
      <4> DEFINE f == Front(z)
      <4>3. /\ f \in Places(z) /\ Len(f) < Len(z) /\ IsPrefix(d, f) /\ IsSequence(f)
            /\ IsPrefix(f, z) /\ Len(f) \in Nat
        BY <2>1, <3>11, <4>2, FrontIs, PlacesAre, SequenceIsFunction
      <4> HIDE DEF f
      <4>4. f \in x.objs
        BY <3>11, <4>3 DEF Sound, Shaped
      <4>5. f \in P
        <5> SUFFICES ASSUME f \notin P PROVE FALSE
          OBVIOUS
        <5>1. f \in S
          BY <4>3, <4>4
        <5>2. Len(z) <= Len(f)
          BY <3>10, <5>1
        <5> QED
          BY <4>1, <4>3, <5>2
      <4>6. \A o \in x.objs : IsPrefix(d, o) => o \notin Before.objs
        <5> SUFFICES ASSUME NEW o \in x.objs, IsPrefix(d, o), o \in Before.objs PROVE FALSE
          OBVIOUS
        <5>1. d \in Places(o)
          BY <1>2, <2>1, <3>7, PlacesAre
        <5> QED
          BY <2>1, <5>1 DEF Placed
      <4>7. f \in NewDirs(units) /\ z \in Made(units) \ (Before.objs \cup NewDirs(units))
        BY <3>3, <3>11, <3>15, <4>3, <4>4, <4>5, <4>6 DEF NewDirs, Sound, Shaped, P
      <4>8. Places(f) \in Prunes(units)
        BY <4>2, <4>7 DEF PrunedUpwards, f
      <4>9. Places(f) \subseteq x.objs
        BY <4>4 DEF Sound, Shaped
      <4>10. d \in Places(f)
        BY <2>1, <3>7, <4>3, PlacesAre
      <4>11. \A e \in Places(f) : IsPrefix(e, z)
        <5> TAKE e \in Places(f)
        <5>1. IsSequence(e) /\ IsPrefix(e, f)
          BY <4>3, PlacesAre
        <5> QED
          BY <3>11, <4>3, <5>1, PrefixOrder
      <4> QED
        BY <3>13, <4>8, <4>9, <4>10, <4>11
    <3> QED
      BY <3>14, <3>15
  <2> QED
    BY <2>3, <2>4
<1> QED
  BY <1>10, <1>11, <1>12 DEF Sound, y

LEMMA EffectSound ==
  ASSUME NEW units, Placed(units), PrunedUpwards(units), NEW x, Sound(x, units),
         NEW c \in CommandsOf(units), Applies(x, c)
  PROVE  Sound(Effect(x, c), units)
BY CommandIs, AddSound, DropSound, MoveSound

(* Whatever a sequence of such commands comes to. *)
LEMMA RunSound ==
  ASSUME NEW units, Placed(units), PrunedUpwards(units), NEW x, Sound(x, units),
         NEW hit, NEW lenient,
         NEW cmds, Len(cmds) \in Nat, \A n \in 1..Len(cmds) : cmds[n] \in CommandsOf(units)
  PROVE  Sound(RunOf(x, cmds, hit, lenient).host, units)
<1>1. PICK run :
        /\ \A n \in 0..Len(cmds) : run[n] = After(x, cmds, hit, lenient, run, n)
        /\ RunOf(x, cmds, hit, lenient) = run[Len(cmds)]
  BY RunIsRun
<1> DEFINE Bad == {n \in 0..Len(cmds) : ~ Sound(run[n].host, units)}
<1>2. SUFFICES ASSUME Bad # {} PROVE FALSE
  BY <1>1
<1>3. PICK n \in Bad : \A k \in Bad : n <= k
  <2>1. Bad \subseteq Nat
    OBVIOUS
  <2> HIDE DEF Bad
  <2> QED
    BY <1>2, <2>1, LeastExists
<1>4. CASE n = 0
  <2>1. run[n].host = x
    BY <1>1, <1>4 DEF After, Started
  <2> QED
    BY <2>1
<1>5. CASE n # 0
  <2>1. n - 1 \in 0..Len(cmds) /\ n - 1 \notin Bad /\ n \in 1..Len(cmds)
    BY <1>3, <1>5
  <2> DEFINE w == run[n - 1].host
  <2>2. Sound(w, units)
    BY <2>1
  <2>3. run[n] = IF lenient \/ run[n - 1].go THEN Ran(run[n - 1], cmds[n], hit) ELSE run[n - 1]
    BY <1>1, <1>5, <2>1 DEF After
  <2>4. \/ run[n].host = w
        \/ run[n].host = Effect(w, cmds[n]) /\ Applies(w, cmds[n])
    BY <2>3 DEF Ran
  <2> HIDE DEF w
  <2>5. Applies(w, cmds[n]) => Sound(Effect(w, cmds[n]), units)
    BY <2>1, <2>2, EffectSound
  <2>6. Sound(run[n].host, units)
    BY <2>2, <2>4, <2>5
  <2> QED
    BY <2>6
<1> QED
  BY <1>4, <1>5

(* What is in memory takes all that is in it along. *)
LEMMA VolatileUpwards ==
  ASSUME NEW p, IsSequence(p), p # <<>>, NEW o, IsSequence(o), IsPrefix(p, o), IsVolatile(p)
  PROVE  IsVolatile(o)
<1>1. /\ Len(p) \in Nat /\ Len(o) \in Nat /\ Len(p) <= Len(o) /\ Len(p) # 0
      /\ \A i \in 1..Len(p) : p[i] = o[i]
  BY PrefixIs, SequenceIsFunction, SequenceIsItself
<1>2. o[1] = p[1]
  BY <1>1
<1> DEFINE dir == DirObject(<<"var", "run", "netns">>)
<1>3. IsSequence(dir)
  <2>1. dir = <<<<"dir", "var">>, <<"dir", "run">>, <<"dir", "netns">>>>
    BY DEF DirObject
  <2> DEFINE S == ToSet(dir)
  <2>2. \A i \in 1..3 : dir[i] \in S
    BY <2>1 DEF ToSet
  <2>3. dir[1] \in S /\ dir[2] \in S /\ dir[3] \in S
    BY <2>2
  <2>4. dir = <<dir[1], dir[2], dir[3]>>
    BY <2>1
  <2> HIDE DEF S, dir
  <2>5. <<dir[1], dir[2], dir[3]>> \in Seq(S)
    BY <2>3
  <2> QED
    BY <2>4, <2>5 DEF S, IsSequence
<1>4. IsPrefix(dir, p) => IsPrefix(dir, o)
  <2> HIDE DEF dir
  <2> QED
    BY <1>3, PrefixOrder
<1> QED
  BY <1>1, <1>2, <1>4 DEF IsVolatile

LEMMA BeforeSound ==
  ASSUME NEW units, Placed(units)
  PROVE  Sound(Before, units)
<1>1. Shaped(Before, units)
  BY DEF Placed, Shaped
<1>2. Tied(Before, units)
  <2>1. /\ Before.ties \subseteq Tethers(units)
        /\ \A t \in Before.ties : t \subseteq Before.objs \cap Ends(units)
    BY DEF Placed, Ends
  <2>2. \A t, u \in Before.ties : t \cap u # {} => t = u
    BY DEF Placed
  <2>3. \A o \in Before.objs : \A p : ~ TiedTo(units, o, p)
    BY DEF TiedTo
  <2> QED
    BY <2>1, <2>2, <2>3 DEF Tied
<1>3. Pathed(Before, units)
  BY DEF Pathed, NewDirs
<1> QED
  BY <1>1, <1>2, <1>3 DEF Sound

LEMMA RebootSound ==
  ASSUME NEW units, Placed(units), PrunedUpwards(units), NEW x, Sound(x, units),
         NEW y, y.ties = {}, y.objs = {o \in x.objs : ~ IsVolatile(o)} \cup Before.objs
  PROVE  Sound(y, units)
<1>1. \A o \in x.objs \cup Before.objs : IsSequence(o)
  BY DEF Sound, Shaped, Placed
<1>2. Shaped(y, units)
  <2>1. ASSUME NEW o \in y.objs, NEW p \in Places(o) PROVE p \in y.objs
    <3>1. CASE o \in Before.objs
      BY <2>1, <3>1 DEF Placed
    <3>2. CASE o \notin Before.objs
      <4>1. o \in x.objs /\ ~ IsVolatile(o) /\ p \in x.objs
        BY <2>1, <3>2 DEF Sound, Shaped
      <4>2. IsSequence(p) /\ IsPrefix(p, o) /\ Len(p) \in 1..Len(o)
        BY <1>1, <2>1, PlacesAre
      <4>3. p # <<>>
        <5>1. Len(<<>>) = 0
          BY EmptySeq
        <5> QED
          BY <4>2, <5>1
      <4>4. ~ IsVolatile(p)
        BY <1>1, <4>1, <4>2, <4>3, VolatileUpwards
      <4> QED
        BY <4>1, <4>4
    <3> QED
      BY <3>1, <3>2
  <2> QED
    BY <2>1 DEF Sound, Shaped
<1>3. Tied(y, units)
  <2>1. \A o \in y.objs : \A p : ~ TiedTo(units, o, p)
    BY DEF TiedTo
  <2> QED
    BY <2>1 DEF Tied
<1>4. Pathed(y, units)
  <2> SUFFICES ASSUME NEW d \in y.objs, d \in NewDirs(units)
               PROVE  \E Q \in Prunes(units) : d \in Q /\ Q \subseteq y.objs
    BY DEF Pathed
  <2>1. d \notin Before.objs /\ d \in x.objs /\ ~ IsVolatile(d)
    BY DEF NewDirs
  <2>2. PICK Q \in Prunes(units) : d \in Q /\ Q \subseteq x.objs
    BY <2>1 DEF Sound, Pathed
  <2>3. \A e \in Q : ~ IsVolatile(e)
    BY <2>1, <2>2 DEF PrunedUpwards
  <2> QED
    BY <2>2, <2>3
<1> QED
  BY <1>2, <1>3, <1>4 DEF Sound

LEMMA SoundInit ==
  ASSUME DeletesAll, Init
  PROVE  Sound(host, plan)
<1>1. PlanOf(plan) /\ host = Before
  BY DEF Init, PlanOf
<1>2. Placed(plan)
  BY <1>1 DEF DeletesAll, PlanOf
<1> QED
  BY <1>1, <1>2, BeforeSound

LEMMA SoundStep ==
  ASSUME DeletesAll, Ranged, Sound(host, plan), [Next]_vars
  PROVE  Sound(host, plan)'
<1>1. Placed(plan) /\ PrunedUpwards(plan) /\ PlanOf(plan)
  BY DEF DeletesAll, Ranged, PlanOf
<1>2. plan' = plan
  BY DEF Next, Register, Begin, CreateStep, GiveUp, DeleteStep, Finish, Die, Reboot, AllOver, vars
<1>3. SUFFICES Sound(host', plan)
  BY <1>2
<1>4. CASE UNCHANGED host
  BY <1>4
<1>5. ASSUME at <= Len(plan), NEW cmds, cmds \in {OpAt(at).create, OpAt(at).delete}, NEW hit, NEW lenient
      PROVE  /\ Sound(RunOf(host, cmds, hit, lenient).host, plan)
             /\ \A m \in DOMAIN cmds : Sound(RunOf(host, SubSeq(cmds, 1, m), hit, lenient).host, plan)
  <2>1. /\ Len(cmds) \in Nat /\ DOMAIN cmds = 1..Len(cmds)
        /\ \A n \in 1..Len(cmds) : cmds[n] \in CommandsOf(plan)
        /\ \A m \in DOMAIN cmds :
              /\ Len(SubSeq(cmds, 1, m)) = m /\ m \in 1..Len(cmds)
              /\ \A n \in 1..m : SubSeq(cmds, 1, m)[n] = cmds[n]
    BY <1>5, CommandsAtHand
  <2>2. Sound(RunOf(host, cmds, hit, lenient).host, plan)
    BY <1>1, <2>1, RunSound
  <2>3. ASSUME NEW m \in DOMAIN cmds
        PROVE  Sound(RunOf(host, SubSeq(cmds, 1, m), hit, lenient).host, plan)
    <3> DEFINE part == SubSeq(cmds, 1, m)
    <3>1. Len(part) \in Nat /\ Len(part) = m /\ \A n \in 1..m : part[n] \in CommandsOf(plan)
      <4>1. m \in 1..Len(cmds) /\ m \in Nat
        BY <2>1
      <4>2. Len(part) = m /\ \A n \in 1..m : part[n] = cmds[n]
        BY <2>1
      <4>3. \A n \in 1..m : n \in 1..Len(cmds)
        BY <4>1, <2>1
      <4> HIDE DEF part
      <4> QED
        BY <2>1, <4>1, <4>2, <4>3
    <3> HIDE DEF part
    <3>2. Sound(RunOf(host, part, hit, lenient).host, plan)
      BY <1>1, <3>1, RunSound
    <3> QED
      BY <3>2 DEF part
  <2> QED
    BY <2>2, <2>3
<1>6. CASE CreateStep
  BY <1>5, <1>6 DEF CreateStep, Strict
<1>7. CASE DeleteStep
  BY <1>5, <1>7 DEF DeleteStep, Lenient
<1>8. CASE Die
  <2> DEFINE cmds == IF act = "create" THEN OpAt(at).create ELSE OpAt(at).delete
  <2>1. cmds \in {OpAt(at).create, OpAt(at).delete} /\ at <= Len(plan)
    BY <1>8 DEF Die
  <2>2. PICK hit \in Hits(cmds) :
          host' = (IF act = "create" THEN Strict(host, SubSeq(cmds, 1, hit.at), hit)
                   ELSE Lenient(host, SubSeq(cmds, 1, hit.at), hit)).host
    BY <1>8 DEF Die
  <2>3. hit.at \in DOMAIN cmds
    BY DEF Hits
  <2> HIDE DEF cmds
  <2> QED
    BY <1>5, <2>1, <2>2, <2>3 DEF Strict, Lenient
<1>9. CASE Reboot
  <2>1. host' = [objs |-> {o \in host.objs : ~ IsVolatile(o)} \cup Before.objs, ties |-> {}]
    BY <1>9 DEF Reboot
  <2>2. host'.ties = {} /\ host'.objs = {o \in host.objs : ~ IsVolatile(o)} \cup Before.objs
    BY <2>1
  <2> QED
    BY <1>1, <2>2, RebootSound
<1> QED
  BY <1>4, <1>6, <1>7, <1>8, <1>9
  DEF Next, Register, Begin, GiveUp, Finish, AllOver, vars
-----------------------------------------------------------------------------
(* Types.                                                                  *)

Typed ==
  /\ broken \subseteq {ScopeAt(i) : i \in DOMAIN plan}
  /\ store \subseteq UNION {plan[i].op.gets : i \in DOMAIN plan}
  /\ registered \subseteq Awaited
  /\ did \in {"none", "create", "delete", "struck"}
  /\ fresh \in {"clean", "whole", "again", "neither"}
  /\ runs \in 0..MaxRuns /\ faults \in 0..MaxFaults

LEMMA TypedInit == Init => Typed
BY BoundAssumption DEF Init, Typed

LEMMA TypedStep ==
  ASSUME Ranged, Typed, [Next]_vars
  PROVE  Typed'
<1> USE BoundAssumption
<1>1. Len(plan) \in Nat /\ DOMAIN plan = 1..Len(plan) /\ at \in 1..(Len(plan) + 1)
  BY PlanIsSequence DEF Ranged
<1>2. plan' = plan
  BY DEF Next, Register, Begin, CreateStep, GiveUp, DeleteStep, Finish, Die, Reboot, AllOver, vars
<1> DEFINE Scopes == {ScopeAt(i) : i \in DOMAIN plan}
           Values == UNION {plan[i].op.gets : i \in DOMAIN plan}
<1>3. Scopes' = Scopes /\ Values' = Values /\ Awaited' = Awaited
  BY <1>2 DEF ScopeAt, Awaited
<1>4. ASSUME at <= Len(plan)
      PROVE  ScopeAt(at) \in Scopes /\ (act = "create" => OpAt(at).gets \subseteq Values)
  BY <1>1, <1>4, AtHand
<1> DEFINE Rest == /\ did \in {"none", "create", "delete", "struck"}
                   /\ fresh \in {"clean", "whole", "again", "neither"}
                   /\ runs \in 0..MaxRuns /\ faults \in 0..MaxFaults
<1>5. SUFFICES broken' \subseteq Scopes /\ store' \subseteq Values /\ registered' \subseteq Awaited /\ Rest'
  BY <1>3 DEF Typed
<1>6. broken \subseteq Scopes /\ store \subseteq Values /\ registered \subseteq Awaited /\ Rest
  BY DEF Typed
<1>7. ASSUME NEW hit, NEW cmds, hit \in Strokes(cmds), Struck(hit), runs' = runs PROVE Rest'
  <2>1. CASE hit = NoHit
    BY <1>6, <1>7, <2>1 DEF Struck
  <2>2. CASE hit # NoHit
    <3>1. faults < MaxFaults
      BY <1>7, <2>2 DEF Strokes
    <3> QED
      BY <1>6, <1>7, <2>2, <3>1 DEF Struck
  <2> QED
    BY <2>1, <2>2
<1> HIDE DEF Scopes, Values
<1>8. CASE UNCHANGED vars
  BY <1>6, <1>8 DEF vars
<1>9. ASSUME NEW h \in Awaited, Register(h)
      PROVE  broken' \subseteq Scopes /\ store' \subseteq Values /\ registered' \subseteq Awaited /\ Rest'
  BY <1>6, <1>9 DEF Register
<1>10. ASSUME NEW action \in {"create", "delete"}, Begin(action)
       PROVE  broken' \subseteq Scopes /\ store' \subseteq Values /\ registered' \subseteq Awaited /\ Rest'
  <2>1. broken' = {} /\ store' = {} /\ registered' = registered
    BY <1>10 DEF Begin, Afresh
  <2>2. Rest'
    BY <1>6, <1>10 DEF Begin
  <2> QED
    BY <1>6, <2>1, <2>2
<1>11. CASE CreateStep
  <2>1. /\ act = "create" /\ at <= Len(plan) /\ registered' = registered /\ runs' = runs
        /\ broken' \subseteq broken \cup {ScopeAt(at)} /\ store' \subseteq store \cup OpAt(at).gets
    BY <1>11 DEF CreateStep
  <2>2. PICK hit \in Strokes(OpAt(at).create) : Struck(hit)
    BY <1>11 DEF CreateStep
  <2>3. Rest'
    BY <1>7, <2>1, <2>2
  <2> QED
    BY <1>4, <1>6, <2>1, <2>3
<1>12. CASE GiveUp
  <2>1. /\ at <= Len(plan) /\ broken' = broken \cup {ScopeAt(at)}
        /\ UNCHANGED <<store, registered, did, runs, faults>> /\ fresh' = "neither"
    BY <1>12 DEF GiveUp
  <2> QED
    BY <1>4, <1>6, <2>1
<1>13. CASE DeleteStep
  <2>1. UNCHANGED <<broken, store, registered, runs>>
    BY <1>13 DEF DeleteStep
  <2>2. PICK hit \in Strokes(OpAt(at).delete) : Struck(hit)
    BY <1>13 DEF DeleteStep
  <2>3. Rest'
    BY <1>7, <2>1, <2>2
  <2> QED
    BY <1>6, <2>1, <2>3
<1>14. CASE Finish
  <2>1. act \in {"create", "delete"}
    BY <1>14 DEF Finish, Ranged
  <2>2. UNCHANGED <<broken, store, registered, runs, faults>>
    BY <1>14 DEF Finish
  <2>3. /\ did' \in {did, act}
        /\ fresh' \in {"clean", "whole", "neither"}
    BY <1>14 DEF Finish
  <2> QED
    BY <1>6, <2>1, <2>2, <2>3
<1>15. CASE Die \/ Reboot
  <2>1. /\ UNCHANGED <<broken, store, registered, runs>>
        /\ did' = "struck" /\ fresh' = "neither" /\ faults' = faults + 1 /\ faults < MaxFaults
    BY <1>15 DEF Die, Reboot
  <2> QED
    BY <1>6, <2>1
<1> QED
  BY <1>8, <1>9, <1>10, <1>11, <1>12, <1>13, <1>14, <1>15 DEF Next, AllOver

(* Every variable stays in its range; and no object is on a host without   *)
(* what holds it, nor is a veth leg tied to one that is gone, however runs *)
(* break off and whatever a reboot takes (HostObjects: what the kernel,    *)
(* Open vSwitch, OVN and Docker do).                                       *)
THEOREM TypesAreOK ==
  ASSUME DeletesAll
  PROVE  Spec => []TypeOK
<1>1. Init => Ranged /\ Sound(host, plan) /\ Typed
  BY RangedInit, SoundInit, TypedInit
<1>2. Ranged /\ Sound(host, plan) /\ Typed /\ [Next]_vars
        => Ranged' /\ Sound(host, plan)' /\ Typed'
  BY RangedStep, SoundStep, TypedStep
<1>3. ASSUME Ranged, Sound(host, plan), Typed PROVE TypeOK
  <2>1. Placed(plan)
    BY <1>3 DEF DeletesAll, Ranged, PlanOf
  <2>2. ASSUME NEW o \in host.objs PROVE Holder(o) \subseteq host.objs
    <3>1. IsSequence(o) /\ o # <<>> /\ Places(o) \subseteq host.objs
      BY <1>3, <2>1 DEF Sound, Shaped, Placed
    <3>2. Len(o) \in Nat /\ Len(o) # 0
      BY <3>1, SequenceIsFunction, SequenceIsItself
    <3>3. CASE Len(o) = 1
      BY <3>3 DEF Holder
    <3>4. CASE Len(o) > 1
      BY <3>1, <3>4, FrontIs DEF Holder
    <3>5. Len(o) = 1 \/ Len(o) > 1
      <4> DEFINE n == Len(o)
      <4>1. n \in Nat /\ n # 0
        BY <3>2
      <4> HIDE DEF n
      <4>2. n = 1 \/ n > 1
        BY <4>1
      <4> QED
        BY <4>2 DEF n
    <3> QED
      BY <3>3, <3>4, <3>5
  <2>3. \A t \in host.ties : t \subseteq host.objs
    BY <1>3 DEF Sound, Tied
  <2> QED
    BY <1>3, <2>2, <2>3 DEF TypeOK, Ranged, Typed, PlanOf
<1> QED
  BY <1>1, <1>2, <1>3, PTL DEF Spec

-----------------------------------------------------------------------------
(* A delete nothing strikes.                                               *)

(* Something half moved is in path P, and no step from k on takes it. *)
Kept(x, units, P, k) ==
  \E f \in x.objs \cap HalfMovedOf(units) : P \subseteq Places(f) /\ Stays(units, k, f)

(* All that a step before s clears is gone, and so is one directory at     *)
(* least of every path it has pruned for the last time, unless it is kept. *)
EmptiedTo(x, units, s) ==
  \A k \in Undoings(units) : Rewinds(k, s) =>
    /\ \A o : Clears(units, k, o) => o \notin x.objs
    /\ \A P \in Prunes(units) :
         LastPrune(units, P, k) =>
           P \subseteq Before.objs \/ ~ P \subseteq x.objs \/ Kept(x, units, P, k)

LEMMA UndoingIs ==
  ASSUME NEW units, PlanOf(units), NEW s \in Undoings(units)
  PROVE  /\ s[1] \in 1..Len(units) /\ s[2] \in 1..Len(units[s[1]].op.delete)
         /\ s = <<s[1], s[2]>>
         /\ s[1] \in Nat \ {0} /\ s[2] \in Nat \ {0}
         /\ Undoing(units, s) \in CommandsOf(units)
<1>1. PICK i \in DOMAIN units : s \in {i} \X DOMAIN units[i].op.delete
  BY DEF Undoings
<1>2. /\ Len(units) \in Nat /\ DOMAIN units = 1..Len(units)
      /\ IsSequence(units[i].op.delete)
  BY PlanIsSequence
<1>3. /\ Len(units[i].op.delete) \in Nat
      /\ DOMAIN units[i].op.delete = 1..Len(units[i].op.delete)
  BY <1>2, SequenceIsFunction
<1>4. s[1] = i /\ s[2] \in DOMAIN units[i].op.delete /\ s = <<s[1], s[2]>>
  BY <1>1
<1>5. units[i].op.delete[s[2]] \in ToSet(units[i].op.delete)
  BY <1>4 DEF ToSet
<1>6. Undoing(units, s) \in CommandsOf(units)
  BY <1>4, <1>5 DEF Undoing, CommandsOf
<1> QED
  BY <1>2, <1>3, <1>4, <1>6

(* A path is pruned for the last time once. *)
LEMMA LastPruneOnce ==
  ASSUME NEW units, PlanOf(units), NEW P,
         NEW k \in Undoings(units), LastPrune(units, P, k),
         NEW l \in Undoings(units), LastPrune(units, P, l)
  PROVE  k = l
<1>1. /\ k[1] \in Nat /\ k[2] \in Nat /\ l[1] \in Nat /\ l[2] \in Nat
  BY UndoingIs
<1>2. (l = k \/ Rewinds(l, k)) /\ (k = l \/ Rewinds(k, l))
  BY DEF LastPrune
<1> QED
  BY <1>1, <1>2 DEF Rewinds

(* What a step takes is gone when it has run, and what that is tied to. *)
LEMMA DropsWhatIsThere ==
  ASSUME NEW units, Placed(units), NEW x, Sound(x, units),
         NEW c \in CommandsOf(units), NEW o \in x.objs, DropsAny(c, o)
  PROVE  /\ Applies(x, c) /\ o \notin Effect(x, c).objs
         /\ \A p \in x.objs : {o, p} \in x.ties => p \notin Effect(x, c).objs
<1> DEFINE tops == c.drop \cup EmptyUpwards(x, c.prune)
           held == Within(x.objs, tops)
           peers == {q \in x.objs : \E h \in held : {h, q} \in x.ties}
           y == Effect(x, c)
<1>1. Applies(x, c)
  BY DEF DropsAny, Applies, Sound, Shaped
<1>2. PICK t \in c.drop : IsPrefix(t, o)
  BY DEF DropsAny
<1>3. c.moves = <<>> /\ c.adds = {}
  BY <1>2 DEF Placed
<1>4. y.objs = (x.objs \ Gone(x, tops)) \cup c.adds
  BY <1>3, EffectIs
<1>5. Gone(x, tops) = held \cup Within(x.objs, peers)
  BY DEF Gone
<1>6. o \in held
  BY <1>2 DEF Within
<1>7. ASSUME NEW p \in x.objs, {o, p} \in x.ties PROVE p \in Within(x.objs, peers)
  <2>1. p \in peers
    BY <1>6, <1>7
  <2>2. IsPrefix(p, p)
    BY PrefixOrder DEF Sound, Shaped, Placed
  <2> QED
    BY <2>1, <2>2 DEF Within
<1> HIDE DEF tops, held, peers, y
<1>8. o \notin y.objs /\ \A p \in x.objs : {o, p} \in x.ties => p \notin y.objs
  BY <1>3, <1>4, <1>5, <1>6, <1>7
<1> QED
  BY <1>1, <1>8 DEF y

LEMMA ClearsWhatIsThere ==
  ASSUME NEW units, PlanOf(units), Placed(units), NEW x, Sound(x, units),
         NEW s \in Undoings(units), NEW o, Clears(units, s, o),
         NEW y, y = IF Applies(x, Undoing(units, s)) THEN Effect(x, Undoing(units, s)) ELSE x
  PROVE  o \notin y.objs
<1> DEFINE c == Undoing(units, s)
<1>1. c \in CommandsOf(units)
  BY UndoingIs
<1>2. PICK p : DropsAny(c, p) /\ (p = o \/ (p \in Made(units) /\ TiedTo(units, o, p)))
  BY DEF Clears
<1>3. c.drop # {}
  BY <1>2 DEF DropsAny
<1>4. Brings(c) = {}
  BY <1>1, <1>3, CommandIs
<1>5. y = IF Applies(x, c) THEN Effect(x, c) ELSE x
  OBVIOUS
<1> HIDE DEF c
<1>6. y.objs \subseteq x.objs
  BY <1>4, <1>5, EffectIs
<1>7. SUFFICES ASSUME o \in x.objs PROVE o \notin y.objs
  BY <1>6
<1>8. CASE p = o
  BY <1>1, <1>2, <1>5, <1>7, <1>8, DropsWhatIsThere
<1>9. CASE p # o
  <2>1. TiedTo(units, o, p)
    BY <1>2, <1>9
  <2>2. {o, p} \in x.ties /\ {o, p} = {p, o}
    BY <1>7, <2>1 DEF Sound, Tied
  <2>3. p \in x.objs
    BY <2>2 DEF Sound, Tied
  <2> QED
    BY <1>1, <1>2, <1>5, <1>7, <2>2, <2>3, DropsWhatIsThere
<1> QED
  BY <1>8, <1>9

(* What no step from k on takes is there after each of them. *)
LEMMA StaysThere ==
  ASSUME NEW units, PlanOf(units), Placed(units), NEW x, Sound(x, units),
         NEW k, NEW f \in x.objs, Stays(units, k, f),
         NEW s \in Undoings(units), s = k \/ Rewinds(k, s),
         NEW y, y = IF Applies(x, Undoing(units, s)) THEN Effect(x, Undoing(units, s)) ELSE x
  PROVE  f \in y.objs
<1> DEFINE c == Undoing(units, s)
<1>1. c \in CommandsOf(units)
  BY UndoingIs
<1>2. /\ \A e \in Ends(units) : ~ IsPrefix(e, f)
      /\ f \notin c.prune /\ \A q \in Takes(c) : ~ IsPrefix(q, f)
  BY DEF Stays
<1>3. y = IF Applies(x, c) THEN Effect(x, c) ELSE x
  OBVIOUS
<1> HIDE DEF c
<1>4. CASE c.moves # <<>>
  <2>1. ~ IsPrefix(c.moves[1], f)
    BY <1>1, <1>2, <1>4, CommandIs
  <2>2. Effect(x, c).objs = (x.objs \ Within(x.objs, {c.moves[1]})) \cup {c.moves[2]}
    BY <1>4, EffectIs
  <2>3. f \notin Within(x.objs, {c.moves[1]})
    BY <2>1 DEF Within
  <2> QED
    BY <1>3, <2>2, <2>3
<1>5. CASE c.moves = <<>>
  <2> DEFINE tops == c.drop \cup EmptyUpwards(x, c.prune)
             held == Within(x.objs, tops)
             peers == {q \in x.objs : \E h \in held : {h, q} \in x.ties}
  <2>1. Effect(x, c).objs = (x.objs \ Gone(x, tops)) \cup c.adds
    BY <1>5, EffectIs
  <2>2. Gone(x, tops) = held \cup Within(x.objs, peers)
    BY DEF Gone
  <2>3. ASSUME NEW q \in tops PROVE ~ IsPrefix(q, f)
    <3>1. CASE q \in c.drop
      BY <1>2, <3>1 DEF Takes
    <3>2. CASE q \in EmptyUpwards(x, c.prune)
      BY <1>2, <3>2 DEF EmptyUpwards
    <3> QED
      BY <3>1, <3>2
  <2>4. f \notin held
    <3> HIDE DEF tops
    <3> QED
      BY <2>3 DEF Within
  <2>5. ASSUME NEW q \in peers PROVE ~ IsPrefix(q, f)
    <3>1. PICK h \in held : {h, q} \in x.ties
      OBVIOUS
    <3>2. q \in Ends(units)
      BY <3>1 DEF Sound, Tied
    <3> QED
      BY <1>2, <3>2
  <2>6. f \notin Within(x.objs, peers)
    <3> HIDE DEF peers
    <3> QED
      BY <2>5 DEF Within
  <2> HIDE DEF tops, held, peers
  <2> QED
    BY <1>3, <2>1, <2>2, <2>4, <2>6
<1> QED
  BY <1>4, <1>5

(* What is kept from step k on is kept by a later one. *)
LEMMA KeptFurther ==
  ASSUME NEW units, PlanOf(units), Placed(units), NEW x, Sound(x, units), NEW P,
         NEW k \in Undoings(units), Kept(x, units, P, k),
         NEW s \in Undoings(units), s = k \/ Rewinds(k, s),
         NEW y, y = IF Applies(x, Undoing(units, s)) THEN Effect(x, Undoing(units, s)) ELSE x
  PROVE  Kept(y, units, P, k) /\ Kept(y, units, P, s)
<1>1. PICK f \in x.objs \cap HalfMovedOf(units) : P \subseteq Places(f) /\ Stays(units, k, f)
  BY DEF Kept
<1>2. f \in y.objs
  BY <1>1, StaysThere
<1>3. ASSUME NEW l \in Undoings(units), l = s \/ Rewinds(s, l) PROVE l = k \/ Rewinds(k, l)
  <2>1. /\ k[1] \in Nat /\ k[2] \in Nat /\ s[1] \in Nat /\ s[2] \in Nat
        /\ l[1] \in Nat /\ l[2] \in Nat
    BY UndoingIs
  <2> QED
    BY <1>3, <2>1 DEF Rewinds
<1>4. Stays(units, s, f)
  BY <1>1, <1>3 DEF Stays
<1> QED
  BY <1>1, <1>2, <1>4 DEF Kept

(* When a path is pruned for the last time nothing is left in it, or what  *)
(* is half moved keeps it.                                                 *)
LEMMA PrunesWhatIsThere ==
  ASSUME NEW units, PlanOf(units), Placed(units), PrunedUpwards(units), Undone(units),
         NEW x, Sound(x, units),
         NEW s \in Undoings(units), EmptiedTo(x, units, s),
         NEW P \in Prunes(units), LastPrune(units, P, s), ~ P \subseteq Before.objs,
         NEW y, y = IF Applies(x, Undoing(units, s)) THEN Effect(x, Undoing(units, s)) ELSE x
  PROVE  ~ P \subseteq y.objs \/ Kept(y, units, P, s)
<1> DEFINE c == Undoing(units, s)
<1>1. c \in CommandsOf(units) /\ c.prune = P /\ P # {}
  BY UndoingIs DEF LastPrune, Prunes
<1>2. PICK k \in Undoings(units) :
         /\ LastPrune(units, P, k)
         /\ Undoing(units, k).needs = {} /\ Undoing(units, k).absent = {}
         /\ \A o \in Made(units) \ (Before.objs \cup P) : P \subseteq Places(o) =>
              IF o \in NewDirs(units)
                THEN \A Q \in Prunes(units) : o \in Q =>
                       \E l \in Undoings(units) : LastPrune(units, Q, l) /\ Rewinds(l, k)
                ELSE \/ \E l \in Undoings(units) : Clears(units, l, o) /\ Rewinds(l, k)
                     \/ o \in HalfMovedOf(units) /\ Stays(units, k, o)
  BY DEF Undone
<1>3. k = s
  BY <1>2, LastPruneOnce
<1>4. c.needs = {} /\ c.absent = {}
  BY <1>2, <1>3
<1>5. y = IF Applies(x, c) THEN Effect(x, c) ELSE x
  OBVIOUS
<1> HIDE DEF c
<1>6. y = Effect(x, c)
  BY <1>4, <1>5 DEF Applies
<1>7. c.moves = <<>> /\ c.adds = {}
  BY <1>1, CommandIs
<1> DEFINE empty == EmptyUpwards(x, c.prune)
           tops == c.drop \cup empty
<1>8. y.objs = x.objs \ Gone(x, tops)
  <2>1. Effect(x, c).objs = (x.objs \ Gone(x, tops)) \cup c.adds
    BY <1>7, EffectIs
  <2> HIDE DEF tops
  <2> QED
    BY <1>6, <1>7, <2>1
<1>9. SUFFICES ASSUME P \subseteq y.objs, ~ Kept(y, units, P, s) PROVE FALSE
  OBVIOUS
<1>a. \A f \in x.objs \cap HalfMovedOf(units) : P \subseteq Places(f) => ~ Stays(units, s, f)
  <2> SUFFICES ASSUME NEW f \in x.objs \cap HalfMovedOf(units), P \subseteq Places(f),
                      Stays(units, s, f)
               PROVE  FALSE
    OBVIOUS
  <2>1. f \in y.objs
    BY StaysThere
  <2> QED
    BY <1>9, <2>1 DEF Kept
<1>10. P \subseteq x.objs
  BY <1>8, <1>9
<1>11. PICK leaf : leaf \in P /\ P = Places(leaf)
  BY DEF PrunedUpwards
<1>12. \A o \in x.objs : IsSequence(o)
  BY DEF Sound, Shaped, Placed
<1>13. IsSequence(leaf) /\ leaf \in x.objs /\ IsPrefix(leaf, leaf)
  BY <1>10, <1>11, <1>12, PrefixOrder
<1>14. ASSUME NEW o \in x.objs, IsPrefix(leaf, o) PROVE o \in P
  <2>1. P \subseteq Places(o)
    <3> SUFFICES ASSUME NEW p \in P PROVE p \in Places(o)
      OBVIOUS
    <3>1. IsSequence(p) /\ IsPrefix(p, leaf) /\ Len(p) \in 1..Len(leaf)
      BY <1>11, <1>13, PlacesAre
    <3>2. p # <<>>
      <4>1. Len(<<>>) = 0
        BY EmptySeq
      <4> QED
        BY <3>1, <4>1
    <3>3. IsPrefix(p, o)
      BY <1>12, <1>13, <1>14, <3>1, PrefixOrder
    <3> QED
      BY <1>12, <3>1, <3>2, <3>3, PlacesAre
  <2>2. o \notin Before.objs
    BY <2>1 DEF Placed
  <2>3. SUFFICES ASSUME o \notin P PROVE FALSE
    OBVIOUS
  <2>4. o \in Made(units) \ (Before.objs \cup P)
    BY <2>2, <2>3 DEF Sound, Shaped
  <2>5. CASE o \in NewDirs(units)
    <3>1. PICK Q \in Prunes(units) : o \in Q /\ Q \subseteq x.objs
      BY <2>5 DEF Sound, Pathed
    <3>2. PICK l \in Undoings(units) : LastPrune(units, Q, l) /\ Rewinds(l, s)
      BY <1>2, <1>3, <2>1, <2>4, <2>5, <3>1
    <3>3. Kept(x, units, Q, l)
      BY <2>2, <3>1, <3>2 DEF EmptiedTo
    <3>4. PICK f \in x.objs \cap HalfMovedOf(units) : Q \subseteq Places(f) /\ Stays(units, l, f)
      BY <3>3 DEF Kept
    <3>5. Stays(units, s, f)
      <4>1. \A m \in Undoings(units) : m = s \/ Rewinds(s, m) => m = l \/ Rewinds(l, m)
        <5> SUFFICES ASSUME NEW m \in Undoings(units), m = s \/ Rewinds(s, m) PROVE Rewinds(l, m)
          OBVIOUS
        <5>1. /\ l[1] \in Nat /\ l[2] \in Nat /\ s[1] \in Nat /\ s[2] \in Nat
              /\ m[1] \in Nat /\ m[2] \in Nat
          BY UndoingIs
        <5> QED
          BY <3>2, <5>1 DEF Rewinds
      <4> QED
        BY <3>4, <4>1 DEF Stays
    <3>6. P \subseteq Places(f)
      <4> SUFFICES ASSUME NEW p \in P PROVE p \in Places(f)
        OBVIOUS
      <4>1. IsSequence(f) /\ IsPrefix(o, f)
        BY <1>12, <3>1, <3>4, PlacesAre
      <4>2. IsSequence(p) /\ IsPrefix(p, o) /\ Len(p) \in 1..Len(o)
        BY <1>12, <2>1, PlacesAre
      <4>3. p # <<>>
        <5>1. Len(<<>>) = 0
          BY EmptySeq
        <5> QED
          BY <4>2, <5>1
      <4>4. IsPrefix(p, f)
        BY <1>12, <4>1, <4>2, PrefixOrder
      <4> QED
        BY <4>1, <4>2, <4>3, <4>4, PlacesAre
    <3> QED
      BY <1>a, <3>4, <3>5, <3>6
  <2>6. CASE o \notin NewDirs(units)
    <3>1. \/ \E l \in Undoings(units) : Clears(units, l, o) /\ Rewinds(l, s)
          \/ o \in HalfMovedOf(units) /\ Stays(units, s, o)
      BY <1>2, <1>3, <2>1, <2>4, <2>6
    <3>2. ~ \E l \in Undoings(units) : Clears(units, l, o) /\ Rewinds(l, s)
      BY DEF EmptiedTo
    <3> QED
      BY <1>a, <2>1, <3>1, <3>2
  <2> QED
    BY <2>5, <2>6
<1>15. leaf \in empty
  BY <1>1, <1>10, <1>11, <1>14 DEF EmptyUpwards
<1>16. leaf \in Gone(x, tops)
  BY <1>13, <1>15 DEF Gone, Within
<1> HIDE DEF tops
<1> QED
  BY <1>8, <1>9, <1>11, <1>16

(* One step further: s has been done. *)
LEMMA EmptyFurther ==
  ASSUME NEW units, PlanOf(units), Placed(units), PrunedUpwards(units), Undone(units),
         NEW x, Sound(x, units),
         NEW s \in Undoings(units), EmptiedTo(x, units, s),
         NEW next, \A k \in Undoings(units) : Rewinds(k, next) => Rewinds(k, s) \/ k = s,
         NEW y, y = IF Applies(x, Undoing(units, s)) THEN Effect(x, Undoing(units, s)) ELSE x
  PROVE  Sound(y, units) /\ EmptiedTo(y, units, next)
<1> DEFINE c == Undoing(units, s)
<1>1. c \in CommandsOf(units)
  BY UndoingIs
<1>2. y = IF Applies(x, c) THEN Effect(x, c) ELSE x
  OBVIOUS
<1>3. Brings(c) \cap UNION Prunes(units) = {}
  BY DEF Undone
<1>4. \A k \in Undoings(units) : \A o : Clears(units, k, o) /\ Rewinds(k, s) => o \notin Brings(c)
  BY DEF Clears
<1> HIDE DEF c
<1>5. y.objs \subseteq x.objs \cup Brings(c)
  BY <1>2, EffectIs
<1>6. Sound(y, units)
  BY <1>1, <1>2, EffectSound
<1>7. ASSUME NEW k \in Undoings(units), Rewinds(k, next), NEW o, Clears(units, k, o)
      PROVE  o \notin y.objs
  <2>1. CASE k = s
    BY <1>7, <2>1, ClearsWhatIsThere
  <2>2. CASE Rewinds(k, s)
    BY <1>4, <1>5, <1>7, <2>2 DEF EmptiedTo
  <2> QED
    BY <1>7, <2>1, <2>2
<1>8. ASSUME NEW k \in Undoings(units), Rewinds(k, next),
             NEW P \in Prunes(units), LastPrune(units, P, k), ~ P \subseteq Before.objs
      PROVE  ~ P \subseteq y.objs \/ Kept(y, units, P, k)
  <2>1. CASE k = s
    BY <1>8, <2>1, PrunesWhatIsThere
  <2>2. CASE Rewinds(k, s)
    <3>1. CASE ~ P \subseteq x.objs
      BY <1>3, <1>5, <3>1
    <3>2. CASE Kept(x, units, P, k)
      BY <2>2, <3>2, KeptFurther
    <3> QED
      BY <1>8, <2>2, <3>1, <3>2 DEF EmptiedTo
  <2> QED
    BY <1>8, <2>1, <2>2
<1> QED
  BY <1>6, <1>7, <1>8 DEF EmptiedTo

(* The steps before the next one of an operation, and before the first of  *)
(* the operation that is undone next.                                      *)
LEMMA RewindsNext ==
  ASSUME NEW units, PlanOf(units), NEW i \in 1..Len(units)
  PROVE  /\ \A k \in Undoings(units) :
              Rewinds(k, <<i - 1, 1>>) <=> Rewinds(k, <<i, Len(units[i].op.delete) + 1>>)
         /\ \A n \in 1..Len(units[i].op.delete) :
              /\ <<i, n>> \in Undoings(units)
              /\ \A k \in Undoings(units) :
                   Rewinds(k, <<i, n + 1>>) <=> Rewinds(k, <<i, n>>) \/ k = <<i, n>>
<1> DEFINE len == Len(units[i].op.delete)
<1>1. /\ Len(units) \in Nat /\ DOMAIN units = 1..Len(units)
      /\ len \in Nat /\ DOMAIN units[i].op.delete = 1..len
  BY PlanIsSequence, SequenceIsFunction
<1>2. ASSUME NEW k \in Undoings(units)
      PROVE  /\ k[1] \in Nat /\ k[2] \in Nat \ {0} /\ k = <<k[1], k[2]>>
             /\ k[1] = i => k[2] <= len
  BY UndoingIs
<1>3. \A n \in 1..len : <<i, n>> \in Undoings(units)
  BY <1>1 DEF Undoings
<1> HIDE DEF len
<1>4. \A k \in Undoings(units) : Rewinds(k, <<i - 1, 1>>) => Rewinds(k, <<i, len + 1>>)
  BY <1>1, <1>2 DEF Rewinds
<1>5. \A k \in Undoings(units) : Rewinds(k, <<i, len + 1>>) => Rewinds(k, <<i - 1, 1>>)
  BY <1>1, <1>2 DEF Rewinds
<1>6. ASSUME NEW n \in 1..len, NEW k \in Undoings(units), Rewinds(k, <<i, n + 1>>)
      PROVE  Rewinds(k, <<i, n>>) \/ k = <<i, n>>
  BY <1>1, <1>2, <1>6 DEF Rewinds
<1>7. ASSUME NEW n \in 1..len, NEW k \in Undoings(units), Rewinds(k, <<i, n>>) \/ k = <<i, n>>
      PROVE  Rewinds(k, <<i, n + 1>>)
  BY <1>1, <1>2, <1>7 DEF Rewinds
<1> QED
  BY <1>3, <1>4, <1>5, <1>6, <1>7 DEF len

(* All commands of a delete are tried. *)
LEMMA RunEmpties ==
  ASSUME NEW units, PlanOf(units), Placed(units), PrunedUpwards(units), Undone(units),
         NEW i \in 1..Len(units), NEW x, Sound(x, units), EmptiedTo(x, units, <<i, 1>>)
  PROVE  EmptiedTo(Lenient(x, units[i].op.delete, NoHit).host, units, <<i - 1, 1>>)
<1> DEFINE cmds == units[i].op.delete
<1>1. Len(cmds) \in Nat /\ DOMAIN cmds = 1..Len(cmds)
  BY PlanIsSequence, SequenceIsFunction
<1>2. /\ \A k \in Undoings(units) :
              Rewinds(k, <<i - 1, 1>>) => Rewinds(k, <<i, Len(cmds) + 1>>)
      /\ \A n \in 1..Len(cmds) :
              /\ <<i, n>> \in Undoings(units) /\ Undoing(units, <<i, n>>) = cmds[n]
              /\ \A k \in Undoings(units) :
                   Rewinds(k, <<i, n + 1>>) => Rewinds(k, <<i, n>>) \/ k = <<i, n>>
  BY RewindsNext DEF Undoing
<1> DEFINE lenient == TRUE
<1>a. lenient /\ Lenient(x, cmds, NoHit) = RunOf(x, cmds, NoHit, lenient)
  BY DEF Lenient
<1> HIDE DEF cmds, lenient
<1>3. PICK run :
        /\ \A n \in 0..Len(cmds) : run[n] = After(x, cmds, NoHit, lenient, run, n)
        /\ RunOf(x, cmds, NoHit, lenient) = run[Len(cmds)]
  BY <1>1, RunIsRun
<1> DEFINE Good(n) == /\ run[n].n = n + 1 /\ Sound(run[n].host, units)
                      /\ EmptiedTo(run[n].host, units, <<i, n + 1>>)
           Bad == {n \in 0..Len(cmds) : ~ Good(n)}
<1>4. Bad = {}
  <2>1. SUFFICES ASSUME Bad # {} PROVE FALSE
    OBVIOUS
  <2>2. PICK n \in Bad : \A k \in Bad : n <= k
    <3>1. Bad \subseteq Nat
      OBVIOUS
    <3> HIDE DEF Bad
    <3> QED
      BY <2>1, <3>1, LeastExists
  <2>3. CASE n = 0
    <3>1. run[0] = Started(x)
      BY <1>1, <1>3 DEF After
    <3>2. run[0].n = 1 /\ run[0].host = x
      BY <3>1 DEF Started
    <3>3. Good(0)
      BY <3>2
    <3> HIDE DEF Good
    <3> QED
      BY <2>2, <2>3, <3>3
  <2>4. CASE n # 0
    <3>1. n - 1 \in 0..Len(cmds) /\ n - 1 \notin Bad /\ n \in 1..Len(cmds)
      BY <2>2, <2>4
    <3>2. Good(n - 1)
      BY <3>1
    <3> DEFINE w == run[n - 1]
               c == cmds[n]
               y == run[n].host
    <3>3. w.n = n /\ Sound(w.host, units) /\ EmptiedTo(w.host, units, <<i, n>>)
      <4>1. (n - 1) + 1 = n
        BY <3>1
      <4> QED
        BY <3>2, <4>1
    <3>4. run[n] = Ran(w, c, NoHit)
      BY <1>a, <1>3, <3>1, <2>4 DEF After
    <3> HIDE DEF w, c
    <3>5. w.n # NoHit.at
      BY <3>1, <3>3 DEF NoHit
    <3>6. run[n].n = n + 1 /\ y = IF Applies(w.host, c) THEN Effect(w.host, c) ELSE w.host
      BY <3>3, <3>4, <3>5 DEF Ran
    <3> HIDE DEF y
    <3>7. Sound(y, units) /\ EmptiedTo(y, units, <<i, n + 1>>)
      <4> DEFINE s == <<i, n>>
                 next == <<i, n + 1>>
      <4>1. /\ s \in Undoings(units) /\ Undoing(units, s) = c
            /\ \A k \in Undoings(units) : Rewinds(k, next) => Rewinds(k, s) \/ k = s
        BY <1>2, <3>1 DEF c
      <4>2. EmptiedTo(w.host, units, s)
        BY <3>3
      <4> HIDE DEF s, next
      <4>3. Sound(y, units) /\ EmptiedTo(y, units, next)
        BY <3>3, <3>6, <4>1, <4>2, EmptyFurther
      <4> QED
        BY <4>3 DEF next
    <3>8. Good(n)
      BY <3>6, <3>7 DEF y
    <3> QED
      BY <2>2, <3>8
  <2> QED
    BY <2>3, <2>4
<1>5. Good(Len(cmds))
  <2>1. Len(cmds) \in 0..Len(cmds)
    BY <1>1
  <2> HIDE DEF Good
  <2> QED
    BY <1>4, <2>1
<1>6. EmptiedTo(run[Len(cmds)].host, units, <<i - 1, 1>>)
  <2>1. EmptiedTo(run[Len(cmds)].host, units, <<i, Len(cmds) + 1>>)
    BY <1>5
  <2> QED
    BY <1>2, <2>1 DEF EmptiedTo
<1>7. EmptiedTo(Lenient(x, cmds, NoHit).host, units, <<i - 1, 1>>)
  BY <1>a, <1>3, <1>6
<1> QED
  BY <1>7 DEF cmds

LeftRightly(x, units) ==
  \A o \in x.objs : o \in Before.objs \/ \E f \in x.objs \cap HalfMovedOf(units) : IsPrefix(o, f)

(* Nothing is left when all of it has been undone. *)
LEMMA EmptiedIsUndone ==
  ASSUME NEW units, PlanOf(units), Placed(units), Undone(units),
         NEW x, Sound(x, units), EmptiedTo(x, units, <<0, 1>>)
  PROVE  LeftRightly(x, units)
<1>1. \A k \in Undoings(units) : Rewinds(k, <<0, 1>>)
  BY UndoingIs DEF Rewinds
<1>a. \A o \in x.objs : IsSequence(o) /\ IsPrefix(o, o)
  BY PrefixOrder DEF Sound, Shaped, Placed
<1>2. SUFFICES ASSUME NEW o \in x.objs, o \notin Before.objs,
                      \A f \in x.objs \cap HalfMovedOf(units) : ~ IsPrefix(o, f)
               PROVE  FALSE
  BY DEF LeftRightly
<1>b. o \notin HalfMovedOf(units)
  BY <1>a, <1>2
<1>3. o \in Made(units)
  BY <1>2 DEF Sound, Shaped
<1>4. CASE o \in NewDirs(units)
  <2>1. PICK Q \in Prunes(units) : o \in Q /\ Q \subseteq x.objs
    BY <1>4 DEF Sound, Pathed
  <2>2. PICK k \in Undoings(units) : LastPrune(units, Q, k)
    BY <1>2, <2>1 DEF Undone
  <2>3. Kept(x, units, Q, k)
    BY <1>1, <1>2, <2>1, <2>2 DEF EmptiedTo
  <2>4. PICK f \in x.objs \cap HalfMovedOf(units) : o \in Places(f)
    BY <2>1, <2>3 DEF Kept
  <2> QED
    BY <1>a, <1>2, <2>4, PlacesAre
<1>5. CASE o \notin NewDirs(units)
  <2>1. PICK k \in Undoings(units) : Clears(units, k, o)
    BY <1>2, <1>3, <1>5, <1>b DEF Undone
  <2> QED
    BY <1>1, <1>2, <2>1 DEF EmptiedTo
<1> QED
  BY <1>4, <1>5

(* How far a delete is, and what it has come to. *)
Emptying ==
  /\ act # "idle" => did \in {"none", "struck"}
  /\ act = "delete" /\ did = "none" => EmptiedTo(host, plan, <<Len(plan) + 1 - at, 1>>)
  /\ act = "idle" /\ did = "delete" => LeftRightly(host, plan)

LEMMA EmptyingInit == Init => Emptying
BY DEF Init, Emptying

LEMMA EmptyingStep ==
  ASSUME DeletesAll, Ranged, Sound(host, plan), Emptying, [Next]_vars
  PROVE  Emptying'
<1>1. Placed(plan) /\ PrunedUpwards(plan) /\ Undone(plan) /\ PlanOf(plan)
  BY DEF DeletesAll, Ranged, PlanOf
<1>2. Len(plan) \in Nat /\ at \in 1..(Len(plan) + 1) /\ act \in {"idle", "create", "delete"}
  BY <1>1, PlanIsSequence DEF Ranged
<1>3. CASE UNCHANGED <<plan, host, act, at, did>>
  BY <1>3 DEF Emptying
<1>4. ASSUME NEW action \in {"create", "delete"}, Begin(action) PROVE Emptying'
  <2>1. act' = action /\ did' = "none" /\ at' = 1 /\ UNCHANGED <<plan, host>>
    BY <1>4 DEF Begin
  <2>2. EmptiedTo(host, plan, <<Len(plan), 1>>)
    <3>1. ASSUME NEW k \in Undoings(plan) PROVE ~ Rewinds(k, <<Len(plan), 1>>)
      BY <1>1, <1>2, UndoingIs DEF Rewinds
    <3> QED
      BY <3>1 DEF EmptiedTo
  <2>3. Len(plan) + 1 - 1 = Len(plan)
    BY <1>2
  <2>4. EmptiedTo(host', plan', <<Len(plan') + 1 - at', 1>>)
    BY <2>1, <2>2, <2>3
  <2> QED
    BY <2>1, <2>4 DEF Emptying
<1>5. CASE CreateStep
  <2>1. act = "create" /\ act' = act
    BY <1>5 DEF CreateStep
  <2>2. did' \in {did, "struck"}
    BY <1>5 DEF CreateStep, Struck
  <2> QED
    BY <2>1, <2>2 DEF Emptying
<1>6. CASE GiveUp
  BY <1>6 DEF GiveUp, Emptying
<1>7. CASE DeleteStep
  <2>1. act = "delete" /\ at <= Len(plan) /\ act' = act /\ at' = at + 1 /\ plan' = plan
    BY <1>7 DEF DeleteStep
  <2>2. PICK hit : /\ host' = Lenient(host, OpAt(at).delete, hit).host
                   /\ Struck(hit)
    BY <1>7 DEF DeleteStep
  <2>3. CASE hit # NoHit
    BY <2>1, <2>2, <2>3 DEF Struck, Emptying
  <2>4. CASE hit = NoHit
    <3>1. did' = did
      BY <2>2, <2>4 DEF Struck
    <3>2. CASE did = "struck"
      BY <2>1, <3>1, <3>2 DEF Emptying
    <3>3. CASE did = "none"
      <4> DEFINE i == Len(plan) + 1 - at
      <4>1. /\ i \in 1..Len(plan) /\ OpAt(at) = plan[i].op
            /\ Len(plan') + 1 - at' = i - 1
        BY <1>2, <2>1 DEF OpAt
      <4>2. EmptiedTo(host, plan, <<i, 1>>)
        BY <2>1, <3>3 DEF Emptying
      <4> HIDE DEF i
      <4>3. EmptiedTo(host', plan, <<i - 1, 1>>)
        BY <1>1, <2>2, <2>4, <4>1, <4>2, RunEmpties
      <4>4. EmptiedTo(host', plan', <<Len(plan') + 1 - at', 1>>)
        BY <2>1, <4>1, <4>3
      <4> QED
        BY <2>1, <3>1, <3>3, <4>4 DEF Emptying
    <3> QED
      BY <2>1, <3>2, <3>3 DEF Emptying
  <2> QED
    BY <2>3, <2>4
<1>8. CASE Finish
  <2>1. /\ act # "idle" /\ at > Len(plan) /\ act' = "idle" /\ UNCHANGED <<plan, host>>
        /\ did' = IF did = "struck" THEN did ELSE act
    BY <1>8 DEF Finish
  <2>2. CASE did' # "delete"
    BY <2>1, <2>2 DEF Emptying
  <2>3. CASE did' = "delete"
    <3>1. act = "delete" /\ did = "none"
      BY <2>1, <2>3 DEF Emptying
    <3>2. Len(plan) + 1 - at = 0
      BY <1>2, <2>1
    <3>3. EmptiedTo(host, plan, <<0, 1>>)
      BY <3>1, <3>2 DEF Emptying
    <3>4. LeftRightly(host, plan)
      BY <1>1, <3>3, EmptiedIsUndone
    <3> QED
      BY <2>1, <3>4 DEF Emptying
  <2> QED
    BY <2>2, <2>3
<1>9. CASE Die \/ Reboot
  BY <1>9 DEF Die, Reboot, Emptying
<1> QED
  BY <1>3, <1>4, <1>5, <1>6, <1>7, <1>8, <1>9 DEF Next, Register, AllOver, vars

(* However far a create got, in however many attempts, with whatever       *)
(* failures, deaths and reboots, a delete that nothing strikes leaves only *)
(* what was there before, and links and files that a create was struck     *)
(* before it moved them, with the directories such a file is in            *)
(* (lifecycle.py, LifecycleController._ordered and execute, _write_new).   *)
THEOREM NothingIsLeft ==
  ASSUME DeletesAll
  PROVE  Spec => []NothingLeft
<1>1. Init => Ranged /\ Sound(host, plan) /\ Emptying
  BY RangedInit, SoundInit, EmptyingInit
<1>2. Ranged /\ Sound(host, plan) /\ Emptying /\ [Next]_vars
        => Ranged' /\ Sound(host, plan)' /\ Emptying'
  BY RangedStep, SoundStep, EmptyingStep
<1>3. Emptying => NothingLeft
  BY DEF Emptying, LeftRightly, NothingLeft, HalfMoved
<1> QED
  BY <1>1, <1>2, <1>3, PTL DEF Spec

-----------------------------------------------------------------------------
(* A delete of what was created.                                           *)

(* The host has what stands when the delete comes to k, not what lacks. *)
Along(x, units, k) ==
  \A o : /\ StandsThen(o, units, k) => o \in x.objs
         /\ LacksThen(o, units, k) => o \notin x.objs

LEMMA MayRemoveIs ==
  ASSUME NEW units, NEW k, NEW x, x.ties \subseteq Tethers(units), Along(x, units, k),
         NEW c, c = Undoing(units, k),
         NEW o \in x.objs, o \notin Effect(x, c).objs
  PROVE  MayRemove(units, k, o)
<1>1. CASE c.moves # <<>>
  <2>1. o \in Within(x.objs, {c.moves[1]}) /\ o # c.moves[2]
    <3>1. Effect(x, c).objs = (x.objs \ Within(x.objs, {c.moves[1]})) \cup {c.moves[2]}
      BY <1>1, EffectIs
    <3> QED
      BY <3>1
  <2>2. Removes(c, o)
    BY <1>1, <2>1 DEF Within, Removes, Displaces
  <2> QED
    BY <2>2 DEF MayRemove
<1>2. CASE c.moves = <<>>
  <2> DEFINE tops == c.drop \cup EmptyUpwards(x, c.prune)
             held == Within(x.objs, tops)
             peers == {q \in x.objs : \E h \in held : {h, q} \in x.ties}
  <2>1. o \in Gone(x, tops) /\ o \notin c.adds
    <3>1. Effect(x, c).objs = (x.objs \ Gone(x, tops)) \cup c.adds
      BY <1>2, EffectIs
    <3> HIDE DEF tops
    <3> QED
      BY <3>1
  <2>2. Gone(x, tops) = held \cup Within(x.objs, peers)
    BY DEF Gone
  <2>3. tops \subseteq c.drop \cup c.prune
    BY DEF EmptyUpwards
  <2>4. CASE o \in held
    <3>1. PICK t \in tops : IsPrefix(t, o)
      BY <2>4 DEF Within
    <3>2. CASE t \in c.drop
      <4>1. Removes(c, o)
        BY <1>2, <2>1, <3>1, <3>2 DEF Removes
      <4> QED
        BY <4>1 DEF MayRemove
    <3>3. CASE t \in EmptyUpwards(x, c.prune)
      <4>1. o \in c.prune
        BY <3>1, <3>3 DEF EmptyUpwards
      <4> QED
        BY <4>1 DEF MayRemove
    <3> QED
      BY <3>2, <3>3
  <2>5. CASE o \notin held
    <3>1. PICK q \in peers : IsPrefix(q, o)
      BY <2>1, <2>2, <2>5 DEF Within
    <3>2. PICK h \in held : {h, q} \in x.ties
      OBVIOUS
    <3>3. PICK t \in tops : IsPrefix(t, h) /\ h \in x.objs
      BY <3>2 DEF Within
    <3>4. ~ LacksThen(h, units, k)
      BY <3>3 DEF Along
    <3>5. t \in c.drop \cup c.prune /\ {h, q} \in Tethers(units)
      BY <2>3, <3>2
    <3> HIDE DEF tops, held, peers
    <3>6. \E d \in c.drop \cup c.prune : \E u \in Tethers(units) : \E a, b \in u :
            IsPrefix(d, a) /\ IsPrefix(b, o) /\ ~ LacksThen(a, units, k)
      BY <3>1, <3>3, <3>4, <3>5
    <3> QED
      BY <3>6 DEF MayRemove
  <2> QED
    BY <2>4, <2>5
<1> QED
  BY <1>1, <1>2

(* One step further: s has been done, or has failed as it may. *)
LEMMA ThenFurther ==
  ASSUME NEW units, NEW x, x.ties \subseteq Tethers(units),
         NEW s \in Undoings(units), Along(x, units, s),
         Quiet(units, s) => UndoneInTime(units, s),
         NEW next, \A k \in Undoings(units) : Rewinds(k, next) <=> Rewinds(k, s) \/ k = s,
         NEW y, y = IF Applies(x, Undoing(units, s)) THEN Effect(x, Undoing(units, s)) ELSE x
  PROVE  /\ Quiet(units, s) => Applies(x, Undoing(units, s)) /\ Undoing(units, s).ends
         /\ Along(y, units, next)
<1> DEFINE c == Undoing(units, s)
<1>1. Quiet(units, s) => Applies(x, c) /\ c.ends
  BY DEF UndoneInTime, Along, Applies
<1>2. \A o \in x.objs : o \in y.objs \/ MayRemove(units, s, o)
  BY MayRemoveIs
<1>3. y = IF Applies(x, c) THEN Effect(x, c) ELSE x
  OBVIOUS
<1>4. y.objs \subseteq x.objs \cup Brings(c)
  BY <1>3, EffectIs
<1>5. Quiet(units, s) => Brings(c) \subseteq y.objs
  <2>1. Brings(c) \subseteq Effect(x, c).objs
    <3>1. CASE c.moves = <<>>
      <4> DEFINE tops == c.drop \cup EmptyUpwards(x, c.prune)
      <4>1. Effect(x, c).objs = (x.objs \ Gone(x, tops)) \cup c.adds
        BY <3>1, EffectIs
      <4> HIDE DEF tops
      <4> QED
        BY <3>1, <4>1 DEF Brings
    <3>2. CASE c.moves # <<>>
      <4>1. Effect(x, c).objs = (x.objs \ Within(x.objs, {c.moves[1]})) \cup {c.moves[2]}
        BY <3>2, EffectIs
      <4> QED
        BY <3>2, <4>1 DEF Brings
    <3> QED
      BY <3>1, <3>2
  <2> QED
    BY <1>1, <1>3, <2>1
<1>6. ASSUME Quiet(units, s), NEW o, Removes(c, o) PROVE o \notin y.objs
  <2>1. y = Effect(x, c)
    BY <1>1, <1>3, <1>6
  <2>2. CASE c.moves # <<>>
    <3>1. y.objs = (x.objs \ Within(x.objs, {c.moves[1]})) \cup {c.moves[2]}
      BY <2>1, <2>2, EffectIs
    <3>2. IsPrefix(c.moves[1], o) /\ o # c.moves[2]
      BY <1>6, <2>2 DEF Removes, Displaces
    <3> QED
      BY <3>1, <3>2 DEF Within
  <2>3. CASE c.moves = <<>>
    <3> DEFINE tops == c.drop \cup EmptyUpwards(x, c.prune)
    <3>1. Effect(x, c).objs = (x.objs \ Gone(x, tops)) \cup c.adds
      BY <2>3, EffectIs
    <3>2. PICK t \in c.drop : IsPrefix(t, o) /\ o \notin c.adds
      BY <1>6, <2>3 DEF Removes
    <3>3. o \in x.objs => o \in Gone(x, tops)
      BY <3>2 DEF Gone, Within
    <3> HIDE DEF tops
    <3> QED
      BY <2>1, <3>1, <3>2, <3>3
  <2> QED
    BY <2>2, <2>3
<1>7. ASSUME NEW o, StandsThen(o, units, next) PROVE o \in y.objs
  <2>1. CASE /\ Stands(o, units, Complete(units))
             /\ \A l \in Undoings(units) : Rewinds(l, next) => ~ MayRemove(units, l, o)
    <3>1. StandsThen(o, units, s)
      BY <2>1 DEF StandsThen
    <3> QED
      BY <1>2, <2>1, <3>1 DEF Along
  <2>2. ASSUME NEW l \in Undoings(units),
               Rewinds(l, next), Quiet(units, l), o \in Brings(Undoing(units, l)),
               \A m \in Undoings(units) : Rewinds(l, m) /\ Rewinds(m, next) => ~ MayRemove(units, m, o)
        PROVE  o \in y.objs
    <3>1. CASE l = s
      BY <1>5, <2>2, <3>1
    <3>2. CASE Rewinds(l, s)
      <4>1. StandsThen(o, units, s)
        BY <2>2, <3>2 DEF StandsThen
      <4>2. ~ MayRemove(units, s, o)
        BY <2>2, <3>2
      <4> QED
        BY <1>2, <4>1, <4>2 DEF Along
    <3> QED
      BY <2>2, <3>1, <3>2
  <2> QED
    BY <1>7, <2>1, <2>2 DEF StandsThen
<1>8. ASSUME NEW o, LacksThen(o, units, next) PROVE o \notin y.objs
  <2>1. CASE /\ Lacks(o, units, Complete(units))
             /\ \A l \in Undoings(units) : Rewinds(l, next) => o \notin Brings(Undoing(units, l))
    <3>1. LacksThen(o, units, s)
      BY <2>1 DEF LacksThen
    <3> QED
      BY <1>4, <2>1, <3>1 DEF Along
  <2>2. ASSUME NEW l \in Undoings(units),
               Rewinds(l, next), Quiet(units, l), Removes(Undoing(units, l), o),
               \A m \in Undoings(units) :
                 Rewinds(l, m) /\ Rewinds(m, next) => o \notin Brings(Undoing(units, m))
        PROVE  o \notin y.objs
    <3>1. CASE l = s
      BY <1>6, <2>2, <3>1
    <3>2. CASE Rewinds(l, s)
      <4>1. LacksThen(o, units, s)
        BY <2>2, <3>2 DEF LacksThen
      <4>2. o \notin Brings(c)
        BY <2>2, <3>2
      <4> QED
        BY <1>4, <4>1, <4>2 DEF Along
    <3> QED
      BY <2>2, <3>1, <3>2
  <2> QED
    BY <1>8, <2>1, <2>2 DEF LacksThen
<1>9. Along(y, units, next)
  BY <1>7, <1>8 DEF Along
<1> QED
  BY <1>1, <1>9

(* All commands of a delete are tried, and none fails of one that is quiet. *)
LEMMA RunAlong ==
  ASSUME NEW units, PlanOf(units), Placed(units), PrunedUpwards(units),
         \A k \in Undoings(units) : Quiet(units, k) => UndoneInTime(units, k),
         NEW i \in 1..Len(units), NEW x, Sound(x, units), Along(x, units, <<i, 1>>)
  PROVE  LET run == Lenient(x, units[i].op.delete, NoHit)
         IN  /\ units[i].op.key \in LostOf(units) \/ run.ok
             /\ Along(run.host, units, <<i - 1, 1>>)
<1> DEFINE cmds == units[i].op.delete
           quiet == units[i].op.key \notin LostOf(units)
<1>1. Len(cmds) \in Nat /\ DOMAIN cmds = 1..Len(cmds)
  BY PlanIsSequence, SequenceIsFunction
<1>2. /\ \A k \in Undoings(units) :
              Rewinds(k, <<i - 1, 1>>) <=> Rewinds(k, <<i, Len(cmds) + 1>>)
      /\ \A n \in 1..Len(cmds) :
              /\ <<i, n>> \in Undoings(units) /\ Undoing(units, <<i, n>>) = cmds[n]
              /\ cmds[n] \in CommandsOf(units)
              /\ Quiet(units, <<i, n>>) <=> quiet
              /\ \A k \in Undoings(units) :
                   Rewinds(k, <<i, n + 1>>) <=> Rewinds(k, <<i, n>>) \/ k = <<i, n>>
  <2>1. ASSUME NEW n \in 1..Len(cmds)
        PROVE  /\ <<i, n>> \in Undoings(units) /\ Undoing(units, <<i, n>>) = cmds[n]
               /\ Quiet(units, <<i, n>>) <=> quiet
    BY RewindsNext DEF Undoing, Quiet
  <2>2. \A n \in 1..Len(cmds) : cmds[n] \in CommandsOf(units)
    <3> TAKE n \in 1..Len(cmds)
    <3> DEFINE s == <<i, n>>
    <3>1. s \in Undoings(units) /\ Undoing(units, s) = cmds[n]
      BY <2>1
    <3> HIDE DEF s, cmds
    <3> QED
      BY <3>1, UndoingIs
  <2> QED
    BY <2>1, <2>2, RewindsNext
<1> DEFINE lenient == TRUE
<1>a. lenient /\ Lenient(x, cmds, NoHit) = RunOf(x, cmds, NoHit, lenient)
  BY DEF Lenient
<1> HIDE DEF cmds, lenient, quiet
<1>3. PICK run :
        /\ \A n \in 0..Len(cmds) : run[n] = After(x, cmds, NoHit, lenient, run, n)
        /\ RunOf(x, cmds, NoHit, lenient) = run[Len(cmds)]
  BY <1>1, RunIsRun
<1> DEFINE Good(n) == /\ run[n].n = n + 1 /\ Sound(run[n].host, units)
                      /\ quiet => run[n].ok
                      /\ Along(run[n].host, units, <<i, n + 1>>)
           Bad == {n \in 0..Len(cmds) : ~ Good(n)}
<1>4. Bad = {}
  <2>1. SUFFICES ASSUME Bad # {} PROVE FALSE
    OBVIOUS
  <2>2. PICK n \in Bad : \A k \in Bad : n <= k
    <3>1. Bad \subseteq Nat
      OBVIOUS
    <3> HIDE DEF Bad
    <3> QED
      BY <2>1, <3>1, LeastExists
  <2>3. CASE n = 0
    <3>1. run[0] = Started(x)
      BY <1>1, <1>3 DEF After
    <3>2. run[0].n = 1 /\ run[0].host = x /\ run[0].ok
      BY <3>1 DEF Started
    <3>3. Good(0)
      BY <3>2
    <3> HIDE DEF Good
    <3> QED
      BY <2>2, <2>3, <3>3
  <2>4. CASE n # 0
    <3>1. n - 1 \in 0..Len(cmds) /\ n - 1 \notin Bad /\ n \in 1..Len(cmds)
      BY <2>2, <2>4
    <3>2. Good(n - 1)
      BY <3>1
    <3> DEFINE w == run[n - 1]
               c == cmds[n]
               y == run[n].host
    <3>3. /\ w.n = n /\ Sound(w.host, units) /\ Along(w.host, units, <<i, n>>)
          /\ quiet => w.ok
      <4>1. (n - 1) + 1 = n
        BY <3>1
      <4> QED
        BY <3>2, <4>1
    <3>4. run[n] = Ran(w, c, NoHit)
      BY <1>a, <1>3, <3>1, <2>4 DEF After
    <3> HIDE DEF w, c
    <3>5. w.n # NoHit.at
      BY <3>1, <3>3 DEF NoHit
    <3>6. run[n].n = n + 1 /\ y = IF Applies(w.host, c) THEN Effect(w.host, c) ELSE w.host
      BY <3>3, <3>4, <3>5 DEF Ran
    <3>7. w.ok /\ Applies(w.host, c) /\ c.ends => run[n].ok
      <4>1. run[n].ok = (w.ok /\ Applies(w.host, c) /\ c.ends /\ w.n # NoHit.at)
        BY <3>4 DEF Ran
      <4> QED
        BY <3>5, <4>1
    <3> HIDE DEF y
    <3>8. /\ Sound(y, units) /\ Along(y, units, <<i, n + 1>>)
          /\ quiet => Applies(w.host, c) /\ c.ends
      <4> DEFINE s == <<i, n>>
                 next == <<i, n + 1>>
                 before == w.host
      <4>1. /\ s \in Undoings(units) /\ Undoing(units, s) = c /\ c \in CommandsOf(units)
            /\ Quiet(units, s) <=> quiet
            /\ \A k \in Undoings(units) : Rewinds(k, next) <=> Rewinds(k, s) \/ k = s
        BY <1>2, <3>1 DEF c
      <4>2. Along(before, units, s) /\ before.ties \subseteq Tethers(units)
        BY <3>3 DEF Sound, Tied
      <4> HIDE DEF s, next
      <4>3. y = IF Applies(before, Undoing(units, s)) THEN Effect(before, Undoing(units, s)) ELSE before
        BY <3>6, <4>1
      <4>4. Quiet(units, s) => UndoneInTime(units, s)
        BY <4>1
      <4> HIDE DEF before
      <4>5. /\ Quiet(units, s) => Applies(before, Undoing(units, s)) /\ Undoing(units, s).ends
            /\ Along(y, units, next)
        BY <4>1, <4>2, <4>3, <4>4, ThenFurther
      <4>6. (Quiet(units, s) => Applies(w.host, c) /\ c.ends) /\ Along(y, units, next)
        BY <4>1, <4>5 DEF before
      <4>7. Sound(y, units)
        BY <3>3, <3>6, <4>1, EffectSound
      <4> QED
        BY <4>1, <4>6, <4>7 DEF next
    <3>9. Good(n)
      BY <3>3, <3>6, <3>7, <3>8 DEF y
    <3> QED
      BY <2>2, <3>9
  <2> QED
    BY <2>3, <2>4
<1>5. Good(Len(cmds))
  <2>1. Len(cmds) \in 0..Len(cmds)
    BY <1>1
  <2> HIDE DEF Good
  <2> QED
    BY <1>4, <2>1
<1>6. Along(run[Len(cmds)].host, units, <<i - 1, 1>>)
  <2> DEFINE s == <<i, Len(cmds) + 1>>
             next == <<i - 1, 1>>
             y == run[Len(cmds)].host
  <2>1. Along(y, units, s)
    BY <1>5
  <2>2. \A k \in Undoings(units) : Rewinds(k, next) <=> Rewinds(k, s)
    BY <1>2
  <2> HIDE DEF s, next, y
  <2>3. \A o : StandsThen(o, units, next) => StandsThen(o, units, s)
    BY <2>2 DEF StandsThen
  <2>4. \A o : LacksThen(o, units, next) => LacksThen(o, units, s)
    BY <2>2 DEF LacksThen
  <2>5. Along(y, units, next)
    BY <2>1, <2>3, <2>4 DEF Along
  <2> QED
    BY <2>5 DEF next, y
<1>7. quiet => run[Len(cmds)].ok
  BY <1>5
<1>8. LET end == Lenient(x, cmds, NoHit)
      IN (quiet => end.ok) /\ Along(end.host, units, <<i - 1, 1>>)
  BY <1>a, <1>3, <1>6, <1>7
<1> QED
  BY <1>8 DEF cmds, quiet

(* A run on a host nobody else creates on, and the delete after it. *)
Undisturbed ==
  /\ act # "idle" /\ fresh = "whole" => act = "delete"
  /\ act = "delete" /\ fresh = "whole" =>
       /\ noise \subseteq LostOf(plan)
       /\ Along(host, plan, <<Len(plan) + 1 - at, 1>>)

LEMMA UndisturbedInit == Init => Undisturbed
BY DEF Init, Undisturbed

(* Before the first step all is as the create has left it. *)
LEMMA AlongFirst ==
  ASSUME NEW units, PlanOf(units), NEW x, Abreast(x, units, Complete(units))
  PROVE  Along(x, units, <<Len(units), 1>>)
<1>1. Len(units) \in Nat
  BY PlanIsSequence
<1>2. \A k \in Undoings(units) : ~ Rewinds(k, <<Len(units), 1>>)
  BY <1>1, UndoingIs DEF Rewinds
<1> QED
  BY <1>2 DEF Along, Abreast, StandsThen, LacksThen

LEMMA UndisturbedStep ==
  ASSUME DeletesAll, DeletesInOrder, Ranged, Sound(host, plan), Going, Undisturbed, [Next]_vars
  PROVE  Undisturbed'
<1>1. /\ Placed(plan) /\ PrunedUpwards(plan) /\ PlanOf(plan)
      /\ \A k \in Undoings(plan) : Quiet(plan, k) => UndoneInTime(plan, k)
  BY DEF DeletesAll, DeletesInOrder, Ranged, PlanOf
<1>2. Len(plan) \in Nat /\ at \in 1..(Len(plan) + 1) /\ act \in {"idle", "create", "delete"}
  BY <1>1, PlanIsSequence DEF Ranged
<1>3. CASE UNCHANGED <<plan, host, act, at, noise, fresh>>
  BY <1>3 DEF Undisturbed
<1>4. ASSUME NEW action \in {"create", "delete"}, Begin(action) PROVE Undisturbed'
  <2>1. act = "idle" /\ act' = action /\ noise' = {} /\ at' = 1 /\ UNCHANGED <<plan, host>>
    BY <1>4 DEF Begin, Afresh
  <2>2. fresh' = "whole" => action = "delete" /\ fresh = "whole"
    BY <1>4 DEF Begin
  <2>3. ASSUME fresh' = "whole"
        PROVE  Along(host', plan', <<Len(plan') + 1 - at', 1>>)
    <3>1. Abreast(host, plan, Complete(plan))
      BY <2>1, <2>2, <2>3 DEF Going
    <3>2. Along(host, plan, <<Len(plan), 1>>)
      BY <1>1, <3>1, AlongFirst
    <3>3. Len(plan) + 1 - 1 = Len(plan)
      BY <1>2
    <3> QED
      BY <2>1, <3>2, <3>3
  <2> QED
    BY <2>1, <2>2, <2>3 DEF Undisturbed
<1>5. CASE CreateStep
  <2>1. act = "create" /\ act' = act /\ fresh # "whole"
    BY <1>5 DEF CreateStep, Undisturbed
  <2>2. fresh' \in {fresh, "neither"}
    BY <1>5 DEF CreateStep, Struck
  <2> QED
    BY <2>1, <2>2 DEF Undisturbed
<1>6. CASE GiveUp
  BY <1>6 DEF GiveUp, Undisturbed
<1>7. CASE DeleteStep
  <2>1. act = "delete" /\ at <= Len(plan) /\ act' = act /\ at' = at + 1 /\ plan' = plan
    BY <1>7 DEF DeleteStep
  <2>2. PICK hit :
          LET run == Lenient(host, OpAt(at).delete, hit)
          IN  /\ Struck(hit)
              /\ host' = run.host
              /\ noise' = IF run.ok THEN noise ELSE noise \cup {OpAt(at).key}
    BY <1>7 DEF DeleteStep
  <2>3. CASE hit # NoHit
    BY <2>1, <2>2, <2>3 DEF Struck, Undisturbed
  <2>4. CASE hit = NoHit
    <3>1. fresh' = fresh
      BY <2>2, <2>4 DEF Struck
    <3>2. CASE fresh # "whole"
      BY <2>1, <3>1, <3>2 DEF Undisturbed
    <3>3. CASE fresh = "whole"
      <4> DEFINE i == Len(plan) + 1 - at
                 run == Lenient(host, plan[i].op.delete, NoHit)
      <4>1. /\ i \in 1..Len(plan) /\ OpAt(at) = plan[i].op
            /\ Len(plan') + 1 - at' = i - 1
        BY <1>2, <2>1 DEF OpAt
      <4>2. Along(host, plan, <<i, 1>>) /\ noise \subseteq LostOf(plan)
        BY <2>1, <3>3 DEF Undisturbed
      <4>3. host' = run.host /\ noise' = IF run.ok THEN noise ELSE noise \cup {plan[i].op.key}
        BY <2>2, <2>4, <4>1
      <4> HIDE DEF i
      <4>4. (plan[i].op.key \in LostOf(plan) \/ run.ok) /\ Along(run.host, plan, <<i - 1, 1>>)
        BY <1>1, <4>1, <4>2, RunAlong
      <4> HIDE DEF run
      <4>5. noise' \subseteq LostOf(plan)
        BY <4>2, <4>3, <4>4
      <4>6. Along(host', plan', <<Len(plan') + 1 - at', 1>>)
        BY <2>1, <4>1, <4>3, <4>4
      <4> QED
        BY <2>1, <4>5, <4>6 DEF Undisturbed
    <3> QED
      BY <3>2, <3>3
  <2> QED
    BY <2>3, <2>4
<1>8. CASE Finish \/ Die \/ Reboot
  BY <1>8 DEF Finish, Die, Reboot, Undisturbed
<1> QED
  BY <1>3, <1>4, <1>5, <1>6, <1>7, <1>8 DEF Next, Register, AllOver, vars

(* Nothing unexpected fails when a delete undoes what was created: every   *)
(* command comes when what it needs is still there, or its failure is one  *)
(* of those that are known (lifecycle.py, the plan rewound).               *)
THEOREM DeletesQuietly ==
  ASSUME InOrder, DeletesAll, DeletesInOrder
  PROVE  Spec => []DeleteIsQuiet
<1>1. Init => Ranged /\ Sound(host, plan) /\ Going /\ Undisturbed
  BY RangedInit, SoundInit, GoingInit, UndisturbedInit
<1>2. Ranged /\ Sound(host, plan) /\ Going /\ Undisturbed /\ [Next]_vars
        => Ranged' /\ Sound(host, plan)' /\ Going' /\ Undisturbed'
  BY RangedStep, SoundStep, GoingStep, UndisturbedStep
<1>3. Undisturbed => DeleteIsQuiet
  BY DEF Undisturbed, DeleteIsQuiet, LostOnTheWay
<1> QED
  BY <1>1, <1>2, <1>3, PTL DEF Spec
=============================================================================
