---------------------------- MODULE PrepareProofs ----------------------------
(***************************************************************************)
(* For any dependencies, packages, images and requests: what is announced  *)
(* as ready is, an answer comes after all it is about, and an image is     *)
(* fetched by one request at a time, and only while it is not there.       *)
(*                                                                         *)
(* A status sysdeps has reported does not change, and packages stay on the *)
(* host; so what a handler concludes from the statuses it has read still   *)
(* holds once the services have started, however long that took.           *)
(***************************************************************************)
EXTENDS Prepare, FiniteSetTheorems, SequenceTheorems, TLAPS

Statuses == {"none", "ready", "failed", "timeout"}

Types ==
    /\ asked \in [Req -> SUBSET Dep]
    /\ status \in [Req -> [Dep -> Statuses]]
    /\ present \subseteq Dep
    /\ apc \in [Req -> {"idle", "asked", "resolving", "starting", "over", "error"}]
    /\ settled \in [Req -> SUBSET Dep]
    /\ announced \in [Req -> [Abs -> Statuses]]

Reported ==
    \A r \in Req : \A d \in Dep :
        /\ status[r][d] = "ready" => d \in present
        /\ d \in settled[r] => status[r][d] # "none"

(* Its packages are on the host, and no status of theirs says otherwise. *)
Startable(r, a) ==
    IsNext(r, a) /\ a \in Abs /\ Worst(r, a) = "ready" /\ a \in HasUnits

Starts == \A r \in Req : apc[r] = "starting" => \E a \in Abs : Startable(r, a)

PrepareInv == Types /\ Reported /\ Starts /\ ReadyIsBacked
-----------------------------------------------------------------------------

LEMMA Constants ==
    /\ \A r \in Req : Asks[r] \in Seq(Abs)
    /\ \A a \in Abs : Packages[a] \subseteq Dep
    BY PrepareAssumption

(* The order of the request leaves one to announce next. *)
LEMMA NextIsOne ==
    ASSUME NEW r \in Req, NEW a \in Abs, NEW b \in Abs, IsNext(r, a), IsNext(r, b)
    PROVE  a = b
<1>1. Asks[r] \in Seq(Abs) /\ a \in ToSet(Asks[r]) /\ b \in ToSet(Asks[r])
    BY Constants DEF IsNext, Wanted
<1>2. PICK m \in DOMAIN Asks[r] : Asks[r][m] = a
    BY <1>1 DEF ToSet
<1>3. PICK n \in DOMAIN Asks[r] : Asks[r][n] = b
    BY <1>1 DEF ToSet
<1>4. m \in 1..Len(Asks[r]) /\ n \in 1..Len(Asks[r]) /\ Len(Asks[r]) \in Nat
    BY <1>1, <1>2, <1>3
<1>5. ~ (m < n)
    <2> SUFFICES ASSUME m < n PROVE FALSE
        OBVIOUS
    <2>1. m \in 1..(n - 1)
        BY <1>4
    <2> QED
        BY <1>2, <1>3, <2>1 DEF IsNext
<1>6. ~ (n < m)
    <2> SUFFICES ASSUME n < m PROVE FALSE
        OBVIOUS
    <2>1. n \in 1..(m - 1)
        BY <1>4
    <2> QED
        BY <1>2, <1>3, <2>1 DEF IsNext
<1> QED
    BY <1>2, <1>3, <1>4, <1>5, <1>6

(* The worst state is ready only if all of them are. *)
LEMMA WorstIsBacked ==
    ASSUME Types, Reported, NEW r \in Req, NEW a \in Abs, IsSettled(r, a),
           Worst(r, a) = "ready"
    PROVE  Packages[a] \subseteq present
<1> SUFFICES ASSUME NEW d \in Packages[a] PROVE d \in present
    OBVIOUS
<1>1. d \in Dep /\ d \in settled[r]
    BY Constants DEF IsSettled
<1>2. status[r][d] \in Statuses /\ status[r][d] # "none"
    BY <1>1 DEF Types, Reported
<1>3. status[r][d] # "failed" /\ status[r][d] # "timeout"
    BY DEF Worst
<1> QED
    BY <1>1, <1>2, <1>3 DEF Reported, Statuses

LEMMA WorstIsStatus ==
    ASSUME NEW r \in Req, NEW a \in Abs
    PROVE  Worst(r, a) \in Statuses
    BY DEF Worst, Statuses

(* A handler that starts services is not disturbed by what sysdeps does.   *)
LEMMA StartsStay ==
    ASSUME Types, Reported, Starts, UNCHANGED <<settled, announced>>,
           \A r \in Req : apc'[r] = "starting" => apc[r] = "starting",
           \A r \in Req : \A d \in settled[r] : status'[r][d] = status[r][d]
    PROVE  Starts'
<1> SUFFICES ASSUME NEW r \in Req, apc[r] = "starting" PROVE \E a \in Abs : Startable(r, a)'
    BY DEF Starts
<1>1. PICK a \in Abs : Startable(r, a)
    BY DEF Starts
<1>2. IsNext(r, a)' /\ IsSettled(r, a)
    BY <1>1 DEF Startable, IsNext, IsSettled
<1>3. \A d \in Packages[a] : status'[r][d] = status[r][d]
    BY <1>2 DEF IsSettled
<1>4. Worst(r, a)' = Worst(r, a)
    BY <1>3 DEF Worst
<1> QED
    BY <1>1, <1>2, <1>4 DEF Startable

LEMMA PrepareInit == Init => PrepareInv
<1> SUFFICES ASSUME Init PROVE PrepareInv
    OBVIOUS
<1>1. Types
    BY DEF Init, Sys!Init, Types, Statuses
<1>2. Reported
    BY DEF Init, Sys!Init, Reported
<1>3. Starts
    BY DEF Init, Starts
<1>4. ReadyIsBacked
    BY DEF Init, ReadyIsBacked
<1> QED
    BY <1>1, <1>2, <1>3, <1>4 DEF PrepareInv

LEMMA SysKeeps ==
    ASSUME PrepareInv, SysStep
    PROVE  PrepareInv'
<1>0. UNCHANGED <<apc, settled, announced, units>>
    BY DEF SysStep, abstract
<1>1. CASE Sys!Install
    <2>1. present \subseteq present' /\ present' \subseteq Dep /\ UNCHANGED <<asked, status>>
        BY <1>1 DEF Sys!Install, PrepareInv, Types
    <2>2. Types' /\ Reported' /\ ReadyIsBacked'
        BY <1>0, <2>1 DEF PrepareInv, Types, Reported, ReadyIsBacked
    <2> QED
        BY <1>0, <2>1, <2>2, StartsStay DEF PrepareInv
<1>2. CASE \E r \in Req : asked[r] # {} /\ Sys!Report(r)
    <2>1. PICK r \in Req : Sys!Report(r)
        BY <1>2
    <2>2. PICK deps \in SUBSET {d \in asked[r] : status[r][d] = "none"} :
            \E new \in [deps -> {"ready", "failed", "timeout"}] :
                /\ \A d \in deps : new[d] = "ready" => d \in present
                /\ status' = [status EXCEPT ![r] =
                                [d \in Dep |-> IF d \in deps THEN new[d] ELSE @[d]]]
        BY <2>1 DEF Sys!Report
    <2>3. PICK new \in [deps -> {"ready", "failed", "timeout"}] :
                /\ \A d \in deps : new[d] = "ready" => d \in present
                /\ status' = [status EXCEPT ![r] =
                                [d \in Dep |-> IF d \in deps THEN new[d] ELSE @[d]]]
        BY <2>2
    <2>4. UNCHANGED <<asked, present>>
        BY <2>1 DEF Sys!Report
    <2>5. status[r] \in [Dep -> Statuses] /\ deps \subseteq Dep /\ DOMAIN status = Req
        BY DEF PrepareInv, Types
    <2>6. /\ \A d \in Dep : status'[r][d] = IF d \in deps THEN new[d] ELSE status[r][d]
          /\ \A q \in Req \ {r} : status'[q] = status[q]
          /\ status'[r] \in [Dep -> Statuses]
        BY <2>3, <2>5 DEF Statuses
    <2>7. \A d \in deps : status[r][d] = "none" /\ new[d] \in {"ready", "failed", "timeout"}
        OBVIOUS
    <2>8. \A q \in Req : \A d \in settled[q] : status'[q][d] = status[q][d]
        BY <2>6, <2>7 DEF PrepareInv, Types, Reported
    <2>9. status' \in [Req -> [Dep -> Statuses]]
        BY <2>3, <2>6 DEF PrepareInv, Types
    <2>10. Types'
        BY <1>0, <2>4, <2>9 DEF PrepareInv, Types
    <2>11. Reported'
        BY <1>0, <2>3, <2>4, <2>6, <2>7 DEF PrepareInv, Reported
    <2>12. ReadyIsBacked'
        BY <1>0, <2>4 DEF PrepareInv, ReadyIsBacked
    <2> QED
        BY <1>0, <2>8, <2>10, <2>11, <2>12, StartsStay DEF PrepareInv
<1>3. CASE Sys!Drop
    <2>1. UNCHANGED <<asked, status, present>>
        BY <1>3 DEF Sys!Drop
    <2>2. Types' /\ Reported' /\ ReadyIsBacked'
        BY <1>0, <2>1 DEF PrepareInv, Types, Reported, ReadyIsBacked
    <2> QED
        BY <1>0, <2>1, <2>2, StartsStay DEF PrepareInv
<1> QED
    BY <1>1, <1>2, <1>3 DEF SysStep

LEMMA AskKeeps ==
    ASSUME PrepareInv, NEW r \in Req, Ask(r)
    PROVE  PrepareInv'
<1>1. /\ announced' = [announced EXCEPT ![r] = [a \in Abs |->
              IF a \in ToSet(Asks[r]) \cap Unknown THEN "failed" ELSE "none"]]
      /\ apc' = [apc EXCEPT ![r] = "resolving"]
      /\ asked' = [asked EXCEPT ![r] = Of(r)]
      /\ UNCHANGED <<status, present, settled, units>>
    BY DEF Ask
<1>2. Of(r) \subseteq Dep
    <2>1. Wanted(r) \subseteq Abs
        BY Constants DEF Wanted, ToSet
    <2> QED
        BY <2>1, Constants DEF Of
<1>3. Types' /\ Reported'
    BY <1>1, <1>2 DEF PrepareInv, Types, Reported, Statuses
<1>4. \A q \in Req \ {r} : announced'[q] = announced[q] /\ apc'[q] = apc[q]
    BY <1>1 DEF PrepareInv, Types
<1>5. announced'[r] = [a \in Abs |-> IF a \in ToSet(Asks[r]) \cap Unknown THEN "failed" ELSE "none"]
      /\ apc'[r] = "resolving"
    BY <1>1 DEF PrepareInv, Types
<1>6. ReadyIsBacked'
    BY <1>1, <1>4, <1>5 DEF PrepareInv, ReadyIsBacked
<1>7. Starts'
    BY <1>1, <1>4, <1>5 DEF PrepareInv, Starts, Startable, IsNext, IsSettled, Worst
<1> QED
    BY <1>3, <1>6, <1>7 DEF PrepareInv

LEMMA ReadKeeps ==
    ASSUME PrepareInv, NEW r \in Req, Read(r)
    PROVE  PrepareInv'
<1>1. PICK d \in asked[r] \ settled[r] :
          status[r][d] # "none" /\ settled' = [settled EXCEPT ![r] = @ \cup {d}]
    BY DEF Read
<1>2. UNCHANGED <<asked, status, present, apc, announced, units>> /\ apc[r] = "resolving"
    BY DEF Read, sysdeps
<1>3. d \in Dep
    BY DEF PrepareInv, Types
<1>4. \A q \in Req \ {r} : settled'[q] = settled[q]
    BY <1>1 DEF PrepareInv, Types
<1>5. Types' /\ Reported' /\ ReadyIsBacked'
    BY <1>1, <1>2, <1>3 DEF PrepareInv, Types, Reported, ReadyIsBacked
<1>6. Starts'
    BY <1>2, <1>4 DEF PrepareInv, Starts, Startable, IsNext, IsSettled, Worst
<1> QED
    BY <1>5, <1>6 DEF PrepareInv

LEMMA AnnounceKeeps ==
    ASSUME PrepareInv, NEW r \in Req, Announce(r)
    PROVE  PrepareInv'
<1>1. PICK a \in Abs :
          /\ IsNext(r, a)
          /\ IF Worst(r, a) = "ready" /\ a \in HasUnits
             THEN apc' = [apc EXCEPT ![r] = "starting"] /\ UNCHANGED announced
             ELSE /\ announced' = [announced EXCEPT ![r][a] = Worst(r, a)]
                  /\ UNCHANGED apc
    BY DEF Announce
<1>2. UNCHANGED <<asked, status, present, settled, units>> /\ apc[r] = "resolving"
    BY DEF Announce, sysdeps
<1>3. Reported'
    BY <1>2 DEF PrepareInv, Reported
<1>4. CASE Worst(r, a) = "ready" /\ a \in HasUnits
    <2>1. apc' = [apc EXCEPT ![r] = "starting"] /\ UNCHANGED announced
        BY <1>1, <1>4
    <2>2. Types' /\ ReadyIsBacked'
        BY <1>2, <2>1 DEF PrepareInv, Types, ReadyIsBacked
    <2>3. Startable(r, a)'
        BY <1>1, <1>2, <1>4, <2>1 DEF Startable, IsNext, IsSettled, Worst
    <2>4. \A q \in Req \ {r} : apc'[q] = apc[q]
        BY <2>1 DEF PrepareInv, Types
    <2>5. Starts'
        BY <1>2, <2>1, <2>3, <2>4 DEF PrepareInv, Starts, Startable, IsNext, IsSettled, Worst
    <2> QED
        BY <1>3, <2>2, <2>5 DEF PrepareInv
<1>5. CASE ~ (Worst(r, a) = "ready" /\ a \in HasUnits)
    <2>1. announced' = [announced EXCEPT ![r][a] = Worst(r, a)] /\ UNCHANGED apc
        BY <1>1, <1>5
    <2>2. announced[r] \in [Abs -> Statuses] /\ DOMAIN announced = Req
        BY DEF PrepareInv, Types
    <2>3. /\ \A q \in Req \ {r} : announced'[q] = announced[q]
          /\ \A b \in Abs \ {a} : announced'[r][b] = announced[r][b]
          /\ announced'[r][a] = Worst(r, a)
        BY <2>1, <2>2
    <2>4. Types'
        BY <1>2, <2>1, <2>2, WorstIsStatus DEF PrepareInv, Types
    <2>5. Worst(r, a) = "ready" => Packages[a] \subseteq present /\ a \notin HasUnits
        BY <1>1, <1>5, WorstIsBacked DEF PrepareInv, IsNext
    <2>6. ReadyIsBacked'
        BY <1>2, <2>3, <2>5 DEF PrepareInv, ReadyIsBacked
    <2>7. Starts'
        BY <1>2, <2>1, <2>3 DEF PrepareInv, Starts, Startable, IsNext, IsSettled, Worst
    <2> QED
        BY <1>3, <2>4, <2>6, <2>7 DEF PrepareInv
<1> QED
    BY <1>4, <1>5

LEMMA UnitsStartedKeeps ==
    ASSUME PrepareInv, NEW r \in Req, UnitsStarted(r)
    PROVE  PrepareInv'
<1>1. PICK a \in Abs, ok \in BOOLEAN :
          /\ IsNext(r, a)
          /\ announced' = [announced EXCEPT ![r][a] = IF ok THEN "ready" ELSE "failed"]
          /\ units' = IF ok THEN units \cup {a} ELSE units
    BY DEF UnitsStarted
<1>2. /\ UNCHANGED <<asked, status, present, settled>> /\ apc[r] = "starting"
      /\ apc' = [apc EXCEPT ![r] = "resolving"]
    BY DEF UnitsStarted, sysdeps
<1>3. Startable(r, a)
    <2>1. PICK b \in Abs : Startable(r, b)
        BY <1>2 DEF PrepareInv, Starts
    <2>2. a = b
        BY <1>1, <2>1, NextIsOne DEF Startable
    <2> QED
        BY <2>1, <2>2
<1>4. Packages[a] \subseteq present
    BY <1>3, WorstIsBacked DEF PrepareInv, Startable, IsNext
<1>5. announced[r] \in [Abs -> Statuses] /\ DOMAIN announced = Req
    BY DEF PrepareInv, Types
<1>6. /\ \A q \in Req \ {r} : announced'[q] = announced[q]
      /\ \A b \in Abs \ {a} : announced'[r][b] = announced[r][b]
      /\ announced'[r][a] = IF ok THEN "ready" ELSE "failed"
    BY <1>1, <1>5
<1>7. Types'
    BY <1>1, <1>2, <1>5 DEF PrepareInv, Types, Statuses
<1>8. Reported'
    BY <1>2 DEF PrepareInv, Reported
<1>9. units \subseteq units' /\ (ok => a \in units')
    BY <1>1
<1>10. ReadyIsBacked'
    BY <1>2, <1>4, <1>6, <1>9 DEF PrepareInv, ReadyIsBacked
<1>11. /\ \A q \in Req \ {r} : apc'[q] = apc[q]
       /\ apc'[r] # "starting"
    BY <1>2 DEF PrepareInv, Types
<1>12. Starts'
    BY <1>2, <1>6, <1>11 DEF PrepareInv, Starts, Startable, IsNext, IsSettled, Worst
<1> QED
    BY <1>7, <1>8, <1>10, <1>12 DEF PrepareInv

(* The other steps leave alone what is announced and what it rests on.     *)
LEMMA OthersKeep ==
    ASSUME PrepareInv, UNCHANGED <<sysdeps, settled, announced, units>>,
           apc' \in [Req -> {"idle", "asked", "resolving", "starting", "over", "error"}],
           \A r \in Req : apc'[r] = "starting" => apc[r] = "starting"
    PROVE  PrepareInv'
<1>1. UNCHANGED <<asked, status, present>>
    BY DEF sysdeps
<1>2. Types' /\ Reported' /\ ReadyIsBacked'
    BY <1>1 DEF PrepareInv, Types, Reported, ReadyIsBacked
<1> QED
    BY <1>1, <1>2, StartsStay DEF PrepareInv

LEMMA PrepareStep ==
    ASSUME PrepareInv, [Next]_vars
    PROVE  PrepareInv'
<1>0. apc \in [Req -> {"idle", "asked", "resolving", "starting", "over", "error"}]
    BY DEF PrepareInv, Types
<1>1. CASE SysStep
    BY <1>1, SysKeeps
<1>2. ASSUME NEW r \in Req, Arrive(r) PROVE PrepareInv'
    <2>1. UNCHANGED <<sysdeps, settled, announced, units>>
          /\ (apc' = [apc EXCEPT ![r] = "asked"] \/ UNCHANGED apc)
        BY <1>2 DEF Arrive
    <2> QED
        BY <1>0, <2>1, OthersKeep
<1>3. ASSUME NEW r \in Req, AbstractStep(r) PROVE PrepareInv'
    <2>1. CASE Answer(r) \/ Raise(r)
        <3>1. UNCHANGED <<sysdeps, settled, announced, units>>
              /\ (apc' = [apc EXCEPT ![r] = "over"] \/ apc' = [apc EXCEPT ![r] = "error"])
            BY <2>1 DEF Answer, Raise
        <3> QED
            BY <1>0, <3>1, OthersKeep
    <2> QED
        BY <1>3, <2>1, AskKeeps, ReadKeeps, AnnounceKeeps, UnitsStartedKeeps DEF AbstractStep
<1>4. ASSUME UNCHANGED <<sysdeps, abstract>> PROVE PrepareInv'
    <2>1. UNCHANGED <<apc, settled, announced, units>>
        BY <1>4 DEF abstract
    <2> QED
        BY <1>0, <1>4, <2>1, OthersKeep
<1>5. ASSUME NEW r \in Req, DockerStep(r) \/ Leave(r) PROVE UNCHANGED <<sysdeps, abstract>>
    BY <1>5 DEF DockerStep, Leave, DepsAnswered, DaemonAnswers, DaemonSilent, Look, Fetched,
                NextImage
<1>6. ASSUME NEW i \in Image, RemoveImage(i) PROVE UNCHANGED <<sysdeps, abstract>>
    BY <1>6 DEF RemoveImage
<1>7. CASE UNCHANGED vars
    BY <1>4, <1>7 DEF vars
<1> QED
    BY <1>1, <1>2, <1>3, <1>4, <1>5, <1>6, <1>7 DEF Next, Quiet

THEOREM PrepareInvariant == Spec => []PrepareInv
<1>1. Init => PrepareInv
    BY PrepareInit
<1>2. PrepareInv /\ [Next]_vars => PrepareInv'
    BY PrepareStep
<1> QED
    BY <1>1, <1>2, PTL DEF Spec

(* A dependency announced as ready has all its packages on the host and    *)
(* its services started (announce_settled, abstract_deps.py:152-169), for  *)
(* any table of packages and any order and grouping of their statuses.     *)
THEOREM ReadyIsTrue == Spec => []ReadyIsBacked
<1>1. PrepareInv => ReadyIsBacked
    BY DEF PrepareInv
<1> QED
    BY <1>1, PrepareInvariant, PTL

-----------------------------------------------------------------------------
(* The lines at the images.                                                *)

AtImage == {"line", "fetch", "present", "absent"}

Holding == {"fetch", "present", "absent"}

PCs == {"idle", "deps", "daemon", "line", "fetch", "present", "absent", "over", "left"}

Places ==
    /\ pc \in [Req -> PCs]
    /\ nth \in [Req -> Nat]
    /\ images \subseteq Image
    /\ \A r \in Req : pc[r] \in {"idle", "deps", "daemon"} => nth[r] = 1
    /\ \A r \in Req : pc[r] = "daemon" => Images[r] # <<>>
    /\ \A r \in Req : pc[r] \in AtImage => nth[r] \in DOMAIN Images[r]

(* Who is at an image stands in its line, once, and in no other.           *)
Lines ==
    /\ line \in [Image -> Seq(Req)]
    /\ \A i \in Image : \A m, n \in DOMAIN line[i] : line[i][m] = line[i][n] => m = n
    /\ \A i \in Image : \A r \in Req :
          r \in ToSet(line[i]) <=> pc[r] \in AtImage /\ Here(r) = i

(* The first in line works at the image; what it fetches is not there.     *)
Locks ==
    \A r \in Req :
        /\ pc[r] \in Holding => line[Here(r)] # <<>> /\ Head(line[Here(r)]) = r
        /\ pc[r] = "fetch" => Here(r) \notin images

LineInv == Places /\ Lines /\ Locks

OneEach(s) == \A m, n \in DOMAIN s : s[m] = s[n] => m = n

LEMMA RemoveOne ==
    ASSUME NEW s \in Seq(Req), OneEach(s), NEW r \in Req
    PROVE  LET t == RemoveFirst(s, r)
           IN  /\ t \in Seq(Req) /\ OneEach(t)
               /\ ToSet(t) = ToSet(s) \ {r}
               /\ \A q \in Req \ {r} : s # <<>> /\ Head(s) = q => t # <<>> /\ Head(t) = q
<1> DEFINE t == RemoveFirst(s, r)
<1>0. Len(s) \in Nat /\ DOMAIN s = 1..Len(s) /\ \A i \in 1..Len(s) : s[i] \in Req
    OBVIOUS
<1>1. CASE r \notin ToSet(s)
    <2>1. t = s
        BY <1>0, <1>1 DEF RemoveFirst, ToSet
    <2> QED
        BY <1>1, <2>1
<1>2. CASE r \in ToSet(s)
    <2>1. PICK k \in 1..Len(s) : s[k] = r
        BY <1>0, <1>2 DEF ToSet
    <2>2. {i \in 1..Len(s) : s[i] = r} = {k}
        BY <1>0, <2>1 DEF OneEach
    <2>3. Min({k}) = k
        BY <2>1 DEF Min
    <2>4. t = SubSeq(s, 1, k - 1) \o SubSeq(s, k + 1, Len(s))
        BY <2>1, <2>2, <2>3 DEF RemoveFirst, SelectInSeq, RemoveAt
    <2> HIDE DEF t
    <2>5. /\ t \in Seq(Req) /\ Len(t) = Len(s) - 1 /\ DOMAIN t = 1..(Len(s) - 1)
          /\ \A i \in 1..(Len(s) - 1) : t[i] = IF i < k THEN s[i] ELSE s[i + 1]
        <3>1. k \in Nat /\ k >= 1 /\ k <= Len(s)
            BY <1>0, <2>1
        <3>2. /\ SubSeq(s, 1, k - 1) \in Seq(Req) /\ Len(SubSeq(s, 1, k - 1)) = k - 1
              /\ \A i \in 1..(k - 1) : SubSeq(s, 1, k - 1)[i] = s[i]
            BY <1>0, <3>1
        <3>3. /\ SubSeq(s, k + 1, Len(s)) \in Seq(Req) /\ Len(SubSeq(s, k + 1, Len(s))) = Len(s) - k
              /\ \A i \in 1..(Len(s) - k) : SubSeq(s, k + 1, Len(s))[i] = s[k + i]
            <4>1. k + 1 \in Nat /\ \A i \in (k + 1)..Len(s) : s[i] \in Req
                BY <1>0, <3>1
            <4>2. /\ SubSeq(s, k + 1, Len(s)) \in Seq(Req)
                  /\ Len(SubSeq(s, k + 1, Len(s))) =
                        IF k + 1 <= Len(s) THEN Len(s) - (k + 1) + 1 ELSE 0
                  /\ \A i \in 1..(Len(s) - (k + 1) + 1) : SubSeq(s, k + 1, Len(s))[i] = s[(k + 1) + i - 1]
                BY <1>0, <4>1, SubSeqProperties
            <4>3. Len(SubSeq(s, k + 1, Len(s))) = Len(s) - k
                <5> DEFINE len == Len(s)
                           rest == Len(SubSeq(s, k + 1, Len(s)))
                <5>1. rest = (IF k + 1 <= len THEN len - (k + 1) + 1 ELSE 0) /\ len \in Nat /\ k <= len
                    BY <1>0, <3>1, <4>2
                <5> HIDE DEF rest, len
                <5>2. rest = len - k
                    BY <3>1, <5>1
                <5> QED
                    BY <5>2 DEF rest, len
            <4>4. ASSUME NEW i \in 1..(Len(s) - k) PROVE SubSeq(s, k + 1, Len(s))[i] = s[k + i]
                <5>1. i \in 1..(Len(s) - (k + 1) + 1) /\ (k + 1) + i - 1 = k + i
                    BY <1>0, <3>1
                <5> QED
                    BY <4>2, <5>1
            <4> QED
                BY <4>2, <4>3, <4>4
        <3> DEFINE a == SubSeq(s, 1, k - 1)
                   b == SubSeq(s, k + 1, Len(s))
        <3>4. /\ t = a \o b /\ a \in Seq(Req) /\ b \in Seq(Req)
              /\ Len(a) = k - 1 /\ Len(b) = Len(s) - k
              /\ \A i \in 1..(k - 1) : a[i] = s[i]
              /\ \A i \in 1..(Len(s) - k) : b[i] = s[k + i]
            BY <2>4, <3>2, <3>3
        <3> HIDE DEF a, b
        <3>5. /\ t \in Seq(Req) /\ Len(t) = Len(a) + Len(b)
              /\ \A i \in 1..(Len(a) + Len(b)) : t[i] = IF i <= Len(a) THEN a[i] ELSE b[i - Len(a)]
            BY <3>4, ConcatProperties
        <3>6. Len(t) = Len(s) - 1 /\ DOMAIN t = 1..(Len(s) - 1)
            <4>1. Len(t) = Len(s) - 1
                BY <1>0, <3>1, <3>4, <3>5
            <4>2. DOMAIN t = 1..Len(t)
                BY <3>5
            <4> QED
                BY <4>1, <4>2
        <3>7. ASSUME NEW i \in 1..(Len(s) - 1) PROVE t[i] = IF i < k THEN s[i] ELSE s[i + 1]
            <4>1. t[i] = IF i <= k - 1 THEN a[i] ELSE b[i - (k - 1)]
                BY <1>0, <3>1, <3>4, <3>5
            <4>2. CASE i < k
                BY <3>1, <3>4, <4>1, <4>2
            <4>3. CASE ~ (i < k)
                <5>1. i - (k - 1) \in 1..(Len(s) - k) /\ k + (i - (k - 1)) = i + 1
                    BY <1>0, <3>1, <4>3
                <5>2. t[i] = b[i - (k - 1)]
                    BY <3>1, <4>1, <4>3
                <5> QED
                    BY <3>4, <4>3, <5>1, <5>2
            <4> QED
                BY <4>2, <4>3
        <3> QED
            BY <3>5, <3>6, <3>7
    <2>6. OneEach(t)
        <3> SUFFICES ASSUME NEW m \in 1..(Len(s) - 1), NEW n \in 1..(Len(s) - 1), t[m] = t[n]
                     PROVE  m = n
            BY <2>5 DEF OneEach
        <3>1. PICK a \in 1..Len(s) : t[m] = s[a] /\ a = IF m < k THEN m ELSE m + 1
            BY <1>0, <2>5
        <3>2. PICK b \in 1..Len(s) : t[n] = s[b] /\ b = IF n < k THEN n ELSE n + 1
            BY <1>0, <2>5
        <3>3. a = b
            BY <1>0, <3>1, <3>2 DEF OneEach
        <3> QED
            BY <1>0, <2>1, <3>1, <3>2, <3>3
    <2>7. ToSet(t) = ToSet(s) \ {r}
        <3>1. \A i \in DOMAIN t : t[i] \in ToSet(s) /\ t[i] # r
            BY <1>0, <2>1, <2>5 DEF OneEach, ToSet
        <3>2. \A i \in DOMAIN s : s[i] # r => s[i] \in ToSet(t)
            <4> SUFFICES ASSUME NEW i \in 1..Len(s), s[i] # r PROVE \E j \in DOMAIN t : t[j] = s[i]
                BY <1>0 DEF ToSet
            <4>1. CASE i < k
                BY <1>0, <2>1, <2>5, <4>1
            <4>2. CASE i > k
                <5>1. i - 1 \in 1..(Len(s) - 1) /\ t[i - 1] = s[(i - 1) + 1]
                    BY <1>0, <2>1, <2>5, <4>2
                <5> QED
                    BY <1>0, <2>5, <5>1
            <4> QED
                BY <1>0, <2>1, <4>1, <4>2
        <3> QED
            BY <3>1, <3>2 DEF ToSet
    <2>8. \A q \in Req \ {r} : s # <<>> /\ Head(s) = q => t # <<>> /\ Head(t) = q
        <3> SUFFICES ASSUME NEW q \in Req \ {r}, s # <<>>, Head(s) = q PROVE t # <<>> /\ Head(t) = q
            OBVIOUS
        <3>1. s[1] = q /\ k # 1 /\ k \in Nat /\ k > 1
            BY <1>0, <2>1
        <3>2. 1 \in 1..(Len(s) - 1) /\ t[1] = q
            BY <1>0, <2>1, <2>5, <3>1
        <3> QED
            BY <2>5, <3>2
    <2> QED
        BY <2>5, <2>6, <2>7, <2>8 DEF t
<1> QED
    BY <1>1, <1>2

LEMMA AppendOne ==
    ASSUME NEW s \in Seq(Req), OneEach(s), NEW r \in Req, r \notin ToSet(s)
    PROVE  /\ Append(s, r) \in Seq(Req) /\ OneEach(Append(s, r))
           /\ ToSet(Append(s, r)) = ToSet(s) \cup {r}
           /\ s # <<>> => Append(s, r) # <<>> /\ Head(Append(s, r)) = Head(s)
<1> DEFINE t == Append(s, r)
<1>1. /\ t \in Seq(Req) /\ DOMAIN t = 1..(Len(s) + 1) /\ DOMAIN s = 1..Len(s) /\ Len(s) \in Nat
      /\ t[Len(s) + 1] = r /\ \A i \in 1..Len(s) : t[i] = s[i]
    OBVIOUS
<1> HIDE DEF t
<1>2. OneEach(t)
    BY <1>1 DEF OneEach, ToSet
<1>3. ToSet(t) = ToSet(s) \cup {r}
    BY <1>1 DEF ToSet
<1>4. s # <<>> => t # <<>> /\ Head(t) = Head(s)
    <2> SUFFICES ASSUME s # <<>> PROVE t # <<>> /\ Head(t) = Head(s)
        OBVIOUS
    <2>1. 1 \in 1..Len(s)
        BY <1>1
    <2> QED
        BY <1>1, <2>1
<1> QED
    BY <1>1, <1>2, <1>3, <1>4 DEF t

(* A status per dependency, read before it is announced.                   *)
Answered ==
    /\ units \subseteq HasUnits
    /\ \A r \in Req : apc[r] \in {"resolving", "starting", "over", "error"} =>
          /\ asked[r] = Of(r)
          /\ \A a \in Wanted(r) : announced[r][a] # "none" => IsSettled(r, a)
    /\ \A r \in Req : apc[r] = "over" =>
          \A a \in ToSet(Asks[r]) : announced[r][a] # "none"

LEMMA ImagesTyped ==
    ASSUME NEW r \in Req
    PROVE  /\ Images[r] \in Seq(Image) /\ Len(Images[r]) \in Nat
           /\ DOMAIN Images[r] = 1..Len(Images[r])
           /\ \A n \in DOMAIN Images[r] : Images[r][n] \in Image
           /\ Images[r] # <<>> => 1 \in DOMAIN Images[r]
           /\ r \notin NamesManager => Images[r] # <<>>
<1>1. Images[r] \in Seq(Image)
    BY PrepareAssumption
<1> QED
    BY <1>1, PrepareAssumption

LEMMA LineInit == Init => LineInv
<1> SUFFICES ASSUME Init PROVE LineInv
    OBVIOUS
<1>1. Places
    BY DEF Init, Places, PCs, AtImage
<1>2. Lines
    BY DEF Init, Lines, AtImage, ToSet
<1>3. Locks
    BY DEF Init, Locks, Holding
<1> QED
    BY <1>1, <1>2, <1>3 DEF LineInv

(* A step of a request that is at no image, before and after.              *)
LEMMA OffImageKeeps ==
    ASSUME LineInv, NEW r \in Req, NEW p \in PCs, pc[r] \notin AtImage, p \notin AtImage,
           pc' = [pc EXCEPT ![r] = p], UNCHANGED <<nth, line, images>>,
           p \in {"idle", "deps", "daemon"} => nth[r] = 1,
           p = "daemon" => Images[r] # <<>>
    PROVE  LineInv'
<1>1. pc'[r] = p /\ \A q \in Req \ {r} : pc'[q] = pc[q]
    BY DEF LineInv, Places
<1>2. \A q \in Req : Here(q)' = Here(q)
    BY DEF Here
<1>3. Places'
    BY <1>1 DEF LineInv, Places
<1>4. Lines'
    BY <1>1, <1>2 DEF LineInv, Lines
<1>5. Locks'
    BY <1>1, <1>2 DEF LineInv, Locks, Holding, AtImage
<1> QED
    BY <1>3, <1>4, <1>5 DEF LineInv

(* A step of a request at the image whose lock it has. *)
LEMMA AtWorkKeeps ==
    ASSUME LineInv, NEW r \in Req, NEW p \in Holding, pc[r] \in AtImage,
           Head(line[Here(r)]) = r,
           pc' = [pc EXCEPT ![r] = p], UNCHANGED <<nth, line>>,
           images' = images \/ images' = images \cup {Here(r)},
           pc[r] = "line" => images' = images,
           p = "fetch" => Here(r) \notin images'
    PROVE  LineInv'
<1>1. pc'[r] = p /\ \A q \in Req \ {r} : pc'[q] = pc[q]
    BY DEF LineInv, Places
<1>2. \A q \in Req : Here(q)' = Here(q)
    BY DEF Here
<1>3. Here(r) \in Image /\ r \in ToSet(line[Here(r)])
    BY ImagesTyped DEF LineInv, Places, Lines, Here
<1>4. line[Here(r)] # <<>>
    BY <1>3 DEF ToSet
<1>5. p \in AtImage /\ p \in PCs
    BY DEF Holding, AtImage, PCs
<1>6. Places'
    BY <1>1, <1>3, <1>5 DEF LineInv, Places, AtImage
<1>7. Lines'
    BY <1>1, <1>2, <1>5 DEF LineInv, Lines
<1>8. ASSUME NEW q \in Req, pc[q] = "fetch", q # r PROVE Here(q) \notin images'
    <2>1. Here(q) \notin images /\ Head(line[Here(q)]) = q
        BY <1>8 DEF LineInv, Locks, Holding
    <2> QED
        BY <1>8, <2>1
<1>9. Locks'
    <2> SUFFICES ASSUME NEW q \in Req
                 PROVE  /\ pc'[q] \in Holding => line[Here(q)] # <<>> /\ Head(line[Here(q)]) = q
                        /\ pc'[q] = "fetch" => Here(q) \notin images'
        BY <1>2 DEF Locks
    <2>1. CASE q = r
        BY <1>1, <1>4, <2>1
    <2>2. CASE q # r
        BY <1>1, <1>8, <2>2 DEF LineInv, Locks
    <2> QED
        BY <2>1, <2>2
<1> QED
    BY <1>6, <1>7, <1>9 DEF LineInv

LEMMA LookKeeps ==
    ASSUME LineInv, NEW r \in Req, Look(r)
    PROVE  LineInv'
<1>1. /\ pc[r] = "line" /\ Head(line[Here(r)]) = r /\ UNCHANGED <<nth, line, images>>
      /\ pc' = [pc EXCEPT ![r] = IF Here(r) \in images THEN "present" ELSE "fetch"]
    BY DEF Look, Goto, IsAtWork, MayWork
<1>2. pc[r] \in AtImage
    BY <1>1 DEF AtImage
<1>3. CASE Here(r) \in images
    BY <1>1, <1>2, <1>3, AtWorkKeeps DEF Holding
<1>4. CASE Here(r) \notin images
    BY <1>1, <1>2, <1>4, AtWorkKeeps DEF Holding
<1> QED
    BY <1>3, <1>4

LEMMA FetchedKeeps ==
    ASSUME LineInv, NEW r \in Req, Fetched(r)
    PROVE  LineInv'
<1>1. pc[r] = "fetch" /\ UNCHANGED <<nth, line>>
    BY DEF Fetched
<1>2. pc[r] \in AtImage /\ Head(line[Here(r)]) = r
    BY <1>1 DEF AtImage, LineInv, Locks, Holding
<1>3. PICK ok \in BOOLEAN : /\ images' = IF ok THEN images \cup {Here(r)} ELSE images
                            /\ pc' = [pc EXCEPT ![r] = IF ok THEN "present" ELSE "absent"]
    BY DEF Fetched, Goto
<1>4. CASE ok
    BY <1>1, <1>2, <1>3, <1>4, AtWorkKeeps DEF Holding
<1>5. CASE ~ ok
    BY <1>1, <1>2, <1>3, <1>5, AtWorkKeeps DEF Holding
<1> QED
    BY <1>4, <1>5

LEMMA RemoveImageKeeps ==
    ASSUME LineInv, UNCHANGED <<pc, nth, line>>, images' \subseteq images
    PROVE  LineInv'
    BY DEF LineInv, Places, Lines, Locks, Here

(* A line s becomes t, and nobody but r has moved.                         *)
Moves(s, t, r) ==
    /\ OneEach(t)
    /\ \A q \in Req \ {r} : q \in ToSet(t) <=> q \in ToSet(s)
    /\ \A q \in Req \ {r} : s # <<>> /\ Head(s) = q => t # <<>> /\ Head(t) = q

(* A step by which a request leaves a line, enters one, or both.           *)
Shifts(r, p) ==
    /\ pc' = [pc EXCEPT ![r] = p]
    /\ nth' \in [Req -> Nat] /\ \A q \in Req \ {r} : nth'[q] = nth[q]
    /\ p \in AtImage => nth'[r] \in DOMAIN Images[r]
    /\ line' \in [Image -> Seq(Req)]
    /\ \A i \in Image : Moves(line[i], line'[i], r)
    /\ \A i \in Image :
          r \in ToSet(line'[i]) <=> p \in AtImage /\ Images[r][nth'[r]] = i
    /\ images' = images \/ (pc[r] = "fetch" /\ images' = images \cup {Here(r)})

LEMMA LineChangeKeeps ==
    ASSUME LineInv, NEW r \in Req, NEW p \in {"line", "over", "left"}, Shifts(r, p)
    PROVE  LineInv'
<1> USE DEF Shifts, Moves
<1>0. p \in PCs /\ p \notin Holding /\ p \notin {"idle", "deps", "daemon"}
    BY DEF PCs, Holding
<1>1. pc'[r] = p /\ \A q \in Req \ {r} : pc'[q] = pc[q]
    BY DEF LineInv, Places
<1>2. \A q \in Req \ {r} : Here(q)' = Here(q)
    BY DEF Here
<1>3. Here(r)' = Images[r][nth'[r]]
    BY DEF Here
<1>4. \A q \in Req : pc[q] \in AtImage => Here(q) \in Image
    BY ImagesTyped DEF LineInv, Places, Here
<1>5. Places'
    <2>1. images' \subseteq Image
        BY <1>4 DEF LineInv, Places, AtImage
    <2>2. pc' \in [Req -> PCs]
        BY <1>0 DEF LineInv, Places
    <2>3. \A q \in Req : pc'[q] \in {"idle", "deps", "daemon"} => nth'[q] = 1
        BY <1>0, <1>1 DEF LineInv, Places
    <2>4. \A q \in Req : pc'[q] = "daemon" => Images[q] # <<>>
        BY <1>0, <1>1 DEF LineInv, Places
    <2>5. \A q \in Req : pc'[q] \in AtImage => nth'[q] \in DOMAIN Images[q]
        BY <1>0, <1>1 DEF LineInv, Places
    <2> QED
        BY <2>1, <2>2, <2>3, <2>4, <2>5 DEF Places
<1>6. Lines'
    <2>1. ASSUME NEW i \in Image, NEW q \in Req
          PROVE  q \in ToSet(line'[i]) <=> pc'[q] \in AtImage /\ Here(q)' = i
        <3>1. q \in ToSet(line[i]) <=> pc[q] \in AtImage /\ Here(q) = i
            BY DEF LineInv, Lines
        <3>2. CASE q = r
            BY <1>1, <1>3, <3>2
        <3>3. CASE q # r
            BY <1>1, <1>2, <3>1, <3>3
        <3> QED
            BY <3>2, <3>3
    <2>2. \A i \in Image : ToSet(line[i])' = ToSet(line'[i])
        BY DEF ToSet
    <2> QED
        BY <2>1, <2>2 DEF Lines, OneEach
<1>7. Locks'
    <2> SUFFICES ASSUME NEW q \in Req
                 PROVE  /\ pc'[q] \in Holding => line'[Here(q)'] # <<>> /\ Head(line'[Here(q)']) = q
                        /\ pc'[q] = "fetch" => Here(q)' \notin images'
        BY DEF Locks
    <2>1. CASE q = r
        BY <1>0, <1>1, <2>1 DEF Holding
    <2>2. CASE q # r
        <3>1. pc'[q] = pc[q] /\ Here(q)' = Here(q)
            BY <1>1, <1>2, <2>2
        <3>2. pc[q] \in Holding => Here(q) \in Image
            BY <1>4 DEF Holding, AtImage
        <3>3. /\ pc[q] \in Holding => line[Here(q)] # <<>> /\ Head(line[Here(q)]) = q
              /\ pc[q] = "fetch" => Here(q) \notin images
              /\ pc[r] = "fetch" => Head(line[Here(r)]) = r
            BY DEF LineInv, Locks, Holding
        <3>4. pc[q] = "fetch" => pc[q] \in Holding
            BY DEF Holding
        <3> QED
            BY <2>2, <3>1, <3>2, <3>3, <3>4
    <2> QED
        BY <2>1, <2>2
<1> QED
    BY <1>5, <1>6, <1>7 DEF LineInv

LEMMA LineOne ==
    ASSUME LineInv, NEW i \in Image
    PROVE  line[i] \in Seq(Req) /\ OneEach(line[i])
    BY DEF LineInv, Lines, OneEach

LEMMA WithoutIs ==
    ASSUME LineInv, NEW i \in Image, NEW r \in Req
    PROVE  /\ Without(i, r) \in Seq(Req) /\ OneEach(Without(i, r))
           /\ ToSet(Without(i, r)) = ToSet(line[i]) \ {r}
           /\ Moves(line[i], Without(i, r), r)
<1> DEFINE s == line[i]
<1>1. s \in Seq(Req) /\ OneEach(s)
    BY LineOne
<1>2. Without(i, r) = RemoveFirst(s, r)
    BY DEF Without
<1> HIDE DEF s
<1>3. /\ RemoveFirst(s, r) \in Seq(Req) /\ OneEach(RemoveFirst(s, r))
      /\ ToSet(RemoveFirst(s, r)) = ToSet(s) \ {r}
      /\ \A q \in Req \ {r} : s # <<>> /\ Head(s) = q =>
            RemoveFirst(s, r) # <<>> /\ Head(RemoveFirst(s, r)) = q
    BY <1>1, RemoveOne
<1>4. Moves(s, RemoveFirst(s, r), r)
    BY <1>3 DEF Moves
<1> QED
    BY <1>2, <1>3, <1>4 DEF s

LEMMA AppendMoves ==
    ASSUME NEW s \in Seq(Req), NEW t \in Seq(Req), NEW r \in Req,
           OneEach(t), Moves(s, t, r), r \notin ToSet(t)
    PROVE  /\ Append(t, r) \in Seq(Req) /\ Moves(s, Append(t, r), r)
           /\ r \in ToSet(Append(t, r))
<1> DEFINE u == Append(t, r)
<1>1. /\ u \in Seq(Req) /\ OneEach(u) /\ ToSet(u) = ToSet(t) \cup {r}
      /\ t # <<>> => u # <<>> /\ Head(u) = Head(t)
    BY AppendOne
<1> HIDE DEF u
<1>2. Moves(s, u, r)
    BY <1>1 DEF Moves
<1> QED
    BY <1>1, <1>2 DEF u

LEMMA DaemonAnswersKeeps ==
    ASSUME LineInv, NEW r \in Req, DaemonAnswers(r)
    PROVE  LineInv'
<1>1. /\ pc[r] = "daemon" /\ pc' = [pc EXCEPT ![r] = "line"] /\ UNCHANGED <<nth, images>>
      /\ line' = [line EXCEPT ![Images[r][1]] = Append(@, r)]
    BY DEF DaemonAnswers, Goto
<1>2. nth[r] = 1 /\ 1 \in DOMAIN Images[r] /\ Images[r][1] \in Image
    BY <1>1, ImagesTyped DEF LineInv, Places
<1>3. \A i \in Image : r \notin ToSet(line[i])
    BY <1>1 DEF LineInv, Lines, AtImage
<1> DEFINE j == Images[r][1]
<1>4. /\ line'[j] = Append(line[j], r)
      /\ \A i \in Image \ {j} : line'[i] = line[i]
      /\ \A i \in Image : line[i] \in Seq(Req) /\ OneEach(line[i])
    BY <1>1, <1>2, LineOne DEF LineInv, Lines
<1>5. \A i \in Image : Moves(line[i], line[i], r)
    BY <1>4 DEF Moves
<1> HIDE DEF j
<1>6. j \in Image
    BY <1>2 DEF j
<1>7. /\ Append(line[j], r) \in Seq(Req) /\ Moves(line[j], Append(line[j], r), r)
      /\ r \in ToSet(Append(line[j], r))
    BY <1>3, <1>4, <1>5, <1>6, AppendMoves
<1>8. ASSUME NEW i \in Image
      PROVE  /\ line'[i] \in Seq(Req) /\ Moves(line[i], line'[i], r)
             /\ r \in ToSet(line'[i]) <=> i = j
    <2>1. CASE i = j
        BY <1>4, <1>7, <2>1
    <2>2. CASE i # j
        BY <1>3, <1>4, <1>5, <2>2
    <2> QED
        BY <2>1, <2>2
<1>9. line' \in [Image -> Seq(Req)]
    BY <1>1, <1>8 DEF LineInv, Lines
<1>10. Shifts(r, "line")
    <2>1. "line" \in AtImage /\ nth'[r] \in DOMAIN Images[r] /\ Images[r][nth'[r]] = j
        BY <1>1, <1>2 DEF AtImage, j
    <2>2. \A i \in Image : r \in ToSet(line'[i]) <=> "line" \in AtImage /\ Images[r][nth'[r]] = i
        BY <1>8, <2>1
    <2>3. nth' \in [Req -> Nat]
        BY <1>1 DEF LineInv, Places
    <2> QED
        BY <1>1, <1>8, <1>9, <2>1, <2>2, <2>3 DEF Shifts
<1> QED
    BY <1>10, LineChangeKeeps

LEMMA LeaveKeeps ==
    ASSUME LineInv, NEW r \in Req, Leave(r)
    PROVE  LineInv'
<1>1. /\ pc' = [pc EXCEPT ![r] = "left"] /\ UNCHANGED nth
      /\ line' = [i \in Image |-> Without(i, r)]
      /\ images' = images \/ (pc[r] = "fetch" /\ images' = images \cup {Here(r)})
    <2>1. /\ pc' = [pc EXCEPT ![r] = "left"] /\ UNCHANGED nth
          /\ line' = [i \in Image |-> Without(i, r)]
          /\ images' \in {images, IF pc[r] = "fetch" THEN images \cup {Here(r)} ELSE images}
        BY DEF Leave, Goto
    <2> DEFINE pulled == IF pc[r] = "fetch" THEN images \cup {Here(r)} ELSE images
    <2>2. pulled = images \/ (pc[r] = "fetch" /\ pulled = images \cup {Here(r)})
        OBVIOUS
    <2>3. images' = images \/ images' = pulled
        BY <2>1
    <2> HIDE DEF pulled
    <2> QED
        BY <2>1, <2>2, <2>3
<1>2. \A i \in Image : line'[i] = Without(i, r)
    BY <1>1
<1>3. line' \in [Image -> Seq(Req)]
    BY <1>1, WithoutIs
<1>4. "left" \in PCs \ Holding /\ "left" \notin AtImage
    BY DEF PCs, Holding, AtImage
<1>5. \A i \in Image : Moves(line[i], line'[i], r) /\ r \notin ToSet(line'[i])
    BY <1>2, WithoutIs
<1>6. nth' \in [Req -> Nat]
    BY <1>1 DEF LineInv, Places
<1>7. Shifts(r, "left")
    <2>1. \A i \in Image : r \in ToSet(line'[i]) <=> "left" \in AtImage /\ Images[r][nth'[r]] = i
        BY <1>4, <1>5
    <2> QED
        BY <1>1, <1>3, <1>4, <1>5, <1>6, <2>1 DEF Shifts
<1> QED
    BY <1>7, LineChangeKeeps

LEMMA NextImageKeeps ==
    ASSUME LineInv, NEW r \in Req, NextImage(r)
    PROVE  LineInv'
<1>1. pc[r] \in {"present", "absent"} /\ nth' = [nth EXCEPT ![r] = @ + 1] /\ UNCHANGED images
    BY DEF NextImage
<1>2. /\ nth[r] \in DOMAIN Images[r] /\ nth[r] \in Nat /\ Here(r) \in Image
      /\ Len(Images[r]) \in Nat /\ DOMAIN Images[r] = 1..Len(Images[r])
    BY <1>1, ImagesTyped DEF LineInv, Places, AtImage, Here
<1>3. /\ nth' \in [Req -> Nat] /\ nth'[r] = nth[r] + 1
      /\ \A q \in Req \ {r} : nth'[q] = nth[q]
    BY <1>1 DEF LineInv, Places
<1>4. \A i \in Image : r \in ToSet(line[i]) => i = Here(r)
    BY DEF LineInv, Lines
<1>5. \A i \in Image : line[i] \in Seq(Req) /\ Moves(line[i], line[i], r)
    BY LineOne DEF Moves
<1>6. CASE nth[r] = Len(Images[r])
    <2>1. pc' = [pc EXCEPT ![r] = "over"] /\ line' = [line EXCEPT ![Here(r)] = Without(Here(r), r)]
        BY <1>6 DEF NextImage, Goto
    <2>2. "over" \in PCs \ Holding /\ "over" \notin AtImage
        BY DEF PCs, Holding, AtImage
    <2>3. \A i \in Image : line'[i] = IF i = Here(r) THEN Without(i, r) ELSE line[i]
        BY <1>2, <2>1 DEF LineInv, Lines
    <2>4. line' \in [Image -> Seq(Req)]
        BY <1>2, <2>1, WithoutIs DEF LineInv, Lines
    <2>5. ASSUME NEW i \in Image
          PROVE  Moves(line[i], line'[i], r) /\ r \notin ToSet(line'[i])
        <3>1. CASE i = Here(r)
            BY <2>3, <3>1, WithoutIs
        <3>2. CASE i # Here(r)
            BY <1>4, <1>5, <2>3, <3>2
        <3> QED
            BY <3>1, <3>2
    <2>6. Shifts(r, "over")
        <3>1. "over" \in AtImage => nth'[r] \in DOMAIN Images[r]
            BY <2>2
        <3>2. \A i \in Image : r \in ToSet(line'[i]) <=> "over" \in AtImage /\ Images[r][nth'[r]] = i
            BY <2>2, <2>5
        <3> QED
            BY <1>1, <1>3, <2>1, <2>4, <2>5, <3>1, <3>2 DEF Shifts
    <2> QED
        BY <2>6, LineChangeKeeps
<1>7. CASE nth[r] # Len(Images[r])
    <2> DEFINE j == Images[r][nth[r] + 1]
    <2>1. /\ pc' = [pc EXCEPT ![r] = "line"]
          /\ line' = [i \in Image |-> IF i = j THEN Append(Without(i, r), r)
                                      ELSE IF i = Here(r) THEN Without(i, r) ELSE line[i]]
        BY <1>7 DEF NextImage, Goto
    <2>2. nth'[r] \in DOMAIN Images[r] /\ j \in Image /\ Images[r][nth'[r]] = j
        BY <1>2, <1>3, <1>7, ImagesTyped
    <2>3. "line" \in PCs \ Holding /\ "line" \in AtImage
        BY DEF PCs, Holding, AtImage
    <2> HIDE DEF j
    <2>4. /\ Without(j, r) \in Seq(Req) /\ OneEach(Without(j, r)) /\ line[j] \in Seq(Req)
          /\ r \notin ToSet(Without(j, r)) /\ Moves(line[j], Without(j, r), r)
        BY <1>5, <2>2, WithoutIs
    <2>5. /\ Append(Without(j, r), r) \in Seq(Req) /\ Moves(line[j], Append(Without(j, r), r), r)
          /\ r \in ToSet(Append(Without(j, r), r))
        BY <2>4, AppendMoves
    <2>6. \A i \in Image : line'[i] = IF i = j THEN Append(Without(i, r), r)
                                      ELSE IF i = Here(r) THEN Without(i, r) ELSE line[i]
        BY <2>1
    <2>7. ASSUME NEW i \in Image
          PROVE  /\ line'[i] \in Seq(Req) /\ Moves(line[i], line'[i], r)
                 /\ r \in ToSet(line'[i]) <=> i = j
        <3>1. CASE i = j
            <4>1. line'[i] = Append(Without(j, r), r)
                BY <2>6, <3>1
            <4> QED
                BY <2>5, <3>1, <4>1
        <3>2. CASE i # j /\ i = Here(r)
            <4>1. line'[i] = Without(i, r)
                BY <2>6, <3>2
            <4> QED
                BY <3>2, <4>1, WithoutIs
        <3>3. CASE i # j /\ i # Here(r)
            BY <1>4, <1>5, <2>6, <3>3
        <3> QED
            BY <3>1, <3>2, <3>3
    <2>8. line' \in [Image -> Seq(Req)]
        BY <2>1, <2>7
    <2>9. Shifts(r, "line")
        <3>1. \A i \in Image : r \in ToSet(line'[i]) <=> "line" \in AtImage /\ Images[r][nth'[r]] = i
            BY <2>2, <2>3, <2>7
        <3> QED
            BY <1>1, <1>3, <2>1, <2>2, <2>7, <2>8, <3>1 DEF Shifts
    <2> QED
        BY <2>9, LineChangeKeeps
<1> QED
    BY <1>6, <1>7

LEMMA LineStep ==
    ASSUME LineInv, [Next]_vars
    PROVE  LineInv'
<1>1. ASSUME UNCHANGED docker PROVE LineInv'
    <2>1. UNCHANGED <<pc, nth, line>> /\ images' \subseteq images
        BY <1>1 DEF docker
    <2> QED
        BY <2>1, RemoveImageKeeps
<1>2. CASE SysStep \/ UNCHANGED vars
    BY <1>1, <1>2 DEF SysStep, vars
<1>3. ASSUME NEW r \in Req, Arrive(r) PROVE LineInv'
    <2>1. pc[r] = "idle" /\ UNCHANGED <<nth, line, images>> /\ nth[r] = 1
        BY <1>3 DEF Arrive, LineInv, Places
    <2>2. \E p \in {"deps", "daemon"} : /\ pc' = [pc EXCEPT ![r] = p]
                                        /\ p = "daemon" => r \notin NamesManager
        BY <1>3 DEF Arrive, Goto
    <2> QED
        BY <2>1, <2>2, ImagesTyped, OffImageKeeps DEF PCs, AtImage
<1>4. ASSUME NEW r \in Req, AbstractStep(r) PROVE LineInv'
    BY <1>1, <1>4 DEF AbstractStep, Ask, Read, Announce, UnitsStarted, Answer, Raise
<1>5. ASSUME NEW r \in Req, DepsAnswered(r) PROVE LineInv'
    <2>1. pc[r] = "deps" /\ UNCHANGED <<nth, line, images>> /\ nth[r] = 1
        BY <1>5 DEF DepsAnswered, LineInv, Places
    <2>2. \E p \in {"over", "daemon"} : /\ pc' = [pc EXCEPT ![r] = p]
                                        /\ p = "daemon" => Images[r] # <<>>
        BY <1>5 DEF DepsAnswered, Goto
    <2> QED
        BY <2>1, <2>2, OffImageKeeps DEF PCs, AtImage
<1>6. ASSUME NEW r \in Req, DaemonSilent(r) PROVE LineInv'
    <2>1. pc[r] = "daemon" /\ UNCHANGED <<nth, line, images>> /\ pc' = [pc EXCEPT ![r] = "over"]
        BY <1>6 DEF DaemonSilent, Goto
    <2> QED
        BY <2>1, OffImageKeeps DEF PCs, AtImage
<1>7. ASSUME NEW i \in Image, RemoveImage(i) PROVE LineInv'
    BY <1>7, RemoveImageKeeps DEF RemoveImage
<1> QED
    BY <1>2, <1>3, <1>4, <1>5, <1>6, <1>7, DaemonAnswersKeeps, LookKeeps, FetchedKeeps,
       NextImageKeeps, LeaveKeeps DEF Next, DockerStep, Quiet

THEOREM LineInvariant == Spec => []LineInv
<1>1. Init => LineInv
    BY LineInit
<1>2. LineInv /\ [Next]_vars => LineInv'
    BY LineStep
<1> QED
    BY <1>1, <1>2, PTL DEF Spec

(* An image is pulled or built by one request at a time, and only while it *)
(* is not on the host (docker.py:13-15), for any number of requests that   *)
(* ask for any images in any order, leave, or find them removed.           *)
THEOREM OneFetchAtATime == Spec => []OneFetch
<1>1. LineInv => OneFetch
    <2> SUFFICES ASSUME LineInv, NEW r \in Req, pc[r] = "fetch"
                 PROVE  /\ Here(r) \notin images
                        /\ \A q \in Req \ {r} : pc[q] = "fetch" => Here(q) # Here(r)
        BY DEF OneFetch
    <2> QED
        BY DEF LineInv, Locks, Holding
<1> QED
    BY <1>1, LineInvariant, PTL
-----------------------------------------------------------------------------
(* Types, and the answers.                                                 *)

Working == {"resolving", "starting", "over", "error"}

Told(r, a) == announced[r][a] # "none" => IsSettled(r, a)

LEMMA AnsweredInit == Init => Answered
    BY DEF Init, Answered

(* A step that reads one more status, or none, and announces nothing.      *)
LEMMA QuietlyAnswered ==
    ASSUME Types, Answered, UNCHANGED <<asked, announced, units>>,
           \A r \in Req : settled[r] \subseteq settled'[r],
           \A r \in Req : apc'[r] \in Working => apc[r] \in Working,
           \A r \in Req : apc'[r] = "over" => apc[r] = "over" \/
               \A a \in ToSet(Asks[r]) : announced[r][a] # "none"
    PROVE  Answered'
<1>1. units' \subseteq HasUnits
    BY DEF Answered
<1>2. ASSUME NEW r \in Req, apc'[r] \in Working
      PROVE  asked'[r] = Of(r) /\ \A a \in Wanted(r) : Told(r, a)'
    <2>1. asked[r] = Of(r) /\ \A a \in Wanted(r) : Told(r, a)
        BY <1>2 DEF Answered, Told, Working
    <2> QED
        BY <2>1 DEF Told, IsSettled
<1>3. ASSUME NEW r \in Req, apc'[r] = "over"
      PROVE  \A a \in ToSet(Asks[r]) : announced'[r][a] # "none"
    BY <1>3 DEF Answered
<1> QED
    BY <1>1, <1>2, <1>3 DEF Answered, Told, Working

(* A step that announces one dependency, settled before.                   *)
LEMMA AnnouncedAnswered ==
    ASSUME Types, Answered, NEW r \in Req, NEW a \in Abs, NEW v \in Statuses, NEW p \in Working,
           apc[r] \in {"resolving", "starting"}, p # "over", IsSettled(r, a),
           announced' = [announced EXCEPT ![r][a] = v], apc' = [apc EXCEPT ![r] = p],
           UNCHANGED <<asked, settled>>, units' \subseteq HasUnits
    PROVE  Answered'
<1>1. announced[r] \in [Abs -> Statuses] /\ DOMAIN announced = Req
    BY DEF Types
<1>2. /\ \A q \in Req \ {r} : announced'[q] = announced[q] /\ apc'[q] = apc[q]
      /\ \A b \in Abs \ {a} : announced'[r][b] = announced[r][b]
      /\ apc'[r] = p
    BY <1>1 DEF Types
<1>3. \A q \in Req : apc'[q] \in Working => apc[q] \in Working
    BY <1>2 DEF Working
<1>4. ASSUME NEW q \in Req, apc'[q] \in Working
      PROVE  asked'[q] = Of(q) /\ \A b \in Wanted(q) : Told(q, b)'
    <2>1. asked[q] = Of(q) /\ \A b \in Wanted(q) : Told(q, b)
        BY <1>3, <1>4 DEF Answered, Told, Working
    <2>2. ASSUME NEW b \in Wanted(q) PROVE Told(q, b)'
        <3>1. b \in Abs
            BY Constants DEF Wanted, ToSet
        <3>2. Told(q, b) /\ IsSettled(q, b)' = IsSettled(q, b)
            BY <2>1 DEF IsSettled
        <3>3. CASE q = r /\ b = a
            BY <3>2, <3>3 DEF Told
        <3>4. CASE q # r \/ b # a
            BY <1>2, <3>1, <3>2, <3>4 DEF Told
        <3> QED
            BY <3>3, <3>4
    <2> QED
        BY <2>1, <2>2
<1>5. ASSUME NEW q \in Req, apc'[q] = "over"
      PROVE  \A b \in ToSet(Asks[q]) : announced'[q][b] # "none"
    <2>1. q # r
        BY <1>2, <1>5
    <2> QED
        BY <1>2, <1>5, <2>1 DEF Answered
<1> QED
    BY <1>4, <1>5 DEF Answered, Told, Working

LEMMA AskAnswered ==
    ASSUME Types, Answered, NEW r \in Req, Ask(r)
    PROVE  Answered'
<1>1. /\ announced' = [announced EXCEPT ![r] = [a \in Abs |->
              IF a \in ToSet(Asks[r]) \cap Unknown THEN "failed" ELSE "none"]]
      /\ apc' = [apc EXCEPT ![r] = "resolving"]
      /\ asked' = [asked EXCEPT ![r] = Of(r)]
      /\ UNCHANGED <<settled, units>>
    BY DEF Ask
<1>2. \A q \in Req \ {r} : announced'[q] = announced[q] /\ apc'[q] = apc[q] /\ asked'[q] = asked[q]
    BY <1>1 DEF Types
<1>3. /\ announced'[r] = [a \in Abs |-> IF a \in ToSet(Asks[r]) \cap Unknown THEN "failed" ELSE "none"]
      /\ apc'[r] = "resolving" /\ asked'[r] = Of(r)
    BY <1>1 DEF Types
<1>4. \A a \in Wanted(r) : announced'[r][a] = "none"
    <2>1. \A a \in Wanted(r) : a \in Abs /\ a \notin Unknown
        BY Constants DEF Wanted, ToSet
    <2> QED
        BY <1>3, <2>1
<1>5. ASSUME NEW q \in Req, apc'[q] \in Working
      PROVE  asked'[q] = Of(q) /\ \A b \in Wanted(q) : Told(q, b)'
    <2>1. CASE q = r
        BY <1>3, <1>4, <2>1 DEF Told
    <2>2. CASE q # r
        BY <1>1, <1>2, <1>5, <2>2 DEF Answered, Told, IsSettled, Working
    <2> QED
        BY <2>1, <2>2
<1>6. ASSUME NEW q \in Req, apc'[q] = "over"
      PROVE  \A b \in ToSet(Asks[q]) : announced'[q][b] # "none"
    <2>1. q # r
        BY <1>3, <1>6
    <2> QED
        BY <1>2, <1>6, <2>1 DEF Answered
<1> QED
    BY <1>1, <1>5, <1>6 DEF Answered, Told, Working

LEMMA AbstractAnswered ==
    ASSUME PrepareInv, Answered, NEW r \in Req, AbstractStep(r)
    PROVE  Answered'
<1>1. Types
    BY DEF PrepareInv
<1>2. CASE Ask(r)
    BY <1>1, <1>2, AskAnswered
<1>3. CASE Read(r)
    <2>1. PICK d \in Dep : settled' = [settled EXCEPT ![r] = @ \cup {d}]
        BY <1>1, <1>3 DEF Read, Types
    <2>2. UNCHANGED <<asked, apc, announced, units>>
        BY <1>3 DEF Read, sysdeps
    <2>3. \A q \in Req : settled[q] \subseteq settled'[q]
        BY <1>1, <2>1 DEF Types
    <2> QED
        BY <1>1, <2>2, <2>3, QuietlyAnswered
<1>4. CASE Announce(r)
    <2>1. PICK a \in Abs :
              /\ IsNext(r, a)
              /\ \/ apc' = [apc EXCEPT ![r] = "starting"] /\ UNCHANGED announced
                 \/ announced' = [announced EXCEPT ![r][a] = Worst(r, a)] /\ UNCHANGED apc
        BY <1>4 DEF Announce
    <2>2. UNCHANGED <<asked, settled, units>> /\ apc[r] = "resolving"
        BY <1>4 DEF Announce, sysdeps
    <2>3. CASE apc' = [apc EXCEPT ![r] = "starting"] /\ UNCHANGED announced
        <3>1. \A q \in Req : /\ apc'[q] \in Working => apc[q] \in Working
                             /\ apc'[q] = "over" => apc[q] = "over"
            BY <1>1, <2>2, <2>3 DEF Types, Working
        <3> QED
            BY <1>1, <2>2, <2>3, <3>1, QuietlyAnswered
    <2>4. CASE announced' = [announced EXCEPT ![r][a] = Worst(r, a)] /\ UNCHANGED apc
        <3>1. apc' = [apc EXCEPT ![r] = "resolving"]
            BY <1>1, <2>2, <2>4 DEF Types
        <3>2. units' \subseteq HasUnits
            BY <2>2 DEF Answered
        <3> QED
            BY <1>1, <2>1, <2>2, <2>4, <3>1, <3>2, WorstIsStatus, AnnouncedAnswered
               DEF IsNext, Working
    <2> QED
        BY <2>1, <2>3, <2>4
<1>5. CASE UnitsStarted(r)
    <2>1. PICK a \in Abs, ok \in BOOLEAN :
              /\ IsNext(r, a)
              /\ announced' = [announced EXCEPT ![r][a] = IF ok THEN "ready" ELSE "failed"]
              /\ units' = IF ok THEN units \cup {a} ELSE units
        BY <1>5 DEF UnitsStarted
    <2>2. /\ UNCHANGED <<asked, settled>> /\ apc[r] = "starting"
          /\ apc' = [apc EXCEPT ![r] = "resolving"]
        BY <1>5 DEF UnitsStarted, sysdeps
    <2>3. a \in HasUnits
        <3>1. PICK b \in Abs : Startable(r, b)
            BY <2>2 DEF PrepareInv, Starts
        <3>2. a = b
            BY <2>1, <3>1, NextIsOne DEF Startable
        <3> QED
            BY <3>1, <3>2 DEF Startable
    <2>4. units' \subseteq HasUnits
        BY <2>1, <2>3 DEF Answered
    <2>5. (IF ok THEN "ready" ELSE "failed") \in Statuses
        BY DEF Statuses
    <2> QED
        BY <1>1, <2>1, <2>2, <2>4, <2>5, AnnouncedAnswered DEF IsNext, Working
<1>6. CASE Answer(r)
    <2>1. /\ UNCHANGED <<asked, settled, announced, units>> /\ apc[r] = "resolving"
          /\ apc' = [apc EXCEPT ![r] = "over"]
          /\ \A a \in ToSet(Asks[r]) : announced[r][a] # "none"
        BY <1>6 DEF Answer, sysdeps
    <2>2. \A q \in Req : /\ apc'[q] \in Working => apc[q] \in Working
                         /\ apc'[q] = "over" => q = r \/ apc[q] = "over"
        BY <1>1, <2>1 DEF Types, Working
    <2> QED
        BY <1>1, <2>1, <2>2, QuietlyAnswered
<1>7. CASE Raise(r)
    <2>1. /\ UNCHANGED <<asked, settled, announced, units>> /\ apc[r] = "resolving"
          /\ apc' = [apc EXCEPT ![r] = "error"]
        BY <1>7 DEF Raise, sysdeps
    <2>2. \A q \in Req : /\ apc'[q] \in Working => apc[q] \in Working
                         /\ apc'[q] = "over" => apc[q] = "over"
        BY <1>1, <2>1 DEF Types, Working
    <2> QED
        BY <1>1, <2>1, <2>2, QuietlyAnswered
<1> QED
    BY <1>2, <1>3, <1>4, <1>5, <1>6, <1>7 DEF AbstractStep

LEMMA AnsweredStep ==
    ASSUME PrepareInv, Answered, [Next]_vars
    PROVE  Answered'
<1>1. Types
    BY DEF PrepareInv
<1>2. ASSUME UNCHANGED <<asked, abstract>> PROVE Answered'
    BY <1>1, <1>2, QuietlyAnswered DEF abstract
<1>3. CASE SysStep
    BY <1>2, <1>3 DEF SysStep, Sys!Install, Sys!Report, Sys!Drop
<1>4. ASSUME NEW r \in Req, Arrive(r) PROVE Answered'
    <2>1. /\ UNCHANGED <<asked, settled, announced, units>>
          /\ apc' = [apc EXCEPT ![r] = "asked"] \/ UNCHANGED apc
        BY <1>4 DEF Arrive, sysdeps
    <2>2. \A q \in Req : /\ apc'[q] \in Working => apc[q] \in Working
                         /\ apc'[q] = "over" => apc[q] = "over"
        BY <1>1, <2>1 DEF Types, Working
    <2> QED
        BY <1>1, <2>1, <2>2, QuietlyAnswered
<1>5. ASSUME NEW r \in Req, DockerStep(r) \/ Leave(r) PROVE Answered'
    BY <1>2, <1>5 DEF DockerStep, Leave, DepsAnswered, DaemonAnswers, DaemonSilent, Look, Fetched,
                      NextImage, sysdeps
<1>6. ASSUME NEW i \in Image, RemoveImage(i) PROVE Answered'
    BY <1>2, <1>6 DEF RemoveImage, sysdeps
<1>7. CASE UNCHANGED vars
    BY <1>2, <1>7 DEF vars, sysdeps
<1> QED
    BY <1>3, <1>4, <1>5, <1>6, <1>7, AbstractAnswered DEF Next, Quiet

(* All the statuses an answered request asked for have been read. *)
LEMMA OverIsRead ==
    ASSUME Types, Answered, NEW r \in Req, apc[r] = "over"
    PROVE  /\ \A a \in ToSet(Asks[r]) : announced[r][a] # "none"
           /\ asked[r] \subseteq settled[r]
<1>1. /\ asked[r] = Of(r)
      /\ \A a \in Wanted(r) : announced[r][a] # "none" => IsSettled(r, a)
      /\ \A a \in ToSet(Asks[r]) : announced[r][a] # "none"
    BY DEF Answered
<1>2. \A a \in Wanted(r) : Packages[a] \subseteq settled[r]
    BY <1>1 DEF Wanted, IsSettled
<1> QED
    BY <1>1, <1>2 DEF Of

(* Who is at an image stands in its line once, and nobody else does. *)
LEMMA StandsOnce ==
    ASSUME LineInv, NEW i \in Image, NEW r \in Req
    PROVE  Cardinality({n \in DOMAIN line[i] : line[i][n] = r}) =
               IF pc[r] \in AtImage /\ Here(r) = i THEN 1 ELSE 0
<1> DEFINE at == {n \in DOMAIN line[i] : line[i][n] = r}
<1>1. r \in ToSet(line[i]) <=> pc[r] \in AtImage /\ Here(r) = i
    BY DEF LineInv, Lines
<1>2. CASE r \in ToSet(line[i])
    <2>1. PICK n \in DOMAIN line[i] : line[i][n] = r
        BY <1>2 DEF ToSet
    <2>2. at = {n}
        BY <2>1, LineOne DEF OneEach
    <2> HIDE DEF at
    <2>3. Cardinality(at) = 1
        BY <2>2, FS_Singleton
    <2> QED
        BY <1>1, <1>2, <2>3 DEF at
<1>3. CASE r \notin ToSet(line[i])
    <2>1. at = {}
        BY <1>3 DEF ToSet
    <2> HIDE DEF at
    <2>2. Cardinality(at) = 0
        BY <2>1, FS_EmptySet
    <2> QED
        BY <1>1, <1>3, <2>2 DEF at
<1> QED
    BY <1>2, <1>3

(* Types; an answer about the dependencies of a request comes with a state *)
(* for each of them and after every status it asked for                    *)
(* (AbstractDeps.resolve, abstract_deps.py), and who is at an image stands *)
(* in the line of its lock exactly once (docker.py), whoever leaves it.    *)
THEOREM PrepareTypes == Spec => []TypeOK
<1>1. PrepareInv /\ Answered /\ [Next]_vars => Answered'
    BY AnsweredStep
<1>2. Spec => []Answered
    BY <1>1, AnsweredInit, PrepareInvariant, PTL DEF Spec
<1>3. PrepareInv /\ Answered /\ LineInv => TypeOK
    <2> SUFFICES ASSUME PrepareInv, Answered, LineInv PROVE TypeOK
        OBVIOUS
    <2>1. /\ apc \in [Req -> {"idle", "asked", "resolving", "starting", "over", "error"}]
          /\ announced \in [Req -> [Abs -> States]] /\ units \subseteq HasUnits
        BY DEF PrepareInv, Types, Answered, States, Statuses
    <2>2. pc \in [Req -> PCs] /\ images \subseteq Image
        BY DEF LineInv, Places
    <2>3. \A r \in Req : apc[r] = "over" => /\ \A a \in ToSet(Asks[r]) : announced[r][a] # "none"
                                            /\ asked[r] \subseteq settled[r]
        BY OverIsRead DEF PrepareInv
    <2> QED
        BY <2>1, <2>2, <2>3, StandsOnce DEF TypeOK, PCs, AtImage
<1> QED
    BY <1>2, <1>3, PrepareInvariant, LineInvariant, PTL
=============================================================================
