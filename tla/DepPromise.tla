----------------------------- MODULE DepPromise -----------------------------
(***************************************************************************)
(* What resolving dependencies promises, whatever the queue behind it      *)
(* does: a request's dependencies get one status each, "ready" only for a  *)
(* package that is on the host, and the request is answered once each has  *)
(* one.  A client may go away at any time.                                 *)
(***************************************************************************)
CONSTANTS Req, Dep

VARIABLES asked,    \* per request, its dependencies
          status,   \* per request and dependency, the status reported
          present,  \* the packages on the host
          closed    \* per request, whether and how it ended

vars == <<asked, status, present, closed>>

Init ==
  /\ asked = [r \in Req |-> {}]
  /\ status = [r \in Req |-> [d \in Dep |-> "none"]]
  /\ present \in SUBSET Dep
  /\ closed = [r \in Req |-> "no"]

Ask(r) ==
  /\ asked[r] = {}
  /\ \E deps \in (SUBSET Dep) \ {{}} : asked' = [asked EXCEPT ![r] = deps]
  /\ UNCHANGED <<status, present, closed>>

(* Some of the dependencies get their status; the last ones end the        *)
(* request.                                                                *)
Report(r) ==
  /\ closed[r] = "no"
  /\ \E deps \in SUBSET {d \in asked[r] : status[r][d] = "none"} :
       /\ deps # {}
       /\ \E new \in [deps -> {"ready", "failed", "timeout"}] :
            /\ \A d \in deps : new[d] = "ready" => d \in present
            /\ status' = [status EXCEPT ![r] =
                            [d \in Dep |-> IF d \in deps THEN new[d] ELSE @[d]]]
  /\ closed' = [closed EXCEPT ![r] =
       IF \A d \in asked[r] : status'[r][d] # "none" THEN "answered" ELSE @]
  /\ UNCHANGED <<asked, present>>

Drop ==
  /\ \E gone \in SUBSET {r \in Req : closed[r] = "no" /\ asked[r] # {}} :
       closed' = [r \in Req |-> IF r \in gone THEN "dropped" ELSE closed[r]]
  /\ UNCHANGED <<asked, status, present>>

Install ==
  /\ present' \in {present \cup new : new \in SUBSET Dep}
  /\ UNCHANGED <<asked, status, closed>>

Next == Install \/ Drop \/ \E r \in Req : Ask(r) \/ Report(r)

Spec == Init /\ [][Next]_vars
=============================================================================
