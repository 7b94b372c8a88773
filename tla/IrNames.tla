------------------------------ MODULE IrNames ------------------------------
(***************************************************************************)
(* What the IR manager promises of the names: they are a register.  A      *)
(* request changes one name, at one moment between its call and its        *)
(* answer; what was answered is in effect.  One that is dropped has no     *)
(* effect after that, but for a late one, whose change was under way: it   *)
(* may come yet, once, and no other before it.  Should another begin all   *)
(* the same, nothing is promised from then on.                             *)
(***************************************************************************)
CONSTANTS Req, Key, Hash, None

VARIABLES names,    \* the hash each key points to, or None
          stage,    \* idle, called, late, applied, answered, dropped
          overtaken \* whether a change did not wait for one that was dropped

vars == <<names, stage, overtaken>>

Init == /\ names \in [Key -> Hash \cup {None}]
        /\ stage = [r \in Req |-> "idle"]
        /\ overtaken = FALSE

Call(r) == /\ stage[r] = "idle"
           /\ stage' = [stage EXCEPT ![r] = "called"]
           /\ UNCHANGED <<names, overtaken>>

Changed == \E k \in Key, h \in Hash \cup {None} :
             names[k] # h /\ names' = [names EXCEPT ![k] = h]

(* A put moves its key, a delete removes it; with nothing left to clean up *)
(* it is answered at once.                                                 *)
Apply(r) == /\ stage[r] = "called"
            /\ \A q \in Req : stage[q] # "late"
            /\ Changed
            /\ \E s \in {"applied", "answered"} : stage' = [stage EXCEPT ![r] = s]
            /\ UNCHANGED overtaken

(* Nothing to do: the content has its name, or the key is not there. *)
Keep(r) == /\ stage[r] = "called"
           /\ stage' = [stage EXCEPT ![r] = "answered"]
           /\ UNCHANGED <<names, overtaken>>

Answer(r) == /\ stage[r] = "applied"
             /\ stage' = [stage EXCEPT ![r] = "answered"]
             /\ UNCHANGED <<names, overtaken>>

(* The client or the host runtime goes away, or the request fails. *)
Drop == \E gone \in SUBSET {r \in Req : stage[r] \in {"called", "late", "applied"}} :
          /\ stage' = [r \in Req |-> IF r \in gone THEN "dropped" ELSE stage[r]]
          /\ UNCHANGED <<names, overtaken>>

(* The client goes away while the change is under way, which may come yet. *)
Linger(r) == /\ stage[r] = "called"
             /\ \A q \in Req : stage[q] # "late"
             /\ stage' = [stage EXCEPT ![r] = "late"]
             /\ UNCHANGED <<names, overtaken>>

ApplyLate(r) == /\ stage[r] = "late"
                /\ Changed
                /\ stage' = [stage EXCEPT ![r] = "dropped"]
                /\ UNCHANGED overtaken

(* A change begins that waits neither for it nor for what it cleans up. *)
Overtake == /\ \E r \in Req : stage[r] \in {"late", "dropped"}
            /\ overtaken' = TRUE
            /\ UNCHANGED <<names, stage>>

NoPromise == overtaken /\ overtaken'

Next == \/ Drop \/ Overtake \/ NoPromise
        \/ \E r \in Req : Call(r) \/ Apply(r) \/ Keep(r) \/ Answer(r) \/ Linger(r) \/ ApplyLate(r)

Spec == Init /\ [][Next]_vars
=============================================================================
