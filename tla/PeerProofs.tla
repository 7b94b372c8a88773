------------------------------ MODULE PeerProofs ------------------------------
(***************************************************************************)
(* For any number of requests and events: who waits is routed to, and what *)
(* is delivered to a request is its own events in order, then the response.*)
(*                                                                         *)
(* What a request has read, its frames under way and what its outbox still *)
(* holds are, one after the other, the numbers of its events.  Frames are  *)
(* not counted: before each one stands every event that is not read yet.   *)
(***************************************************************************)
EXTENDS Peer, Integers, TLAPS

(* The frames of a request under way, and the place of each in the answer. *)
Frames(r) == {n \in DOMAIN down : down[n].req = r}

Number(r, n) == IF down[n].content = Res THEN emitted[r] + 1 ELSE down[n].content

(* What the outbox has let go. *)
Sent(r) == IF hnd[r] = "closing" /\ sender[r] = "run" THEN emitted[r] + 1 - Len(outq[r])
                                                      ELSE emitted[r] - Len(outq[r])

IsSending(r) == hnd[r] \in {"running", "closing"} /\ sender[r] \in {"run", "ended"}

(* A request goes up once, and nothing comes of it before it is spawned.   *)
Fresh(r) ==
  /\ emitted[r] = 0 /\ outq[r] = <<>> /\ sender[r] = "none"
  /\ inbox[r] = <<>> /\ Frames(r) = {}

Once ==
  /\ \A r \in Req : hnd[r] = "none" => Fresh(r)
  /\ \A r \in Req : cli[r] \in {"idle", "sending"} =>
        hnd[r] = "none" /\ \A n \in DOMAIN up : up[n] # r
  /\ \A n \in DOMAIN up : hnd[up[n]] = "none"
  /\ \A m, n \in DOMAIN up : up[m] = up[n] => m = n

(* The client reads as long as it is connected. *)
Routed ==
  /\ open => reader
  /\ \A r \in Req : cli[r] = "sending" /\ reader => r \in pending
  /\ WaitingIsPending

Box(r) ==
  /\ sender[r] = "run" =>
        /\ hnd[r] \in {"running", "closing"}
        /\ Sent(r) \in 0..emitted[r]
        /\ \A i \in DOMAIN outq[r] :
              outq[r][i] = IF hnd[r] = "closing" /\ i = Len(outq[r]) THEN End
                                                                     ELSE Sent(r) + i
  /\ sender[r] = "ended" => hnd[r] # "running" /\ outq[r] = <<>>
  /\ \A n \in Frames(r) : down[n].content = Res => hnd[r] = "ended"

Covered(r, to, from) ==
  \A k \in Nat : Len(inbox[r]) < k /\ k < to =>
     \E m \in Frames(r) : m < from /\ down[m].content = k

Flow(r) ==
  /\ \A n \in Frames(r) : Len(inbox[r]) < Number(r, n) /\ Covered(r, Number(r, n), n)
  /\ \A m, n \in Frames(r) : m < n => Number(r, m) < Number(r, n)
  /\ open /\ IsSending(r) =>
        /\ Len(inbox[r]) <= Sent(r)
        /\ \A n \in Frames(r) : Number(r, n) <= Sent(r)
        /\ Covered(r, Sent(r) + 1, Len(down) + 1)

Got(r) ==
  \A i \in DOMAIN inbox[r] :
    \/ inbox[r][i] = i
    \/ /\ inbox[r][i] = Res /\ i = Len(inbox[r]) /\ i = emitted[r] + 1
       /\ r \notin pending /\ hnd[r] = "ended"

PeerInv ==
  /\ TypeOK /\ Once /\ Routed
  /\ \A r \in Req : Box(r) /\ Got(r) /\ (r \in pending => Flow(r))
-----------------------------------------------------------------------------
(* Frames under way.                                                       *)

LEMMA Typed ==
  ASSUME TypeOK, NEW r \in Req
  PROVE  /\ Len(inbox[r]) \in Nat /\ DOMAIN inbox[r] = 1..Len(inbox[r])
         /\ Len(outq[r]) \in Nat /\ DOMAIN outq[r] = 1..Len(outq[r])
         /\ Len(down) \in Nat /\ DOMAIN down = 1..Len(down)
         /\ Len(up) \in Nat /\ DOMAIN up = 1..Len(up)
         /\ emitted[r] \in 0..MaxEvents /\ emitted[r] \in Nat
         /\ \A n \in Frames(r) : n \in 1..Len(down) /\ n \in Nat
                                 /\ down[n] \in Frame /\ Number(r, n) \in Nat
  <1>1. /\ inbox[r] \in Seq(Event \cup {Res}) /\ outq[r] \in Seq(Event \cup {End})
        /\ down \in Seq(Frame) /\ up \in Seq(Req) /\ emitted[r] \in 0..MaxEvents
    BY DEF TypeOK
  <1>2. emitted[r] \in Nat
    BY <1>1, PeerAssumption
  <1>3. ASSUME NEW n \in Frames(r)
        PROVE  n \in 1..Len(down) /\ n \in Nat /\ down[n] \in Frame /\ Number(r, n) \in Nat
    <2>1. n \in 1..Len(down) /\ n \in Nat /\ down[n] \in Frame
      BY <1>1, <1>3 DEF Frames
    <2>2. down[n].content \in Event \cup {Res}
      BY <2>1 DEF Frame
    <2> QED
      BY <1>2, <2>1, <2>2, PeerAssumption DEF Number, Event
  <1> QED
    BY <1>1, <1>2, <1>3

LEMMA FramesOfAppend ==
  ASSUME TypeOK, NEW f \in Frame, down' = Append(down, f), NEW r \in Req
  PROVE  /\ Frames(r)' = IF f.req = r THEN Frames(r) \cup {Len(down) + 1} ELSE Frames(r)
         /\ \A n \in Frames(r) : down'[n] = down[n]
         /\ down'[Len(down) + 1] = f /\ Len(down') = Len(down) + 1
  <1>1. /\ Len(down') = Len(down) + 1 /\ down'[Len(down) + 1] = f
        /\ \A n \in 1..Len(down) : down'[n] = down[n]
        /\ DOMAIN down = 1..Len(down) /\ DOMAIN down' = 1..(Len(down) + 1) /\ Len(down) \in Nat
    BY DEF TypeOK
  <1> QED
    BY <1>1 DEF Frames

LEMMA FramesOfTail ==
  ASSUME TypeOK, down # <<>>, down' = Tail(down), NEW r \in Req
  PROVE  /\ \A n \in Frames(r)' : n + 1 \in Frames(r) /\ down'[n] = down[n + 1]
         /\ \A n \in Frames(r) : n # 1 => n - 1 \in Frames(r)' /\ down'[n - 1] = down[n]
         /\ Len(down') = Len(down) - 1
  <1>1. /\ Len(down') = Len(down) - 1 /\ Len(down) \in Nat \ {0}
        /\ \A n \in 1..(Len(down) - 1) : down'[n] = down[n + 1]
        /\ DOMAIN down = 1..Len(down) /\ DOMAIN down' = 1..(Len(down) - 1)
    BY DEF TypeOK
  <1> QED
    BY <1>1 DEF Frames

(* Nothing happens to a request. *)
Same(r) == /\ hnd'[r] = hnd[r] /\ sender'[r] = sender[r] /\ emitted'[r] = emitted[r]
           /\ outq'[r] = outq[r] /\ inbox'[r] = inbox[r]

Keeps(r) == /\ Frames(r)' = Frames(r) /\ \A n \in Frames(r) : down'[n] = down[n]
            /\ Len(down) <= Len(down')

LEMMA RestStays ==
  ASSUME TypeOK, TypeOK', NEW r \in Req, Same(r), Keeps(r), open' => open
  PROVE  /\ Box(r) => Box(r)'
         /\ Got(r) /\ (r \in pending' => r \in pending) => Got(r)'
         /\ Flow(r) => Flow(r)'
         /\ Fresh(r) => Fresh(r)'
  <1>1. Sent(r)' = Sent(r) /\ (IsSending(r)' <=> IsSending(r))
    BY DEF Same, Sent, IsSending
  <1>2. \A n \in Frames(r) : Number(r, n)' = Number(r, n)
    BY DEF Same, Keeps, Number
  <1>3. Box(r) => Box(r)'
    BY <1>1 DEF Same, Keeps, Box
  <1>4. Got(r) /\ (r \in pending' => r \in pending) => Got(r)'
    BY DEF Same, Got
  <1>5. Fresh(r) => Fresh(r)'
    BY DEF Same, Keeps, Fresh
  <1>6. Flow(r) => Flow(r)'
    <2> SUFFICES ASSUME Flow(r) PROVE Flow(r)'
      OBVIOUS
    <2>1. \A n \in Frames(r) : /\ Len(inbox[r]) < Number(r, n)
                               /\ Covered(r, Number(r, n), n)'
      BY <1>2 DEF Flow, Covered, Same, Keeps
    <2>2. open /\ IsSending(r) => Covered(r, Sent(r) + 1, Len(down) + 1)'
      <3> SUFFICES ASSUME open, IsSending(r), NEW k \in Nat, Len(inbox[r]) < k, k < Sent(r) + 1
                   PROVE  \E m \in Frames(r)' : m < Len(down)' + 1 /\ down'[m].content = k
        BY <1>1 DEF Covered, Same
      <3>1. PICK m \in Frames(r) : m < Len(down) + 1 /\ down[m].content = k
        BY DEF Flow, Covered
      <3>2. m \in Frames(r)' /\ down'[m].content = k
        BY <3>1 DEF Keeps
      <3>3. m < Len(down)' + 1
        <4>1. m \in Nat /\ Len(down) \in Nat /\ Len(down') \in Nat
          <5>1. Len(down') \in Nat
            BY DEF TypeOK
          <5> QED
            BY <5>1, Typed
        <4> QED
          BY <3>1, <4>1 DEF Keeps
      <3> QED
        BY <3>2, <3>3
    <2> QED
      BY <1>1, <1>2, <2>1, <2>2 DEF Flow, Same, Keeps
  <1> QED
    BY <1>3, <1>4, <1>5, <1>6

LEMMA SameDownKeeps ==
  ASSUME TypeOK, down' = down, NEW r \in Req
  PROVE  Keeps(r)
  BY DEF Keeps, Frames, TypeOK

(* A frame that leaves the head of the line. *)
LEMMA TailCovered ==
  ASSUME TypeOK, NEW r \in Req, down # <<>>, down' = Tail(down),
         Len(inbox'[r]) \in Nat,
         Len(inbox[r]) <= Len(inbox'[r]),
         1 \in Frames(r) => down[1].content <= Len(inbox'[r]),
         NEW to \in Nat, NEW from \in Nat, Covered(r, to, from)
  PROVE  \A k \in Nat : Len(inbox'[r]) < k /\ k < to =>
            \E m \in Frames(r)' : m < from - 1 /\ down'[m].content = k
  <1> SUFFICES ASSUME NEW k \in Nat, Len(inbox'[r]) < k, k < to
               PROVE  \E m \in Frames(r)' : m < from - 1 /\ down'[m].content = k
    OBVIOUS
  <1>0. Len(inbox[r]) < k
    <2>1. Len(inbox[r]) \in Nat
      BY Typed
    <2> QED
      BY <2>1
  <1>1. PICK m \in Frames(r) : m < from /\ down[m].content = k
    BY <1>0 DEF Covered
  <1>2. m # 1
    BY <1>1
  <1>3. m - 1 \in Frames(r)' /\ down'[m - 1] = down[m] /\ m \in Nat
    BY <1>2, FramesOfTail, Typed
  <1>4. m - 1 < from - 1
    BY <1>1, <1>3
  <1>5. down'[m - 1].content = k
    BY <1>1, <1>3
  <1> QED
    BY <1>3, <1>4, <1>5

-----------------------------------------------------------------------------
(* The steps. *)

LEMMA TypesKept ==
  ASSUME TypeOK, [Next]_vars
  PROVE  TypeOK'
  <1> USE DEF TypeOK, client, serving
  <1>1. ASSUME NEW r \in Req, Request(r) PROVE TypeOK'
    BY <1>1 DEF Request
  <1>2. ASSUME NEW r \in Req, TimeOut(r) PROVE TypeOK'
    BY <1>2 DEF TimeOut, Ended
  <1>3. ASSUME NEW r \in Req, Emit(r) PROVE TypeOK'
    <2>1. emitted'[r] \in Event /\ emitted' \in [Req -> 0..MaxEvents]
      BY <1>3, PeerAssumption DEF Emit, Event
    <2> QED
      BY <1>3, <2>1 DEF Emit
  <1>4. ASSUME NEW r \in Req, Send(r) PROVE TypeOK'
    <2>1. CASE open
      <3>1. /\ up' = Append(up, r) /\ cli' = [cli EXCEPT ![r] = "waiting"]
            /\ UNCHANGED <<open, down, inbox, reader, serving, pending>>
        BY <1>4, <2>1 DEF Send
      <3>2. up' \in Seq(Req) /\ cli' \in [Req -> {"idle", "sending", "waiting"} \cup Ended]
        BY <3>1
      <3>3. pending' \subseteq {q \in Req : cli'[q] \in {"sending", "waiting"}}
        BY <3>1
      <3> QED
        BY <3>1, <3>2, <3>3
    <2>2. CASE ~ open
      <3>1. /\ cli' = [cli EXCEPT ![r] = "closed"] \/ cli' = [cli EXCEPT ![r] = "keyerror"]
            /\ pending' = pending \ {r} /\ UNCHANGED <<open, up, down, inbox, reader, serving>>
        BY <1>4, <2>2 DEF Send
      <3> QED
        BY <3>1 DEF Ended
    <2> QED
      BY <2>1, <2>2
  <1>5. ASSUME NEW r \in Req, Return(r) PROVE TypeOK'
    BY <1>5 DEF Return
  <1>6. ASSUME NEW r \in Req, Forward(r) PROVE TypeOK'
    <2>1. outq[r] # <<>> /\ outq[r] \in Seq(Event \cup {End})
      BY <1>6 DEF Forward
    <2>2. Head(outq[r]) \in Event \cup {End} /\ Tail(outq[r]) \in Seq(Event \cup {End})
      BY <2>1
    <2>3. Head(outq[r]) # End => [req |-> r, content |-> Head(outq[r])] \in Frame
      BY <2>2 DEF Frame
    <2>4. down' \in Seq(Frame) /\ sender' \in [Req -> {"none", "run", "ended", "aborted", "dead"}]
      <3>1. \/ sender' = [sender EXCEPT ![r] = "ended"] /\ down' = down
            \/ sender' = [sender EXCEPT ![r] = "dead"] /\ down' = down
            \/ sender' = sender /\ down' = down
            \/ /\ sender' = sender /\ Head(outq[r]) # End
               /\ down' = Append(down, [req |-> r, content |-> Head(outq[r])])
        BY <1>6 DEF Forward
      <3> DEFINE f == [req |-> r, content |-> Head(outq[r])]
      <3>2. Head(outq[r]) # End => f \in Frame
        BY <2>3
      <3>3. \/ sender' = [sender EXCEPT ![r] = "ended"] /\ down' = down
            \/ sender' = [sender EXCEPT ![r] = "dead"] /\ down' = down
            \/ sender' = sender /\ down' = down
            \/ sender' = sender /\ Head(outq[r]) # End /\ down' = Append(down, f)
        BY <3>1
      <3> HIDE DEF f, TypeOK
      <3>4. down' \in Seq(Frame)
        <4>1. down \in Seq(Frame)
          BY DEF TypeOK
        <4> QED
          BY <3>2, <3>3, <4>1
      <3>5. sender' \in [Req -> {"none", "run", "ended", "aborted", "dead"}]
        BY <3>3 DEF TypeOK
      <3> QED
        BY <3>4, <3>5
    <2> QED
      BY <1>6, <2>2, <2>4 DEF Forward
  <1>7. ASSUME NEW r \in Req, Respond(r) PROVE TypeOK'
    <2>1. [req |-> r, content |-> Res] \in Frame
      BY DEF Frame
    <2>2. /\ hnd' = [hnd EXCEPT ![r] = "ended"] \/ hnd' = [hnd EXCEPT ![r] = "dead"]
          /\ down' = down \/ down' = Append(down, [req |-> r, content |-> Res])
          /\ UNCHANGED <<open, up, client, emitted, outq, sender, server, inner>>
      BY <1>7 DEF Respond
    <2>3. hnd' \in [Req -> {"none", "running", "closing", "ended", "dropped", "dead", "mute"}]
      BY <2>2
    <2>4. down' \in Seq(Frame)
      <3> DEFINE f == [req |-> r, content |-> Res]
      <3>1. f \in Frame /\ (down' = down \/ down' = Append(down, f))
        BY <2>1, <2>2
      <3> HIDE DEF f, TypeOK
      <3>2. down \in Seq(Frame)
        BY DEF TypeOK
      <3> QED
        BY <3>1, <3>2
    <2>5. UNCHANGED <<open, up, client, emitted, outq, sender, server, inner>>
      BY <2>2
    <2> QED
      BY <2>3, <2>4, <2>5
  <1>8. CASE Receive
    <2>1. down # <<>> /\ down \in Seq(Frame)
      BY <1>8 DEF Receive
    <2>2. Head(down) \in Frame /\ down' \in Seq(Frame)
      BY <1>8, <2>1 DEF Receive
    <2>3. Head(down).req \in Req /\ Head(down).content \in Event \cup {Res}
      BY <2>2 DEF Frame
    <2>4. UNCHANGED <<open, up, reader, serving>>
      BY <1>8 DEF Receive
    <2>5. inbox' \in [Req -> Seq(Event \cup {Res})]
      <3> DEFINE r == Head(down).req
                 c == Head(down).content
      <3>1. r \in Req /\ c \in Event \cup {Res}
        BY <2>3
      <3>2. inbox' = inbox \/ inbox' = [inbox EXCEPT ![r] = Append(@, c)]
        BY <1>8 DEF Receive
      <3> HIDE DEF r, c
      <3>3. Append(inbox[r], c) \in Seq(Event \cup {Res})
        BY <3>1
      <3> QED
        BY <3>1, <3>2, <3>3
    <2>6. \/ UNCHANGED <<pending, cli>>
          \/ /\ pending' = pending \ {Head(down).req}
             /\ cli' = [cli EXCEPT ![Head(down).req] = "answered"]
      BY <1>8 DEF Receive
    <2> QED
      BY <2>2, <2>3, <2>4, <2>5, <2>6 DEF Ended
  <1>9. CASE Spawn
    <2>1. /\ up # <<>> /\ up' = Tail(up)
          /\ hnd' = [hnd EXCEPT ![Head(up)] = "running"]
          /\ sender' = [sender EXCEPT ![Head(up)] = "run"]
      BY <1>9 DEF Spawn
    <2>2. UNCHANGED <<open, down, client, emitted, outq, server, inner>>
      BY <1>9 DEF Spawn
    <2>3. up' \in Seq(Req)
      BY <2>1
    <2>4. hnd' \in [Req -> {"none", "running", "closing", "ended", "dropped", "dead", "mute"}]
      BY <2>1
    <2>5. sender' \in [Req -> {"none", "run", "ended", "aborted", "dead"}]
      BY <2>1
    <2> QED
      BY <2>2, <2>3, <2>4, <2>5
  <1>10. CASE ReaderEnds
    <2>1. /\ UNCHANGED <<open, up, inbox, serving>> /\ reader' = FALSE /\ down' = <<>> /\ pending' = {}
      BY <1>10 DEF ReaderEnds
    <2>2. cli' \in [Req -> {"idle", "sending", "waiting"} \cup Ended]
      BY <1>10 DEF ReaderEnds, Ended
    <2>3. down' \in Seq(Frame) /\ pending' \subseteq {r \in Req : cli'[r] \in {"sending", "waiting"}}
      BY <2>1
    <2>4. UNCHANGED <<open, up, inbox, hnd, emitted, outq, sender, server, inner>> /\ reader' \in BOOLEAN
      BY <2>1
    <2> HIDE DEF client, serving
    <2> QED
      BY <2>2, <2>3, <2>4
  <1>11. CASE ServerEnds
    <2>1. UNCHANGED <<open, down, client, emitted, outq, inner>> /\ server' = FALSE /\ up' = <<>>
      BY <1>11 DEF ServerEnds
    <2>2. hnd' \in [Req -> {"none", "running", "closing", "ended", "dropped", "dead", "mute"}]
      BY <1>11 DEF ServerEnds
    <2>3. sender' \in [Req -> {"none", "run", "ended", "aborted", "dead"}]
      BY <1>11 DEF ServerEnds
    <2>4. up' \in Seq(Req) /\ server' \in BOOLEAN
      <3>1. up' = <<>> /\ server' = FALSE
        BY <2>1
      <3> HIDE DEF TypeOK, client, serving
      <3>2. up' \in Seq(Req)
        BY <3>1
      <3>3. server' \in BOOLEAN
        BY <3>1
      <3> QED
        BY <3>2, <3>3
    <2>5. UNCHANGED <<open, down, cli, pending, inbox, reader, emitted, outq, inner>>
      BY <2>1
    <2> HIDE DEF client, serving
    <2> QED
      BY <2>2, <2>3, <2>4, <2>5
  <1>12. CASE Close
    BY <1>12 DEF Close
  <1>13. CASE UNCHANGED vars
    BY <1>13 DEF vars
  <1>14. ASSUME NEW r \in Req, Abort(r) PROVE TypeOK'
    <2>1. /\ hnd' = [hnd EXCEPT ![r] = "mute"]
          /\ sender' = [sender EXCEPT ![r] = "aborted"] \/ sender' = sender
          /\ UNCHANGED <<open, up, down, client, emitted, outq, server, inner>>
      BY <1>14 DEF Abort
    <2> QED
      BY <2>1
  <1>15. CASE StopInner
    BY <1>15 DEF StopInner
  <1> QED
    BY <1>1, <1>2, <1>3, <1>4, <1>5, <1>6, <1>7, <1>8, <1>9, <1>10, <1>11, <1>12, <1>13, <1>14, <1>15
    DEF Next, Work, Loops, AllOver

(* A step that moves no frame and nothing of the server's. *)
LEMMA ClientKeeps ==
  ASSUME PeerInv, TypeOK', UNCHANGED <<down, inbox, hnd, emitted, outq, sender>>, open' => open,
         \A r \in pending' : r \in pending \/ hnd[r] = "none"
  PROVE  /\ \A r \in Req : Box(r)' /\ Got(r)' /\ (r \in pending' => Flow(r)')
         /\ \A r \in Req : Fresh(r) => Fresh(r)'
  <1> SUFFICES ASSUME NEW r \in Req
               PROVE  /\ Box(r)' /\ Got(r)' /\ (r \in pending' => Flow(r)')
                      /\ Fresh(r) => Fresh(r)'
    OBVIOUS
  <1>1. TypeOK /\ Box(r) /\ Got(r) /\ (r \in pending => Flow(r)) /\ (hnd[r] = "none" => Fresh(r))
    BY DEF PeerInv, Once
  <1>2. Same(r) /\ Keeps(r)
    BY <1>1, SameDownKeeps DEF Same, serving
  <1>3. hnd[r] = "none" => Flow(r)
    BY <1>1 DEF Fresh, Flow, IsSending
  <1>4. Got(r)'
    <2>1. hnd[r] = "none" => inbox[r] = <<>>
      BY <1>1 DEF Fresh
    <2>2. Got(r)' <=> \A i \in DOMAIN inbox[r] :
              \/ inbox[r][i] = i
              \/ /\ inbox[r][i] = Res /\ i = Len(inbox[r]) /\ i = emitted[r] + 1
                 /\ r \notin pending' /\ hnd[r] = "ended"
      BY DEF Got, serving
    <2> QED
      BY <1>1, <2>1, <2>2 DEF Got
  <1> QED
    BY <1>1, <1>2, <1>3, <1>4, RestStays

LEMMA RequestKeeps ==
  ASSUME PeerInv, TypeOK', NEW r \in Req, Request(r)
  PROVE  PeerInv'
  <1>1. /\ UNCHANGED <<open, up, down, inbox, reader, hnd, emitted, outq, sender>> /\ cli[r] = "idle"
        /\ cli' = [cli EXCEPT ![r] = "sending"] /\ pending' = pending \cup {r}
    BY DEF Request, serving
  <1>2. /\ \A q \in Req : Box(q)' /\ Got(q)' /\ (q \in pending' => Flow(q)')
        /\ \A q \in Req : Fresh(q) => Fresh(q)'
    BY <1>1, ClientKeeps DEF PeerInv, Once
  <1>3. Once'
    BY <1>1, <1>2 DEF PeerInv, Once, TypeOK
  <1>4. Routed'
    BY <1>1 DEF PeerInv, Routed, WaitingIsPending, TypeOK, Ended
  <1> QED
    BY <1>2, <1>3, <1>4 DEF PeerInv

LEMMA SendKeeps ==
  ASSUME PeerInv, TypeOK', NEW r \in Req, Send(r)
  PROVE  PeerInv'
  <1>1. /\ UNCHANGED <<open, down, inbox, reader, hnd, emitted, outq, sender>> /\ cli[r] = "sending"
        /\ pending' \subseteq pending
    BY DEF Send, serving
  <1>2. /\ \A q \in Req : Box(q)' /\ Got(q)' /\ (q \in pending' => Flow(q)')
        /\ \A q \in Req : Fresh(q) => Fresh(q)'
    BY <1>1, ClientKeeps
  <1>3. Once'
    <2>1. CASE open
      <3>1. up' = Append(up, r) /\ cli' = [cli EXCEPT ![r] = "waiting"]
        BY <2>1 DEF Send
      <3>2. /\ Len(up) \in Nat /\ DOMAIN up = 1..Len(up) /\ DOMAIN up' = 1..(Len(up) + 1)
            /\ up'[Len(up) + 1] = r /\ \A n \in 1..Len(up) : up'[n] = up[n]
        BY <3>1 DEF PeerInv, TypeOK
      <3>3. hnd[r] = "none" /\ \A n \in DOMAIN up : up[n] # r
        BY <1>1 DEF PeerInv, Once
      <3>4. \A m, n \in DOMAIN up' : up'[m] = up'[n] => m = n
        BY <3>2, <3>3 DEF PeerInv, Once
      <3>5. \A n \in DOMAIN up' : hnd'[up'[n]] = "none"
        BY <1>1, <3>2, <3>3 DEF PeerInv, Once
      <3>6. \A q \in Req : cli'[q] \in {"idle", "sending"} =>
               hnd'[q] = "none" /\ \A n \in DOMAIN up' : up'[n] # q
        BY <1>1, <3>1, <3>2 DEF PeerInv, Once, TypeOK
      <3> QED
        BY <1>1, <1>2, <3>4, <3>5, <3>6 DEF PeerInv, Once
    <2>2. CASE ~ open
      <3>1. /\ cli' = [cli EXCEPT ![r] = "closed"] \/ cli' = [cli EXCEPT ![r] = "keyerror"]
            /\ UNCHANGED up
        BY <2>2 DEF Send
      <3>2. \A q \in Req : cli'[q] \in {"idle", "sending"} => cli[q] \in {"idle", "sending"}
        BY <3>1 DEF PeerInv, TypeOK
      <3> QED
        BY <1>1, <1>2, <3>1, <3>2 DEF PeerInv, Once
    <2> QED
      BY <2>1, <2>2
  <1>4. Routed'
    <2>1. CASE open
      <3>1. cli' = [cli EXCEPT ![r] = "waiting"] /\ pending' = pending
        BY <2>1 DEF Send
      <3> QED
        BY <1>1, <2>1, <3>1 DEF PeerInv, Routed, WaitingIsPending, TypeOK, Ended
    <2>2. CASE ~ open
      <3>1. /\ cli' = [cli EXCEPT ![r] = "closed"] \/ cli' = [cli EXCEPT ![r] = "keyerror"]
            /\ pending' = pending \ {r}
        BY <2>2 DEF Send
      <3> QED
        BY <1>1, <2>2, <3>1 DEF PeerInv, Routed, WaitingIsPending, TypeOK, Ended
    <2> QED
      BY <2>1, <2>2
  <1> QED
    BY <1>2, <1>3, <1>4 DEF PeerInv

LEMMA TimeOutKeeps ==
  ASSUME PeerInv, TypeOK', NEW r \in Req, TimeOut(r)
  PROVE  PeerInv'
  <1>1. /\ UNCHANGED <<open, up, down, inbox, reader, hnd, emitted, outq, sender>> /\ cli[r] = "waiting"
        /\ cli' = [cli EXCEPT ![r] = "timeout"] /\ pending' = pending \ {r}
    BY DEF TimeOut, serving
  <1>2. /\ \A q \in Req : Box(q)' /\ Got(q)' /\ (q \in pending' => Flow(q)')
        /\ \A q \in Req : Fresh(q) => Fresh(q)'
    BY <1>1, ClientKeeps
  <1>3. Once'
    BY <1>1, <1>2 DEF PeerInv, Once, TypeOK
  <1>4. Routed'
    BY <1>1 DEF PeerInv, Routed, WaitingIsPending, TypeOK, Ended
  <1> QED
    BY <1>2, <1>3, <1>4 DEF PeerInv

LEMMA CloseKeeps ==
  ASSUME PeerInv, TypeOK', open' = FALSE \/ UNCHANGED open,
         UNCHANGED <<up, down, client, hnd, emitted, outq, sender>>
  PROVE  PeerInv'
  <1>1. UNCHANGED <<up, down, inbox, reader, hnd, cli, pending, emitted, outq, sender>>
    BY DEF client
  <1>2. /\ \A q \in Req : Box(q)' /\ Got(q)' /\ (q \in pending' => Flow(q)')
        /\ \A q \in Req : Fresh(q) => Fresh(q)'
    BY <1>1, ClientKeeps
  <1>3. Once' /\ Routed'
    BY <1>1, <1>2 DEF PeerInv, Once, Routed, WaitingIsPending
  <1> QED
    BY <1>2, <1>3 DEF PeerInv

(* Everything of the requests a step does not touch. *)
LEMMA OthersKept ==
  ASSUME PeerInv, TypeOK', NEW r \in Req, UNCHANGED <<open, pending, cli, reader, up>>,
         \A q \in Req \ {r} : Same(q) /\ Keeps(q),
         hnd[r] # "none", hnd'[r] # "none",
         Box(r)', Got(r)', r \in pending => Flow(r)'
  PROVE  PeerInv'
  <1>1. \A q \in Req \ {r} : Box(q)' /\ Got(q)' /\ (q \in pending' => Flow(q)') /\ (Fresh(q) => Fresh(q)')
    BY RestStays DEF PeerInv
  <1>2. Routed'
    BY DEF PeerInv, Routed, WaitingIsPending
  <1>3. \A q \in Req : hnd[q] = "none" <=> hnd'[q] = "none"
    BY DEF Same
  <1>4. Once'
    <2>1. \A q \in Req : hnd'[q] = "none" => Fresh(q)'
      BY <1>1, <1>3 DEF PeerInv, Once
    <2>2. \A n \in DOMAIN up : up[n] \in Req
      BY DEF PeerInv, TypeOK
    <2> QED
      BY <1>3, <2>1, <2>2 DEF PeerInv, Once
  <1> QED
    BY <1>1, <1>2, <1>4 DEF PeerInv

LEMMA EmitKeeps ==
  ASSUME PeerInv, TypeOK', NEW r \in Req, Emit(r)
  PROVE  PeerInv'
  <1>1. /\ hnd[r] = "running" /\ emitted' = [emitted EXCEPT ![r] = @ + 1]
        /\ outq' = [outq EXCEPT ![r] = Append(@, emitted'[r])]
        /\ UNCHANGED <<open, up, down, cli, pending, inbox, reader, hnd, sender>>
    BY DEF Emit, client
  <1>2. TypeOK /\ Box(r) /\ Got(r) /\ (r \in pending => Flow(r))
    BY DEF PeerInv
  <1>3. /\ emitted'[r] = emitted[r] + 1 /\ outq'[r] = Append(outq[r], emitted[r] + 1)
        /\ \A q \in Req \ {r} : emitted'[q] = emitted[q] /\ outq'[q] = outq[q]
    BY <1>1, <1>2 DEF TypeOK
  <1>4. /\ Len(outq'[r]) = Len(outq[r]) + 1 /\ DOMAIN outq'[r] = 1..(Len(outq[r]) + 1)
        /\ outq'[r][Len(outq[r]) + 1] = emitted[r] + 1
        /\ \A i \in 1..Len(outq[r]) : outq'[r][i] = outq[r][i]
        /\ Len(outq[r]) \in Nat /\ DOMAIN outq[r] = 1..Len(outq[r]) /\ emitted[r] \in Nat
    <2>1. outq[r] \in Seq(Event \cup {End}) /\ emitted[r] \in Nat
      BY <1>2, Typed DEF TypeOK
    <2> QED
      BY <1>3, <2>1
  <1>5. Sent(r)' = Sent(r) /\ (IsSending(r)' <=> IsSending(r))
    BY <1>1, <1>3, <1>4 DEF Sent, IsSending
  <1>6. Frames(r)' = Frames(r) /\ \A n \in Frames(r) : down[n].content # Res
    BY <1>1, <1>2 DEF Frames, Box
  <1>7. \A n \in Frames(r) : Number(r, n)' = Number(r, n)
    BY <1>1, <1>6 DEF Number
  <1>8. Box(r)'
    <2>1. sender[r] # "ended"
      BY <1>1, <1>2 DEF Box
    <2>2. ASSUME sender[r] = "run"
          PROVE  /\ Sent(r) \in 0..emitted[r] + 1
                 /\ \A i \in DOMAIN outq'[r] : outq'[r][i] = Sent(r) + i
      <3>1. Sent(r) = emitted[r] - Len(outq[r]) /\ Sent(r) \in 0..emitted[r]
            /\ \A i \in DOMAIN outq[r] : outq[r][i] = Sent(r) + i
        BY <1>1, <1>2, <2>2 DEF Box, Sent
      <3>2. Sent(r) \in 0..emitted[r] + 1
        BY <1>4, <3>1
      <3>3. ASSUME NEW i \in 1..(Len(outq[r]) + 1) PROVE outq'[r][i] = Sent(r) + i
        <4>1. CASE i = Len(outq[r]) + 1
          BY <1>4, <3>1, <4>1
        <4>2. CASE i \in 1..Len(outq[r])
          BY <1>4, <3>1, <4>2
        <4> QED
          BY <1>4, <4>1, <4>2
      <3> QED
        BY <1>4, <3>2, <3>3
    <2> QED
      BY <1>1, <1>3, <1>5, <1>6, <2>1, <2>2 DEF Box
  <1>9. Got(r)'
    BY <1>1, <1>2 DEF Got
  <1>10. Flow(r) => Flow(r)'
    BY <1>1, <1>5, <1>6, <1>7 DEF Flow, Covered
  <1>11. \A q \in Req \ {r} : Same(q) /\ Keeps(q)
    BY <1>1, <1>2, <1>3, SameDownKeeps DEF Same
  <1> QED
    BY <1>1, <1>2, <1>8, <1>9, <1>10, <1>11, OthersKept

LEMMA ReturnKeeps ==
  ASSUME PeerInv, TypeOK', NEW r \in Req, Return(r)
  PROVE  PeerInv'
  <1>1. /\ hnd[r] = "running" /\ hnd' = [hnd EXCEPT ![r] = "closing"]
        /\ outq' = [outq EXCEPT ![r] = Append(@, End)]
        /\ UNCHANGED <<open, up, down, cli, pending, inbox, reader, emitted, sender>>
    BY DEF Return, client
  <1>2. TypeOK /\ Box(r) /\ Got(r) /\ (r \in pending => Flow(r))
    BY DEF PeerInv
  <1>3. /\ hnd'[r] = "closing" /\ outq'[r] = Append(outq[r], End)
        /\ \A q \in Req \ {r} : hnd'[q] = hnd[q] /\ outq'[q] = outq[q]
    BY <1>1, <1>2 DEF TypeOK
  <1>4. /\ Len(outq'[r]) = Len(outq[r]) + 1 /\ DOMAIN outq'[r] = 1..(Len(outq[r]) + 1)
        /\ outq'[r][Len(outq[r]) + 1] = End
        /\ \A i \in 1..Len(outq[r]) : outq'[r][i] = outq[r][i]
        /\ Len(outq[r]) \in Nat /\ DOMAIN outq[r] = 1..Len(outq[r]) /\ emitted[r] \in Nat
    <2>1. outq[r] \in Seq(Event \cup {End}) /\ emitted[r] \in Nat
      BY <1>2, Typed DEF TypeOK
    <2> QED
      BY <1>3, <2>1
  <1>5. sender[r] # "ended"
    BY <1>1, <1>2 DEF Box
  <1>6. (sender[r] = "run" => Sent(r)' = Sent(r)) /\ (IsSending(r)' <=> IsSending(r))
    BY <1>1, <1>3, <1>4 DEF Sent, IsSending
  <1>7. Frames(r)' = Frames(r) /\ \A n \in Frames(r) : Number(r, n)' = Number(r, n)
    BY <1>1 DEF Frames, Number
  <1>8. \A n \in Frames(r) : down[n].content # Res
    BY <1>1, <1>2 DEF Box
  <1>9. Box(r)'
    <2>1. ASSUME sender[r] = "run"
          PROVE  \A i \in DOMAIN outq'[r] : outq'[r][i] = IF i = Len(outq'[r]) THEN End ELSE Sent(r) + i
      <3>1. \A i \in DOMAIN outq[r] : outq[r][i] = Sent(r) + i
        BY <1>1, <1>2, <2>1 DEF Box
      <3> SUFFICES ASSUME NEW i \in 1..(Len(outq[r]) + 1)
                   PROVE  outq'[r][i] = IF i = Len(outq[r]) + 1 THEN End ELSE Sent(r) + i
        BY <1>4
      <3>2. CASE i = Len(outq[r]) + 1
        BY <1>4, <3>2
      <3>3. CASE i \in 1..Len(outq[r])
        BY <1>4, <3>1, <3>3
      <3> QED
        BY <1>4, <3>2, <3>3
    <2>2. sender[r] = "run" => Sent(r) \in 0..emitted[r]
      BY <1>2 DEF Box
    <2> QED
      BY <1>1, <1>3, <1>5, <1>6, <1>7, <1>8, <2>1, <2>2 DEF Box
  <1>10. Got(r)'
    BY <1>1, <1>2 DEF Got
  <1>11. Flow(r) => Flow(r)'
    BY <1>1, <1>5, <1>6, <1>7 DEF Flow, Covered, IsSending
  <1>12. \A q \in Req \ {r} : Same(q) /\ Keeps(q)
    BY <1>1, <1>2, <1>3, SameDownKeeps DEF Same
  <1> QED
    BY <1>1, <1>2, <1>3, <1>9, <1>10, <1>11, <1>12, OthersKept

LEMMA AbortKeeps ==
  ASSUME PeerInv, TypeOK', NEW r \in Req, Abort(r)
  PROVE  PeerInv'
  <1>1. /\ hnd[r] = "running" /\ hnd' = [hnd EXCEPT ![r] = "mute"]
        /\ sender' = [sender EXCEPT ![r] = IF @ = "run" THEN "aborted" ELSE @]
        /\ UNCHANGED <<open, up, down, cli, pending, inbox, reader, emitted, outq>>
    BY DEF Abort, client
  <1>2. TypeOK /\ Box(r) /\ Got(r) /\ (r \in pending => Flow(r))
    BY DEF PeerInv
  <1>3. /\ hnd'[r] = "mute" /\ sender'[r] = IF sender[r] = "run" THEN "aborted" ELSE sender[r]
        /\ \A q \in Req \ {r} : hnd'[q] = hnd[q] /\ sender'[q] = sender[q]
    BY <1>1, <1>2 DEF TypeOK
  <1>4. Frames(r)' = Frames(r) /\ \A n \in Frames(r) : Number(r, n)' = Number(r, n)
    BY <1>1 DEF Frames, Number
  <1>5. \A n \in Frames(r) : down[n].content # Res
    BY <1>1, <1>2 DEF Box
  <1>6. Box(r)'
    <2>1. sender'[r] # "run" /\ sender'[r] # "ended"
      BY <1>1, <1>2, <1>3 DEF Box
    <2> QED
      BY <1>1, <1>4, <1>5, <2>1 DEF Box
  <1>7. Got(r)'
    BY <1>1, <1>2 DEF Got
  <1>8. ~ IsSending(r)'
    BY <1>3 DEF IsSending
  <1>9. Flow(r) => Flow(r)'
    BY <1>1, <1>4, <1>8 DEF Flow, Covered
  <1>10. \A q \in Req \ {r} : Same(q) /\ Keeps(q)
    BY <1>1, <1>2, <1>3, SameDownKeeps DEF Same
  <1> QED
    BY <1>1, <1>2, <1>3, <1>6, <1>7, <1>9, <1>10, OthersKept

(* The outbox sends its first event. *)
LEMMA SendingKeeps ==
  ASSUME PeerInv, TypeOK', NEW r \in Req, NEW e \in Frame, e.req = r, open, UNCHANGED open,
         UNCHANGED <<pending, inbox, emitted>>,
         r \in pending, IsSending(r), down' = Append(down, e),
         \A n \in Frames(r) : down[n].content # Res,
         NEW number \in Nat, number = Sent(r) + 1,
         e.content = IF number = emitted[r] + 1 THEN Res ELSE number,
         IsSending(r)' => Sent(r)' = number /\ number # emitted[r] + 1
  PROVE  Flow(r)'
  <1>1. TypeOK /\ Flow(r)
    BY DEF PeerInv
  <1>0. PICK last \in Nat : last = Len(down) + 1
    BY <1>1, Typed
  <1>2. /\ Frames(r)' = Frames(r) \cup {last}
        /\ \A n \in Frames(r) : down'[n] = down[n]
        /\ down'[last] = e /\ Len(down') = last
    BY <1>0, <1>1, FramesOfAppend
  <1>3. \A n \in Frames(r) : Number(r, n)' = Number(r, n) /\ Number(r, n) <= Sent(r)
    BY <1>1, <1>2 DEF Number, Flow
  <1>4. Number(r, last)' = number
    <2>1. Number(r, last)' = IF e.content = Res THEN emitted[r] + 1 ELSE e.content
      BY <1>2 DEF Number
    <2> QED
      BY <2>1, PeerAssumption
  <1>5. /\ \A n \in Frames(r) : n \in 1..(last - 1) /\ n \in Nat /\ Number(r, n) \in Nat
        /\ Len(inbox[r]) \in Nat /\ Len(inbox[r]) <= Sent(r) /\ Sent(r) \in Int
    <2>1. Sent(r) \in Int /\ Len(inbox[r]) \in Nat
      BY <1>1, Typed DEF Sent
    <2>2. \A n \in Frames(r) : n \in 1..(last - 1) /\ n \in Nat /\ Number(r, n) \in Nat
      BY <1>0, <1>1, Typed
    <2>3. Len(inbox[r]) <= Sent(r)
      BY <1>1 DEF Flow
    <2> QED
      BY <2>1, <2>2, <2>3
  <1>6. \A k \in Nat : Len(inbox[r]) < k /\ k < number =>
           \E m \in Frames(r) : m < last /\ down'[m].content = k
    <2>1. Covered(r, Sent(r) + 1, Len(down) + 1)
      BY <1>1 DEF Flow
    <2>2. Covered(r, number, last)
      BY <1>0, <2>1
    <2> QED
      BY <1>2, <2>2 DEF Covered
  <1>7. Covered(r, number, last)'
    BY <1>2, <1>6 DEF Covered
  <1>8. \A n \in Frames(r)' : Len(inbox[r]) < Number(r, n)' /\ Covered(r, Number(r, n), n)'
    <2> SUFFICES ASSUME NEW n \in Frames(r)'
                 PROVE  Len(inbox[r]) < Number(r, n)' /\ Covered(r, Number(r, n), n)'
      OBVIOUS
    <2>1. CASE n \in Frames(r)
      <3>1. Len(inbox[r]) < Number(r, n) /\ Covered(r, Number(r, n), n)
        BY <1>1, <2>1 DEF Flow
      <3> QED
        BY <1>2, <1>3, <2>1, <3>1 DEF Covered
    <2>2. CASE n = last
      <3>1. Number(r, n)' = number /\ Len(inbox[r]) < number
        BY <1>4, <1>5, <2>2
      <3>2. Covered(r, Number(r, n), n)'
        BY <1>7, <2>2, <3>1 DEF Covered
      <3> QED
        BY <3>1, <3>2
    <2> QED
      BY <1>2, <2>1, <2>2
  <1>9. \A m, n \in Frames(r)' : m < n => Number(r, m)' < Number(r, n)'
    <2> SUFFICES ASSUME NEW m \in Frames(r)', NEW n \in Frames(r)', m < n
                 PROVE  Number(r, m)' < Number(r, n)'
      OBVIOUS
    <2>1. m \in Frames(r)
      <3>1. n \in Nat /\ n <= last
        BY <1>2, <1>5
      <3> QED
        BY <1>2, <3>1
    <2>2. CASE n \in Frames(r)
      BY <1>1, <1>3, <2>1, <2>2 DEF Flow
    <2>3. CASE n = last
      <3>1. Number(r, m)' <= Sent(r) /\ Number(r, m)' \in Nat
        BY <1>3, <1>5, <2>1
      <3>2. Number(r, n)' = number
        BY <1>4, <2>3
      <3> QED
        BY <1>5, <3>1, <3>2
    <2> QED
      BY <1>2, <2>2, <2>3
  <1>10. IsSending(r)' => /\ Len(inbox[r]) <= Sent(r)'
                          /\ \A n \in Frames(r)' : Number(r, n)' <= Sent(r)'
                          /\ Covered(r, Sent(r) + 1, Len(down) + 1)'
    <2> SUFFICES ASSUME IsSending(r)'
                 PROVE  /\ Len(inbox[r]) <= number
                        /\ \A n \in Frames(r)' : Number(r, n)' <= number
                        /\ Covered(r, Sent(r) + 1, Len(down) + 1)'
      OBVIOUS
    <2>1. Len(inbox[r]) <= number
      BY <1>5
    <2>2. \A n \in Frames(r)' : Number(r, n)' <= number
      <3>1. \A n \in Frames(r) : Number(r, n)' <= number
        BY <1>3, <1>5
      <3> QED
        BY <1>2, <1>4, <3>1
    <2>3. ASSUME NEW k \in Nat, Len(inbox[r]) < k, k < number + 1
          PROVE  \E m \in Frames(r)' : m < last + 1 /\ down'[m].content = k
      <3>1. CASE k < number
        <4>1. PICK m \in Frames(r) : m < last /\ down'[m].content = k
          BY <1>6, <2>3, <3>1
        <4> QED
          BY <1>2, <1>5, <4>1
      <3>2. CASE k = number
        <4>1. e.content = number
          BY <2>3, <3>2
        <4> QED
          BY <1>2, <3>2, <4>1
      <3>3. k < number \/ k = number
        BY <2>3
      <3> QED
        BY <3>1, <3>2, <3>3
    <2>4. Covered(r, Sent(r) + 1, Len(down) + 1)'
      BY <1>2, <2>3 DEF Covered
    <2> QED
      BY <2>1, <2>2, <2>4
  <1> QED
    BY <1>8, <1>9, <1>10 DEF Flow

LEMMA RespondKeeps ==
  ASSUME PeerInv, TypeOK', NEW r \in Req, Respond(r)
  PROVE  PeerInv'
  <1>1. /\ hnd[r] = "closing" /\ sender[r] \in {"ended", "dead"}
        /\ hnd' = [hnd EXCEPT ![r] = IF sender[r] = "ended" THEN "ended" ELSE "dead"]
        /\ UNCHANGED <<open, up, cli, pending, inbox, reader, emitted, outq, sender>>
    BY DEF Respond, client
  <1>2. TypeOK /\ Box(r) /\ Got(r) /\ (r \in pending => Flow(r))
    BY DEF PeerInv
  <1>3. /\ hnd'[r] = IF sender[r] = "ended" THEN "ended" ELSE "dead"
        /\ \A q \in Req \ {r} : hnd'[q] = hnd[q]
    BY <1>1, <1>2 DEF TypeOK
  <1>4. Got(r)'
    BY <1>1, <1>2 DEF Got
  <1>5. \A n \in Frames(r) : down[n].content # Res
    BY <1>1, <1>2 DEF Box
  <1>6. ~ IsSending(r)'
    BY <1>1, <1>3 DEF IsSending
  <1> DEFINE e == [req |-> r, content |-> Res]
  <1>7. CASE down' = down
    <2>1. Frames(r)' = Frames(r) /\ \A n \in Frames(r) : Number(r, n)' = Number(r, n)
      BY <1>1, <1>7 DEF Frames, Number
    <2>2. Box(r)'
      BY <1>1, <1>2, <1>5, <1>7, <2>1 DEF Box
    <2>3. Flow(r) => Flow(r)'
      BY <1>1, <1>6, <1>7, <2>1 DEF Flow, Covered
    <2>4. \A q \in Req \ {r} : Same(q) /\ Keeps(q)
      BY <1>1, <1>2, <1>3, <1>7, SameDownKeeps DEF Same
    <2> QED
      BY <1>1, <1>2, <1>3, <1>4, <2>2, <2>3, <2>4, OthersKept
  <1>8. CASE sender[r] = "ended" /\ open /\ down' = Append(down, e)
    <2>1. e \in Frame /\ e.req = r /\ e.content = Res
      BY DEF Frame
    <2> HIDE DEF e
    <2>2. \A q \in Req :
            /\ Frames(q)' = IF q = r THEN Frames(q) \cup {Len(down) + 1} ELSE Frames(q)
            /\ \A n \in Frames(q) : down'[n] = down[n]
            /\ down'[Len(down) + 1] = e /\ Len(down') = Len(down) + 1
      BY <1>2, <1>8, <2>1, FramesOfAppend
    <2>3. Len(down) \in Nat /\ emitted[r] \in Nat
      BY <1>2, Typed
    <2>4. \A q \in Req \ {r} : Same(q) /\ Keeps(q)
      BY <1>1, <1>3, <2>2, <2>3 DEF Same, Keeps
    <2>5. Box(r)'
      BY <1>1, <1>2, <1>3, <1>8 DEF Box
    <2>6. IsSending(r) /\ Sent(r) = emitted[r]
      BY <1>1, <1>2, <1>8, <2>3 DEF IsSending, Sent, Box
    <2>7. r \in pending => Flow(r)'
      <3> DEFINE number == emitted[r] + 1
      <3>1. number \in Nat /\ number = Sent(r) + 1 /\ number = emitted[r] + 1
        BY <2>3, <2>6
      <3> HIDE DEF number
      <3> QED
        BY <1>1, <1>5, <1>6, <1>8, <2>1, <2>6, <3>1, SendingKeeps
    <2> QED
      BY <1>1, <1>2, <1>3, <1>4, <1>8, <2>4, <2>5, <2>7, OthersKept
  <1> QED
    BY <1>7, <1>8 DEF Respond

LEMMA ForwardKeeps ==
  ASSUME PeerInv, TypeOK', NEW r \in Req, Forward(r)
  PROVE  PeerInv'
  <1>1. /\ sender[r] = "run" /\ outq[r] # <<>> /\ outq' = [outq EXCEPT ![r] = Tail(@)]
        /\ UNCHANGED <<open, up, cli, pending, inbox, reader, hnd, emitted>>
    BY DEF Forward, client
  <1>2. TypeOK /\ Box(r) /\ Got(r) /\ (r \in pending => Flow(r))
    BY DEF PeerInv
  <1>3. outq'[r] = Tail(outq[r]) /\ \A q \in Req \ {r} : outq'[q] = outq[q]
    BY <1>1, <1>2 DEF TypeOK
  <1>4. /\ Len(outq[r]) \in Nat \ {0} /\ DOMAIN outq[r] = 1..Len(outq[r])
        /\ Len(outq'[r]) = Len(outq[r]) - 1 /\ DOMAIN outq'[r] = 1..(Len(outq[r]) - 1)
        /\ \A i \in 1..(Len(outq[r]) - 1) : outq'[r][i] = outq[r][i + 1]
        /\ Head(outq[r]) = outq[r][1] /\ outq[r][1] \in Event \cup {End}
    <2> DEFINE q == outq[r]
    <2>1. q \in Seq(Event \cup {End}) /\ q # <<>> /\ outq'[r] = Tail(q)
      BY <1>1, <1>2, <1>3 DEF TypeOK
    <2> HIDE DEF q
    <2>2. /\ Len(q) \in Nat \ {0} /\ DOMAIN q = 1..Len(q)
          /\ Head(q) = q[1] /\ q[1] \in Event \cup {End}
      BY <2>1
    <2>3. /\ Len(Tail(q)) = Len(q) - 1 /\ DOMAIN Tail(q) = 1..(Len(q) - 1)
          /\ \A i \in 1..(Len(q) - 1) : Tail(q)[i] = q[i + 1]
      BY <2>1
    <2> QED
      BY <2>1, <2>2, <2>3 DEF q
  <1>5. /\ hnd[r] \in {"running", "closing"} /\ Sent(r) \in 0..emitted[r] /\ emitted[r] \in Nat
        /\ \A i \in 1..Len(outq[r]) : outq[r][i] = IF hnd[r] = "closing" /\ i = Len(outq[r]) THEN End
                                                                                           ELSE Sent(r) + i
    BY <1>1, <1>2, <1>4, Typed DEF Box
  <1>6. Sent(r) = IF hnd[r] = "closing" THEN emitted[r] + 1 - Len(outq[r]) ELSE emitted[r] - Len(outq[r])
    BY <1>1 DEF Sent
  <1>7. IF Head(outq[r]) = End
          THEN hnd[r] = "closing" /\ Len(outq[r]) = 1
          ELSE Head(outq[r]) = Sent(r) + 1 /\ Sent(r) + 1 \in 1..emitted[r]
               /\ (hnd[r] = "closing" => Len(outq[r]) # 1)
    <2>1. Sent(r) + 1 # End
      BY <1>5, PeerAssumption
    <2>2. outq[r][1] = IF hnd[r] = "closing" /\ 1 = Len(outq[r]) THEN End ELSE Sent(r) + 1
      <3>1. 1 \in 1..Len(outq[r])
        BY <1>4
      <3> QED
        BY <1>5, <3>1
    <2>3. ~ (hnd[r] = "closing" /\ 1 = Len(outq[r])) => Sent(r) + 1 \in 1..emitted[r]
      <3>1. Len(outq[r]) \in Nat \ {0} /\ Sent(r) \in 0..emitted[r] /\ emitted[r] \in Nat
        BY <1>4, <1>5
      <3>2. CASE hnd[r] = "closing"
        <4>1. Sent(r) = emitted[r] + 1 - Len(outq[r])
          BY <1>6, <3>2
        <4> DEFINE len == Len(outq[r])
        <4>2. len \in Nat \ {0} /\ Sent(r) = emitted[r] + 1 - len
          BY <3>1, <4>1
        <4> HIDE DEF len
        <4>3. len # 1 => Sent(r) + 1 \in 1..emitted[r]
          BY <3>1, <4>2
        <4> QED
          BY <3>2, <4>3 DEF len
      <3>3. CASE hnd[r] # "closing"
        <4>1. Sent(r) = emitted[r] - Len(outq[r])
          BY <1>6, <3>3
        <4> QED
          BY <3>1, <4>1
      <3> QED
        BY <3>2, <3>3
    <2> QED
      BY <1>4, <2>1, <2>2, <2>3
  <1>8. Got(r)'
    BY <1>1, <1>2 DEF Got
  <1>9. \A n \in Frames(r) : down[n].content # Res
    BY <1>2, <1>5 DEF Box
  <1>10. IsSending(r)
    BY <1>1, <1>5 DEF IsSending
  <1>11. ASSUME down' = down, IsSending(r)' => ~ open \/ Sent(r)' = Sent(r), Box(r)',
                \A q \in Req \ {r} : sender'[q] = sender[q]
         PROVE  PeerInv'
    <2>1. Frames(r)' = Frames(r) /\ \A n \in Frames(r) : Number(r, n)' = Number(r, n)
      BY <1>1, <1>11 DEF Frames, Number
    <2>2. Flow(r) => Flow(r)'
      BY <1>1, <1>10, <1>11, <2>1 DEF Flow, Covered
    <2>3. \A q \in Req \ {r} : Same(q) /\ Keeps(q)
      BY <1>1, <1>2, <1>3, <1>11, SameDownKeeps DEF Same
    <2> QED
      BY <1>1, <1>2, <1>5, <1>8, <1>11, <2>2, <2>3, OthersKept
  <1>12. CASE Head(outq[r]) = End
    <2>1. sender' = [sender EXCEPT ![r] = "ended"] /\ down' = down
      BY <1>12 DEF Forward
    <2>2. sender'[r] = "ended" /\ \A q \in Req \ {r} : sender'[q] = sender[q]
      BY <1>2, <2>1 DEF TypeOK
    <2>3. outq'[r] = <<>>
      <3>1. outq'[r] \in Seq(Event \cup {End}) /\ Len(outq'[r]) = 0
        BY <1>4, <1>7, <1>12 DEF TypeOK
      <3> QED
        BY <3>1
    <2>4. Sent(r)' = Sent(r)
      BY <1>1, <1>4, <1>5, <1>6, <1>7, <1>12, <2>2 DEF Sent
    <2>5. Box(r)'
      BY <1>1, <1>2, <1>7, <1>9, <1>12, <2>1, <2>2, <2>3 DEF Box, Frames
    <2> QED
      BY <1>11, <2>1, <2>2, <2>4, <2>5
  <1>13. CASE Head(outq[r]) # End
    <2>1. \/ sender' = [sender EXCEPT ![r] = "dead"] /\ down' = down
          \/ ~ open /\ sender' = sender /\ down' = down
          \/ open /\ sender' = sender /\ down' = Append(down, [req |-> r, content |-> Head(outq[r])])
      BY <1>13 DEF Forward
    <2>2. CASE sender' = [sender EXCEPT ![r] = "dead"] /\ down' = down
      <3>1. sender'[r] = "dead" /\ \A q \in Req \ {r} : sender'[q] = sender[q]
        BY <1>2, <2>2 DEF TypeOK
      <3>2. ~ IsSending(r)'
        BY <3>1 DEF IsSending
      <3>3. Box(r)'
        BY <1>1, <1>9, <2>2, <3>1 DEF Box, Frames
      <3> QED
        BY <1>11, <2>2, <3>1, <3>2, <3>3
    <2>3. ASSUME sender' = sender PROVE Sent(r)' = Sent(r) + 1
      BY <1>1, <1>4, <1>5, <1>6, <2>3 DEF Sent
    <2>4. ASSUME sender' = sender
          PROVE  \A i \in DOMAIN outq'[r] :
                    outq'[r][i] = IF hnd[r] = "closing" /\ i = Len(outq'[r]) THEN End ELSE Sent(r)' + i
      <3> SUFFICES ASSUME NEW i \in 1..(Len(outq[r]) - 1)
                   PROVE  outq'[r][i] = IF hnd[r] = "closing" /\ i = Len(outq[r]) - 1 THEN End
                                                                                     ELSE Sent(r)' + i
        BY <1>4
      <3>1. outq'[r][i] = outq[r][i + 1] /\ i + 1 \in 1..Len(outq[r])
        BY <1>4
      <3>2. outq[r][i + 1] = IF hnd[r] = "closing" /\ i + 1 = Len(outq[r]) THEN End ELSE Sent(r) + (i + 1)
        BY <1>5, <3>1
      <3>3. Sent(r) + (i + 1) = Sent(r)' + i /\ (i + 1 = Len(outq[r]) <=> i = Len(outq[r]) - 1)
        BY <1>4, <1>5, <2>3, <2>4
      <3> QED
        BY <3>1, <3>2, <3>3
    <2>5. CASE ~ open /\ sender' = sender /\ down' = down
      <3>1. Box(r)'
        BY <1>1, <1>5, <1>7, <1>9, <1>13, <2>3, <2>4, <2>5 DEF Box, Frames
      <3> QED
        BY <1>11, <2>5, <3>1
    <2> DEFINE e == [req |-> r, content |-> Head(outq[r])]
    <2>6. CASE open /\ sender' = sender /\ down' = Append(down, e)
      <3>1. e \in Frame /\ e.req = r /\ e.content = Sent(r) + 1
        BY <1>4, <1>7, <1>13 DEF Frame
      <3> HIDE DEF e
      <3>2. \A q \in Req :
              /\ Frames(q)' = IF q = r THEN Frames(q) \cup {Len(down) + 1} ELSE Frames(q)
              /\ \A n \in Frames(q) : down'[n] = down[n]
              /\ down'[Len(down) + 1] = e /\ Len(down') = Len(down) + 1
        BY <1>2, <2>6, <3>1, FramesOfAppend
      <3>3. Len(down) \in Nat
        BY <1>2, Typed
      <3>4. \A q \in Req \ {r} : Same(q) /\ Keeps(q)
        <4> SUFFICES ASSUME NEW q \in Req \ {r} PROVE Same(q) /\ Keeps(q)
          OBVIOUS
        <4>1. Same(q)
          BY <1>1, <1>3, <2>6 DEF Same
        <4>2. Keeps(q)
          BY <3>2, <3>3 DEF Keeps
        <4> QED
          BY <4>1, <4>2
      <3>5. \A n \in Frames(r)' : down'[n].content # Res
        <4>1. Sent(r) + 1 # Res
          BY <1>5, PeerAssumption
        <4> QED
          BY <1>9, <3>1, <3>2, <4>1
      <3>6. Box(r)'
        <4>1. Sent(r)' \in 0..emitted[r] /\ sender'[r] = "run"
          BY <1>1, <1>5, <1>7, <1>13, <2>3, <2>6
        <4> QED
          BY <1>1, <1>5, <2>4, <2>6, <3>5, <4>1 DEF Box
      <3>7. r \in pending => Flow(r)'
        <4> DEFINE number == Sent(r) + 1
        <4>1. number \in Nat /\ number = Sent(r) + 1 /\ number # emitted[r] + 1
              /\ Sent(r)' = number /\ e.content = number
          BY <1>5, <1>7, <1>13, <2>3, <2>6, <3>1
        <4> HIDE DEF number
        <4> QED
          BY <1>1, <1>9, <1>10, <2>6, <3>1, <4>1, SendingKeeps
      <3> QED
        BY <1>1, <1>2, <1>5, <1>8, <3>4, <3>6, <3>7, OthersKept
    <2> QED
      BY <2>1, <2>2, <2>5, <2>6
  <1> QED
    BY <1>12, <1>13

LEMMA SpawnKeeps ==
  ASSUME PeerInv, TypeOK', Spawn
  PROVE  PeerInv'
  <1>1. PICK r \in Req : /\ up # <<>> /\ r = Head(up) /\ up' = Tail(up)
                         /\ hnd' = [hnd EXCEPT ![r] = "running"]
                         /\ sender' = [sender EXCEPT ![r] = "run"]
    <2>1. up # <<>> /\ up \in Seq(Req)
      BY DEF Spawn, PeerInv, TypeOK
    <2>2. Head(up) \in Req
      BY <2>1
    <2> QED
      BY <2>1, <2>2 DEF Spawn
  <1>2. UNCHANGED <<open, down, cli, pending, inbox, reader, emitted, outq>>
    BY DEF Spawn, client
  <1>3. /\ Len(up) \in Nat \ {0} /\ DOMAIN up = 1..Len(up) /\ DOMAIN up' = 1..(Len(up) - 1)
        /\ up[1] = r /\ \A n \in 1..(Len(up) - 1) : up'[n] = up[n + 1]
        /\ \A n \in 1..Len(up) : up[n] \in Req
    <2>1. up \in Seq(Req)
      BY DEF PeerInv, TypeOK
    <2> QED
      BY <1>1, <2>1
  <1>4. /\ hnd'[r] = "running" /\ sender'[r] = "run"
        /\ \A q \in Req \ {r} : hnd'[q] = hnd[q] /\ sender'[q] = sender[q]
    <2>1. DOMAIN hnd = Req /\ DOMAIN sender = Req
      BY DEF PeerInv, TypeOK
    <2> QED
      BY <1>1, <2>1
  <1>5. \A n \in 1..(Len(up) - 1) : up[n + 1] # r
    BY <1>3 DEF PeerInv, Once
  <1>6. hnd[r] = "none" /\ Fresh(r) /\ cli[r] \notin {"idle", "sending"}
    BY <1>3 DEF PeerInv, Once
  <1>7. Frames(r)' = {}
    BY <1>2, <1>6 DEF Fresh, Frames
  <1>8. Sent(r)' = 0 /\ inbox[r] = <<>> /\ outq[r] = <<>> /\ emitted[r] = 0
    <2>1. inbox[r] = <<>> /\ outq[r] = <<>> /\ emitted[r] = 0 /\ Len(<<>>) = 0
      BY <1>6 DEF Fresh
    <2> QED
      <3>1. hnd'[r] = "running" /\ emitted'[r] = 0 /\ Len(outq'[r]) = 0
        BY <1>2, <1>4, <2>1
      <3>2. Sent(r)' = emitted'[r] - Len(outq'[r])
        BY <3>1 DEF Sent
      <3> QED
        BY <2>1, <3>1, <3>2
  <1>9. Box(r)' /\ Got(r)'
    BY <1>2, <1>4, <1>7, <1>8 DEF Box, Got
  <1>10. Flow(r)'
    BY <1>2, <1>7, <1>8 DEF Flow, Covered
  <1>11. \A q \in Req \ {r} : Box(q)' /\ Got(q)' /\ (q \in pending' => Flow(q)') /\ (Fresh(q) => Fresh(q)')
    <2> SUFFICES ASSUME NEW q \in Req \ {r}
                 PROVE  Box(q)' /\ Got(q)' /\ (q \in pending' => Flow(q)') /\ (Fresh(q) => Fresh(q)')
      OBVIOUS
    <2>1. TypeOK /\ Box(q) /\ Got(q) /\ (q \in pending => Flow(q))
      BY DEF PeerInv
    <2>2. Same(q) /\ Keeps(q)
      BY <1>2, <1>4, <2>1, SameDownKeeps DEF Same
    <2> QED
      BY <1>2, <2>1, <2>2, RestStays
  <1>12. Once'
    <2>1. \A q \in Req : hnd'[q] = "none" => Fresh(q)'
      BY <1>4, <1>11 DEF PeerInv, Once
    <2>2. \A n \in DOMAIN up' : up'[n] = up[n + 1] /\ n + 1 \in DOMAIN up /\ n \in Nat /\ up'[n] \in Req \ {r}
      BY <1>3, <1>5
    <2>3. \A q \in Req : cli'[q] \in {"idle", "sending"} =>
            hnd'[q] = "none" /\ \A n \in DOMAIN up' : up'[n] # q
      BY <1>2, <1>4, <1>6, <2>2 DEF PeerInv, Once
    <2>4. \A n \in DOMAIN up' : hnd'[up'[n]] = "none"
      BY <1>4, <2>2 DEF PeerInv, Once
    <2>5. ASSUME NEW m \in DOMAIN up', NEW n \in DOMAIN up', up'[m] = up'[n] PROVE m = n
      <3>1. m + 1 = n + 1 /\ m \in Nat /\ n \in Nat
        BY <2>2, <2>5 DEF PeerInv, Once
      <3> QED
        BY <3>1
    <2> QED
      BY <2>1, <2>3, <2>4, <2>5 DEF Once
  <1>13. Routed'
    BY <1>2 DEF PeerInv, Routed, WaitingIsPending
  <1> QED
    BY <1>9, <1>10, <1>11, <1>12, <1>13 DEF PeerInv

LEMMA ReaderEndsKeeps ==
  ASSUME PeerInv, TypeOK', ReaderEnds
  PROVE  PeerInv'
  <1>1. /\ ~ open /\ reader' = FALSE /\ down' = <<>> /\ pending' = {}
        /\ cli' = [r \in Req |-> IF r \in pending /\ cli[r] = "waiting" THEN "closed" ELSE cli[r]]
        /\ UNCHANGED <<open, up, inbox, hnd, emitted, outq, sender>>
    BY DEF ReaderEnds, serving
  <1>2. \A r \in Req : Frames(r)' = {}
    BY <1>1 DEF Frames
  <1>3. \A r \in Req : Box(r)' /\ Got(r)'
    <2> SUFFICES ASSUME NEW r \in Req PROVE Box(r)' /\ Got(r)'
      OBVIOUS
    <2>1. Box(r) /\ Got(r)
      BY DEF PeerInv
    <2>2. Sent(r)' = Sent(r)
      BY <1>1 DEF Sent
    <2> QED
      BY <1>1, <1>2, <2>1, <2>2 DEF Box, Got
  <1>4. Once'
    <2>1. \A r \in Req : Fresh(r) => Fresh(r)'
      BY <1>1, <1>2 DEF Fresh
    <2>2. \A r \in Req : cli'[r] \in {"idle", "sending"} => cli[r] \in {"idle", "sending"}
      BY <1>1
    <2> QED
      BY <1>1, <2>1, <2>2 DEF PeerInv, Once
  <1>5. Routed'
    BY <1>1 DEF PeerInv, Routed, WaitingIsPending
  <1> QED
    BY <1>1, <1>3, <1>4, <1>5 DEF PeerInv

LEMMA ServerEndsKeeps ==
  ASSUME PeerInv, TypeOK', ServerEnds
  PROVE  PeerInv'
  <1>1. /\ ~ open /\ up' = <<>>
        /\ UNCHANGED <<open, down, cli, pending, inbox, reader, emitted, outq>>
    BY DEF ServerEnds, client
  <1>2. \A r \in Req :
          /\ hnd'[r] = IF hnd[r] \in {"running", "closing"} THEN "dropped" ELSE hnd[r]
          /\ sender'[r] = IF hnd[r] \in {"running", "closing"} /\ sender[r] = "run" THEN "aborted"
                                                                                    ELSE sender[r]
    BY DEF ServerEnds
  <1>3. \A r \in Req : Frames(r)' = Frames(r) /\ \A n \in Frames(r) : Number(r, n)' = Number(r, n)
    BY <1>1 DEF Frames, Number
  <1>4. ASSUME NEW r \in Req PROVE Box(r)' /\ Got(r)' /\ (r \in pending' => Flow(r)')
    <2>1. Box(r) /\ Got(r) /\ (r \in pending => Flow(r))
      BY DEF PeerInv
    <2>2. sender'[r] # "run"
      BY <1>2, <2>1 DEF Box
    <2>3. Box(r)'
      BY <1>1, <1>2, <1>3, <2>1, <2>2 DEF Box
    <2>4. Got(r)'
      BY <1>1, <1>2, <2>1 DEF Got
    <2>5. r \in pending' => Flow(r)'
      BY <1>1, <1>3, <2>1 DEF Flow, Covered
    <2> QED
      BY <2>3, <2>4, <2>5
  <1>5. Once'
    <2>1. \A r \in Req : hnd'[r] = "none" <=> hnd[r] = "none"
      BY <1>2
    <2>2. \A r \in Req : Fresh(r) => Fresh(r)'
      BY <1>1, <1>2, <1>3 DEF Fresh
    <2> QED
      BY <1>1, <2>1, <2>2 DEF PeerInv, Once
  <1>6. Routed'
    BY <1>1 DEF PeerInv, Routed, WaitingIsPending
  <1> QED
    BY <1>4, <1>5, <1>6 DEF PeerInv

(* The head of the line leaves: it is another's, or the next one to read.  *)
LEMMA FlowOfTail ==
  ASSUME TypeOK, TypeOK', NEW r \in Req, Flow(r), down # <<>>, down' = Tail(down),
         UNCHANGED <<open, emitted, hnd, sender, outq>>,
         \/ 1 \notin Frames(r) /\ Len(inbox'[r]) = Len(inbox[r])
         \/ /\ 1 \in Frames(r) /\ down[1].content # Res
            /\ Len(inbox'[r]) = Number(r, 1) /\ Number(r, 1) = Len(inbox[r]) + 1
  PROVE  Flow(r)'
  <1>1. /\ Len(inbox[r]) \in Nat /\ Len(inbox'[r]) \in Nat /\ Len(inbox[r]) <= Len(inbox'[r])
        /\ Len(down) \in Nat /\ Sent(r) \in Int
        /\ \A n \in Frames(r) : n \in Nat /\ n >= 1 /\ Number(r, n) \in Nat
    <2>1. Len(inbox[r]) \in Nat /\ Len(down) \in Nat /\ Sent(r) \in Int
          /\ \A n \in Frames(r) : n \in Nat /\ n >= 1 /\ Number(r, n) \in Nat
      BY Typed DEF Sent
    <2>2. inbox'[r] \in Seq(Event \cup {Res})
      BY DEF TypeOK
    <2>3. Len(inbox'[r]) \in Nat
      BY <2>2
    <2> QED
      BY <2>1, <2>3
  <1>2. 1 \in Frames(r) => down[1].content <= Len(inbox'[r])
    BY <1>1 DEF Number
  <1>3. /\ \A n \in Frames(r)' : n + 1 \in Frames(r) /\ down'[n] = down[n + 1] /\ n \in Nat /\ n >= 1
        /\ Len(down') = Len(down) - 1
    <2>1. \A n \in Frames(r)' : n + 1 \in Frames(r) /\ down'[n] = down[n + 1]
      BY FramesOfTail
    <2>2. \A n \in Frames(r)' : n \in Nat /\ n >= 1
      <3>1. down' \in Seq(Frame)
        BY DEF TypeOK
      <3> QED
        BY <3>1 DEF Frames
    <2>3. Len(down') = Len(down) - 1
      BY FramesOfTail
    <2> QED
      BY <2>1, <2>2, <2>3
  <1>4. \A n \in Frames(r)' : Number(r, n)' = Number(r, n + 1)
    BY <1>3 DEF Number
  <1>5. \A n \in Frames(r)' : Len(inbox'[r]) < Number(r, n + 1)
    <2> SUFFICES ASSUME NEW n \in Frames(r)' PROVE Len(inbox'[r]) < Number(r, n + 1)
      OBVIOUS
    <2>1. n + 1 \in Frames(r) /\ n \in Nat /\ n >= 1
      BY <1>3
    <2>2. CASE 1 \notin Frames(r)
      BY <2>1, <2>2 DEF Flow
    <2>3. CASE 1 \in Frames(r)
      <3>1. 1 < n + 1
        BY <2>1
      <3>2. Number(r, 1) < Number(r, n + 1)
        BY <2>1, <2>3, <3>1 DEF Flow
      <3> QED
        BY <2>3, <3>2
    <2> QED
      BY <2>2, <2>3
  <1>6. ASSUME NEW n \in Frames(r)' PROVE Covered(r, Number(r, n), n)'
    <2>1. n + 1 \in Frames(r) /\ n + 1 \in Nat /\ Number(r, n + 1) \in Nat
      BY <1>1, <1>3
    <2>2. Covered(r, Number(r, n + 1), n + 1)
      BY <2>1 DEF Flow
    <2>3. \A k \in Nat : Len(inbox'[r]) < k /\ k < Number(r, n + 1) =>
             \E m \in Frames(r)' : m < (n + 1) - 1 /\ down'[m].content = k
      <3> DEFINE to == Number(r, n + 1)
                 from == n + 1
      <3>1. to \in Nat /\ from \in Nat /\ Covered(r, to, from)
        BY <2>1, <2>2
      <3> HIDE DEF to, from
      <3>2. \A k \in Nat : Len(inbox'[r]) < k /\ k < to =>
               \E m \in Frames(r)' : m < from - 1 /\ down'[m].content = k
        <4>1. Len(inbox'[r]) \in Nat /\ Len(inbox[r]) <= Len(inbox'[r])
          BY <1>1
        <4> QED
          BY <1>2, <3>1, <4>1, TailCovered
      <3> QED
        BY <3>2 DEF to, from
    <2>4. (n + 1) - 1 = n
      BY <1>3
    <2> QED
      BY <1>4, <2>3, <2>4 DEF Covered
  <1>7. \A m, n \in Frames(r)' : m < n => Number(r, m)' < Number(r, n)'
    <2> SUFFICES ASSUME NEW m \in Frames(r)', NEW n \in Frames(r)', m < n
                 PROVE  Number(r, m)' < Number(r, n)'
      OBVIOUS
    <2>1. m + 1 \in Frames(r) /\ n + 1 \in Frames(r) /\ m + 1 < n + 1
      BY <1>3
    <2> QED
      BY <1>4, <2>1 DEF Flow
  <1>8. ASSUME open, IsSending(r)
        PROVE  /\ Len(inbox'[r]) <= Sent(r)
               /\ \A n \in Frames(r)' : Number(r, n)' <= Sent(r)
               /\ \A k \in Nat : Len(inbox'[r]) < k /\ k < Sent(r) + 1 =>
                     \E m \in Frames(r)' : m < Len(down') + 1 /\ down'[m].content = k
    <2>1. /\ Len(inbox[r]) <= Sent(r) /\ \A n \in Frames(r) : Number(r, n) <= Sent(r)
          /\ Covered(r, Sent(r) + 1, Len(down) + 1)
      BY <1>8 DEF Flow
    <2>2. \A n \in Frames(r)' : Number(r, n)' <= Sent(r)
      BY <1>3, <1>4, <2>1
    <2>3. Len(inbox'[r]) <= Sent(r)
      BY <1>1, <2>1
    <2>4. Sent(r) + 1 \in Nat /\ Len(down) + 1 \in Nat
      BY <1>1, <2>1
    <2>5. \A k \in Nat : Len(inbox'[r]) < k /\ k < Sent(r) + 1 =>
             \E m \in Frames(r)' : m < (Len(down) + 1) - 1 /\ down'[m].content = k
      <3> DEFINE to == Sent(r) + 1
                 from == Len(down) + 1
      <3>1. to \in Nat /\ from \in Nat /\ Covered(r, to, from)
        BY <2>1, <2>4
      <3> HIDE DEF to, from
      <3>2. ASSUME NEW k \in Nat, Len(inbox'[r]) < k, k < to
            PROVE  \E m \in Frames(r)' : m < from - 1 /\ down'[m].content = k
        <4>1. Len(inbox'[r]) \in Nat /\ Len(inbox[r]) <= Len(inbox'[r])
          BY <1>1
        <4> QED
          BY <1>2, <3>1, <3>2, <4>1, TailCovered, ZenonT(60)
      <3> QED
        BY <3>2 DEF to, from
    <2>6. (Len(down) + 1) - 1 = Len(down') + 1
      BY <1>1, <1>3
    <2> QED
      BY <2>2, <2>3, <2>5, <2>6
  <1>9. Sent(r)' = Sent(r) /\ (IsSending(r)' <=> IsSending(r))
    BY DEF Sent, IsSending
  <1>10. open' /\ IsSending(r)' =>
            /\ Len(inbox[r])' <= Sent(r)'
            /\ \A n \in Frames(r)' : Number(r, n)' <= Sent(r)'
            /\ Covered(r, Sent(r) + 1, Len(down) + 1)'
    BY <1>8, <1>9 DEF Covered
  <1> QED
    BY <1>4, <1>5, <1>6, <1>7, <1>10 DEF Flow

LEMMA ReceiveKeeps ==
  ASSUME PeerInv, TypeOK', Receive
  PROVE  PeerInv'
  <1>1. TypeOK /\ down # <<>> /\ down' = Tail(down)
        /\ UNCHANGED <<open, up, reader, hnd, emitted, outq, sender>>
    BY DEF PeerInv, Receive, serving
  <1> DEFINE r == Head(down).req
             c == Head(down).content
  <1>2. /\ r \in Req /\ c \in Event \cup {Res} /\ down[1].content = c
        /\ \A q \in Req : 1 \in Frames(q) <=> q = r
    <2>1. down \in Seq(Frame) /\ down # <<>>
      BY <1>1 DEF TypeOK
    <2>2. Head(down) = down[1] /\ Head(down) \in Frame /\ 1 \in DOMAIN down
      BY <2>1
    <2> QED
      BY <2>2 DEF Frame, Frames
  <1>3. /\ r \notin pending => UNCHANGED <<inbox, pending, cli>>
        /\ r \in pending => inbox' = [inbox EXCEPT ![r] = Append(@, c)]
        /\ r \in pending /\ c = Res => pending' = pending \ {r} /\ cli' = [cli EXCEPT ![r] = "answered"]
        /\ r \in pending /\ c # Res => UNCHANGED <<pending, cli>>
    BY DEF Receive
  <1> HIDE DEF r, c
  <1>4. \A q \in Req : Box(q)'
    <2> SUFFICES ASSUME NEW q \in Req PROVE Box(q)'
      OBVIOUS
    <2>1. Box(q) /\ Sent(q)' = Sent(q)
      BY <1>1 DEF PeerInv, Sent
    <2>2. \A n \in Frames(q)' : n + 1 \in Frames(q) /\ down'[n] = down[n + 1]
      BY <1>1, FramesOfTail
    <2> QED
      BY <1>1, <2>1, <2>2 DEF Box
  <1>5. r \in pending => /\ Number(r, 1) = Len(inbox[r]) + 1 /\ Len(inbox[r]) \in Nat
                         /\ c = Res => hnd[r] = "ended"
    <2> SUFFICES ASSUME r \in pending
                 PROVE  /\ Number(r, 1) = Len(inbox[r]) + 1 /\ Len(inbox[r]) \in Nat
                        /\ c = Res => hnd[r] = "ended"
      OBVIOUS
    <2>1. 1 \in Frames(r) /\ Flow(r) /\ Box(r)
      BY <1>2 DEF PeerInv
    <2>2. /\ Number(r, 1) \in Nat /\ Len(inbox[r]) \in Nat
          /\ Len(inbox[r]) < Number(r, 1) /\ Covered(r, Number(r, 1), 1)
      BY <1>1, <1>2, <2>1, Typed DEF Flow
    <2>3. \A m \in Frames(r) : ~ (m < 1)
      BY <1>1, <1>2, Typed
    <2>4. ~ (Len(inbox[r]) + 1 < Number(r, 1))
      <3> SUFFICES ASSUME Len(inbox[r]) + 1 < Number(r, 1) PROVE FALSE
        OBVIOUS
      <3>1. Len(inbox[r]) + 1 \in Nat /\ Len(inbox[r]) < Len(inbox[r]) + 1
        BY <2>2
      <3> QED
        BY <2>2, <2>3, <3>1 DEF Covered
    <2>5. c = Res => hnd[r] = "ended"
      BY <1>2, <2>1 DEF Box
    <2> QED
      BY <2>2, <2>4, <2>5
  <1>6. \A q \in Req \ {r} : inbox'[q] = inbox[q]
    BY <1>1, <1>3 DEF TypeOK
  <1>7. r \in pending => /\ Len(inbox'[r]) = Len(inbox[r]) + 1 /\ inbox'[r][Len(inbox[r]) + 1] = c
                         /\ DOMAIN inbox'[r] = 1..(Len(inbox[r]) + 1) /\ DOMAIN inbox[r] = 1..Len(inbox[r])
                         /\ \A i \in 1..Len(inbox[r]) : inbox'[r][i] = inbox[r][i]
    <2>1. r \in pending => inbox'[r] = Append(inbox[r], c)
      BY <1>1, <1>2, <1>3 DEF TypeOK
    <2>2. inbox[r] \in Seq(Event \cup {Res})
      BY <1>1, <1>2 DEF TypeOK
    <2> QED
      BY <2>1, <2>2
  <1>8. \A q \in Req : Got(q)'
    <2> SUFFICES ASSUME NEW q \in Req PROVE Got(q)'
      OBVIOUS
    <2>1. Got(q)
      BY DEF PeerInv
    <2>2. CASE q # r \/ r \notin pending
      <3>1. inbox'[q] = inbox[q] /\ (q \notin pending => q \notin pending')
        BY <1>3, <1>6, <2>2
      <3> QED
        BY <1>1, <2>1, <3>1 DEF Got
    <2>3. CASE q = r /\ r \in pending
      <3>1. \A i \in 1..Len(inbox[r]) : inbox'[r][i] = i
        BY <1>7, <2>1, <2>3 DEF Got
      <3>2. CASE c = Res
        <4>1. /\ Len(inbox[r]) + 1 = emitted'[r] + 1 /\ r \notin pending' /\ hnd'[r] = "ended"
          BY <1>1, <1>2, <1>3, <1>5, <2>3, <3>2 DEF Number
        <4>2. \A i \in 1..(Len(inbox[r]) + 1) : i \in 1..Len(inbox[r]) \/ i = Len(inbox[r]) + 1
          BY <1>5, <2>3
        <4> QED
          BY <1>7, <2>3, <3>1, <3>2, <4>1, <4>2 DEF Got
      <3>3. CASE c # Res
        <4>1. c = Len(inbox[r]) + 1
          BY <1>2, <1>5, <2>3, <3>3 DEF Number
        <4>2. \A i \in 1..(Len(inbox[r]) + 1) : i \in 1..Len(inbox[r]) \/ i = Len(inbox[r]) + 1
          BY <1>5, <2>3
        <4> QED
          BY <1>7, <2>3, <3>1, <4>1, <4>2 DEF Got
      <3> QED
        BY <3>2, <3>3
    <2> QED
      BY <2>2, <2>3
  <1>9. \A q \in pending' : Flow(q)'
    <2> SUFFICES ASSUME NEW q \in pending' PROVE Flow(q)'
      OBVIOUS
    <2>1. q \in pending /\ q \in Req /\ Flow(q)
      BY <1>1, <1>3 DEF PeerInv, TypeOK
    <2>2. CASE q # r
      <3>1. 1 \notin Frames(q) /\ Len(inbox'[q]) = Len(inbox[q])
        BY <1>2, <1>6, <2>1, <2>2
      <3> QED
        BY <1>1, <2>1, <3>1, FlowOfTail
    <2>3. CASE q = r
      <3>1. c # Res
        BY <1>3, <2>1, <2>3
      <3>2. /\ 1 \in Frames(q) /\ down[1].content # Res
            /\ Len(inbox'[q]) = Number(q, 1) /\ Number(q, 1) = Len(inbox[q]) + 1
        BY <1>2, <1>5, <1>7, <2>1, <2>3, <3>1
      <3> QED
        BY <1>1, <2>1, <3>2, FlowOfTail
    <2> QED
      BY <2>2, <2>3
  <1>10. /\ \A q \in Req : cli'[q] \in {"idle", "sending"} => cli[q] \in {"idle", "sending"}
         /\ \A q \in Req : cli'[q] \in {"waiting", "sending"} => cli[q] = cli'[q] /\ (q \in pending => q \in pending')
         /\ \A q \in pending' : q \in pending /\ cli'[q] = cli[q]
    <2>1. CASE UNCHANGED <<pending, cli>>
      BY <1>1, <2>1
    <2>2. CASE r \in pending /\ pending' = pending \ {r} /\ cli' = [cli EXCEPT ![r] = "answered"]
      BY <1>1, <1>2, <2>2 DEF TypeOK
    <2> QED
      BY <1>3, <2>1, <2>2
  <1>11. Once'
    <2>1. \A q \in Req : hnd[q] = "none" => Fresh(q)'
      <3> SUFFICES ASSUME NEW q \in Req, hnd[q] = "none" PROVE Fresh(q)'
        OBVIOUS
      <3>1. Fresh(q) /\ q # r
        BY <1>2 DEF PeerInv, Once, Fresh
      <3>2. Frames(q)' = {}
        BY <1>1, <3>1, FramesOfTail DEF Fresh
      <3> QED
        BY <1>1, <1>6, <3>1, <3>2 DEF Fresh
    <2> QED
      BY <1>1, <1>10, <2>1 DEF PeerInv, Once
  <1>12. Routed'
    BY <1>1, <1>10 DEF PeerInv, Routed, WaitingIsPending, TypeOK
  <1> QED
    BY <1>4, <1>8, <1>9, <1>11, <1>12 DEF PeerInv

LEMMA PeerInit == Init => PeerInv
  <1> SUFFICES ASSUME Init PROVE PeerInv
    OBVIOUS
  <1>1. TypeOK
    BY PeerAssumption DEF Init, TypeOK
  <1>2. \A r \in Req : Frames(r) = {} /\ Fresh(r) /\ hnd[r] = "none" /\ sender[r] = "none"
    BY DEF Init, Frames, Fresh
  <1>3. Once /\ Routed
    BY <1>2 DEF Init, Once, Routed, WaitingIsPending
  <1>4. \A r \in Req : Box(r) /\ Got(r)
    BY <1>2 DEF Init, Box, Got, Fresh
  <1> QED
    BY <1>1, <1>3, <1>4 DEF Init, PeerInv

LEMMA PeerStep ==
  ASSUME PeerInv, [Next]_vars
  PROVE  PeerInv'
  <1>1. TypeOK'
    BY TypesKept DEF PeerInv
  <1>2. CASE Receive
    BY <1>1, <1>2, ReceiveKeeps
  <1>3. CASE Spawn
    BY <1>1, <1>3, SpawnKeeps
  <1>4. CASE ReaderEnds
    BY <1>1, <1>4, ReaderEndsKeeps
  <1>5. CASE ServerEnds
    BY <1>1, <1>5, ServerEndsKeeps
  <1>6. CASE Close \/ StopInner \/ UNCHANGED vars
    BY <1>1, <1>6, CloseKeeps DEF Close, StopInner, vars, serving
  <1>7. ASSUME NEW r \in Req, Request(r) \/ TimeOut(r) \/ Emit(r) \/ Work(r) PROVE PeerInv'
    BY <1>1, <1>7, RequestKeeps, TimeOutKeeps, EmitKeeps, SendKeeps, ReturnKeeps, AbortKeeps,
       ForwardKeeps, RespondKeeps DEF Work
  <1> QED
    BY <1>2, <1>3, <1>4, <1>5, <1>6, <1>7 DEF Next, Loops, AllOver

THEOREM PeerInvariant == Spec => []PeerInv
  <1>1. Init => PeerInv
    BY PeerInit
  <1>2. PeerInv /\ [Next]_vars => PeerInv'
    BY PeerStep
  <1> QED
    BY <1>1, <1>2, PTL DEF Spec

(* The variables of the two peers keep their types; in particular only a   *)
(* request that is being sent or waits is in _pending (peer.py:37).        *)
THEOREM PeerTypes == Spec => []TypeOK
  <1>1. PeerInv => TypeOK
    BY DEF PeerInv
  <1> QED
    BY <1>1, PeerInvariant, PTL

(* A request reads its own events, each once and in the order emitted, and *)
(* the response after the last of them (peer.py:38, forward.py:6), however *)
(* many requests share the connection and wherever it is cut.              *)
THEOREM FramesInOrder == Spec => []InOrderResponseLast
  <1>1. PeerInv => InOrderResponseLast
    BY DEF PeerInv, Got, InOrderResponseLast
  <1> QED
    BY <1>1, PeerInvariant, PTL

(* Who waits for an answer is routed to, and the reader runs; who has ended *)
(* is out of _pending (peer.py:266).                                        *)
THEOREM WaitersAreRouted == Spec => []WaitingIsPending
  <1>1. PeerInv => WaitingIsPending
    BY DEF PeerInv, Routed
  <1> QED
    BY <1>1, PeerInvariant, PTL
=============================================================================
