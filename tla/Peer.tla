-------------------------------- MODULE Peer --------------------------------
(***************************************************************************)
(* Two peers on one connection (runtime/peer.py, runtime/forward.py): a    *)
(* client that sends requests and a server that handles each in a task of  *)
(* its own.  What a handler emits goes out through an outbox, by a task    *)
(* that sends it in order; the response follows when the outbox is done.   *)
(* The server is a runtime (runtime/runtime.py) whose handlers also ask on *)
(* its internal connection, which a stop closes before this one.           *)
(*                                                                         *)
(* An emitted event is its number.  The response, an ErrorRes included, is *)
(* Res.  The connection keeps the order of frames and loses none until it  *)
(* closes; what was sent before that may still be read.                    *)
(***************************************************************************)
EXTENDS Naturals, Sequences, FiniteSets

CONSTANTS Req,        \* the requests
          Res,        \* the response, as a frame's content
          End,        \* the outbox's last entry
          MaxEvents,  \* a handler emits at most so many events
          Oversize,   \* requests with events that may exceed MAX_FRAME
          Impatient   \* requests sent with a timeout (ask)

ASSUME PeerAssumption == /\ MaxEvents \in Nat
                         /\ Res \notin Nat /\ End \notin Nat \cup {Res}
                         /\ Oversize \subseteq Req /\ Impatient \subseteq Req

VARIABLES
  open,     \* the connection is open
  up, down, \* frames under way to the server, to the client
  cli,      \* where each request is, for who sent it
  pending,  \* the client's _pending
  inbox,    \* what was delivered to each Request
  reader,   \* the client's reader loop runs
  hnd,      \* the server's handler of each request
  emitted,  \* events it has emitted
  outq,     \* the outbox's queue
  sender,   \* the outbox's task
  server,   \* the server's reader loop runs
  inner     \* the runtime's internal connection is open

client == <<cli, pending, inbox, reader>>
serving == <<hnd, emitted, outq, sender, server, inner>>
vars == <<open, up, down, client, serving>>

Event == 1..MaxEvents
Frame == [req : Req, content : Event \cup {Res}]
Ended == {"answered", "closed", "timeout", "keyerror"}

TypeOK ==
  /\ open \in BOOLEAN /\ reader \in BOOLEAN /\ server \in BOOLEAN /\ inner \in BOOLEAN
  /\ up \in Seq(Req) /\ down \in Seq(Frame)
  /\ cli \in [Req -> {"idle", "sending", "waiting"} \cup Ended]
  /\ pending \subseteq {r \in Req : cli[r] \in {"sending", "waiting"}}
  /\ inbox \in [Req -> Seq(Event \cup {Res})]
  /\ hnd \in [Req -> {"none", "running", "closing", "ended", "dropped", "dead", "mute"}]
  /\ emitted \in [Req -> 0..MaxEvents]
  /\ outq \in [Req -> Seq(Event \cup {End})]
  /\ sender \in [Req -> {"none", "run", "ended", "aborted", "dead"}]

Init ==
  /\ open = TRUE /\ reader = TRUE /\ server = TRUE /\ inner = TRUE
  /\ up = <<>> /\ down = <<>>
  /\ cli = [r \in Req |-> "idle"]
  /\ pending = {}
  /\ inbox = [r \in Req |-> <<>>]
  /\ hnd = [r \in Req |-> "none"]
  /\ emitted = [r \in Req |-> 0]
  /\ outq = [r \in Req |-> <<>>]
  /\ sender = [r \in Req |-> "none"]

-----------------------------------------------------------------------------
(* The client *)

Request(r) ==
  /\ cli[r] = "idle"
  /\ cli' = [cli EXCEPT ![r] = "sending"]
  /\ pending' = pending \cup {r}
  /\ UNCHANGED <<open, up, down, inbox, reader, serving>>

(* conn.send returns, or raises Closed: then the request is taken back.    *)
(* The reader may have emptied _pending meanwhile, and `del` raises a      *)
(* KeyError instead.                                                       *)
Send(r) ==
  /\ cli[r] = "sending"
  /\ IF open
       THEN /\ up' = Append(up, r)
            /\ cli' = [cli EXCEPT ![r] = "waiting"]
            /\ UNCHANGED pending
       ELSE /\ cli' = [cli EXCEPT ![r] = IF r \in pending THEN "closed" ELSE "keyerror"]
            /\ pending' = pending \ {r}
            /\ UNCHANGED up
  /\ UNCHANGED <<open, down, inbox, reader, serving>>

(* An answer goes to the request it names; one no longer pending is dropped. *)
Receive ==
  /\ reader
  /\ down # <<>>
  /\ LET r == Head(down).req
         content == Head(down).content
     IN  IF r \in pending
           THEN /\ inbox' = [inbox EXCEPT ![r] = Append(@, content)]
                /\ IF content = Res
                     THEN /\ pending' = pending \ {r}
                          /\ cli' = [cli EXCEPT ![r] = "answered"]
                     ELSE UNCHANGED <<pending, cli>>
           ELSE UNCHANGED <<inbox, pending, cli>>
  /\ down' = Tail(down)
  /\ UNCHANGED <<open, up, reader, serving>>

TimeOut(r) ==
  /\ r \in Impatient
  /\ cli[r] = "waiting"
  /\ cli' = [cli EXCEPT ![r] = "timeout"]
  /\ pending' = pending \ {r}
  /\ UNCHANGED <<open, up, down, inbox, reader, serving>>

ReaderEndsSilently ==   \* mutant: run without its finally
  /\ reader
  /\ ~ open
  /\ reader' = FALSE
  /\ down' = <<>>
  /\ UNCHANGED <<open, up, cli, pending, inbox, serving>>

(* recv raises Closed: run fails every pending request. *)
ReaderEnds ==
  /\ reader
  /\ ~ open
  /\ reader' = FALSE
  /\ down' = <<>>
  /\ cli' = [r \in Req |-> IF r \in pending /\ cli[r] = "waiting" THEN "closed"
                                                                 ELSE cli[r]]
  /\ pending' = {}
  /\ UNCHANGED <<open, up, inbox, serving>>

-----------------------------------------------------------------------------
(* The server *)

Spawn ==
  /\ server
  /\ up # <<>>
  /\ up' = Tail(up)
  /\ hnd' = [hnd EXCEPT ![Head(up)] = "running"]
  /\ sender' = [sender EXCEPT ![Head(up)] = "run"]
  /\ UNCHANGED <<open, down, client, emitted, outq, server, inner>>

Emit(r) ==
  /\ hnd[r] = "running"
  /\ emitted[r] < MaxEvents
  /\ emitted' = [emitted EXCEPT ![r] = @ + 1]
  /\ outq' = [outq EXCEPT ![r] = Append(@, emitted'[r])]
  /\ UNCHANGED <<open, up, down, client, hnd, sender, server, inner>>

(* The handler returns or raises, Closed excepted: the outbox is closed,   *)
(* and awaited.                                                            *)
Return(r) ==
  /\ hnd[r] = "running"
  /\ hnd' = [hnd EXCEPT ![r] = "closing"]
  /\ outq' = [outq EXCEPT ![r] = Append(@, End)]
  /\ UNCHANGED <<open, up, down, client, emitted, sender, server, inner>>

(* The handler raises Closed, of its ask on the internal connection: the   *)
(* outbox is aborted, and no response is sent.                             *)
Abort(r) ==
  /\ hnd[r] = "running"
  /\ ~ inner
  /\ hnd' = [hnd EXCEPT ![r] = "mute"]
  /\ sender' = [sender EXCEPT ![r] = IF @ = "run" THEN "aborted" ELSE @]
  /\ UNCHANGED <<open, up, down, client, emitted, outq, server, inner>>

(* Outbox._send: only Closed is suppressed, any other error ends the task. *)
Forward(r) ==
  /\ sender[r] = "run"
  /\ outq[r] # <<>>
  /\ outq' = [outq EXCEPT ![r] = Tail(@)]
  /\ LET e == Head(outq[r])
     IN  \/ e = End /\ sender' = [sender EXCEPT ![r] = "ended"] /\ UNCHANGED down
         \/ /\ e # End /\ r \in Oversize
            /\ sender' = [sender EXCEPT ![r] = "dead"] /\ UNCHANGED down
         \/ /\ e # End
            /\ down' = IF open THEN Append(down, [req |-> r, content |-> e]) ELSE down
            /\ UNCHANGED sender
  /\ UNCHANGED <<open, up, client, hnd, emitted, server, inner>>

RespondEarly(r) ==   \* mutant: outbox.close() is not awaited
  /\ hnd[r] = "closing"
  /\ hnd' = [hnd EXCEPT ![r] = "ended"]
  /\ down' = IF open THEN Append(down, [req |-> r, content |-> Res]) ELSE down
  /\ UNCHANGED <<open, up, client, emitted, outq, sender, server, inner>>

(* The outbox is done and the response goes out, unless the connection is  *)
(* closed; an outbox that died raises its error here, again and again.     *)
Respond(r) ==
  /\ hnd[r] = "closing"
  /\ \/ /\ sender[r] = "ended"
        /\ hnd' = [hnd EXCEPT ![r] = "ended"]
        /\ down' = IF open THEN Append(down, [req |-> r, content |-> Res]) ELSE down
     \/ /\ sender[r] = "dead"
        /\ hnd' = [hnd EXCEPT ![r] = "dead"]
        /\ UNCHANGED down
  /\ UNCHANGED <<open, up, client, emitted, outq, sender, server, inner>>

(* The server's reader sees the end: it cancels the handlers at work, and  *)
(* with them their outboxes.                                               *)
ServerEnds ==
  /\ server
  /\ ~ open
  /\ server' = FALSE
  /\ up' = <<>>
  /\ LET gone == {r \in Req : hnd[r] \in {"running", "closing"}}
     IN  /\ hnd' = [r \in Req |-> IF r \in gone THEN "dropped" ELSE hnd[r]]
         /\ sender' = [r \in Req |-> IF r \in gone /\ sender[r] = "run" THEN "aborted"
                                                                       ELSE sender[r]]
  /\ UNCHANGED <<open, down, client, emitted, outq, inner>>

Close == open /\ open' = FALSE /\ UNCHANGED <<up, down, client, serving>>

(* Runtime.serve is stopped: it closes the internal connection first, then *)
(* this one.                                                               *)
StopInner ==
  /\ inner
  /\ inner' = FALSE
  /\ UNCHANGED <<open, up, down, client, hnd, emitted, outq, sender, server>>

StopClose == ~ inner /\ Close

AllOver == /\ \A r \in Req : cli[r] \in Ended
           /\ \A r \in Req : hnd[r] \notin {"running", "closing"}
           /\ UNCHANGED vars

Work(r) == Send(r) \/ Return(r) \/ Abort(r) \/ Forward(r) \/ Respond(r)

Loops == Receive \/ Spawn \/ ReaderEnds \/ ServerEnds

Next == \/ \E r \in Req : Request(r) \/ TimeOut(r) \/ Emit(r) \/ Work(r)
        \/ Loops \/ Close \/ StopInner \/ AllOver

Spec == Init /\ [][Next]_vars

(* Handlers return or raise, every task that can run does, and a runtime   *)
(* that has begun to stop goes on to close this connection.                *)
FairSpec == /\ Spec /\ WF_vars(Receive) /\ WF_vars(Spawn)
            /\ WF_vars(ReaderEnds) /\ WF_vars(ServerEnds) /\ WF_vars(StopClose)
            /\ \A r \in Req : /\ WF_vars(Send(r)) /\ WF_vars(Return(r) \/ Abort(r))
                              /\ WF_vars(Forward(r)) /\ WF_vars(Respond(r))

-----------------------------------------------------------------------------
(* Properties *)

(* A request gets its own events, all of them, in the order they were      *)
(* emitted, and the response last, whatever the others do.                 *)
(* (peer.py:38, forward.py:6)                                              *)
InOrderResponseLast ==
  \A r \in Req : \A i \in DOMAIN inbox[r] :
    \/ inbox[r][i] = i
    \/ inbox[r][i] = Res /\ i = Len(inbox[r]) /\ i = emitted[r] + 1

(* Who waits is routed to, and while the reader runs: no request waits for *)
(* an answer no one would deliver, and none that ended keeps its entry.    *)
WaitingIsPending ==
  /\ \A r \in Req : cli[r] = "waiting" => r \in pending /\ reader
  /\ \A r \in pending : cli[r] \notin Ended

(* Every request that was sent ends, answered, closed or timed out: "every *)
(* failure answers the request" (peer.py:266).  A handler that raises      *)
(* Closed does not (peer.py:260), but the stop that made it do so closes   *)
(* the connection.  One whose outbox died never answers (forward.py:52-53):*)
(* the request then ends with the connection, if that ever closes.         *)
EveryRequestEnds ==
  \A r \in Req :
    /\ cli[r] = "waiting" ~> cli[r] \in Ended \/ hnd[r] = "dead"
    /\ cli[r] = "waiting" /\ ~ open ~> cli[r] \in Ended
=============================================================================
