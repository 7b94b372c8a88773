------------------------------ MODULE IrStore ------------------------------
(***************************************************************************)
(* The IR manager (fabric/services/ir.py): contents under their hash, a    *)
(* sidecar with their info, and refs.json, which names them.               *)
(*                                                                         *)
(* A put or a delete holds the lock; each of its steps on the disk is a    *)
(* job in a worker thread it awaits.  When the client goes away the        *)
(* handler is cancelled at that await and leaves the lock, but a thread    *)
(* cannot be stopped: the job it has started runs to its end.  A get and a *)
(* list take no lock.  A crash of the host runtime leaves only the disk.   *)
(*                                                                         *)
(* A key is a name, or the hash of a content put without one.  A file is   *)
(* written by renaming a finished one, so a write is one step.             *)
(***************************************************************************)
EXTENDS Naturals, Sequences, SequencesExt, FiniteSets

CONSTANTS Req,       \* the requests
          Name,      \* the names
          Hash,      \* the contents (their hashes)
          None,      \* no request, no name, no content
          Crashes    \* how often the host runtime may crash

Key == Name \cup Hash
Kind == {"put", "delete", "get", "list"}

ASSUME StoreAssumption == /\ None \notin Req \cup Key /\ Name \cap Hash = {}
                          /\ Crashes \in Nat

VARIABLES
  pc,       \* where each request is
  mine,     \* what it asks: its kind, the key (None: put without a name) and
            \* a put's content; and its locals: the refs it will write, or
            \* a list has still to look at, and the content it found under
            \* the key, for a change to clean up or a get to load
  orphan,   \* requests whose thread runs on after they were cancelled
  lock,     \* the request that holds _lock
  queue,    \* those waiting for it
  blob,     \* on disk: contents
  meta,     \* on disk: their info
  refs,     \* on disk: refs.json
  crashes,  \* crashes so far
  overtaken \* whether a change has begun while a job of a cancelled one that
            \* it might undo still ran; only the properties look at it

disk == <<blob, meta, refs>>
past == <<crashes, overtaken>>
vars == <<pc, mine, orphan, lock, queue, disk, past>>

Refs == [Key -> Hash \cup {None}]

Change == {"read", "check", "blob", "meta", "write", "dropblob", "dropmeta"}
Look == {"look", "load", "info", "names", "infos"}
Broken == {"gone", "failed"}   \* ended without an answer of its own
Over == {"done", "refused", "found", "missed", "error"} \cup Broken

(* What a request keeps in memory: what was asked, and what it read.        *)
Memory(d, k, h) == [kind |-> d, key |-> k, hash |-> h,
                    refs |-> [n \in Key |-> None], old |-> None]

Nothing == Memory("get", None, None)

(* What a client may ask. *)
Requests == {Memory("put", k, h) : k \in Name \cup {None}, h \in Hash}
            \cup {Memory(d, k, None) : d \in {"delete", "get"}, k \in Key}
            \cup {Memory("list", None, None)}

(* Where its handler begins: a change in the line for the lock. *)
Start(m) == CASE m.kind = "get" -> "look" [] m.kind = "list" -> "names" [] OTHER -> "line"

Named(r, h) == \E k \in Key : r[k] = h

TypeOK ==
  /\ pc \in [Req -> {"idle", "line"} \cup Change \cup Look \cup Over]
  /\ mine \in [Req -> [kind : Kind, key : Key \cup {None}, hash : Hash \cup {None},
                      refs : Refs, old : Hash \cup {None}]]
  /\ orphan \subseteq {r \in Req : pc[r] \in Change}
  /\ lock \in {r \in Req : pc[r] \in Change} \cup {None}
  /\ queue \in Seq(Req)
  /\ blob \subseteq Hash /\ meta \subseteq Hash
  /\ refs \in Refs /\ \A h \in Hash : refs[h] \in {h, None}
  /\ crashes \in 0..Crashes /\ overtaken \in BOOLEAN

(* Any names, as earlier requests left them: a hash is the key of its own  *)
(* content only.                                                           *)
Init ==
  /\ pc = [r \in Req |-> "idle"]
  /\ refs \in {f \in Refs : \A h \in Hash : f[h] \in {h, None}}
  /\ blob = {h \in Hash : Named(refs, h)}
  /\ meta = blob
  /\ mine = [r \in Req |-> Nothing]
  /\ orphan = {}
  /\ lock = None
  /\ queue = <<>>
  /\ crashes = 0 /\ overtaken = FALSE

-----------------------------------------------------------------------------
(* The lock, and how a request ends *)

Arrive(r) ==
  /\ pc[r] = "idle"
  /\ \E ask \in Requests :
       /\ mine' = [mine EXCEPT ![r] = ask]
       /\ pc' = [pc EXCEPT ![r] = Start(ask)]
       /\ queue' = IF Start(ask) = "line" THEN Append(queue, r) ELSE queue
  /\ UNCHANGED <<orphan, lock, disk, past>>

(* A job that runs on in its thread and will write the refs as they were,  *)
(* or remove content that was named by nothing, when its request went away. *)
Trails == \E o \in orphan : pc[o] \in {"write", "dropblob"}

EnterTogether(r) ==   \* mutant: a lock per handler, not one for both
  /\ pc[r] = "line"
  /\ Head(queue) = r
  /\ lock # None => mine[lock].kind # mine[r].kind
  /\ lock' = r
  /\ queue' = Tail(queue)
  /\ pc' = [pc EXCEPT ![r] = "read"]
  /\ overtaken' = (overtaken \/ Trails)
  /\ UNCHANGED <<mine, orphan, disk, crashes>>

Enter(r) ==
  /\ pc[r] = "line"
  /\ Head(queue) = r
  /\ lock = None
  /\ lock' = r
  /\ queue' = Tail(queue)
  /\ pc' = [pc EXCEPT ![r] = "read"]
  /\ overtaken' = (overtaken \/ Trails)
  /\ UNCHANGED <<mine, orphan, disk, crashes>>

(* r goes on at `state`, with the locals m. *)
Step(r, state, m) ==
  /\ pc' = [pc EXCEPT ![r] = state]
  /\ mine' = [mine EXCEPT ![r] = m]
  /\ UNCHANGED <<lock, orphan>>

(* Its handler is through: it leaves the lock, and its locals go. *)
Leave(r, state) ==
  /\ pc' = [pc EXCEPT ![r] = state]
  /\ mine' = [mine EXCEPT ![r] = Nothing]
  /\ lock' = IF lock = r THEN None ELSE lock
  /\ orphan' = orphan \ {r}

(* A job of its thread ends: the handler goes on at `state`, unless it is  *)
(* gone.                                                                   *)
JobEnds(r, state, m) ==
  IF r \in orphan THEN Leave(r, "gone")
  ELSE IF state \in Over THEN Leave(r, state)
  ELSE Step(r, state, m)

-----------------------------------------------------------------------------
(* put and delete *)

(* The key a put sets. *)
PutKey(m) == IF m.key = None THEN m.hash ELSE m.key

(* Nothing to put: the key points there already, or the content, put       *)
(* without a name, has another entry.                                      *)
Unchanged(m) == \/ refs[PutKey(m)] = m.hash
                \/ m.key = None /\ Named(refs, m.hash)

ReadRefs(r) ==
  /\ pc[r] = "read"
  /\ LET m == mine[r]
         k == IF m.kind = "put" THEN PutKey(m) ELSE m.key
     IN  JobEnds(r,
           IF m.kind = "put" THEN IF Unchanged(m) THEN "done" ELSE "check"
                             ELSE IF refs[k] = None THEN "refused" ELSE "write",
           \* a delete sets its key to m.hash too: None
           [m EXCEPT !.refs = [refs EXCEPT ![k] = m.hash], !.old = refs[k]])
  /\ UNCHANGED <<queue, disk, past>>

(* _store: content that is there is never rewritten ... *)
CheckBlob(r) ==
  /\ pc[r] = "check"
  /\ IF mine[r].hash \in blob THEN JobEnds(r, "write", mine[r]) ELSE Step(r, "blob", mine[r])
  /\ UNCHANGED <<queue, disk, past>>

(* ... else it is written, then its info. *)
WriteBlob(r) ==
  /\ pc[r] = "blob"
  /\ blob' = blob \cup {mine[r].hash}
  /\ Step(r, "meta", mine[r])
  /\ UNCHANGED <<queue, meta, refs, past>>

WriteMeta(r) ==
  /\ pc[r] = "meta"
  /\ meta' = meta \cup {mine[r].hash}
  /\ JobEnds(r, "write", mine[r])
  /\ UNCHANGED <<queue, blob, refs, past>>

(* _write_refs, of the copy that was read; then what the change left       *)
(* behind is looked at.                                                    *)
WriteRefs(r) ==
  /\ pc[r] = "write"
  /\ refs' = mine[r].refs
  /\ JobEnds(r, IF mine[r].old = None THEN "done" ELSE "dropblob", mine[r])
  /\ UNCHANGED <<queue, blob, meta, past>>

DropBlobAlways(r) ==   \* mutant: _collect does not look for other names
  /\ pc[r] = "dropblob"
  /\ blob' = blob \ {mine[r].old}
  /\ Step(r, "dropmeta", mine[r])
  /\ UNCHANGED <<queue, meta, refs, past>>

(* _collect: content no name points to goes, and its info. *)
DropBlob(r) ==
  /\ pc[r] = "dropblob"
  /\ IF Named(mine[r].refs, mine[r].old)
       THEN JobEnds(r, "done", mine[r]) /\ UNCHANGED blob
       ELSE Step(r, "dropmeta", mine[r]) /\ blob' = blob \ {mine[r].old}
  /\ UNCHANGED <<queue, meta, refs, past>>

DropMetaNot(r) ==   \* mutant: leaves the sidecar
  /\ pc[r] = "dropmeta"
  /\ JobEnds(r, "done", mine[r])
  /\ UNCHANGED <<queue, disk, past>>

DropMeta(r) ==
  /\ pc[r] = "dropmeta"
  /\ meta' = meta \ {mine[r].old}
  /\ JobEnds(r, "done", mine[r])
  /\ UNCHANGED <<queue, blob, refs, past>>

(* The disk refuses: the job raises, the request fails where it is. *)
DiskFails(r) ==
  /\ pc[r] \in Change
  /\ JobEnds(r, "failed", mine[r])
  /\ UNCHANGED <<queue, disk, past>>

-----------------------------------------------------------------------------
(* get *)

(* The refs name the content; a hash is taken as it is. *)
LookUp(r) ==
  /\ pc[r] = "look"
  /\ LET k == mine[r].key
         h == IF k \in Hash THEN k ELSE refs[k]
     IN  IF h = None THEN Leave(r, "missed")
                     ELSE Step(r, "load", [mine[r] EXCEPT !.old = h])
  /\ UNCHANGED <<queue, disk, past>>

Load(r) ==
  /\ pc[r] = "load"
  /\ IF mine[r].old \in blob THEN Step(r, "info", mine[r]) ELSE Leave(r, "missed")
  /\ UNCHANGED <<queue, disk, past>>

(* _info: without the sidecar the request ends in an error. *)
Info(r) ==
  /\ pc[r] = "info"
  /\ Leave(r, IF mine[r].old \in meta THEN "found" ELSE "error")
  /\ UNCHANGED <<queue, disk, past>>

-----------------------------------------------------------------------------
(* list *)

ReadNames(r) ==
  /\ pc[r] = "names"
  /\ IF \A k \in Key : refs[k] = None THEN Leave(r, "found")
                                      ELSE Step(r, "infos", [mine[r] EXCEPT !.refs = refs])
  /\ UNCHANGED <<queue, disk, past>>

(* One sidecar after the other, each in a thread of its own; in any order. *)
ReadInfo(r) ==
  /\ pc[r] = "infos"
  /\ \E k \in Key :
       LET h == mine[r].refs[k]
           rest == [mine[r].refs EXCEPT ![k] = None]
       IN  /\ h # None
           /\ IF h \notin meta THEN Leave(r, "error")
              ELSE IF \A j \in Key : rest[j] = None THEN Leave(r, "found")
              ELSE Step(r, "infos", [mine[r] EXCEPT !.refs = rest])
  /\ UNCHANGED <<queue, disk, past>>

-----------------------------------------------------------------------------
(* What goes wrong *)

(* The client goes away.  A thread at work becomes an orphan; a job that   *)
(* only reads has no one to tell.                                          *)
Cancel(r) ==
  /\ pc[r] \in {"line"} \cup Change \cup Look
  /\ r \notin orphan
  /\ IF pc[r] \in Change \ {"read"}
       THEN /\ orphan' = orphan \cup {r}
            /\ lock' = IF lock = r THEN None ELSE lock
            /\ UNCHANGED <<pc, mine>>
       ELSE Leave(r, "gone")
  /\ queue' = SelectSeq(queue, LAMBDA q : q # r)
  /\ UNCHANGED <<disk, past>>

(* The host runtime is killed: the disk stays as it is. *)
Crash ==
  /\ crashes < Crashes
  /\ crashes' = crashes + 1
  /\ pc' = [r \in Req |-> IF pc[r] \in {"idle"} \cup Over THEN pc[r] ELSE "gone"]
  /\ mine' = [r \in Req |-> Nothing]
  /\ orphan' = {}
  /\ lock' = None
  /\ queue' = <<>>
  /\ UNCHANGED <<disk, overtaken>>

AllOver == (\A r \in Req : pc[r] \in Over) /\ UNCHANGED vars

Handler(r) ==
  \/ Enter(r) \/ ReadRefs(r) \/ CheckBlob(r) \/ WriteBlob(r) \/ WriteMeta(r)
  \/ WriteRefs(r) \/ DropBlob(r) \/ DropMeta(r) \/ DiskFails(r)
  \/ LookUp(r) \/ Load(r) \/ Info(r) \/ ReadNames(r) \/ ReadInfo(r)

Next == (\E r \in Req : Arrive(r) \/ Cancel(r) \/ Handler(r)) \/ Crash \/ AllOver

Spec == Init /\ [][Next]_vars

-----------------------------------------------------------------------------
(* Properties *)

NoneBroken == \A r \in Req : pc[r] \notin Broken /\ r \notin orphan

(* A name never points to content that is not there, whatever fails,       *)
(* crashes or is cancelled in between, unless a change began before the    *)
(* last job of a cancelled one had ended: then a stale refs.json may be    *)
(* written over a newer one, or content removed that has been put anew.    *)
(* Unless something failed the info is there too.                          *)
RefsHaveContent ==
  \A k \in Key : refs[k] # None /\ ~ overtaken =>
    refs[k] \in blob /\ (NoneBroken => refs[k] \in meta)

(* "Content nothing refers to any more is removed": between changes the    *)
(* disk holds what the names point to, and no more, unless a change was    *)
(* interrupted.  (ir.py:14)                                                *)
NothingLeft ==
  lock = None /\ NoneBroken =>
    blob = {h \in Hash : Named(refs, h)} /\ meta = blob

(* A get or a list, which take no lock, miss the content of a name they    *)
(* saw, or its info, only when the name has moved on since.                *)
MissedMeansMoved ==
  [][\A r \in Req : NoneBroken /\ pc'[r] \in {"missed", "error"} =>
       /\ pc[r] \in {"load", "info"} /\ mine[r].key \in Name =>
            refs[mine[r].key] # mine[r].old
       /\ pc[r] = "infos" => \E k \in Key : mine[r].refs[k] \notin {None, refs[k]}]_vars

(* The names are a register (IrNames): no update is lost, and one whose    *)
(* request was dropped comes before any other or not at all, until one is  *)
(* overtaken.                                                              *)
Stage(r) ==
  IF pc[r] = "idle" THEN "idle"
  ELSE IF r \in orphan /\ pc[r] = "write" THEN "late"
  ELSE IF r \in orphan \/ pc[r] \in Broken THEN "dropped"
  ELSE IF pc[r] \in Over THEN "answered"
  ELSE IF pc[r] \in {"dropblob", "dropmeta"} THEN "applied"
  ELSE "called"

Register == INSTANCE IrNames WITH
  names <- refs, stage <- [r \in Req |-> Stage(r)]

IsRegister == Register!Spec
=============================================================================
