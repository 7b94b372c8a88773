---------------------------- MODULE IrStoreProofs ----------------------------
(***************************************************************************)
(* For any number of requests, names and contents, whoever is cancelled    *)
(* and wherever: names point to content that is there, and what no name    *)
(* points to is removed, until a change is overtaken by one that did not   *)
(* wait for the job a cancelled one had left in its thread.                *)
(*                                                                         *)
(* The disk between two changes is what the names say.  In a change it     *)
(* differs by the one content the change is about, which the locals of the *)
(* one at work tell: the request in the lock, or a cancelled one that      *)
(* still writes the refs or cleans up.  Any other job of a cancelled       *)
(* request only stores content, or removes a sidecar.                      *)
(***************************************************************************)
EXTENDS IrStore, TLAPS

Content(r) == {h \in Hash : Named(r, h)}
One(h) == {h} \cap Hash

Valid == {f \in Refs : \A h \in Hash : f[h] \in {h, None}}

Mine == [kind : Kind, key : Key \cup {None}, hash : Hash \cup {None},
         refs : Valid, old : Hash \cup {None}]

(* What a client asks of each kind. *)
Asked(m) ==
  \/ m.kind = "put" /\ m.key \in Name \cup {None} /\ m.hash \in Hash
  \/ m.kind = "delete" /\ m.key \in Key /\ m.hash = None

Types ==
  /\ pc \in [Req -> {"idle", "line"} \cup Change \cup Look \cup Over]
  /\ mine \in [Req -> Mine]
  /\ orphan \subseteq Req
  /\ lock \in Req \cup {None}
  /\ overtaken \in BOOLEAN
  /\ \A r \in Req : /\ pc[r] \in {"line", "read"} => Asked(mine[r])
                    /\ pc[r] = "look" => mine[r].key \in Key

DiskTypes == blob \subseteq Hash /\ meta \subseteq Hash /\ refs \in Valid

(* A change holds the lock, or is a cancelled one whose job goes on. *)
Holds ==
  /\ \A r \in Req : lock = r <=> pc[r] \in Change /\ r \notin orphan
  /\ \A r \in orphan : pc[r] \in Change \ {"read"}
  /\ \A r \in Req : pc[r] \in {"check", "blob", "meta"} => mine[r].hash \in Hash

(* The one at work on the names: the request in the lock, or one that has  *)
(* left it to its last jobs.                                               *)
Worker(r) == pc[r] \in Change /\ (r \in orphan => pc[r] \in {"write", "dropblob"})

Alone == \A r, q \in Req : Worker(r) /\ Worker(q) => r = q

(* Its change. *)
Changes(m) ==
  \E k \in Key : /\ k \in Hash => m.hash \in {k, None}
                 /\ m.refs = [refs EXCEPT ![k] = m.hash]
                 /\ m.old = refs[k] /\ m.old # m.hash

Knows(r) ==
  /\ pc[r] \in {"check", "blob", "meta", "write"} => Changes(mine[r])
  /\ pc[r] \in {"dropblob", "dropmeta"} => mine[r].refs = refs /\ mine[r].old \in Hash
  /\ pc[r] = "meta" => mine[r].hash \in blob
  /\ pc[r] = "write" => mine[r].hash \in blob \cup {None}
  /\ pc[r] = "dropmeta" => ~ Named(refs, mine[r].old)

Present == \A k \in Key : refs[k] # None => refs[k] \in blob

(* What the disk holds while nothing was interrupted. *)
Tidy ==
  /\ lock = None => blob = Content(refs) /\ meta = Content(refs)
  /\ \A r \in Req : lock = r =>
       LET m == mine[r]
       IN  /\ pc[r] \in {"read", "check", "blob"} =>
                blob = Content(refs) /\ meta = Content(refs)
           /\ pc[r] = "meta" =>
                blob = Content(refs) \cup One(m.hash) /\ meta = Content(refs)
           /\ pc[r] = "write" =>
                /\ blob = Content(refs) \cup One(m.hash)
                /\ meta = Content(refs) \cup One(m.hash)
           /\ pc[r] = "dropblob" =>
                blob = Content(refs) \cup {m.old} /\ meta = Content(refs) \cup {m.old}
           /\ pc[r] = "dropmeta" =>
                blob = Content(refs) /\ meta = Content(refs) \cup {m.old}

Sound ==
  /\ Alone /\ Present
  /\ \A r \in Req : Worker(r) => Knows(r)
  /\ NoneBroken => Tidy

Kept == Types /\ DiskTypes /\ Holds

StoreInv ==
  /\ Kept
  /\ overtaken => ~ NoneBroken
  /\ ~ overtaken => Sound
-----------------------------------------------------------------------------

USE DEF Key

LEMMA NoneIsNothing == None \notin Req /\ None \notin Key
  BY StoreAssumption

LEMMA MemoryIsMine ==
  ASSUME NEW d \in Kind, NEW k \in Key \cup {None}, NEW h \in Hash \cup {None}
  PROVE  Memory(d, k, h) \in Mine
  BY DEF Memory, Mine, Refs, Valid

LEMMA NothingIsMine == Nothing \in Mine
  BY MemoryIsMine DEF Nothing, Kind

LEMMA StoreInit == Init => StoreInv
<1> SUFFICES ASSUME Init PROVE StoreInv
  OBVIOUS
<1>1. Types /\ DiskTypes
  BY NothingIsMine DEF Init, Types, DiskTypes, Valid
<1>2. Holds /\ ~ overtaken /\ \A r \in Req : ~ Worker(r)
  BY NoneIsNothing DEF Init, Holds, Change, Worker
<1>3. Present
  BY NoneIsNothing DEF Init, Present, Named, Refs
<1>4. Tidy
  BY NoneIsNothing DEF Init, Tidy, Content
<1> QED
  BY <1>1, <1>2, <1>3, <1>4 DEF StoreInv, Kept, Sound, Alone

(* One write of refs.json: what is named then. *)
LEMMA ChangedContent ==
  ASSUME refs \in Valid, NEW m \in Mine, Changes(m)
  PROVE  /\ m.old = None => Content(m.refs) = Content(refs) \cup One(m.hash)
         /\ m.old # None =>
              Content(m.refs) \cup {m.old} = Content(refs) \cup One(m.hash)
<1>1. PICK k \in Key : m.refs = [refs EXCEPT ![k] = m.hash] /\ m.old = refs[k]
  BY DEF Changes
<1>2. m.hash \in Hash \cup {None} /\ refs \in [Key -> Hash \cup {None}]
      /\ m.old \in Hash \cup {None}
  BY DEF Mine, Refs, Valid
<1>3. \A h \in Hash : Named(m.refs, h) <=> h = m.hash \/ \E j \in Key \ {k} : refs[j] = h
  BY <1>1, <1>2 DEF Named
<1>4. \A h \in Hash : Named(refs, h) <=> h = m.old \/ \E j \in Key \ {k} : refs[j] = h
  BY <1>1, <1>2 DEF Named
<1>5. None \notin Hash
  BY NoneIsNothing
<1> QED
  BY <1>2, <1>3, <1>4, <1>5 DEF Content, One

-----------------------------------------------------------------------------
(* What every step keeps, overtaken or not *)

LEMMA LeaveKeeps ==
  ASSUME Types, Types', NEW r \in Req, NEW s \in Over, Leave(r, s)
  PROVE  /\ pc'[r] = s /\ r \notin orphan' /\ lock' # r
         /\ lock' = IF lock = r THEN None ELSE lock
         /\ \A b \in Req \ {r} : /\ pc'[b] = pc[b] /\ mine'[b] = mine[b]
                                 /\ b \in orphan' <=> b \in orphan
  BY NoneIsNothing DEF Leave, Types

LEMMA LeaveKept ==
  ASSUME Types, Holds, NEW r \in Req, NEW s \in Over, Leave(r, s), UNCHANGED overtaken
  PROVE  Types' /\ Holds'
<1>1. Types'
  BY NothingIsMine DEF Leave, Types, Over, Broken, Change, Look
<1>2. Holds'
  BY NoneIsNothing DEF Leave, Types, Holds, Over, Broken, Change
<1> QED
  BY <1>1, <1>2

(* A job of a change's thread ends, or is half done. *)
LEMMA JobKept ==
  ASSUME Types, Holds, NEW r \in Req, pc[r] \in Change, UNCHANGED overtaken, NEW m \in Mine,
         NEW s \in Over \cup (Change \ {"read"}),
         s \in {"check", "blob", "meta"} => m.hash \in Hash,
         JobEnds(r, s, m) \/ (s \in Change /\ Step(r, s, m))
  PROVE  Types' /\ Holds'
<1>1. CASE \E t \in Over : Leave(r, t)
  BY <1>1, LeaveKept
<1>2. CASE s \in Change /\ Step(r, s, m)
  <2>0. s \in Change \ {"read"}
    BY <1>2 DEF Change, Over, Broken
  <2>1. Types'
    BY <1>2, <2>0 DEF Step, Types, Change
  <2>2. Holds'
    BY <1>2, <2>0 DEF Step, Types, Holds, Change
  <2> QED
    BY <2>1, <2>2
<1>3. CASE JobEnds(r, s, m)
  BY <1>1, <1>2, <1>3 DEF JobEnds, Over, Broken
<1> QED
  BY <1>2, <1>3

LEMMA OneRefChanged ==
  ASSUME refs \in Valid, NEW k \in Key, NEW h \in Hash \cup {None}, k \in Hash => h \in {k, None}
  PROVE  [refs EXCEPT ![k] = h] \in Valid /\ refs[k] \in Hash \cup {None}
  BY DEF Refs, Valid

(* What a change keeps of the refs it has read. *)
LEMMA ReadIsKnown ==
  ASSUME Kept, NEW r \in Req, pc[r] = "read"
  PROVE  LET m == mine[r]
             k == IF m.kind = "put" THEN PutKey(m) ELSE m.key
             known == [m EXCEPT !.refs = [refs EXCEPT ![k] = m.hash], !.old = refs[k]]
         IN  /\ k \in Key /\ m.hash \in Hash \cup {None}
             /\ k \in Hash => m.hash \in {k, None}
             /\ m.kind = "put" => m.hash \in Hash
             /\ m.kind # "put" => m.hash = None
             /\ known \in Mine /\ known.hash = m.hash /\ known.old = refs[k]
             /\ known.refs = [refs EXCEPT ![k] = m.hash]
<1> DEFINE m == mine[r]
           k == IF m.kind = "put" THEN PutKey(m) ELSE m.key
<1>1. m \in Mine /\ Asked(m) /\ refs \in Valid
  BY DEF Kept, Types, DiskTypes
<1>2. /\ k \in Key /\ m.hash \in Hash \cup {None}
      /\ k \in Hash => m.hash \in {k, None}
      /\ m.kind = "put" => m.hash \in Hash
      /\ m.kind # "put" => m.hash = None
  BY <1>1, NoneIsNothing, StoreAssumption DEF Asked, PutKey
<1> HIDE DEF k
<1>3. [refs EXCEPT ![k] = m.hash] \in Valid /\ refs[k] \in Hash \cup {None}
  BY <1>1, <1>2, OneRefChanged
<1>4. /\ [m EXCEPT !.refs = [refs EXCEPT ![k] = m.hash], !.old = refs[k]] \in Mine
      /\ [m EXCEPT !.refs = [refs EXCEPT ![k] = m.hash], !.old = refs[k]].hash = m.hash
      /\ [m EXCEPT !.refs = [refs EXCEPT ![k] = m.hash], !.old = refs[k]].old = refs[k]
      /\ [m EXCEPT !.refs = [refs EXCEPT ![k] = m.hash], !.old = refs[k]].refs
           = [refs EXCEPT ![k] = m.hash]
  BY <1>1, <1>3 DEF Mine
<1> QED
  BY <1>2, <1>4 DEF k

LEMMA ChangeKept ==
  ASSUME Kept, NEW r \in Req,
         \/ ReadRefs(r) \/ CheckBlob(r) \/ WriteBlob(r) \/ WriteMeta(r)
         \/ WriteRefs(r) \/ DropBlob(r) \/ DropMeta(r) \/ DiskFails(r)
  PROVE  Kept' /\ UNCHANGED overtaken
<1> USE DEF Kept
<1>1. /\ mine[r] \in Mine /\ mine[r].refs \in Valid /\ pc[r] \in Change /\ UNCHANGED overtaken
      /\ pc[r] \in {"check", "blob", "meta"} => mine[r].hash \in Hash
  BY DEF Types, Holds, Mine, Change, ReadRefs, CheckBlob, WriteBlob, WriteMeta, WriteRefs,
         DropBlob, DropMeta, DiskFails, past
<1>2. CASE ReadRefs(r)
  <2> DEFINE m == mine[r]
             k == IF m.kind = "put" THEN PutKey(m) ELSE m.key
             known == [m EXCEPT !.refs = [refs EXCEPT ![k] = m.hash], !.old = refs[k]]
  <2>1. known \in Mine /\ known.hash = m.hash /\ (m.kind = "put" => m.hash \in Hash)
    BY <1>2, ReadIsKnown DEF ReadRefs
  <2>2. \E s \in {"done", "check", "refused", "write"} :
          JobEnds(r, s, known) /\ (s = "check" => m.kind = "put")
    BY <1>2 DEF ReadRefs
  <2> HIDE DEF known
  <2>3. DiskTypes'
    BY <1>2 DEF ReadRefs, disk, DiskTypes
  <2> QED
    BY <1>1, <2>1, <2>2, <2>3, JobKept DEF Over, Change
<1>3. CASE CheckBlob(r)
  <2>1. JobEnds(r, "write", mine[r]) \/ Step(r, "blob", mine[r])
    BY <1>3 DEF CheckBlob
  <2>2. DiskTypes' /\ mine[r].hash \in Hash
    BY <1>1, <1>3 DEF CheckBlob, disk, DiskTypes
  <2> QED
    BY <1>1, <2>1, <2>2, JobKept DEF Change
<1>4. CASE WriteBlob(r)
  <2>1. Step(r, "meta", mine[r]) /\ mine[r].hash \in Hash
    BY <1>1, <1>4 DEF WriteBlob
  <2>2. DiskTypes'
    BY <1>4, <2>1 DEF WriteBlob, DiskTypes
  <2> QED
    BY <1>1, <2>1, <2>2, JobKept DEF Change
<1>5. CASE WriteMeta(r)
  <2>1. JobEnds(r, "write", mine[r]) /\ mine[r].hash \in Hash
    BY <1>1, <1>5 DEF WriteMeta
  <2>2. DiskTypes'
    BY <1>5, <2>1 DEF WriteMeta, DiskTypes
  <2> QED
    BY <1>1, <2>1, <2>2, JobKept DEF Change
<1>6. CASE WriteRefs(r)
  <2>1. JobEnds(r, "done", mine[r]) \/ JobEnds(r, "dropblob", mine[r])
    BY <1>6 DEF WriteRefs
  <2>2. DiskTypes'
    BY <1>1, <1>6 DEF WriteRefs, DiskTypes
  <2> QED
    BY <1>1, <2>1, <2>2, JobKept DEF Change, Over
<1>7. CASE DropBlob(r) \/ DropMeta(r)
  <2>1. JobEnds(r, "done", mine[r]) \/ Step(r, "dropmeta", mine[r])
    BY <1>7 DEF DropBlob, DropMeta
  <2>2. DiskTypes'
    BY <1>7 DEF DropBlob, DropMeta, DiskTypes
  <2> QED
    BY <1>1, <2>1, <2>2, JobKept DEF Change, Over
<1>8. CASE DiskFails(r)
  <2>1. JobEnds(r, "failed", mine[r])
    BY <1>8 DEF DiskFails
  <2>2. DiskTypes'
    BY <1>8 DEF DiskFails, disk, DiskTypes
  <2> QED
    BY <1>1, <2>1, <2>2, JobKept DEF Change, Over, Broken
<1> QED
  BY <1>2, <1>3, <1>4, <1>5, <1>6, <1>7, <1>8

(* What a client asks has the type of a request, and its kind. *)
LEMMA AskIsMine ==
  ASSUME NEW ask \in Requests
  PROVE  /\ ask \in Mine /\ (Start(ask) = "line" => Asked(ask))
         /\ (Start(ask) = "look" => ask.key \in Key)
         /\ Start(ask) \in {"line", "look", "names"}
<1>1. CASE \E k \in Name \cup {None}, h \in Hash : ask = Memory("put", k, h)
  <2>1. PICK k \in Name \cup {None}, h \in Hash : ask = Memory("put", k, h)
    BY <1>1
  <2>2. ask \in Mine
    BY <2>1, MemoryIsMine DEF Key, Kind
  <2> QED
    BY <2>1, <2>2 DEF Asked, Memory, Start
<1>2. CASE \E d \in {"delete", "get"}, k \in Key : ask = Memory(d, k, None)
  <2>1. PICK d \in {"delete", "get"}, k \in Key : ask = Memory(d, k, None)
    BY <1>2
  <2>2. ask \in Mine
    BY <2>1, MemoryIsMine DEF Kind
  <2> QED
    BY <2>1, <2>2 DEF Asked, Memory, Start
<1>3. CASE ask = Memory("list", None, None)
  <2>1. ask \in Mine
    BY <1>3, MemoryIsMine DEF Kind
  <2> QED
    BY <1>3, <2>1 DEF Memory, Start
<1> QED
  BY <1>1, <1>2, <1>3 DEF Requests

LEMMA ArriveKept ==
  ASSUME Kept, NEW r \in Req, Arrive(r)
  PROVE  /\ Kept' /\ UNCHANGED <<disk, orphan, lock, past>>
         /\ pc[r] = "idle" /\ pc'[r] \in {"line", "look", "names"}
         /\ \A b \in Req \ {r} : pc'[b] = pc[b] /\ mine'[b] = mine[b]
<1>1. PICK ask \in Requests :
        /\ mine' = [mine EXCEPT ![r] = ask]
        /\ pc' = [pc EXCEPT ![r] = Start(ask)]
  BY DEF Arrive
<1>2. /\ ask \in Mine /\ (Start(ask) = "line" => Asked(ask))
      /\ (Start(ask) = "look" => ask.key \in Key)
      /\ Start(ask) \in {"line", "look", "names"}
  BY AskIsMine
<1>3. pc[r] = "idle" /\ UNCHANGED <<orphan, lock, disk, past>>
  BY DEF Arrive
<1>4. Types'
  BY <1>1, <1>2, <1>3 DEF Kept, Types, Change, Look, past
<1>5. Holds'
  BY <1>1, <1>2, <1>3 DEF Kept, Types, Holds, Change
<1>6. DiskTypes'
  BY <1>3 DEF Kept, DiskTypes, disk
<1> QED
  BY <1>1, <1>2, <1>3, <1>4, <1>5, <1>6 DEF Kept, Types

LEMMA EnterKept ==
  ASSUME Kept, NEW r \in Req, Enter(r)
  PROVE  /\ Kept' /\ UNCHANGED <<disk, orphan, mine>> /\ lock = None /\ lock' = r
         /\ pc[r] = "line" /\ pc'[r] = "read" /\ \A b \in Req \ {r} : pc'[b] = pc[b]
         /\ overtaken' = (overtaken \/ Trails)
<1>1. /\ pc[r] = "line" /\ lock = None /\ lock' = r /\ pc' = [pc EXCEPT ![r] = "read"]
      /\ UNCHANGED <<mine, orphan, disk>> /\ overtaken' = (overtaken \/ Trails)
  BY DEF Enter
<1>2. Types'
  BY <1>1 DEF Kept, Types, Change, Trails
<1>3. Holds'
  BY <1>1, NoneIsNothing DEF Kept, Types, Holds, Change
<1>4. DiskTypes'
  BY <1>1 DEF Kept, DiskTypes, disk
<1> QED
  BY <1>1, <1>2, <1>3, <1>4 DEF Kept, Types

LEMMA LookKept ==
  ASSUME Kept, NEW r \in Req,
         LookUp(r) \/ Load(r) \/ Info(r) \/ ReadNames(r) \/ ReadInfo(r)
  PROVE  /\ Kept' /\ UNCHANGED <<disk, orphan, lock, past>>
         /\ pc[r] \in Look /\ pc'[r] \notin Change
         /\ \A b \in Req \ {r} : pc'[b] = pc[b] /\ mine'[b] = mine[b]
<1> USE DEF Kept
<1> DEFINE LookKeeps ==
      /\ Kept' /\ UNCHANGED <<disk, orphan, lock, past>>
      /\ pc[r] \in Look /\ pc'[r] \notin Change
      /\ \A b \in Req \ {r} : pc'[b] = pc[b] /\ mine'[b] = mine[b]
<1>1. pc[r] \in Look /\ UNCHANGED <<disk, past>> /\ mine[r] \in Mine /\ lock # r /\ r \notin orphan
  BY DEF LookUp, Load, Info, ReadNames, ReadInfo, Look, Types, Holds, Change
<1>2. DiskTypes'
  BY <1>1 DEF DiskTypes, disk
<1>3. ASSUME NEW s \in Over, Leave(r, s) PROVE LookKeeps
  <2>1. Types' /\ Holds'
    BY <1>1, <1>3, LeaveKept DEF past
  <2>2. lock' = lock /\ orphan' = orphan /\ pc'[r] = s
    BY <1>1, <1>3 DEF Leave, Types
  <2>3. \A b \in Req \ {r} : pc'[b] = pc[b] /\ mine'[b] = mine[b]
    BY <1>3 DEF Leave, Types
  <2> QED
    BY <1>1, <1>2, <2>1, <2>2, <2>3 DEF Over, Broken, Change
<1>4. ASSUME NEW s \in {"load", "info", "infos"}, NEW m \in Mine, Step(r, s, m) PROVE LookKeeps
  <2>1. Types' /\ Holds' /\ lock' = lock /\ orphan' = orphan /\ pc'[r] = s
        /\ \A b \in Req \ {r} : pc'[b] = pc[b] /\ mine'[b] = mine[b]
    BY <1>1, <1>4 DEF Step, Types, Holds, Change, Look, past
  <2> QED
    BY <1>1, <1>2, <2>1 DEF Change, past
<1>5. CASE LookUp(r)
  <2> DEFINE h == IF mine[r].key \in Hash THEN mine[r].key ELSE refs[mine[r].key]
  <2>1. h \in Hash \cup {None}
    BY <1>5 DEF LookUp, Types, DiskTypes, Refs, Valid
  <2>2. [mine[r] EXCEPT !.old = h] \in Mine
    BY <1>1, <2>1 DEF Mine
  <2>3. Leave(r, "missed") \/ Step(r, "load", [mine[r] EXCEPT !.old = h])
    BY <1>5 DEF LookUp
  <2> HIDE DEF h
  <2> QED
    BY <1>3, <1>4, <2>2, <2>3 DEF Over
<1>6. CASE Load(r) \/ Info(r)
  <2>1. (\E s \in {"missed", "found", "error"} : Leave(r, s)) \/ Step(r, "info", mine[r])
    BY <1>6 DEF Load, Info
  <2> QED
    BY <1>1, <1>3, <1>4, <2>1 DEF Over
<1>7. CASE ReadNames(r)
  <2>1. [mine[r] EXCEPT !.refs = refs] \in Mine
    BY <1>1 DEF Mine, DiskTypes
  <2>2. Leave(r, "found") \/ Step(r, "infos", [mine[r] EXCEPT !.refs = refs])
    BY <1>7 DEF ReadNames
  <2> QED
    BY <1>3, <1>4, <2>1, <2>2 DEF Over
<1>8. CASE ReadInfo(r)
  <2>1. PICK k \in Key : \/ Leave(r, "error") \/ Leave(r, "found")
                         \/ Step(r, "infos", [mine[r] EXCEPT !.refs = [@ EXCEPT ![k] = None]])
    BY <1>8 DEF ReadInfo
  <2>2. [mine[r] EXCEPT !.refs = [@ EXCEPT ![k] = None]] \in Mine
    <3>1. mine[r].refs \in Valid
      BY <1>1 DEF Mine
    <3>2. [mine[r].refs EXCEPT ![k] = None] \in Valid
      BY <3>1 DEF Refs, Valid
    <3> QED
      BY <1>1, <3>2 DEF Mine
  <2> QED
    BY <1>3, <1>4, <2>1, <2>2 DEF Over
<1> QED
  BY <1>5, <1>6, <1>7, <1>8

LEMMA CancelKept ==
  ASSUME Kept, NEW r \in Req, Cancel(r)
  PROVE  /\ Kept' /\ UNCHANGED <<disk, past>> /\ ~ NoneBroken' /\ r \notin orphan
         /\ pc[r] \in {"line"} \cup Change \cup Look
         /\ \A b \in Req \ {r} : /\ pc'[b] = pc[b] /\ mine'[b] = mine[b]
                                 /\ b \in orphan' <=> b \in orphan
         /\ \/ r \in orphan' /\ pc'[r] = pc[r] /\ mine'[r] = mine[r]
            \/ pc'[r] = "gone"
<1> USE DEF Kept
<1>1. r \notin orphan /\ UNCHANGED <<disk, past>> /\ pc[r] \in {"line"} \cup Change \cup Look
  BY DEF Cancel
<1>2. DiskTypes'
  BY <1>1 DEF DiskTypes, disk
<1>3. CASE pc[r] \in Change \ {"read"}
  <2>1. orphan' = orphan \cup {r} /\ lock = r /\ lock' = None /\ UNCHANGED <<pc, mine>>
    BY <1>1, <1>3 DEF Cancel, Holds
  <2>2. Types' /\ Holds'
    BY <1>1, <1>3, <2>1, NoneIsNothing DEF Types, Holds, Change, past
  <2> QED
    BY <1>1, <1>2, <2>1, <2>2 DEF NoneBroken
<1>4. CASE pc[r] \notin Change \ {"read"}
  <2>1. Leave(r, "gone") /\ "gone" \in Over /\ UNCHANGED overtaken
    BY <1>1, <1>4 DEF Cancel, Over, Broken, past
  <2>2. Types' /\ Holds'
    BY <2>1, LeaveKept
  <2>3. /\ pc'[r] = "gone"
        /\ \A b \in Req \ {r} : /\ pc'[b] = pc[b] /\ mine'[b] = mine[b]
                                /\ b \in orphan' <=> b \in orphan
    BY <2>1, <2>2, LeaveKeeps
  <2> QED
    BY <1>1, <1>2, <2>2, <2>3 DEF NoneBroken, Broken
<1> QED
  BY <1>3, <1>4

LEMMA CrashKept ==
  ASSUME Kept, Crash
  PROVE  /\ Kept' /\ UNCHANGED <<disk, overtaken>> /\ lock' = None /\ orphan' = {}
         /\ \A r \in Req : pc'[r] = IF pc[r] \in {"idle"} \cup Over THEN pc[r] ELSE "gone"
<1>1. /\ pc' = [r \in Req |-> IF pc[r] \in {"idle"} \cup Over THEN pc[r] ELSE "gone"]
      /\ mine' = [r \in Req |-> Nothing] /\ orphan' = {} /\ lock' = None
      /\ UNCHANGED <<disk, overtaken>>
  BY DEF Crash
<1>2. Types'
  BY <1>1, NothingIsMine DEF Kept, Types, Change, Over, Broken, Look
<1>3. Holds'
  BY <1>1, NoneIsNothing DEF Kept, Types, Holds, Change, Over, Broken, Look
<1>4. DiskTypes'
  BY <1>1 DEF Kept, DiskTypes, disk
<1> QED
  BY <1>1, <1>2, <1>3, <1>4 DEF Kept

LEMMA RestKept ==
  ASSUME Kept, AllOver \/ UNCHANGED vars
  PROVE  Kept' /\ UNCHANGED <<pc, mine, orphan, lock, disk, overtaken>>
<1>1. UNCHANGED <<pc, mine, orphan, lock, disk, overtaken>>
  BY DEF AllOver, vars, past
<1> QED
  BY <1>1 DEF Kept, Types, Asked, Holds, DiskTypes, disk

LEMMA KeptStays ==
  ASSUME Kept, [Next]_vars
  PROVE  Kept' /\ (overtaken' => overtaken \/ orphan' # {}) /\ (overtaken => overtaken')
<1> DEFINE Stays == Kept' /\ (overtaken' => overtaken \/ orphan' # {}) /\ (overtaken => overtaken')
<1>1. ASSUME NEW r \in Req, Enter(r) PROVE Stays
  <2>1. Kept' /\ UNCHANGED orphan /\ overtaken' = (overtaken \/ Trails)
    BY <1>1, EnterKept
  <2> QED
    BY <2>1 DEF Trails
<1>2. ASSUME NEW r \in Req, Arrive(r) \/ Cancel(r) PROVE Stays
  BY <1>2, ArriveKept, CancelKept DEF past
<1>3. ASSUME NEW r \in Req, Handler(r) PROVE Stays
  BY <1>1, <1>3, ChangeKept, LookKept DEF Handler, past
<1>4. CASE Crash \/ AllOver \/ UNCHANGED vars
  BY <1>4, CrashKept, RestKept
<1> QED
  BY <1>2, <1>3, <1>4 DEF Next

(* What is interrupted stays so. *)
LEMMA BrokenStays ==
  ASSUME Kept, Next, NoneBroken'
  PROVE  NoneBroken
<1> USE DEF Kept
<1> SUFFICES ASSUME NEW b \in Req, pc[b] \in Broken \/ b \in orphan
             PROVE  pc'[b] \in Broken \/ b \in orphan'
  BY DEF NoneBroken
<1>1. pc \in [Req -> {"idle", "line"} \cup Change \cup Look \cup Over]
  BY DEF Types
<1>2. b \in orphan => pc[b] \in Change
  BY DEF Holds
<1>3. ASSUME NEW r \in Req, Arrive(r) \/ Cancel(r)
      PROVE  pc'[b] \in Broken \/ b \in orphan'
  BY <1>1, <1>2, <1>3 DEF Arrive, Cancel, Leave, Broken, Change, Look
<1>4. ASSUME NEW r \in Req, Enter(r) \/ LookUp(r) \/ Load(r) \/ Info(r)
      PROVE  pc'[b] \in Broken \/ b \in orphan'
  BY <1>1, <1>2, <1>4 DEF Enter, LookUp, Load, Info, Leave, Step, Broken, Change
<1>10. ASSUME NEW r \in Req, ReadNames(r) \/ ReadInfo(r)
       PROVE  pc'[b] \in Broken \/ b \in orphan'
  BY <1>1, <1>2, <1>10 DEF ReadNames, ReadInfo, Leave, Step, Broken, Change
<1>5. ASSUME NEW r \in Req, NEW s, NEW m, pc[r] \in Change, JobEnds(r, s, m) \/ Step(r, s, m)
      PROVE  pc'[b] \in Broken \/ b \in orphan'
  BY <1>1, <1>2, <1>5 DEF JobEnds, Leave, Step, Broken, Change
<1>6. ASSUME NEW r \in Req, ReadRefs(r) \/ CheckBlob(r) \/ WriteBlob(r) \/ WriteMeta(r)
      PROVE  pc'[b] \in Broken \/ b \in orphan'
  BY <1>5, <1>6 DEF ReadRefs, CheckBlob, WriteBlob, WriteMeta, Change
<1>7. ASSUME NEW r \in Req, WriteRefs(r) \/ DropBlob(r) \/ DropMeta(r) \/ DiskFails(r)
      PROVE  pc'[b] \in Broken \/ b \in orphan'
  BY <1>5, <1>7 DEF WriteRefs, DropBlob, DropMeta, DiskFails, Change
<1>8. CASE Crash
  BY <1>1, <1>2, <1>8 DEF Crash, Broken, Over, Change
<1>9. CASE AllOver
  BY <1>9 DEF AllOver, vars
<1> QED
  BY <1>3, <1>4, <1>6, <1>7, <1>8, <1>9, <1>10 DEF Next, Handler

-----------------------------------------------------------------------------
(* What a step has to show of the disk, while nothing was overtaken: when  *)
(* the one at work is through ...                                          *)
LEMMA WorkEnds ==
  ASSUME Kept, Kept', Sound, NEW r \in Req, Worker(r), Present', NoneBroken' => NoneBroken,
         NEW s \in Over, Leave(r, s),
         s \notin Broken /\ NoneBroken => blob' = Content(refs') /\ meta' = Content(refs')
  PROVE  Sound'
<1>1. /\ pc'[r] = s /\ r \notin orphan' /\ lock' # r
      /\ \A b \in Req \ {r} : pc'[b] = pc[b] /\ (b \in orphan' <=> b \in orphan)
  BY LeaveKeeps DEF Kept
<1>2. \A q \in Req : ~ Worker(q)'
  <2>1. ~ Worker(r)'
    BY <1>1 DEF Worker, Over, Broken, Change
  <2>2. ASSUME NEW q \in Req \ {r}, Worker(q)' PROVE FALSE
    <3>1. Worker(q)
      BY <1>1, <2>2 DEF Worker
    <3> QED
      BY <3>1 DEF Sound, Alone
  <2> QED
    BY <2>1, <2>2
<1>3. lock' = None
  BY <1>2 DEF Kept, Types, Holds, Worker
<1>4. NoneBroken' => s \notin Broken
  BY <1>1 DEF NoneBroken
<1>5. NoneBroken' => Tidy'
  BY <1>3, <1>4, NoneIsNothing DEF Tidy, Content, Named
<1> QED
  BY <1>2, <1>5 DEF Sound, Alone

(* ... and when it goes on. *)
LEMMA WorkGoesOn ==
  ASSUME Kept, Sound, NEW r \in Req, Worker(r), Present', NoneBroken' => NoneBroken,
         NEW s \in Change, NEW m \in Mine, Step(r, s, m),
         pc'[r] = s /\ mine'[r] = m => Knows(r)' /\ (lock' = r /\ NoneBroken => Tidy')
  PROVE  Sound'
<1>1. /\ pc'[r] = s /\ mine'[r] = m /\ UNCHANGED <<lock, orphan>>
      /\ \A b \in Req \ {r} : pc'[b] = pc[b]
  BY DEF Step, Kept, Types
<1>2. \A q \in Req \ {r} : ~ Worker(q)'
  <2> SUFFICES ASSUME NEW q \in Req \ {r}, Worker(q)' PROVE FALSE
    OBVIOUS
  <2>1. Worker(q)
    BY <1>1 DEF Worker
  <2> QED
    BY <2>1 DEF Sound, Alone
<1>3. NoneBroken => lock' = r
  BY <1>1 DEF NoneBroken, Kept, Holds, Worker
<1> QED
  BY <1>1, <1>2, <1>3 DEF Sound, Alone

LEMMA OthersKnow ==
  ASSUME NEW b \in Req, Knows(b), pc'[b] = pc[b], mine'[b] = mine[b],
         refs' = refs, blob \subseteq blob'
  PROVE  Knows(b)'
  BY DEF Knows, Changes, Named

(* Steps that touch neither the disk nor the one at work. *)
LEMMA QuietStep ==
  ASSUME Sound, UNCHANGED <<disk, lock>>, NoneBroken' => NoneBroken,
         \A b \in Req : Worker(b)' => Worker(b) /\ pc'[b] = pc[b] /\ mine'[b] = mine[b],
         \A b \in Req : lock = b => pc'[b] = pc[b] /\ mine'[b] = mine[b]
  PROVE  Sound'
<1>1. Present' /\ Alone'
  BY DEF disk, Sound, Present, Alone
<1>2. \A b \in Req : Worker(b)' => Knows(b)'
  BY OthersKnow DEF disk, Sound
<1>3. NoneBroken' => Tidy'
  BY DEF disk, Sound, Tidy, Content, Named, One
<1> QED
  BY <1>1, <1>2, <1>3 DEF Sound

(* Steps that interrupt a request, or go on with the job of one that was:  *)
(* those at work go on, if there are any, with what they know.             *)
LEMMA InterruptedStep ==
  ASSUME Sound, refs' = refs, blob \subseteq blob', ~ NoneBroken',
         \A b \in Req : Worker(b)' => Worker(b) /\ pc'[b] = pc[b] /\ mine'[b] = mine[b]
  PROVE  Sound'
<1>1. Present' /\ Alone'
  BY DEF Sound, Present, Alone
<1>2. \A b \in Req : Worker(b)' => Knows(b)'
  BY OthersKnow DEF Sound
<1> QED
  BY <1>1, <1>2 DEF Sound

(* A request cancelled while it was storing its content only adds to it,   *)
(* and one that had come to the sidecar only removes that.                 *)
LEMMA TrailingStep ==
  ASSUME Kept, Kept', Sound, NEW r \in orphan, ~ Worker(r), Handler(r)
  PROVE  Sound'
<1>1. r \in Req /\ pc[r] \in {"check", "blob", "meta", "dropmeta"}
  BY DEF Kept, Types, Holds, Worker, Change
<1>2. /\ refs' = refs /\ blob \subseteq blob'
      /\ \/ Leave(r, "gone")
         \/ \E s \in {"blob", "meta"} : Step(r, s, mine[r])
  <2>1. CASE CheckBlob(r)
    BY <1>1, <2>1 DEF CheckBlob, JobEnds, disk
  <2>2. CASE WriteBlob(r)
    BY <1>1, <2>2 DEF WriteBlob
  <2>3. CASE WriteMeta(r)
    BY <1>1, <2>3 DEF WriteMeta, JobEnds
  <2>4. CASE DiskFails(r)
    BY <1>1, <2>4 DEF DiskFails, JobEnds, disk
  <2>5. CASE DropMeta(r)
    BY <1>1, <2>5 DEF DropMeta, JobEnds
  <2> QED
    BY <1>1, <2>1, <2>2, <2>3, <2>4, <2>5 DEF Handler, Enter, ReadRefs, WriteRefs, DropBlob,
       LookUp, Load, Info, ReadNames, ReadInfo
<1>3. /\ ~ NoneBroken'
      /\ \A b \in Req : Worker(b)' => Worker(b) /\ pc'[b] = pc[b] /\ mine'[b] = mine[b]
  <2>1. CASE Leave(r, "gone")
    <3>1. /\ pc'[r] = "gone"
          /\ \A b \in Req \ {r} : /\ pc'[b] = pc[b] /\ mine'[b] = mine[b]
                                  /\ b \in orphan' <=> b \in orphan
      BY <1>1, <2>1, LeaveKeeps DEF Kept, Over, Broken
    <3> QED
      BY <1>1, <3>1 DEF NoneBroken, Broken, Worker, Change
  <2>2. ASSUME NEW s \in {"blob", "meta"}, Step(r, s, mine[r])
        PROVE  <1>3!:
    <3>1. /\ pc'[r] = s /\ orphan' = orphan
          /\ \A b \in Req \ {r} : pc'[b] = pc[b] /\ mine'[b] = mine[b]
      BY <1>1, <2>2 DEF Step, Kept, Types
    <3> QED
      BY <1>1, <3>1 DEF NoneBroken, Worker
  <2> QED
    BY <1>2, <2>1, <2>2
<1> QED
  BY <1>2, <1>3, InterruptedStep

LEMMA ReadRefsStep ==
  ASSUME Kept, Kept', Sound, NEW r \in Req, ReadRefs(r), NoneBroken' => NoneBroken
  PROVE  Sound'
<1> DEFINE m == mine[r]
           k == IF m.kind = "put" THEN PutKey(m) ELSE m.key
           known == [m EXCEPT !.refs = [refs EXCEPT ![k] = m.hash], !.old = refs[k]]
<1>1. /\ pc[r] = "read" /\ r \notin orphan /\ UNCHANGED disk /\ Worker(r) /\ lock = r
  BY DEF ReadRefs, Kept, Holds, Change, Worker
<1>2. /\ k \in Key /\ m.hash \in Hash \cup {None}
      /\ k \in Hash => m.hash \in {k, None}
      /\ m.kind = "put" => m.hash \in Hash
      /\ m.kind # "put" => m.hash = None
      /\ known \in Mine /\ known.hash = m.hash /\ known.old = refs[k]
      /\ known.refs = [refs EXCEPT ![k] = m.hash]
  BY <1>1, ReadIsKnown
<1>3. Present'
  BY <1>1 DEF Sound, disk, Present
<1>4. NoneBroken => blob' = Content(refs') /\ meta' = Content(refs')
  BY <1>1 DEF Sound, Tidy, disk, Content, Named
<1>5. CASE \E s \in {"done", "refused"} : Leave(r, s)
  BY <1>1, <1>3, <1>4, <1>5, WorkEnds DEF Over
<1>6. ASSUME NEW s \in {"check", "write"}, Step(r, s, known),
             refs[k] # m.hash, s = "write" => m.hash = None
      PROVE  Sound'
  <2> SUFFICES ASSUME pc'[r] = s, mine'[r] = known
               PROVE  Knows(r)' /\ (lock' = r /\ NoneBroken => Tidy')
    BY <1>1, <1>2, <1>3, <1>6, WorkGoesOn DEF Change
  <2> HIDE DEF known, k, m
  <2>1. Changes(mine[r])' /\ mine'[r].hash = m.hash
    <3>1. refs' = refs /\ mine'[r].refs = [refs EXCEPT ![k] = m.hash]
          /\ mine'[r].old = refs[k] /\ mine'[r].hash = m.hash
      BY <1>1, <1>2 DEF disk
    <3> QED
      BY <1>2, <1>6, <3>1 DEF Changes
  <2>2. Knows(r)'
    BY <1>6, <2>1 DEF Knows
  <2>3. lock' = r /\ NoneBroken => Tidy'
    BY <1>2, <1>4, <1>6, NoneIsNothing DEF Tidy, One, Content, Named
  <2> QED
    BY <2>2, <2>3
<1>7. CASE m.kind = "put"
  <2>1. CASE Unchanged(m)
    <3>1. Leave(r, "done")
      BY <1>1, <1>7, <2>1 DEF ReadRefs, JobEnds, Over
    <3> QED
      BY <1>5, <3>1
  <2>2. CASE ~ Unchanged(m)
    <3>1. Step(r, "check", known)
      BY <1>1, <1>7, <2>2 DEF ReadRefs, JobEnds, Over, Broken
    <3>2. refs[k] # m.hash
      BY <1>7, <2>2 DEF Unchanged
    <3> HIDE DEF known
    <3> QED
      BY <1>6, <3>1, <3>2
  <2> QED
    BY <2>1, <2>2
<1>8. CASE m.kind # "put"
  <2>1. CASE refs[k] = None
    <3>1. Leave(r, "refused")
      BY <1>1, <1>8, <2>1 DEF ReadRefs, JobEnds, Over
    <3> QED
      BY <1>5, <3>1
  <2>2. CASE refs[k] # None
    <3>1. Step(r, "write", known)
      BY <1>1, <1>8, <2>2 DEF ReadRefs, JobEnds, Over, Broken
    <3> HIDE DEF known
    <3> QED
      BY <1>2, <1>6, <1>8, <2>2, <3>1
  <2> QED
    BY <2>1, <2>2
<1> QED
  BY <1>7, <1>8

(* Storing the content: the names stay, and so does what r knows of them. *)
LEMMA StoreStep ==
  ASSUME Kept, Kept', Sound, NEW r \in Req, r \notin orphan,
         CheckBlob(r) \/ WriteBlob(r) \/ WriteMeta(r), NoneBroken' => NoneBroken
  PROVE  Sound'
<1> DEFINE m == mine[r]
<1>1. /\ pc[r] \in {"check", "blob", "meta"} /\ refs' = refs /\ Worker(r) /\ lock = r
      /\ m \in Mine /\ m.hash \in Hash /\ m.hash # None
  BY NoneIsNothing
     DEF CheckBlob, WriteBlob, WriteMeta, disk, Kept, Holds, Types, Change, Worker
<1>2. /\ Changes(m) /\ (pc[r] = "meta" => m.hash \in blob)
      /\ (NoneBroken => Tidy)
  BY <1>1 DEF Sound, Knows
<1>3. Content(refs') = Content(refs) /\ One(m.hash) = {m.hash}
  BY <1>1 DEF Content, Named, One
<1> HIDE DEF m
<1>4. ASSUME mine'[r] = m PROVE Changes(mine[r])'
  BY <1>1, <1>2, <1>4 DEF Changes
<1>5. ASSUME Present', NEW s \in {"blob", "meta", "write"}, Step(r, s, m),
             s \in {"meta", "write"} => m.hash \in blob',
             NoneBroken =>
               /\ s = "blob" => blob' = Content(refs) /\ meta' = Content(refs)
               /\ s = "meta" => blob' = Content(refs) \cup {m.hash} /\ meta' = Content(refs)
               /\ s = "write" => /\ blob' = Content(refs) \cup {m.hash}
                                 /\ meta' = Content(refs) \cup {m.hash}
      PROVE  Sound'
  <2> SUFFICES ASSUME pc'[r] = s, mine'[r] = m
               PROVE  Knows(r)' /\ (lock' = r /\ NoneBroken => Tidy')
    BY <1>1, <1>5, WorkGoesOn DEF Change
  <2>1. Knows(r)'
    BY <1>4, <1>5 DEF Knows
  <2>2. lock' = r /\ NoneBroken => Tidy'
    <3> HAVE lock' = r /\ NoneBroken
    <3>1. Content(refs)' = Content(refs) /\ One(mine[r].hash)' = {m.hash}
      BY <1>3 DEF Content, Named, One
    <3> QED
      BY <1>5, <3>1, NoneIsNothing DEF Tidy
  <2> QED
    BY <2>1, <2>2
<1>6. CASE CheckBlob(r)
  <2>1. Present' /\ UNCHANGED <<blob, meta>> /\ pc[r] = "check"
    BY <1>6 DEF CheckBlob, disk, Sound, Present
  <2>2. NoneBroken => blob = Content(refs) /\ meta = Content(refs)
    BY <1>1, <1>2, <2>1 DEF Tidy
  <2>3. CASE m.hash \in blob
    <3>1. Step(r, "write", m)
      BY <1>1, <1>6, <2>3 DEF CheckBlob, JobEnds, Over, Broken, m
    <3> QED
      BY <1>5, <2>1, <2>2, <2>3, <3>1
  <2>4. CASE m.hash \notin blob
    <3>1. Step(r, "blob", m)
      BY <1>6, <2>4 DEF CheckBlob, m
    <3> QED
      BY <1>5, <2>1, <2>2, <3>1
  <2> QED
    BY <2>3, <2>4
<1>7. CASE WriteBlob(r)
  <2>1. /\ blob' = blob \cup {m.hash} /\ meta' = meta /\ pc[r] = "blob" /\ Step(r, "meta", m)
    BY <1>7 DEF WriteBlob, m
  <2>2. Present'
    BY <1>1, <2>1 DEF Sound, Present
  <2>3. NoneBroken => blob = Content(refs) /\ meta = Content(refs)
    BY <1>1, <1>2, <2>1 DEF Tidy
  <2> QED
    BY <1>5, <2>1, <2>2, <2>3
<1>8. CASE WriteMeta(r)
  <2>1. meta' = meta \cup {m.hash} /\ blob' = blob /\ pc[r] = "meta"
    BY <1>8 DEF WriteMeta, m
  <2>2. Step(r, "write", m)
    BY <1>1, <1>8 DEF WriteMeta, JobEnds, Over, Broken, m
  <2>3. Present'
    BY <1>1, <2>1 DEF Sound, Present
  <2>4. NoneBroken => blob = Content(refs) \cup {m.hash} /\ meta = Content(refs)
    BY <1>1, <1>2, <1>3, <2>1 DEF Tidy, m
  <2> QED
    BY <1>1, <1>2, <1>5, <2>1, <2>2, <2>3, <2>4
<1> QED
  BY <1>6, <1>7, <1>8

LEMMA WriteRefsStep ==
  ASSUME Kept, Kept', Sound, NEW r \in Req, WriteRefs(r), NoneBroken' => NoneBroken
  PROVE  Sound'
<1> DEFINE m == mine[r]
<1>1. /\ pc[r] = "write" /\ UNCHANGED <<blob, meta>> /\ refs' = m.refs /\ Worker(r)
      /\ m \in Mine /\ refs \in Valid /\ m.refs \in Valid
      /\ m.old \in Hash \cup {None} /\ m.hash \in Hash \cup {None}
  BY DEF WriteRefs, Kept, Types, DiskTypes, Change, Worker, Mine
<1>2. /\ Changes(m) /\ m.hash \in blob \cup {None}
      /\ (NoneBroken => Tidy)
  BY <1>1 DEF Sound, Knows
<1>3. PICK k \in Key : m.refs = [refs EXCEPT ![k] = m.hash] /\ m.old = refs[k]
  BY <1>2 DEF Changes
<1>4. /\ m.old = None => Content(refs') = Content(refs) \cup One(m.hash)
      /\ m.old # None => Content(refs') \cup {m.old} = Content(refs) \cup One(m.hash)
  BY <1>1, <1>2, ChangedContent
<1>5. NoneBroken => /\ blob = Content(refs) \cup One(m.hash)
                    /\ meta = Content(refs) \cup One(m.hash)
  <2> HAVE NoneBroken
  <2>1. lock = r
    BY <1>1 DEF NoneBroken, Kept, Holds, Change
  <2> QED
    BY <1>1, <1>2, <2>1 DEF Tidy
<1> HIDE DEF m
<1>6. Present'
  BY <1>1, <1>2, <1>3, NoneIsNothing DEF Sound, Present, Refs, Valid
<1>7. CASE m.old = None \/ r \in orphan
  <2>1. \E s \in {"done", "gone"} : Leave(r, s) /\ (s = "done" => m.old = None)
    BY <1>1, <1>7 DEF WriteRefs, JobEnds, Over, m
  <2> QED
    BY <1>1, <1>4, <1>5, <1>6, <2>1, WorkEnds DEF Over, Broken
<1>8. CASE m.old # None /\ r \notin orphan
  <2>1. Step(r, "dropblob", m)
    BY <1>1, <1>8 DEF WriteRefs, JobEnds, Over, Broken, m
  <2> SUFFICES ASSUME pc'[r] = "dropblob", mine'[r] = m
               PROVE  Knows(r)' /\ (lock' = r /\ NoneBroken => Tidy')
    BY <1>1, <1>6, <2>1, WorkGoesOn DEF Change
  <2>2. Knows(r)'
    BY <1>1, <1>8 DEF Knows
  <2>3. lock' = r /\ NoneBroken => Tidy'
    <3> HAVE lock' = r /\ NoneBroken
    <3>1. Content(refs)' = Content(refs')
      BY DEF Content, Named
    <3> QED
      BY <1>1, <1>4, <1>5, <1>8, <3>1, NoneIsNothing DEF Tidy
  <2> QED
    BY <2>2, <2>3
<1> QED
  BY <1>7, <1>8

(* Cleaning up after a change. *)
LEMMA CollectStep ==
  ASSUME Kept, Kept', Sound, NEW r \in Req, Worker(r), DropBlob(r) \/ DropMeta(r),
         NoneBroken' => NoneBroken
  PROVE  Sound'
<1> DEFINE m == mine[r]
<1>1. /\ pc[r] \in {"dropblob", "dropmeta"} /\ refs' = refs
      /\ m \in Mine /\ m.refs = refs /\ m.old \in Hash
      /\ (NoneBroken => Tidy /\ lock = r) /\ Content(refs)' = Content(refs)
  BY DEF DropBlob, DropMeta, Sound, Kept, Holds, Types, Change, Knows, Content, Named, NoneBroken
<1> HIDE DEF m
<1>2. CASE DropBlob(r)
  <2>1. pc[r] = "dropblob" /\ meta' = meta
    BY <1>2 DEF DropBlob
  <2>2. NoneBroken => blob = Content(refs) \cup {m.old} /\ meta = Content(refs) \cup {m.old}
    BY <1>1, <2>1 DEF Tidy, m
  <2>3. CASE Named(refs, m.old)
    <3>1. (\E s \in {"done", "gone"} : Leave(r, s)) /\ blob' = blob
      BY <1>1, <1>2, <2>3 DEF DropBlob, JobEnds, Over, m
    <3>2. m.old \in Content(refs)
      BY <1>1, <2>3 DEF Content
    <3>3. Present'
      BY <1>1, <3>1 DEF Sound, Present
    <3>4. NoneBroken => blob' = Content(refs') /\ meta' = Content(refs')
      BY <1>1, <2>1, <2>2, <3>1, <3>2
    <3> QED
      BY <3>1, <3>3, <3>4, WorkEnds DEF Over, Broken
  <2>4. CASE ~ Named(refs, m.old)
    <3>1. Step(r, "dropmeta", m) /\ blob' = blob \ {m.old}
      BY <1>1, <1>2, <2>4 DEF DropBlob, m
    <3>2. Present'
      BY <1>1, <2>4, <3>1 DEF Sound, Present, Named
    <3>3. m.old \notin Content(refs)
      BY <2>4 DEF Content
    <3> SUFFICES ASSUME pc'[r] = "dropmeta", mine'[r] = m
                 PROVE  Knows(r)' /\ (lock' = r /\ NoneBroken => Tidy')
      BY <1>1, <3>1, <3>2, WorkGoesOn DEF Change
    <3>4. Knows(r)'
      BY <1>1, <2>4 DEF Knows, Named
    <3>5. lock' = r /\ NoneBroken => Tidy'
      BY <1>1, <2>1, <2>2, <3>1, <3>3, NoneIsNothing DEF Tidy
    <3> QED
      BY <3>4, <3>5
  <2> QED
    BY <2>3, <2>4
<1>3. CASE DropMeta(r)
  <2>1. /\ pc[r] = "dropmeta" /\ blob' = blob /\ meta' = meta \ {m.old}
        /\ \E s \in {"done", "gone"} : Leave(r, s)
    BY <1>1, <1>3 DEF DropMeta, JobEnds, Over, m
  <2>2. ~ Named(refs, m.old) /\ m.old \notin Content(refs)
    BY <1>1, <2>1 DEF Sound, Knows, m, Content
  <2>3. NoneBroken => blob = Content(refs) /\ meta = Content(refs) \cup {m.old}
    BY <1>1, <2>1 DEF Tidy, m
  <2>4. Present'
    BY <1>1, <2>1 DEF Sound, Present
  <2> QED
    BY <1>1, <2>1, <2>2, <2>3, <2>4, WorkEnds DEF Over, Broken
<1> QED
  BY <1>2, <1>3

(* A change begins when nobody is at work, unless it overtakes one. *)
LEMMA EnterStep ==
  ASSUME Kept, Kept', Sound, NEW r \in Req, Enter(r), ~ overtaken', NoneBroken' => NoneBroken
  PROVE  Sound'
<1>1. /\ UNCHANGED <<disk, orphan, mine>> /\ lock = None /\ lock' = r
      /\ pc[r] = "line" /\ pc'[r] = "read" /\ \A b \in Req \ {r} : pc'[b] = pc[b]
      /\ ~ Trails
  BY EnterKept
<1>2. \A b \in Req : ~ Worker(b)
  BY <1>1, NoneIsNothing DEF Kept, Holds, Worker, Trails
<1>3. \A b \in Req \ {r} : ~ Worker(b)'
  BY <1>1, <1>2 DEF Worker
<1>4. Present' /\ Alone'
  BY <1>1, <1>3 DEF disk, Sound, Present, Alone
<1>5. NoneBroken' => Tidy'
  BY <1>1 DEF disk, Sound, Tidy, Content, Named
<1>6. Knows(r)'
  BY <1>1 DEF Knows
<1> QED
  BY <1>3, <1>4, <1>5, <1>6 DEF Sound

LEMMA SoundStays ==
  ASSUME Kept, Kept', Sound, [Next]_vars, ~ overtaken'
  PROVE  Sound'
<1>0. Next => (NoneBroken' => NoneBroken)
  BY BrokenStays
<1>1. ASSUME NEW r \in Req, Arrive(r) PROVE Sound'
  <2>1. /\ UNCHANGED <<disk, orphan, lock>> /\ pc[r] = "idle" /\ pc'[r] \in {"line", "look", "names"}
        /\ \A b \in Req \ {r} : pc'[b] = pc[b] /\ mine'[b] = mine[b]
    BY <1>1, ArriveKept
  <2>2. \A b \in Req : Worker(b) \/ Worker(b)' => b # r
    BY <2>1 DEF Worker, Change
  <2>3. \A b \in Req : Worker(b)' => Worker(b) /\ pc'[b] = pc[b] /\ mine'[b] = mine[b]
    BY <2>1, <2>2 DEF Worker
  <2>4. \A b \in Req : lock = b => pc'[b] = pc[b] /\ mine'[b] = mine[b]
    BY <2>1, <2>2 DEF Kept, Holds, Worker
  <2> QED
    BY <1>0, <1>1, <2>1, <2>3, <2>4, QuietStep DEF Next
<1>2. ASSUME NEW r \in Req, LookUp(r) \/ Load(r) \/ Info(r) \/ ReadNames(r) \/ ReadInfo(r)
      PROVE  Sound'
  <2>1. /\ UNCHANGED <<disk, orphan, lock>> /\ pc[r] \in Look /\ pc'[r] \notin Change
        /\ \A b \in Req \ {r} : pc'[b] = pc[b] /\ mine'[b] = mine[b]
    BY <1>2, LookKept
  <2>2. \A b \in Req : Worker(b) \/ Worker(b)' => b # r
    BY <2>1 DEF Worker, Change, Look
  <2>3. \A b \in Req : Worker(b)' => Worker(b) /\ pc'[b] = pc[b] /\ mine'[b] = mine[b]
    BY <2>1, <2>2 DEF Worker
  <2>4. \A b \in Req : lock = b => pc'[b] = pc[b] /\ mine'[b] = mine[b]
    BY <2>1, <2>2 DEF Kept, Holds, Worker
  <2> QED
    BY <1>0, <1>2, <2>1, <2>3, <2>4, QuietStep DEF Next, Handler
<1>3. ASSUME NEW r \in Req, Cancel(r) PROVE Sound'
  <2>1. /\ UNCHANGED disk /\ ~ NoneBroken' /\ r \notin orphan
        /\ \A b \in Req \ {r} : /\ pc'[b] = pc[b] /\ mine'[b] = mine[b]
                                /\ b \in orphan' <=> b \in orphan
        /\ \/ r \in orphan' /\ pc'[r] = pc[r] /\ mine'[r] = mine[r]
           \/ pc'[r] = "gone"
    BY <1>3, CancelKept
  <2>2. \A b \in Req : Worker(b)' => Worker(b) /\ pc'[b] = pc[b] /\ mine'[b] = mine[b]
    BY <2>1 DEF Worker, Change
  <2> QED
    BY <2>1, <2>2, InterruptedStep DEF disk
<1>4. ASSUME NEW r \in Req, DiskFails(r), Worker(r) PROVE Sound'
  <2>1. (\E s \in Broken : Leave(r, s)) /\ UNCHANGED disk
    BY <1>4 DEF DiskFails, JobEnds, Over, Broken
  <2>2. Present'
    BY <2>1 DEF disk, Sound, Present
  <2> QED
    BY <1>0, <1>4, <2>1, <2>2, WorkEnds DEF Next, Handler, Over
<1>5. ASSUME NEW r \in Req, Handler(r) PROVE Sound'
  <2>0. NoneBroken' => NoneBroken
    BY <1>0, <1>5 DEF Next
  <2>1. CASE pc[r] \notin Change
    BY <1>2, <1>5, <2>0, <2>1, EnterStep DEF Handler, ReadRefs, CheckBlob, WriteBlob, WriteMeta,
       WriteRefs, DropBlob, DropMeta, DiskFails, Change
  <2>2. CASE r \in orphan /\ ~ Worker(r)
    BY <1>5, <2>2, TrailingStep
  <2>3. CASE pc[r] \in Change /\ (r \in orphan => Worker(r))
    <3>1. Worker(r)
      BY <2>3 DEF Worker
    <3>2. CASE CheckBlob(r) \/ WriteBlob(r) \/ WriteMeta(r)
      <4>1. r \notin orphan
        BY <3>1, <3>2 DEF Worker, CheckBlob, WriteBlob, WriteMeta
      <4> QED
        BY <2>0, <3>2, <4>1, StoreStep
    <3>3. CASE Enter(r)
      BY <2>0, <3>3, EnterStep
    <3> QED
      BY <1>2, <1>4, <1>5, <2>0, <3>1, <3>2, <3>3, ReadRefsStep, WriteRefsStep, CollectStep
         DEF Handler
  <2> QED
    BY <2>1, <2>2, <2>3
<1>6. CASE Crash
  <2>1. /\ UNCHANGED <<disk, overtaken>> /\ lock' = None /\ orphan' = {}
        /\ \A r \in Req : pc'[r] = IF pc[r] \in {"idle"} \cup Over THEN pc[r] ELSE "gone"
    BY <1>6, CrashKept
  <2>2. \A b \in Req : ~ Worker(b)'
    BY <2>1 DEF Worker, Change, Over, Broken
  <2>3. CASE lock = None
    BY <1>0, <1>6, <2>1, <2>2, <2>3, NoneIsNothing, QuietStep DEF Next
  <2>4. CASE lock # None
    <3>1. lock \in Req /\ pc[lock] \in Change
      BY <2>4 DEF Kept, Types, Holds
    <3>2. pc'[lock] = "gone"
      BY <2>1, <3>1 DEF Change, Over, Broken
    <3>3. ~ NoneBroken'
      BY <3>1, <3>2 DEF NoneBroken, Broken
    <3> QED
      BY <2>1, <2>2, <3>3, InterruptedStep DEF disk
  <2> QED
    BY <2>3, <2>4
<1>7. CASE AllOver \/ UNCHANGED vars
  <2>1. UNCHANGED <<pc, mine, orphan, lock, disk>>
    BY <1>7, RestKept
  <2>2. /\ \A b \in Req : Worker(b)' => Worker(b) /\ pc'[b] = pc[b] /\ mine'[b] = mine[b]
        /\ NoneBroken' => NoneBroken
    BY <2>1 DEF Worker, NoneBroken
  <2> QED
    BY <2>1, <2>2, QuietStep
<1> QED
  BY <1>1, <1>3, <1>5, <1>6, <1>7 DEF Next

LEMMA StoreStepAll ==
  ASSUME StoreInv, [Next]_vars
  PROVE  StoreInv'
<1>1. Kept' /\ (overtaken' => overtaken \/ orphan' # {}) /\ (overtaken => overtaken')
  BY KeptStays DEF StoreInv
<1>2. ~ overtaken' => Sound'
  BY <1>1, SoundStays DEF StoreInv
<1>3. NoneBroken' => NoneBroken
  <2>1. CASE Next
    BY <2>1, BrokenStays DEF StoreInv
  <2>2. CASE UNCHANGED vars
    BY <2>2 DEF vars, NoneBroken
  <2> QED
    BY <2>1, <2>2
<1>4. NoneBroken' => orphan' = {}
  BY <1>1 DEF NoneBroken, Kept, Types
<1> QED
  BY <1>1, <1>2, <1>3, <1>4 DEF StoreInv

(* Cancelled requests whose jobs still run, crashes and failing disks      *)
(* included.                                                               *)
THEOREM StoreInvariant == Spec => []StoreInv
<1>1. StoreInv /\ [Next]_vars => StoreInv'
  BY StoreStepAll
<1> QED
  BY <1>1, StoreInit, PTL DEF Spec

(* Whatever is named is there with its sidecar, within a change too. *)
LEMMA NamedIsThere ==
  ASSUME StoreInv, NoneBroken, NEW k \in Key, refs[k] \in Hash
  PROVE  refs[k] \in blob /\ refs[k] \in meta
<1>0. Sound /\ Kept
  BY DEF StoreInv
<1>1. refs[k] \in Content(refs)
  BY DEF Content, Named
<1>2. refs[k] \in blob
  BY <1>0, NoneIsNothing DEF Sound, Present
<1>3. CASE lock = None
  BY <1>0, <1>1, <1>2, <1>3 DEF Sound, Tidy
<1>4. CASE lock \in Req
  <2>1. pc[lock] \in Change
    BY <1>0, <1>4 DEF Kept, Holds
  <2> QED
    BY <1>0, <1>1, <1>2, <1>4, <2>1 DEF Sound, Tidy, Change
<1> QED
  BY <1>0, <1>3, <1>4 DEF Kept, Types

(* A name in refs.json never points to content that is not in the          *)
(* directory, whatever fails or crashes in put, delete and _collect and    *)
(* wherever a client goes away, while no change has begun before the last  *)
(* job of a cancelled one had ended (ir.py:116-138, 181-192).              *)
THEOREM ContentIsThere == Spec => []RefsHaveContent
<1>1. StoreInv => RefsHaveContent
  <2> SUFFICES ASSUME StoreInv, NEW k \in Key, refs[k] # None, ~ overtaken
               PROVE  refs[k] \in blob /\ (NoneBroken => refs[k] \in meta)
    BY DEF RefsHaveContent
  <2>1. refs[k] \in blob /\ refs[k] \in Hash
    BY DEF StoreInv, Kept, Sound, Present, DiskTypes
  <2> QED
    BY <2>1, NamedIsThere
<1> QED
  BY <1>1, StoreInvariant, PTL

(* "Content nothing refers to any more is removed": between two changes of *)
(* the manager none of which was interrupted, the disk holds what refs.json *)
(* names.                                                                   *)
THEOREM NothingIsLeft == Spec => []NothingLeft
<1>1. StoreInv => NothingLeft
  BY DEF StoreInv, Sound, Tidy, NothingLeft, Content
<1> QED
  BY <1>1, StoreInvariant, PTL
-----------------------------------------------------------------------------
(* What a get or a list misses *)

Found(r) ==
  /\ pc'[r] \in {"load", "info"} =>
        (pc'[r] = pc[r] /\ mine'[r] = mine[r]) \/ LookUp(r) \/ Load(r)
  /\ pc[r] \in {"load", "info"} /\ pc'[r] \in {"missed", "error"} => Load(r) \/ Info(r)
  /\ pc[r] = "infos" /\ pc'[r] \in {"missed", "error"} => ReadInfo(r)

(* Only its own steps take a reader on. *)
LEMMA GetGoesOn ==
  ASSUME Types, Holds, [Next]_vars, NEW r \in Req
  PROVE  Found(r)
<1>1. pc \in [Req -> {"idle", "line"} \cup Change \cup Look \cup Over] /\ mine \in [Req -> Mine]
  BY DEF Types
<1>2. \A q \in Req : q \in orphan \/ lock = q => pc[q] \in Change
  BY DEF Holds, Change
<1>3. ASSUME NEW q \in Req, NEW s, NEW m, s \notin {"load", "info", "missed", "error"},
             JobEnds(q, s, m) \/ Step(q, s, m) \/ Leave(q, s)
      PROVE  Found(r)
  BY <1>1, <1>3 DEF JobEnds, Step, Leave, Found
<1>4. ASSUME NEW q \in Req, Arrive(q) \/ Enter(q) PROVE Found(r)
  BY <1>1, <1>4 DEF Arrive, Start, Enter, Found
<1>5. ASSUME NEW q \in Req, Cancel(q) PROVE Found(r)
  <2>1. CASE UNCHANGED <<pc, mine>>
    BY <2>1 DEF Found
  <2>2. CASE Leave(q, "gone")
    BY <1>1, <2>2 DEF Leave, Found
  <2> QED
    BY <1>5, <2>1, <2>2 DEF Cancel
<1>6. ASSUME NEW q \in Req, ReadRefs(q) \/ CheckBlob(q) \/ WriteBlob(q) \/ WriteMeta(q)
      PROVE  Found(r)
  BY <1>3, <1>6 DEF ReadRefs, CheckBlob, WriteBlob, WriteMeta
<1>7. ASSUME NEW q \in Req, WriteRefs(q) \/ DropBlob(q) \/ DropMeta(q) \/ DiskFails(q)
      PROVE  Found(r)
  BY <1>3, <1>7 DEF WriteRefs, DropBlob, DropMeta, DiskFails
<1>8. ASSUME NEW q \in Req, LookUp(q) \/ Load(q) \/ Info(q) PROVE Found(r)
  BY <1>1, <1>8 DEF LookUp, Load, Info, Step, Leave, Found
<1>11. ASSUME NEW q \in Req, ReadNames(q) \/ ReadInfo(q) PROVE Found(r)
  BY <1>1, <1>11 DEF ReadNames, ReadInfo, Step, Leave, Found
<1>9. CASE Crash
  BY <1>1, <1>9 DEF Crash, Over, Broken, Found
<1>10. CASE UNCHANGED vars
  BY <1>10 DEF vars, Found
<1> QED
  BY <1>4, <1>5, <1>6, <1>7, <1>8, <1>9, <1>10, <1>11 DEF Next, Handler, AllOver

(* A get that looks for content knows which. *)
Looking == \A r \in Req : pc[r] \in {"load", "info"} => mine[r].old \in Hash

LEMMA LookingStays ==
  ASSUME StoreInv, Looking, [Next]_vars
  PROVE  Looking'
<1> SUFFICES ASSUME NEW r \in Req, pc'[r] \in {"load", "info"} PROVE mine'[r].old \in Hash
  BY DEF Looking
<1>1. pc \in [Req -> {"idle", "line"} \cup Change \cup Look \cup Over] /\ mine \in [Req -> Mine]
      /\ refs \in [Key -> Hash \cup {None}]
  BY DEF StoreInv, Kept, Types, DiskTypes, Refs, Valid
<1>2. CASE pc'[r] = pc[r] /\ mine'[r] = mine[r]
  BY <1>2 DEF Looking
<1>3. CASE LookUp(r)
  <2> DEFINE h == IF mine[r].key \in Hash THEN mine[r].key ELSE refs[mine[r].key]
  <2>1. mine[r].key \in Key /\ mine[r] \in Mine
    BY <1>3 DEF LookUp, StoreInv, Kept, Types
  <2>2. h \in Hash \cup {None}
    BY <1>1, <2>1
  <2>3. h # None /\ mine' = [mine EXCEPT ![r] = [mine[r] EXCEPT !.old = h]]
    BY <1>1, <1>3 DEF LookUp, Leave, Step
  <2>4. mine'[r] = [mine[r] EXCEPT !.old = h]
    BY <1>1, <2>3
  <2> HIDE DEF h
  <2> QED
    BY <2>1, <2>2, <2>3, <2>4 DEF Mine
<1>4. CASE Load(r)
  BY <1>1, <1>4 DEF Load, Leave, Step, Looking
<1> QED
  BY <1>2, <1>3, <1>4, GetGoesOn DEF StoreInv, Kept, Found

LEMMA MissStep ==
  ASSUME StoreInv, Looking, [Next]_vars, NEW r \in Req, mine[r].key \in Name, NoneBroken,
         pc[r] \in {"load", "info"}, pc'[r] \in {"missed", "error"}
  PROVE  refs[mine[r].key] # mine[r].old
<1> SUFFICES ASSUME refs[mine[r].key] = mine[r].old PROVE FALSE
  OBVIOUS
<1>1. mine[r].old \in blob /\ mine[r].old \in meta
  BY NamedIsThere DEF Looking
<1>2. Load(r) \/ Info(r)
  BY GetGoesOn DEF StoreInv, Kept, Found
<1>3. pc \in [Req -> {"idle", "line"} \cup Change \cup Look \cup Over]
  BY DEF StoreInv, Kept, Types
<1> QED
  BY <1>1, <1>2, <1>3 DEF Load, Info, Leave, Step

(* Of all the names a list has read, one has moved if it misses a sidecar. *)
LEMMA ListMissStep ==
  ASSUME StoreInv, [Next]_vars, NEW r \in Req, NoneBroken,
         pc[r] = "infos", pc'[r] \in {"missed", "error"}
  PROVE  \E k \in Key : mine[r].refs[k] \notin {None, refs[k]}
<1>1. pc \in [Req -> {"idle", "line"} \cup Change \cup Look \cup Over]
      /\ mine[r].refs \in [Key -> Hash \cup {None}]
  BY DEF StoreInv, Kept, Types, Mine, Refs, Valid
<1>2. ReadInfo(r)
  BY GetGoesOn DEF StoreInv, Kept, Found
<1>3. PICK k \in Key : mine[r].refs[k] # None /\ mine[r].refs[k] \notin meta
  BY <1>1, <1>2 DEF ReadInfo, Leave, Step
<1>4. mine[r].refs[k] # refs[k]
  BY <1>1, <1>3, NamedIsThere
<1> QED
  BY <1>3, <1>4

(* A get misses the content of a name, or its sidecar, only when the name  *)
(* has moved on since it looked the name up (IrStore.get, _info), and a    *)
(* list a sidecar only when a name it has read has, however many changes   *)
(* come between their reads.                                               *)
THEOREM MissesAreMoves == Spec => MissedMeansMoved
<1>1. Init => StoreInv /\ Looking
  BY StoreInit DEF Init, Looking
<1>2. StoreInv /\ Looking /\ [Next]_vars => (StoreInv /\ Looking)'
  BY StoreStepAll, LookingStays
<1>3. StoreInv /\ Looking /\ [Next]_vars =>
        [\A r \in Req : NoneBroken /\ pc'[r] \in {"missed", "error"} =>
           /\ pc[r] \in {"load", "info"} /\ mine[r].key \in Name =>
                refs[mine[r].key] # mine[r].old
           /\ pc[r] = "infos" => \E k \in Key : mine[r].refs[k] \notin {None, refs[k]}]_vars
  BY MissStep, ListMissStep
<1> QED
  BY <1>1, <1>2, <1>3, PTL DEF Spec, MissedMeansMoved
-----------------------------------------------------------------------------
(* The names are a register: IrStore implements IrNames *)

stageBar == [r \in Req |-> Stage(r)]

(* A step takes the request r, and nobody else, from one stage to another. *)
LEMMA StageMoves ==
  ASSUME NEW r \in Req, NEW s, Stage(r)' = s,
         \A q \in Req \ {r} : pc'[q] = pc[q] /\ (q \in orphan' <=> q \in orphan)
  PROVE  stageBar' = [stageBar EXCEPT ![r] = s]
<1>1. \A q \in Req \ {r} : Stage(q)' = Stage(q)
  BY DEF Stage
<1> QED
  BY <1>1 DEF stageBar

LEMMA StageIs == \A r \in Req : stageBar[r] = Stage(r) /\ stageBar'[r] = Stage(r)'
  BY DEF stageBar

LEMMA StageStays ==
  ASSUME NEW r \in Req, Stage(r)' = Stage(r),
         \A q \in Req \ {r} : pc'[q] = pc[q] /\ (q \in orphan' <=> q \in orphan)
  PROVE  UNCHANGED stageBar
<1>1. \A q \in Req : Stage(q)' = Stage(q)
  BY DEF Stage
<1> QED
  BY <1>1 DEF stageBar

(* A request that ends, and leaves the names as they are. *)
LEMMA LeaveRefines ==
  ASSUME Types, NEW r \in Req, NEW s \in Over, Leave(r, s), UNCHANGED <<refs, overtaken>>,
         Stage(r) \in {"called", "late", "applied"},
         s \in Broken \/ Stage(r) # "late"
  PROVE  [Register!Next]_(Register!vars)
<1>1. /\ pc'[r] = s /\ r \notin orphan'
      /\ \A q \in Req \ {r} : pc'[q] = pc[q] /\ (q \in orphan' <=> q \in orphan)
  BY DEF Leave, Types
<1>2. CASE s \in Broken
  <2>1. Stage(r)' = "dropped"
    BY <1>1, <1>2 DEF Stage, Broken
  <2>2. stageBar' = [q \in Req |-> IF q \in {r} THEN "dropped" ELSE stageBar[q]]
    BY <1>1, <2>1, StageMoves DEF stageBar
  <2>3. {r} \in SUBSET {q \in Req : stageBar[q] \in {"called", "late", "applied"}}
    BY StageIs
  <2>4. Register!Drop
    BY <2>2, <2>3 DEF Register!Drop, stageBar
  <2> QED
    BY <2>4 DEF Register!Next
<1>3. CASE s \notin Broken
  <2>1. Stage(r)' = "answered"
    BY <1>1, <1>3 DEF Stage, Over, Broken
  <2>2. stageBar' = [stageBar EXCEPT ![r] = "answered"]
    BY <1>1, <2>1, StageMoves
  <2>3. Register!Keep(r) \/ Register!Answer(r)
    BY <1>3, <2>2, StageIs DEF Register!Keep, Register!Answer, stageBar
  <2> QED
    BY <2>3 DEF Register!Next
<1> QED
  BY <1>2, <1>3

(* Within a change or a look, the names do not show. *)
LEMMA GoesOnRefines ==
  ASSUME Types, NEW r \in Req, NEW s \in Change \cup Look, NEW m, Step(r, s, m),
         UNCHANGED <<refs, overtaken>>,
         r \in orphan \/ s \in {"dropblob", "dropmeta"} <=> Stage(r) # "called",
         Stage(r) \in {"called", "applied"}, r \notin orphan
  PROVE  [Register!Next]_(Register!vars)
<1>1. /\ pc'[r] = s /\ UNCHANGED orphan
      /\ \A q \in Req \ {r} : pc'[q] = pc[q] /\ (q \in orphan' <=> q \in orphan)
  BY DEF Step, Types
<1>2. Stage(r)' = Stage(r)
  BY <1>1 DEF Stage, Broken, Over, Change, Look
<1>3. UNCHANGED stageBar
  BY <1>1, <1>2, StageStays
<1> QED
  BY <1>3 DEF Register!vars, stageBar

(* The one step that moves a name: it moves one, and it does move it.      *)
LEMMA WriteMovesOne ==
  ASSUME Kept, Sound, NEW r \in Req, WriteRefs(r)
  PROVE  /\ pc[r] = "write" /\ Worker(r) /\ UNCHANGED overtaken
         /\ \E j \in Key, h \in Hash \cup {None} : refs[j] # h /\ refs' = [refs EXCEPT ![j] = h]
<1> DEFINE m == mine[r]
<1>1. /\ pc[r] = "write" /\ refs' = m.refs /\ m \in Mine /\ Worker(r) /\ UNCHANGED overtaken
  BY DEF WriteRefs, Kept, Types, Worker, Change, past
<1>2. Changes(m)
  BY <1>1 DEF Sound, Knows
<1>3. PICK k \in Key : m.refs = [refs EXCEPT ![k] = m.hash] /\ m.old = refs[k] /\ m.old # m.hash
  BY <1>2 DEF Changes
<1>4. m.hash \in Hash \cup {None}
  BY <1>1 DEF Mine
<1> HIDE DEF m
<1> QED
  BY <1>1, <1>3, <1>4

(* Whoever is at work, no other's change may come yet. *)
LEMMA NoOtherLate ==
  ASSUME Sound, NEW r \in Req, Worker(r), Stage(r) # "late"
  PROVE  \A q \in Req : stageBar[q] # "late"
<1> SUFFICES ASSUME NEW q \in Req, Stage(q) = "late" PROVE FALSE
  BY StageIs
<1>1. q \in orphan /\ pc[q] = "write"
  BY DEF Stage
<1>2. Worker(q)
  BY <1>1 DEF Worker, Change
<1> QED
  BY <1>2 DEF Sound, Alone

(* The job of a cancelled request: a late change comes, or nothing shows.  *)
LEMMA OrphanRefines ==
  ASSUME Kept, Sound, NEW r \in orphan, Handler(r)
  PROVE  [Register!Next]_(Register!vars)
<1>1. r \in Req /\ pc[r] \in Change \ {"read"} /\ Types
  BY DEF Kept, Types, Holds
<1>2. CASE WriteRefs(r)
  <2>1. Leave(r, "gone") /\ Stage(r) = "late"
    BY <1>1, <1>2 DEF WriteRefs, JobEnds, Stage, Broken, Over
  <2>2. /\ Stage(r)' = "dropped"
        /\ \A q \in Req \ {r} : pc'[q] = pc[q] /\ (q \in orphan' <=> q \in orphan)
    BY <1>1, <2>1 DEF Leave, Types, Stage, Broken
  <2>3. stageBar' = [stageBar EXCEPT ![r] = "dropped"]
    BY <1>1, <2>2, StageMoves
  <2>4. Register!ApplyLate(r)
    BY <1>1, <1>2, <2>1, <2>3, WriteMovesOne, StageIs
       DEF Register!ApplyLate, Register!Changed, stageBar
  <2> QED
    BY <1>1, <2>4 DEF Register!Next
<1>3. CASE DiskFails(r)
  <2>1. Leave(r, "gone") /\ UNCHANGED <<refs, overtaken>>
    BY <1>3 DEF DiskFails, JobEnds, disk, past
  <2>2. CASE Stage(r) = "late"
    BY <1>1, <2>1, <2>2, LeaveRefines DEF Over, Broken
  <2>3. CASE Stage(r) # "late"
    <3>1. Stage(r) = "dropped"
      BY <1>1, <2>3 DEF Stage, Change, Broken, Over
    <3>2. /\ Stage(r)' = "dropped"
          /\ \A q \in Req \ {r} : pc'[q] = pc[q] /\ (q \in orphan' <=> q \in orphan)
      BY <1>1, <2>1 DEF Leave, Types, Stage, Broken
    <3>3. UNCHANGED stageBar
      BY <1>1, <3>1, <3>2, StageStays
    <3> QED
      BY <2>1, <3>3 DEF Register!vars, stageBar
  <2> QED
    BY <2>2, <2>3
<1>4. CASE CheckBlob(r) \/ WriteBlob(r) \/ WriteMeta(r) \/ DropBlob(r) \/ DropMeta(r)
  <2>1. /\ pc[r] \in {"check", "blob", "meta", "dropblob", "dropmeta"}
        /\ UNCHANGED <<refs, overtaken>>
        /\ \/ Leave(r, "gone")
           \/ \E s \in {"blob", "meta", "dropmeta"} : Step(r, s, mine[r])
    BY <1>4 DEF CheckBlob, WriteBlob, WriteMeta, DropBlob, DropMeta, JobEnds, disk, past
  <2>2. Stage(r) = "dropped"
    BY <2>1 DEF Stage, Broken, Over
  <2>3. /\ Stage(r)' = "dropped"
        /\ \A q \in Req \ {r} : pc'[q] = pc[q] /\ (q \in orphan' <=> q \in orphan)
    <3>1. CASE Leave(r, "gone")
      BY <1>1, <3>1 DEF Leave, Types, Stage, Broken
    <3>2. ASSUME NEW s \in {"blob", "meta", "dropmeta"}, Step(r, s, mine[r]) PROVE <2>3!:
      BY <1>1, <3>2 DEF Step, Types, Stage, Broken, Over
    <3> QED
      BY <2>1, <3>1, <3>2
  <2>4. UNCHANGED stageBar
    BY <1>1, <2>2, <2>3, StageStays
  <2> QED
    BY <2>1, <2>4 DEF Register!vars, stageBar
<1> QED
  BY <1>1, <1>2, <1>3, <1>4 DEF Handler, Enter, ReadRefs, LookUp, Load, Info, ReadNames, ReadInfo,
     Change

LEMMA WriteRefines ==
  ASSUME Kept, Sound, NEW r \in Req, r \notin orphan, WriteRefs(r)
  PROVE  Register!Apply(r)
<1>1. /\ pc[r] = "write" /\ Worker(r) /\ Types /\ UNCHANGED overtaken
      /\ \E j \in Key, h \in Hash \cup {None} : refs[j] # h /\ refs' = [refs EXCEPT ![j] = h]
  BY WriteMovesOne DEF Kept
<1>2. Stage(r) = "called"
  BY <1>1 DEF Stage, Broken, Over
<1>3. \A q \in Req : stageBar[q] # "late"
  BY <1>1, <1>2, NoOtherLate
<1>4. \E s \in {"applied", "answered"} : stageBar' = [stageBar EXCEPT ![r] = s]
  <2>1. CASE mine[r].old = None
    <3>1. Leave(r, "done")
      BY <2>1 DEF WriteRefs, JobEnds, Over
    <3>2. /\ Stage(r)' = "answered"
          /\ \A q \in Req \ {r} : pc'[q] = pc[q] /\ (q \in orphan' <=> q \in orphan)
      BY <1>1, <3>1 DEF Leave, Types, Stage, Broken, Over
    <3> QED
      BY <3>2, StageMoves
  <2>2. CASE mine[r].old # None
    <3>1. Step(r, "dropblob", mine[r])
      BY <2>2 DEF WriteRefs, JobEnds, Over, Broken
    <3>2. /\ Stage(r)' = "applied"
          /\ \A q \in Req \ {r} : pc'[q] = pc[q] /\ (q \in orphan' <=> q \in orphan)
      BY <1>1, <3>1 DEF Step, Types, Stage, Broken, Over
    <3> QED
      BY <3>2, StageMoves
  <2> QED
    BY <2>1, <2>2
<1> QED
  BY <1>1, <1>2, <1>3, <1>4, StageIs DEF Register!Apply, Register!Changed, stageBar

(* A change begins: it may overtake one that was cancelled. *)
LEMMA EnterRefines ==
  ASSUME Kept, NEW r \in Req, Enter(r)
  PROVE  [Register!Next]_(Register!vars)
<1>1. /\ Types /\ pc[r] = "line" /\ pc'[r] = "read" /\ \A b \in Req \ {r} : pc'[b] = pc[b]
      /\ UNCHANGED <<refs, orphan>> /\ overtaken' = (overtaken \/ Trails)
  BY EnterKept DEF Kept, disk
<1>2. Stage(r)' = Stage(r)
  BY <1>1 DEF Stage, Broken, Over
<1>3. UNCHANGED stageBar
  BY <1>1, <1>2, StageStays
<1>4. CASE Trails
  <2>1. PICK o \in orphan : pc[o] \in {"write", "dropblob"}
    BY <1>4 DEF Trails
  <2>2. o \in Req /\ Stage(o) \in {"late", "dropped"}
    BY <1>1, <2>1 DEF Types, Stage, Broken, Over
  <2>3. Register!Overtake
    BY <1>1, <1>3, <1>4, <2>2, StageIs DEF Register!Overtake, stageBar
  <2> QED
    BY <2>3 DEF Register!Next
<1>5. CASE ~ Trails
  <2>1. overtaken' = overtaken
    BY <1>1, <1>5 DEF Types
  <2> QED
    BY <1>1, <1>3, <2>1 DEF Register!vars, stageBar
<1> QED
  BY <1>4, <1>5

LEMMA HandlerRefines ==
  ASSUME Kept, Sound, NEW r \in Req, r \notin orphan, Handler(r)
  PROVE  [Register!Next]_(Register!vars)
<1>1. Types
  BY DEF Kept
<1>2. ASSUME pc[r] \in Change \cup Look PROVE Stage(r) \in {"called", "applied"}
  BY <1>2 DEF Stage, Broken, Over, Change, Look
<1>3. CASE Enter(r)
  BY <1>3, EnterRefines
<1>4. CASE ReadRefs(r) \/ CheckBlob(r) \/ WriteBlob(r) \/ WriteMeta(r)
  <2>1. /\ pc[r] \in {"read", "check", "blob", "meta"} /\ UNCHANGED <<refs, overtaken>>
        /\ \/ \E s \in {"done", "refused"} : Leave(r, s)
           \/ \E s \in {"check", "blob", "meta", "write"} : \E m : Step(r, s, m)
    BY <1>4 DEF ReadRefs, CheckBlob, WriteBlob, WriteMeta, JobEnds, Over, Broken, disk, past
  <2>2. Stage(r) = "called"
    BY <2>1 DEF Stage, Broken, Over
  <2> QED
    BY <1>1, <2>1, <2>2, LeaveRefines, GoesOnRefines DEF Over, Change
<1>5. CASE WriteRefs(r)
  <2>1. Register!Apply(r)
    BY <1>5, WriteRefines
  <2> QED
    BY <2>1 DEF Register!Next
<1>6. CASE DropBlob(r) \/ DropMeta(r)
  <2>1. /\ pc[r] \in {"dropblob", "dropmeta"} /\ UNCHANGED <<refs, overtaken>>
        /\ Leave(r, "done") \/ Step(r, "dropmeta", mine[r])
    BY <1>6 DEF DropBlob, DropMeta, JobEnds, Over, past
  <2>2. Stage(r) = "applied"
    BY <2>1 DEF Stage, Broken, Over
  <2> QED
    BY <1>1, <2>1, <2>2, LeaveRefines, GoesOnRefines DEF Over, Change
<1>7. CASE DiskFails(r)
  <2>1. pc[r] \in Change /\ UNCHANGED <<refs, overtaken>> /\ Leave(r, "failed")
    BY <1>7 DEF DiskFails, JobEnds, Over, Broken, disk, past
  <2> QED
    BY <1>1, <1>2, <2>1, LeaveRefines DEF Over, Broken
<1>8. CASE LookUp(r) \/ Load(r) \/ Info(r) \/ ReadNames(r) \/ ReadInfo(r)
  <2>1. pc[r] \in Look /\ UNCHANGED <<refs, overtaken>>
    BY <1>8 DEF LookUp, Load, Info, ReadNames, ReadInfo, Look, disk, past
  <2>2. \/ \E s \in {"missed", "found", "error"} : Leave(r, s)
        \/ \E s \in {"load", "info", "infos"} : \E m : Step(r, s, m)
    BY <1>8 DEF LookUp, Load, Info, ReadNames, ReadInfo
  <2>3. Stage(r) = "called"
    BY <2>1 DEF Stage, Broken, Over, Look
  <2> QED
    BY <1>1, <2>1, <2>2, <2>3, LeaveRefines, GoesOnRefines DEF Over, Look
<1> QED
  BY <1>3, <1>4, <1>5, <1>6, <1>7, <1>8 DEF Handler

LEMMA CancelRefines ==
  ASSUME Kept, Sound, NEW r \in Req, Cancel(r)
  PROVE  [Register!Next]_(Register!vars)
<1>1. /\ Types /\ UNCHANGED <<refs, overtaken>> /\ r \notin orphan
      /\ pc[r] \in {"line"} \cup Change \cup Look
  BY DEF Kept, Cancel, disk, past
<1>2. Stage(r) \in {"called", "applied"}
  BY <1>1 DEF Stage, Broken, Over, Change, Look
<1>3. CASE pc[r] \in Change \ {"read"}
  <2>1. orphan' = orphan \cup {r} /\ UNCHANGED pc
    BY <1>3 DEF Cancel
  <2>2. \A q \in Req \ {r} : pc'[q] = pc[q] /\ (q \in orphan' <=> q \in orphan)
    BY <2>1
  <2>3. CASE pc[r] = "write"
    <3>1. Stage(r) = "called" /\ Worker(r) /\ Stage(r)' = "late"
      BY <1>1, <1>3, <2>1, <2>3 DEF Stage, Broken, Over, Worker, Change
    <3>2. stageBar' = [stageBar EXCEPT ![r] = "late"]
      BY <2>2, <3>1, StageMoves
    <3>3. \A q \in Req : stageBar[q] # "late"
      BY <3>1, NoOtherLate
    <3>4. Register!Linger(r)
      BY <1>1, <3>1, <3>2, <3>3, StageIs DEF Register!Linger, stageBar
    <3> QED
      BY <3>4 DEF Register!Next
  <2>4. CASE pc[r] # "write"
    <3>1. Stage(r)' = "dropped"
      BY <1>3, <2>1, <2>4 DEF Stage, Change
    <3>2. stageBar' = [q \in Req |-> IF q \in {r} THEN "dropped" ELSE stageBar[q]]
      BY <2>2, <3>1, StageMoves DEF stageBar
    <3>3. {r} \in SUBSET {q \in Req : stageBar[q] \in {"called", "late", "applied"}}
      BY <1>2, StageIs
    <3>4. Register!Drop
      BY <1>1, <3>2, <3>3 DEF Register!Drop, stageBar
    <3> QED
      BY <3>4 DEF Register!Next
  <2> QED
    BY <2>3, <2>4
<1>4. CASE pc[r] \notin Change \ {"read"}
  <2>1. Leave(r, "gone")
    BY <1>4 DEF Cancel
  <2> QED
    BY <1>1, <1>2, <2>1, LeaveRefines DEF Over, Broken
<1> QED
  BY <1>3, <1>4

(* A crash drops whoever was under way. *)
LEMMA CrashRefines ==
  ASSUME Kept, Crash
  PROVE  [Register!Next]_(Register!vars)
<1> DEFINE cut == {q \in Req : stageBar[q] \in {"called", "late", "applied"}}
<1>1. /\ \A r \in Req : pc'[r] = IF pc[r] \in {"idle"} \cup Over THEN pc[r] ELSE "gone"
      /\ orphan' = {} /\ UNCHANGED <<refs, overtaken>>
      /\ \A r \in orphan : pc[r] \in Change
  BY CrashKept DEF disk, Kept, Holds
<1>2. ASSUME NEW r \in Req PROVE Stage(r)' = IF r \in cut THEN "dropped" ELSE stageBar[r]
  <2>1. CASE pc[r] \in {"idle"} \cup Over
    <3>1. pc'[r] = pc[r] /\ r \notin orphan
      BY <1>1, <2>1 DEF Over, Broken, Change
    <3> QED
      BY <1>1, <2>1, <3>1, StageIs DEF Stage, Over, Broken
  <2>2. CASE pc[r] \notin {"idle"} \cup Over
    <3>1. pc'[r] = "gone"
      BY <1>1, <2>2
    <3> QED
      BY <1>1, <2>2, <3>1, StageIs DEF Stage, Over, Broken
  <2> QED
    BY <2>1, <2>2
<1>3. stageBar' = [r \in Req |-> IF r \in cut THEN "dropped" ELSE stageBar[r]]
  BY <1>2 DEF stageBar
<1>4. Register!Drop
  BY <1>1, <1>3 DEF Register!Drop, stageBar
<1> QED
  BY <1>4 DEF Register!Next

LEMMA StepRefines ==
  ASSUME StoreInv, [Next]_vars
  PROVE  [Register!Next]_(Register!vars)
<1> USE DEF StoreInv
<1>0. CASE overtaken
  <2>1. overtaken'
    BY <1>0, KeptStays
  <2>2. Register!NoPromise
    BY <1>0, <2>1 DEF Register!NoPromise
  <2> QED
    BY <2>2 DEF Register!Next
<1>1. ASSUME NEW r \in Req, Arrive(r) PROVE [Register!Next]_(Register!vars)
  <2>1. /\ pc[r] = "idle" /\ UNCHANGED <<refs, overtaken, orphan>>
        /\ pc'[r] \in {"line", "look", "names"} /\ r \notin orphan
        /\ \A q \in Req \ {r} : pc'[q] = pc[q] /\ (q \in orphan' <=> q \in orphan)
    BY <1>1, ArriveKept DEF Kept, Holds, Change, disk, past
  <2>2. Stage(r) = "idle" /\ Stage(r)' = "called"
    BY <2>1 DEF Stage, Broken, Over
  <2>3. stageBar' = [stageBar EXCEPT ![r] = "called"]
    BY <2>1, <2>2, StageMoves
  <2>4. Register!Call(r)
    BY <2>1, <2>2, <2>3, StageIs DEF Register!Call, stageBar
  <2> QED
    BY <2>4 DEF Register!Next
<1>2. CASE AllOver \/ UNCHANGED vars
  <2>1. UNCHANGED <<pc, orphan, refs, overtaken>>
    BY <1>2, RestKept DEF disk
  <2>2. UNCHANGED stageBar
    BY <2>1 DEF stageBar, Stage
  <2> QED
    BY <2>1, <2>2 DEF Register!vars, stageBar
<1>3. CASE ~ overtaken /\ Next
  <2>1. Kept /\ Sound
    BY <1>3
  <2>2. ASSUME NEW r \in Req, Handler(r) PROVE [Register!Next]_(Register!vars)
    BY <2>1, <2>2, OrphanRefines, HandlerRefines
  <2> QED
    BY <1>1, <1>2, <1>3, <2>1, <2>2, CancelRefines, CrashRefines DEF Next
<1> QED
  BY <1>0, <1>2, <1>3

(* Whatever requests meet, fail, leave or are cut short by a crash: each   *)
(* put and each delete moves one name, at one moment, from what it was to  *)
(* something else (IrStore.put, delete, _write_refs), what was answered    *)
(* has been done, and a request that was dropped has its change made       *)
(* before any other, or not at all; this until a change begins while the   *)
(* thread of a cancelled one has still refs.json to write, or content to   *)
(* remove.                                                                 *)
THEOREM NamesAreARegister == Spec => IsRegister
<1>1. Init => Register!Init
  <2> SUFFICES ASSUME Init PROVE Register!Init
    OBVIOUS
  <2>1. \A r \in Req : Stage(r) = "idle"
    BY DEF Init, Stage
  <2> QED
    BY <2>1 DEF Init, Register!Init, Refs
<1>2. StoreInv /\ [Next]_vars => [Register!Next]_(Register!vars)
  BY StepRefines
<1> QED
  BY <1>1, <1>2, StoreInvariant, PTL DEF Spec, IsRegister, Register!Spec
=============================================================================
