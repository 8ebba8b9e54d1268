-------------------------- MODULE ScanQueueProofs --------------------------
(***************************************************************************)
(* Proofs about ScanQueue, for every list of entries and photos, number of *)
(* requests, faults and attempts.                                          *)
(***************************************************************************)
EXTENDS ScanQueue, TLAPS

\* What a stored value of the queue, read at any time, looks like.
IsEntry(r) == r = [st |-> r.st, tries |-> r.tries, id |-> r.id]
IsQueue(f) == f = [e \in All |-> f[e]] /\ \A e \in All : IsEntry(f[e])

\* The values of the variables, as far as the argument needs them.
ClientShape ==
  /\ IsQueue(queue)
  /\ seen = [e \in All |-> seen[e]]
  /\ \A e \in All : seen[e] \notin {None, Over} => IsQueue(seen[e])
  /\ up = [at |-> up.at, todo |-> up.todo, seen |-> up.seen, q |-> up.q, ans |-> up.ans]
  /\ up.at \in {"marking", "noting"} => IsQueue(up.seen)

ServerShape ==
  /\ req = [q \in Requests |-> [at |-> req[q].at, e |-> req[q].e, ans |-> req[q].ans]]
  /\ row = [q \in Requests |-> [st |-> row[q].st, e |-> row[q].e, hash |-> row[q].hash]]
  /\ \A q \in Requests : row[q].st \in {"none", "open", "live"}
  /\ image \ leaked \subseteq Requests

\* A request owns the uncommitted row it inserted, and no two rows, committed or
\* not, have the same key: the unique index behind the look-ups.
ServerInv ==
  /\ \A q \in Requests : req[q].at \in {"check", "hash", "insert"} => row[q] = NoRow
  /\ \A q \in Requests : row[q].st = "open" <=> req[q].at \in {"put", "enqueue", "commit"}
  /\ \A q \in Requests : row[q].st = "open" => row[q].e = req[q].e
  /\ \A p, q \in Requests :
       p # q /\ row[p].st # "none" /\ row[q].st # "none" => row[p].e # row[q].e

\* id names a committed receipt of e.
Names(id, e, rows) == id \in Requests /\ rows[id].st = "live" /\ rows[id].e = e

\* Every entry a value of the queue shows as uploaded names its receipt.
DoneNamed(f, rows) == \A e \in All : f[e].st = "done" => Names(f[e].id, e, rows)

\* The values of the queue still in flight are sound too, and so is the answer the
\* upload waits for or is about to note.
ClientInv ==
  /\ DoneNamed(queue, row)
  /\ \A e \in All : seen[e] \notin {None, Over} => DoneNamed(seen[e], row)
  /\ up.at \in {"marking", "noting"} => DoneNamed(up.seen, row)
  /\ up.at \in {"idle", "mark", "marking", "post", "boot"} => up.ans = None
  /\ up.at \in {"note", "noting"} => up.ans = None \/ Names(up.ans, Current.e, row)
  /\ up.at = "post" =>
       /\ up.q \in Requests /\ req[up.q].at # "unused" /\ req[up.q].e = Current.e
       /\ req[up.q].at = "replied" =>
            req[up.q].ans = None \/ Names(req[up.q].ans, Current.e, row)

IInv == ClientShape /\ ServerShape /\ ServerInv /\ ClientInv /\ ImageOwned

LEMMA InitIInv == Init => IInv
  BY DEF Init, IInv, ClientShape, ServerShape, ServerInv, ClientInv, ImageOwned,
         IsQueue, IsEntry, DoneNamed, Absent, Idle, Unused, NoRow
-----------------------------------------------------------------------------
(***************************************************************************)
(* The server's side.                                                      *)
(***************************************************************************)
\* A committed receipt stays, with its key.
Kept ==
  \A q \in Requests :
    row[q].st = "live" => row'[q].st = "live" /\ row'[q].e = row[q].e

ServerOK == ServerShape /\ ServerInv /\ ImageOwned

\* What an answer does to its request.
LEMMA Answered ==
  ASSUME ServerShape, NEW q \in Requests, NEW id, Answer(q, id)
  PROVE  \E r \in {Unused, [at |-> "replied", e |-> req[q].e, ans |-> id]} :
           /\ req' = [req EXCEPT ![q] = r]
           /\ up.at = "post" /\ up.q = q => r.at = "replied"
BY DEF Answer, Unused

\* What the server's next step within a request does to it.
LEMMA Stepped ==
  ASSUME ServerShape, NEW q \in Requests, NEW at, Step(q, at)
  PROVE  req' = [req EXCEPT ![q] = [at |-> at, e |-> req[q].e, ans |-> req[q].ans]]
<1>1. req[q] = [at |-> req[q].at, e |-> req[q].e, ans |-> req[q].ans]
  BY DEF ServerShape
<1>2. [req[q] EXCEPT !.at = at] = [at |-> at, e |-> req[q].e, ans |-> req[q].ans]
  BY <1>1
<1> QED BY <1>2 DEF Step

\* A request that holds no row is opened, dropped or answered.
LEMMA RequestMoves ==
  ASSUME ServerOK, NEW q \in Requests, NEW r,
         r = [at |-> r.at, e |-> r.e, ans |-> r.ans],
         r.at \notin {"put", "enqueue", "commit"},
         r.at \in {"check", "hash", "insert"} => row[q] = NoRow,
         req[q].at \notin {"put", "enqueue", "commit"},
         req' = [req EXCEPT ![q] = r], UNCHANGED <<row, image, leaked>>
  PROVE  ServerOK' /\ Kept
<1>1. ServerShape'
  BY DEF ServerOK, ServerShape
<1>2. ServerInv'
  BY DEF ServerOK, ServerShape, ServerInv
<1>3. ImageOwned' /\ Kept
  BY DEF ServerOK, ServerShape, ImageOwned, Kept
<1> QED BY <1>1, <1>2, <1>3 DEF ServerOK

\* A request's exception: its row goes, and its image was never there, goes too or
\* its clean-up failed.
LEMMA RolledBack ==
  ASSUME ServerOK, NEW q \in Requests,
         req[q].at \in {"hash", "insert", "put", "enqueue", "commit"}, Rollback(q),
         image' \ leaked' \subseteq (image \ leaked) \ {q}
  PROVE  ServerOK' /\ Kept
<1>1. PICK r \in {Unused, [at |-> "replied", e |-> req[q].e, ans |-> None]} :
        req' = [req EXCEPT ![q] = r]
  BY Answered DEF ServerOK, Rollback
<1>2. row' = [row EXCEPT ![q] = NoRow]
  BY DEF Rollback
<1>3. ServerShape'
  BY <1>1, <1>2 DEF ServerOK, ServerShape, Unused, NoRow
<1>4. row[q].st # "live"
  BY DEF ServerOK, ServerInv, NoRow
<1>5. ServerInv'
  <2>1. \A p \in Requests : p # q => req'[p] = req[p] /\ row'[p] = row[p]
    BY <1>1, <1>2 DEF ServerOK, ServerShape
  <2>2. row'[q] = NoRow /\ req'[q].at \in {"unused", "replied"}
    BY <1>1, <1>2 DEF ServerOK, ServerShape, Unused
  <2>3. ServerInv /\ row'[q].st = "none"
    BY <2>2 DEF ServerOK, NoRow
  <2>4. \A p \in Requests : req'[p].at \in {"check", "hash", "insert"} => row'[p] = NoRow
    BY <2>1, <2>2, <2>3 DEF ServerInv
  <2>5. \A p \in Requests :
          /\ row'[p].st = "open" <=> req'[p].at \in {"put", "enqueue", "commit"}
          /\ row'[p].st = "open" => row'[p].e = req'[p].e
    BY <2>1, <2>2, <2>3 DEF ServerInv
  <2>6. \A o, p \in Requests :
          o # p /\ row'[o].st # "none" /\ row'[p].st # "none" => row'[o].e # row'[p].e
    BY <2>1, <2>3 DEF ServerInv
  <2> QED BY <2>4, <2>5, <2>6 DEF ServerInv
<1>6. ImageOwned' /\ Kept
  BY <1>1, <1>2, <1>4 DEF ServerOK, ServerShape, ImageOwned, Kept
<1> QED BY <1>3, <1>5, <1>6 DEF ServerOK

LEMMA ServeStep ==
  ASSUME ServerOK, NEW q \in Requests, Serve(q) \/ Die(q)
  PROVE  ServerOK' /\ Kept
<1>0. ServerShape /\ ServerInv /\ ImageOwned
  BY DEF ServerOK
<1>1. CASE CheckKey(q) \/ CheckHash(q)
  <2>1. row[q] = NoRow /\ UNCHANGED <<row, image, leaked>> /\ req[q].at \in {"check", "hash"}
    BY <1>0, <1>1 DEF CheckKey, CheckHash, ServerInv, server
  <2>2. CASE \E id : Answer(q, id)
    <3>1. PICK id : Answer(q, id)
      BY <2>2
    <3>2. PICK r \in {Unused, [at |-> "replied", e |-> req[q].e, ans |-> id]} :
            req' = [req EXCEPT ![q] = r]
      BY <1>0, <3>1, Answered
    <3> QED BY <2>1, <3>2, RequestMoves DEF Unused
  <2>3. ASSUME NEW at \in {"hash", "insert"}, Step(q, at)
        PROVE  ServerOK' /\ Kept
    <3> DEFINE r == [at |-> at, e |-> req[q].e, ans |-> req[q].ans]
    <3>1. req' = [req EXCEPT ![q] = r]
      BY <1>0, <2>3, Stepped
    <3>2. r = [at |-> r.at, e |-> r.e, ans |-> r.ans] /\ r.at = at
      OBVIOUS
    <3> HIDE DEF r
    <3> QED BY <2>1, <3>1, <3>2, RequestMoves
  <2> QED BY <1>1, <2>2, <2>3 DEF CheckKey, CheckHash
<1>2. CASE Insert(q)
  <2>1. row[q] = NoRow /\ UNCHANGED <<image, leaked>> /\ req[q].at = "insert"
    BY <1>0, <1>2 DEF Insert, ServerInv
  <2>2. CASE UNCHANGED row /\ \E id : Answer(q, id)
    <3>1. PICK id : Answer(q, id)
      BY <2>2
    <3>2. PICK r \in {Unused, [at |-> "replied", e |-> req[q].e, ans |-> id]} :
            req' = [req EXCEPT ![q] = r]
      BY <1>0, <3>1, Answered
    <3> QED BY <2>1, <2>2, <3>2, RequestMoves DEF Unused
  <2>3. CASE /\ Clash(q, "open") = {} /\ Clash(q, "live") = {}
             /\ row' = [row EXCEPT ![q] = [st |-> "open", e |-> req[q].e, hash |-> TRUE]]
             /\ Step(q, "put")
    <3>1. req' = [req EXCEPT ![q] = [at |-> "put", e |-> req[q].e, ans |-> req[q].ans]]
      BY <1>0, <2>3, Stepped
    <3>2. ServerShape'
      BY <1>0, <2>1, <2>3, <3>1 DEF ServerShape
    <3>3. \A p \in Requests : row[p].st # "none" => row[p].e # req[q].e
      BY <1>0, <2>3 DEF Clash, WithKey, ServerShape
    <3>4. ServerInv'
      BY <1>0, <2>1, <2>3, <3>1, <3>3 DEF ServerShape, ServerInv, NoRow
    <3>5. ImageOwned' /\ Kept
      <4>1. row[q].st = "none"
        BY <2>1 DEF NoRow
      <4>2. \A p \in Requests : p # q => req'[p] = req[p] /\ row'[p] = row[p]
        BY <1>0, <2>3, <3>1 DEF ServerShape
      <4>3. \A p \in image' \ leaked' : p # q /\ p \in image \ leaked /\ p \in Requests
        BY <1>0, <2>1, <4>1 DEF ServerShape, ImageOwned
      <4>4. ImageOwned'
        BY <1>0, <4>2, <4>3 DEF ImageOwned
      <4> QED BY <4>1, <4>2, <4>4 DEF Kept
    <3> QED BY <3>2, <3>4, <3>5 DEF ServerOK
  <2> QED BY <1>2, <2>2, <2>3 DEF Insert
<1>3. CASE Put(q)
  <2>1. row[q].st = "open" /\ req[q].at = "put" /\ q \notin image \ leaked
    BY <1>0, <1>3 DEF Put, ServerInv, ImageOwned
  <2>2. CASE Rollback(q) /\ image' \ leaked' \subseteq (image \ leaked) \ {q}
    BY <2>1, <2>2, RolledBack
  <2>3. CASE image' = image \union {q} /\ Step(q, "enqueue") /\ UNCHANGED <<row, leaked>>
    <3>1. req' = [req EXCEPT ![q] = [at |-> "enqueue", e |-> req[q].e, ans |-> req[q].ans]]
      BY <1>0, <2>3, Stepped
    <3>2. ServerShape'
      BY <1>0, <2>3, <3>1 DEF ServerShape
    <3>3. ServerInv'
      BY <1>0, <2>1, <2>3, <3>1 DEF ServerShape, ServerInv
    <3>4. ImageOwned' /\ Kept
      BY <1>0, <2>1, <2>3, <3>1 DEF ServerShape, ImageOwned, Kept
    <3> QED BY <3>2, <3>3, <3>4 DEF ServerOK
  <2>4. CASE Rollback(q) /\ UNCHANGED <<image, leaked>>
    BY <2>1, <2>2, <2>4
  <2>5. CASE Rollback(q) /\ image' = image \union {q} /\ leaked' = leaked \union {q}
    <3>1. image' \ leaked' \subseteq (image \ leaked) \ {q}
      BY <2>5
    <3> QED BY <2>2, <2>5, <3>1
  <2> QED BY <1>3, <2>3, <2>4, <2>5, Zenon DEF Put
<1>4. CASE Enqueue(q)
  <2>1. row[q].st = "open" /\ req[q].at = "enqueue"
    BY <1>0, <1>4 DEF Enqueue, ServerInv
  <2>2. CASE Rollback(q) /\ DeleteImage(q)
    BY <2>1, <2>2, RolledBack DEF DeleteImage
  <2>3. CASE Step(q, "commit") /\ UNCHANGED <<row, image, leaked>>
    <3>1. req' = [req EXCEPT ![q] = [at |-> "commit", e |-> req[q].e, ans |-> req[q].ans]]
      BY <1>0, <2>3, Stepped
    <3>2. ServerShape'
      BY <1>0, <2>3, <3>1 DEF ServerShape
    <3>3. ServerInv'
      BY <1>0, <2>1, <2>3, <3>1 DEF ServerShape, ServerInv
    <3>4. ImageOwned' /\ Kept
      BY <1>0, <2>1, <2>3, <3>1 DEF ServerShape, ImageOwned, Kept
    <3> QED BY <3>2, <3>3, <3>4 DEF ServerOK
  <2> QED BY <1>4, <2>2, <2>3 DEF Enqueue
<1>5. CASE Commit(q)
  <2>1. row[q].st = "open" /\ req[q].at = "commit"
    BY <1>0, <1>5 DEF Commit, ServerInv
  <2>2. CASE Rollback(q) /\ DeleteImage(q)
    BY <2>1, <2>2, RolledBack DEF DeleteImage
  <2>3. CASE /\ row' = [row EXCEPT ![q].st = "live"]
             /\ \E id : Answer(q, id)
             /\ UNCHANGED <<image, leaked>> \/ DeleteImage(q)
    <3>1. PICK id : Answer(q, id)
      BY <2>3
    <3>2. PICK r \in {Unused, [at |-> "replied", e |-> req[q].e, ans |-> id]} :
            req' = [req EXCEPT ![q] = r]
      BY <1>0, <3>1, Answered
    <3>3. row' = [row EXCEPT ![q] = [st |-> "live", e |-> row[q].e, hash |-> row[q].hash]]
      <4>1. row[q] = [st |-> row[q].st, e |-> row[q].e, hash |-> row[q].hash]
        BY <1>0 DEF ServerShape
      <4>2. [row[q] EXCEPT !.st = "live"] = [st |-> "live", e |-> row[q].e, hash |-> row[q].hash]
        BY <4>1
      <4> QED BY <2>3, <4>2
    <3>4. ServerShape'
      <4>1. image' \ leaked' \subseteq Requests
        BY <1>0, <2>3 DEF ServerShape, DeleteImage
      <4> QED BY <1>0, <3>2, <3>3, <4>1 DEF ServerShape, Unused
    <3>5. ServerInv'
      BY <1>0, <2>1, <3>2, <3>3 DEF ServerShape, ServerInv, Unused
    <3>6. ImageOwned' /\ Kept
      <4>1. \A p \in Requests : p # q => req'[p] = req[p] /\ row'[p] = row[p]
        BY <1>0, <3>2, <3>3 DEF ServerShape
      <4>2. row'[q].st = "live" /\ row'[q].e = row[q].e
        BY <1>0, <3>3 DEF ServerShape
      <4>3. image' \ leaked' \subseteq image \ leaked /\ image' \ leaked' \subseteq Requests
        BY <1>0, <2>3 DEF ServerShape, DeleteImage
      <4> QED BY <1>0, <4>1, <4>2, <4>3 DEF ImageOwned, Kept
    <3> QED BY <3>4, <3>5, <3>6 DEF ServerOK
  <2> QED BY <1>5, <2>2, <2>3 DEF Commit
<1>6. CASE Die(q)
  BY <1>6, RolledBack DEF Die
<1> QED BY <1>1, <1>2, <1>3, <1>4, <1>5, <1>6 DEF Serve

\* What the client does to the requests: it opens a fresh one, or forgets one that
\* the server has not taken or has answered.
LEMMA ClientMoves ==
  ASSUME ServerOK, UNCHANGED <<row, image, leaked>>,
         \/ UNCHANGED req
         \/ \E q \in Requests : \E c :
              /\ FreshRequest(q)
              /\ req' = [req EXCEPT ![q] = [at |-> "check", e |-> c, ans |-> None]]
         \/ \E q \in Requests :
              req[q].at \in {"check", "replied"} /\ req' = [req EXCEPT ![q] = Unused]
  PROVE  ServerOK' /\ Kept
<1>1. CASE UNCHANGED req
  BY <1>1 DEF ServerOK, ServerShape, ServerInv, ImageOwned, Kept
<1>2. ASSUME NEW q \in Requests, NEW c, FreshRequest(q),
             req' = [req EXCEPT ![q] = [at |-> "check", e |-> c, ans |-> None]]
      PROVE  ServerOK' /\ Kept
  <2> DEFINE r == [at |-> "check", e |-> c, ans |-> None]
  <2>1. r = [at |-> r.at, e |-> r.e, ans |-> r.ans] /\ r.at = "check"
    OBVIOUS
  <2>2. row[q] = NoRow /\ req[q].at = "unused" /\ req' = [req EXCEPT ![q] = r]
    BY <1>2 DEF FreshRequest, Unused
  <2> HIDE DEF r
  <2> QED BY <2>1, <2>2, RequestMoves
<1>3. ASSUME NEW q \in Requests, req[q].at \in {"check", "replied"},
             req' = [req EXCEPT ![q] = Unused]
      PROVE  ServerOK' /\ Kept
  BY <1>3, RequestMoves DEF Unused
<1> QED BY <1>1, <1>2, <1>3

\* The request the client waits for is one of the server's.
Waiting == up.at = "post" => up.q \in Requests

LEMMA Abandoned ==
  ASSUME Waiting, Abandon
  PROVE  /\ up.at = "post"
         /\ \/ UNCHANGED req
            \/ \E q \in Requests :
                 req[q].at \in {"check", "replied"} /\ req' = [req EXCEPT ![q] = Unused]
BY DEF Waiting, Abandon

LEMMA ServerStep ==
  ASSUME ServerOK, Waiting, [Next]_vars
  PROVE  ServerOK' /\ Kept
<1>1. ASSUME NEW q \in Requests, Serve(q) \/ Die(q)
      PROVE  ServerOK' /\ Kept
  BY <1>1, ServeStep
<1>2. ASSUME NEW q \in Requests, DropJob(q)
      PROVE  ServerOK' /\ Kept
  BY <1>2, ClientMoves DEF DropJob
<1>3. ASSUME NEW q \in Requests, ReleaseHash(q)
      PROVE  ServerOK' /\ Kept
  <2>1. row[q] = [st |-> row[q].st, e |-> row[q].e, hash |-> row[q].hash]
    BY DEF ServerOK, ServerShape
  <2>2. row' = [row EXCEPT ![q] = [st |-> "live", e |-> row[q].e, hash |-> FALSE]]
        /\ row[q].st = "live" /\ UNCHANGED <<req, image, leaked>>
    <3>0. \A h : [row[q] EXCEPT !.hash = h] = [st |-> row[q].st, e |-> row[q].e, hash |-> h]
      BY <2>1
    <3>1. [row[q] EXCEPT !.hash = FALSE] = [st |-> row[q].st, e |-> row[q].e, hash |-> FALSE]
      BY <3>0, Zenon
    <3>2. row' = [row EXCEPT ![q] = [row[q] EXCEPT !.hash = FALSE]]
          /\ row[q].st = "live" /\ UNCHANGED <<req, image, leaked>>
      BY <1>3, Zenon DEF ReleaseHash, client
    <3> QED BY <3>1, <3>2
  <2>3. \A p \in Requests :
          /\ row'[p].st = row[p].st /\ row'[p].e = row[p].e
          /\ row[p].st # "live" => row'[p] = row[p]
    BY <2>2 DEF ServerOK, ServerShape
  <2>4. ServerShape'
    BY <2>2 DEF ServerOK, ServerShape
  <2>5. \A p \in Requests : req[p].at \in {"check", "hash", "insert"} => row'[p] = NoRow
    <3> SUFFICES ASSUME NEW p \in Requests, req[p].at \in {"check", "hash", "insert"}
                 PROVE  row'[p] = NoRow
      OBVIOUS
    <3>1. row[p] = NoRow
      BY DEF ServerOK, ServerInv
    <3>2. row[p].st # "live"
      BY <3>1 DEF NoRow
    <3> QED BY <2>3, <3>1, <3>2
  <2>6. ServerInv'
    BY <2>2, <2>3, <2>5 DEF ServerOK, ServerInv
  <2>7. ImageOwned' /\ Kept
    BY <2>2, <2>3 DEF ServerOK, ServerShape, ImageOwned, Kept
  <2> QED BY <2>4, <2>6, <2>7 DEF ServerOK
<1>4. CASE MarkUploading
  BY <1>4, ClientMoves DEF MarkUploading
<1>5. CASE Receive
  BY <1>5, ClientMoves DEF Receive, Waiting
<1>6. CASE Disconnect \/ Kill
  BY <1>6, Abandoned, ClientMoves DEF Disconnect, Kill
<1>7. CASE \/ \E e \in All : EnqueueRead(e) \/ EnqueueWrite(e)
           \/ ListQueue \/ UpdateRead \/ NoteOutcome \/ Boot \/ UNCHANGED vars
  BY <1>7, ClientMoves
     DEF EnqueueRead, EnqueueWrite, ListQueue, UpdateRead, NoteOutcome, Boot, vars,
         server, client
<1> QED BY <1>1, <1>2, <1>3, <1>4, <1>5, <1>6, <1>7 DEF Next, Client
-----------------------------------------------------------------------------
(***************************************************************************)
(* The client's side.                                                      *)
(***************************************************************************)
\* A request answers with None or with the committed receipt of its own key.
LEMMA Answers ==
  ASSUME ServerOK, NEW q \in Requests, Serve(q) \/ Die(q)
  PROVE  \/ \E at \in {"hash", "insert", "put", "enqueue", "commit"} : Step(q, at)
         \/ \E id : Answer(q, id) /\ (id = None \/ Names(id, req[q].e, row'))
<1>1. CASE CheckKey(q) \/ CheckHash(q)
  BY <1>1 DEF CheckKey, CheckHash, WithKey, Names
<1>2. CASE Insert(q)
  BY <1>2 DEF Insert, WithKey, Names
<1>3. CASE Put(q) \/ Enqueue(q) \/ Die(q)
  BY <1>3 DEF Put, Enqueue, Die, Rollback
<1>4. CASE Commit(q)
  <2>1. row[q].st = "open" /\ row[q].e = req[q].e
    BY <1>4 DEF Commit, ServerOK, ServerInv
  <2>2. ASSUME row' = [row EXCEPT ![q].st = "live"] PROVE Names(q, req[q].e, row')
    <3>1. row[q] = [st |-> row[q].st, e |-> row[q].e, hash |-> row[q].hash]
      BY DEF ServerOK, ServerShape
    <3>2. [row[q] EXCEPT !.st = "live"] = [st |-> "live", e |-> row[q].e, hash |-> row[q].hash]
      BY <3>1
    <3>3. row'[q] = [st |-> "live", e |-> row[q].e, hash |-> row[q].hash]
      BY <2>2, <3>2 DEF ServerOK, ServerShape
    <3> QED BY <2>1, <3>3 DEF Names
  <2> QED BY <1>4, <2>2 DEF Commit, Rollback
<1> QED BY <1>1, <1>2, <1>3, <1>4 DEF Serve

\* What the client's wait needs of its request.
Awaited ==
  up.at = "post" =>
    /\ up.q \in Requests /\ req[up.q].at # "unused" /\ req[up.q].e = Current.e
    /\ req[up.q].at = "replied" =>
         req[up.q].ans = None \/ Names(req[up.q].ans, Current.e, row)

LEMMA ServeAwaited ==
  ASSUME ServerOK, Kept, Awaited, UNCHANGED up, NEW q \in Requests, Serve(q) \/ Die(q)
  PROVE  Awaited'
<1> SUFFICES ASSUME up.at = "post" PROVE Awaited'
  BY DEF Awaited
<1>1. /\ up.q \in Requests /\ req[up.q].at # "unused" /\ req[up.q].e = Current.e
      /\ req[up.q].at = "replied" =>
           req[up.q].ans = None \/ Names(req[up.q].ans, Current.e, row)
  BY DEF Awaited
<1>2. up' = up /\ Current' = Current
  BY DEF Current
<1>3. ServerShape
  BY DEF ServerOK
<1>4. CASE q # up.q
  <2>1. req'[up.q] = req[up.q]
    BY <1>1, <1>3, <1>4, Answers, Answered, Stepped DEF ServerShape
  <2> QED BY <1>1, <1>2, <2>1 DEF Awaited, Names, Kept
<1>5. CASE q = up.q
  <2>1. CASE \E at \in {"hash", "insert", "put", "enqueue", "commit"} : Step(q, at)
    <3>1. PICK at \in {"hash", "insert", "put", "enqueue", "commit"} :
            req' = [req EXCEPT ![q] = [at |-> at, e |-> req[q].e, ans |-> req[q].ans]]
      BY <1>3, <2>1, Stepped
    <3>2. req'[q].at = at /\ req'[q].e = req[q].e
      BY <1>3, <3>1 DEF ServerShape
    <3> QED BY <1>1, <1>2, <1>5, <3>2 DEF Awaited
  <2>2. CASE \E id : Answer(q, id) /\ (id = None \/ Names(id, req[q].e, row'))
    <3>1. PICK id : Answer(q, id) /\ (id = None \/ Names(id, req[q].e, row'))
      BY <2>2
    <3>2. req' = [req EXCEPT ![q] = [at |-> "replied", e |-> req[q].e, ans |-> id]]
      BY <1>3, <1>5, <3>1, Answered DEF Unused
    <3>3. req'[q] = [at |-> "replied", e |-> req[q].e, ans |-> id]
      BY <1>3, <3>2 DEF ServerShape
    <3> QED BY <1>1, <1>2, <1>5, <3>1, <3>3 DEF Awaited
  <2> QED BY <2>1, <2>2, Answers
<1> QED BY <1>4, <1>5

LEMMA DoneStays ==
  ASSUME Kept, NEW f, DoneNamed(f, row)
  PROVE  DoneNamed(f, row')
BY DEF Kept, DoneNamed, Names

\* updateQueueEntry writes a sound value of the queue.
LEMMA StoredSound ==
  ASSUME IsQueue(queue), IsQueue(up.seen), DoneNamed(queue, row), DoneNamed(up.seen, row),
         NEW e, NEW r, IsEntry(r), e \in All /\ r.st = "done" => Names(r.id, e, row)
  PROVE  IsQueue(Stored(e, r)) /\ DoneNamed(Stored(e, r), row)
<1>1. CASE up.seen[e] = Absent
  BY <1>1 DEF Stored
<1>2. CASE up.seen[e] # Absent
  <2> DEFINE f == [up.seen EXCEPT ![e] = r]
  <2>1. f = [d \in All |-> IF d = e THEN r ELSE up.seen[d]]
    BY DEF IsQueue
  <2>2. IsQueue(f) /\ DoneNamed(f, row)
    BY <2>1 DEF IsQueue, DoneNamed
  <2> QED BY <1>2, <2>2 DEF Stored
<1> QED BY <1>1, <1>2

ClientOK == ClientShape /\ ClientInv

LEMMA ServerKeepsClient ==
  ASSUME ClientOK, Kept, UNCHANGED <<queue, seen, up>>, Awaited'
  PROVE  ClientOK'
<1>1. ClientShape'
  BY DEF ClientOK, ClientShape
<1>2. Current' = Current
  BY DEF Current
<1>3. \A f : DoneNamed(f, row) => DoneNamed(f, row')
  BY DoneStays
<1>4. \A id, e : Names(id, e, row) => Names(id, e, row')
  BY DEF Names, Kept
<1>5. ClientInv'
  BY <1>2, <1>3, <1>4 DEF ClientOK, ClientInv, Awaited
<1> QED BY <1>1, <1>5 DEF ClientOK

\* How an action of the client writes processQueue's variables.
LEMMA UpRecord ==
  ASSUME ClientShape
  PROVE  up = [at |-> up.at, todo |-> up.todo, seen |-> up.seen, q |-> up.q, ans |-> up.ans]
BY DEF ClientShape

LEMMA ClientStep ==
  ASSUME ClientOK, ServerOK, [Next]_vars
  PROVE  ClientOK'
<1> USE UpRecord
<1>0. ClientShape /\ ClientInv /\ Awaited /\ Waiting
  BY DEF ClientOK, ClientInv, Awaited, Waiting
<1>00. ServerOK' /\ Kept
  BY <1>0, ServerStep
<1>1. ASSUME NEW e \in All, EnqueueRead(e)
      PROVE  ClientOK'
  BY <1>0, <1>1
     DEF EnqueueRead, server, ClientOK, ClientShape, ClientInv, Current
<1>2. ASSUME NEW e \in All, EnqueueWrite(e)
      PROVE  ClientOK'
  <2>1. IsQueue(queue') /\ DoneNamed(queue', row)
    BY <1>0, <1>2
       DEF EnqueueWrite, ClientShape, ClientInv, IsQueue, IsEntry, DoneNamed, Fresh
  <2>2. seen' = [seen EXCEPT ![e] = Over] /\ UNCHANGED <<up, row, req>>
    BY <1>2 DEF EnqueueWrite, server
  <2> QED BY <1>0, <2>1, <2>2 DEF ClientOK, ClientShape, ClientInv, Current
<1>3. CASE ListQueue
  <2>1. \E t : up' = [at |-> "mark", todo |-> t, seen |-> up.seen, q |-> up.q, ans |-> up.ans]
    BY <1>0, <1>3 DEF ListQueue
  <2>2. up.at = "idle" /\ UNCHANGED <<queue, seen, row, req>>
    BY <1>3 DEF ListQueue, server
  <2> QED BY <1>0, <2>1, <2>2 DEF ClientOK, ClientShape, ClientInv
<1>4. CASE UpdateRead
  <2>1. /\ up.at \in {"mark", "note"}
        /\ up' = [at |-> IF up.at = "mark" THEN "marking" ELSE "noting", todo |-> up.todo,
                  seen |-> queue, q |-> up.q, ans |-> up.ans]
    BY <1>0, <1>4 DEF UpdateRead
  <2>2. UNCHANGED <<queue, seen, row, req>> /\ Current' = Current
    BY <1>4, <2>1 DEF UpdateRead, server, Current
  <2> QED BY <1>0, <2>1, <2>2 DEF ClientOK, ClientShape, ClientInv
<1>5. CASE MarkUploading
  <2> DEFINE u == [up.seen[Current.e] EXCEPT !.st = "uploading"]
  <2>1. up.at = "marking" /\ UNCHANGED <<seen, row>> /\ queue' = Stored(Current.e, u)
    BY <1>5 DEF MarkUploading
  <2>2. PICK q \in Requests :
          /\ req' = [req EXCEPT ![q] = [at |-> "check", e |-> Current.e, ans |-> None]]
          /\ up' = [up EXCEPT !.at = "post", !.seen = None, !.q = q]
    BY <1>5 DEF MarkUploading
  <2>3. up' = [at |-> "post", todo |-> up.todo, seen |-> None, q |-> q, ans |-> up.ans]
    BY <1>0, <2>2
  <2>4. IsQueue(queue') /\ DoneNamed(queue', row)
    <3>1. CASE Current.e \in All
      <4>1. IsEntry(u) /\ u.st # "done"
        <5> DEFINE r == up.seen[Current.e]
        <5>1. IsEntry(r)
          BY <1>0, <2>1, <3>1 DEF ClientShape, IsQueue
        <5> HIDE DEF r
        <5>2. [r EXCEPT !.st = "uploading"] = [st |-> "uploading", tries |-> r.tries, id |-> r.id]
          BY <5>1 DEF IsEntry
        <5> QED BY <5>2 DEF IsEntry, r
      <4> HIDE DEF u
      <4> QED BY <1>0, <2>1, <4>1, StoredSound DEF ClientShape, ClientInv
    <3>2. CASE Current.e \notin All
      <4>1. queue' = queue \/ queue' = [up.seen EXCEPT ![Current.e] = u]
        BY <2>1 DEF Stored
      <4>2. [up.seen EXCEPT ![Current.e] = u] = up.seen
        BY <1>0, <2>1, <3>2 DEF ClientShape, IsQueue
      <4> QED BY <1>0, <2>1, <4>1, <4>2 DEF ClientShape, ClientInv
    <3> QED BY <3>1, <3>2
  <2>5. Current' = Current
    BY <2>3 DEF Current
  <2>6. req'[q] = [at |-> "check", e |-> Current.e, ans |-> None]
    BY <2>2 DEF ServerOK, ServerShape
  <2>7. ClientShape'
    BY <1>0, <2>1, <2>3, <2>4 DEF ClientShape
  <2>8. ClientInv'
    BY <1>0, <2>1, <2>3, <2>4, <2>5, <2>6 DEF ClientInv
  <2> QED BY <2>7, <2>8 DEF ClientOK
<1>6. CASE Receive
  <2>1. up' = [at |-> "note", todo |-> up.todo, seen |-> up.seen, q |-> None,
               ans |-> req[up.q].ans]
    BY <1>0, <1>6 DEF Receive
  <2>2. /\ up.at = "post" /\ req[up.q].at = "replied"
        /\ UNCHANGED <<queue, seen, row>> /\ Current' = Current
    BY <1>6, <2>1 DEF Receive, Current
  <2> QED BY <1>0, <2>1, <2>2 DEF ClientOK, ClientShape, ClientInv
<1>7. CASE Disconnect
  <2>1. up' = [at |-> "note", todo |-> up.todo, seen |-> up.seen, q |-> None, ans |-> up.ans]
    BY <1>0, <1>7 DEF Disconnect
  <2>2. up.at = "post" /\ UNCHANGED <<queue, seen, row>>
    BY <1>7 DEF Disconnect, Abandon
  <2> QED BY <1>0, <2>1, <2>2 DEF ClientOK, ClientShape, ClientInv
<1>8. CASE Kill
  <2>1. up' = [at |-> "boot", todo |-> <<>>, seen |-> None, q |-> None, ans |-> None]
    BY <1>8 DEF Kill, Idle
  <2>2. /\ seen' = [e \in All |-> IF seen[e] = None THEN None ELSE Over]
        /\ UNCHANGED <<queue, row>>
    BY <1>8 DEF Kill
  <2> QED BY <1>0, <2>1, <2>2 DEF ClientOK, ClientShape, ClientInv
<1>9. CASE Boot
  <2>1. queue' = [e \in All |-> Revived(queue[e])] /\ UNCHANGED <<seen, row, req>>
    BY <1>9 DEF Boot, server
  <2>2. up' = [at |-> "idle", todo |-> <<>>, seen |-> None, q |-> None, ans |-> None]
    BY <1>9 DEF Boot, Idle
  <2>3. \A e \in All : IsEntry(Revived(queue[e]))
                       /\ (Revived(queue[e]).st = "done" => Revived(queue[e]) = queue[e])
    BY <1>0 DEF ClientShape, IsQueue, IsEntry, Revived
  <2>4. IsQueue(queue') /\ DoneNamed(queue', row)
    BY <1>0, <2>1, <2>3 DEF IsQueue, DoneNamed, ClientInv
  <2> QED BY <1>0, <2>1, <2>2, <2>4 DEF ClientOK, ClientShape, ClientInv
<1>10. CASE NoteOutcome
  <2> DEFINE r == IF up.ans = None THEN Failed(Current.tries) ELSE Uploaded(up.ans)
  <2>1. up.at = "noting" /\ UNCHANGED <<seen, row, req>> /\ queue' = Stored(Current.e, r)
    BY <1>10 DEF NoteOutcome, server
  <2>2. \E a \in {"idle", "mark"} : \E t :
          up' = [at |-> a, todo |-> t, seen |-> None, q |-> None, ans |-> None]
    BY <1>10 DEF NoteOutcome, Idle
  <2>3. IsEntry(r) /\ (r.st = "done" => Names(r.id, Current.e, row))
    BY <1>0, <2>1 DEF IsEntry, Failed, Uploaded, ClientInv
  <2> HIDE DEF r
  <2>4. IsQueue(queue') /\ DoneNamed(queue', row)
    BY <1>0, <2>1, <2>3, StoredSound DEF ClientShape, ClientInv
  <2> QED BY <1>0, <2>1, <2>2, <2>4 DEF ClientOK, ClientShape, ClientInv
<1>11. ASSUME NEW q \in Requests, Serve(q) \/ Die(q) \/ DropJob(q) \/ ReleaseHash(q)
       PROVE  ClientOK'
  <2>1. UNCHANGED <<queue, seen, up>>
    BY <1>11 DEF Serve, CheckKey, CheckHash, Insert, Put, Enqueue, Commit, Die, DropJob, ReleaseHash, client
  <2>2. Awaited'
    <3>1. CASE Serve(q) \/ Die(q)
      BY <1>0, <1>00, <2>1, <3>1, ServeAwaited
    <3>2. CASE DropJob(q) \/ ReleaseHash(q)
      <4>1. UNCHANGED req /\ Current' = Current
        BY <2>1, <3>2 DEF DropJob, ReleaseHash, Current
      <4> QED BY <1>0, <1>00, <2>1, <4>1 DEF Awaited, Names, Kept
    <3> QED BY <1>11, <3>1, <3>2
  <2> QED BY <1>00, <2>1, <2>2, ServerKeepsClient
<1>12. CASE UNCHANGED vars
  <2>1. Awaited'
    BY <1>0, <1>12 DEF Awaited, vars, Current
  <2> QED BY <1>00, <1>12, <2>1, ServerKeepsClient DEF vars
<1> QED
  BY <1>1, <1>2, <1>3, <1>4, <1>5, <1>6, <1>7, <1>8, <1>9, <1>10, <1>11, <1>12
     DEF Next, Client
-----------------------------------------------------------------------------
LEMMA Inductive == Spec => []IInv
<1>1. Init => IInv
  BY InitIInv
<1>2. IInv /\ [Next]_vars => IInv'
  <2>1. IInv <=> ClientOK /\ ServerOK
    BY DEF IInv, ClientOK, ServerOK
  <2>2. IInv' <=> ClientOK' /\ ServerOK'
    BY DEF IInv, ClientOK, ServerOK
  <2>3. ClientOK => Waiting
    BY DEF ClientOK, ClientInv, Waiting
  <2> QED BY <2>1, <2>2, <2>3, ServerStep, ClientStep
<1> QED BY <1>1, <1>2, PTL DEF Spec

\* However a client replays an upload and whatever is lost, killed or stale, the
\* server holds at most one receipt of its key, and an entry shown as uploaded
\* names that receipt.
THEOREM UploadOnceHolds == Spec => []UploadOnce
<1>1. IInv => UploadOnce
  BY DEF IInv, ServerInv, ClientInv, DoneNamed, Names, UploadOnce
<1> QED BY <1>1, Inductive, PTL

\* Every path out of submit_receipt leaves R2 clean, unless its clean-up failed.
THEOREM ImageOwnedHolds == Spec => []ImageOwned
<1>1. IInv => ImageOwned
  BY DEF IInv
<1> QED BY <1>1, Inductive, PTL
=============================================================================
