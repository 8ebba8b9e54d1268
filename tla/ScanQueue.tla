----------------------------- MODULE ScanQueue -----------------------------
(***************************************************************************)
(* The upload of a receipt photo: the queue the mobile client keeps in     *)
(* AsyncStorage (ratis_client/services/scan-queue.ts) and the endpoint     *)
(* that takes the photo (submit_receipt of ratis_product_analyser).        *)
(*                                                                         *)
(* The client's queue is ONE stored value.  Every operation on it reads    *)
(* the whole value, awaits, and writes the whole value back, so an enqueue *)
(* and the uploader overwrite each other's writes; the model keeps the     *)
(* value read (seen, up.seen) between the two steps.  The server's request *)
(* is a thread of its own that goes on when the client is killed or loses  *)
(* the connection: look-ups, INSERT (which waits for an uncommitted row    *)
(* with the same unique value), put in R2, enqueue of the OCR job, COMMIT. *)
(***************************************************************************)
EXTENDS Naturals, FiniteSets, Sequences, SequencesExt

CONSTANTS Entries,        \* queue entries, in the order of createdAt
          Photo,          \* the photo (its SHA-256) of each entry
          Requests,       \* HTTP requests; a request names the receipt it inserts
          MAX_ATTEMPTS,   \* MAX_ATTEMPTS of scan-queue.ts
          MaxFaults,      \* bound: failures of the network, R2, broker, processes
          None, Over

ASSUME QueueAssumption ==
    /\ Entries \in Seq(Nat) /\ IsInjective(Entries)
    /\ Photo \in [ToSet(Entries) -> Nat]
    /\ MAX_ATTEMPTS \in Nat \ {0} /\ MaxFaults \in Nat

VARIABLES
  queue,     \* scan_upload_queue in AsyncStorage: entry -> [st, tries, id]
  seen,      \* enqueueReceipt of each entry: None, the value it has read, then Over
  up,        \* processQueue: [at, todo, seen, q (the request), ans (its answer)]
  req,       \* request -> [at, e, ans]
  row,       \* receipts: request -> [st, e, hash], st is "none", "open" (uncommitted), "live"
  image,     \* the objects in R2, named after their receipt
  job,       \* the receipts an OCR job was sent for
  leaked,    \* history: images whose clean-up never ran or failed
  faults

vars == <<queue, seen, up, req, row, image, job, leaked, faults>>

All == ToSet(Entries)
Absent == [st |-> "absent", tries |-> 0, id |-> None]
Fresh == [st |-> "queued", tries |-> 0, id |-> None]
Ended == {"done", "error"}

Idle == [at |-> "idle", todo |-> <<>>, seen |-> None, q |-> None, ans |-> None]
Unused == [at |-> "unused", e |-> None, ans |-> None]
NoRow == [st |-> "none", e |-> None, hash |-> FALSE]

Fault == faults < MaxFaults /\ faults' = faults + 1

\* The entry being uploaded, as the pass read it (its attempt count may be stale).
Current == Head(up.todo)

client == <<queue, seen, up>>
server == <<req, row, image, job, leaked>>

Init ==
  /\ queue = [e \in All |-> Absent]
  /\ seen = [e \in All |-> None]
  /\ up = Idle
  /\ req = [q \in Requests |-> Unused]
  /\ row = [q \in Requests |-> NoRow]
  /\ image = {} /\ job = {} /\ leaked = {}
  /\ faults = 0

----------------------------------------------------------------------------
(* enqueueReceipt: read the queue, append the entry, write it back.        *)

EnqueueRead(e) ==
  /\ up.at # "boot" /\ seen[e] = None
  /\ \A d \in All : d < e => seen[d] # None
  /\ seen' = [seen EXCEPT ![e] = queue]
  /\ UNCHANGED <<queue, up, server, faults>>

EnqueueWrite(e) ==
  /\ seen[e] \notin {None, Over}
  /\ queue' = [seen[e] EXCEPT ![e] = Fresh]
  /\ seen' = [seen EXCEPT ![e] = Over]
  /\ UNCHANGED <<up, server, faults>>

----------------------------------------------------------------------------
(* processQueue (single flight): list the queued entries, then upload them *)
(* one by one; every updateQueueEntry is a read and a write.               *)

Queued == SelectSeq(Entries, LAMBDA e : queue[e].st = "queued")

ListQueue ==
  /\ up.at = "idle" /\ Queued # <<>>
  /\ up' = [up EXCEPT !.at = "mark",
              !.todo = [i \in DOMAIN Queued |-> [e |-> Queued[i], tries |-> queue[Queued[i]].tries]]]
  /\ UNCHANGED <<queue, seen, server, faults>>

\* updateQueueEntry, first half: the queue as it is now.
UpdateRead ==
  /\ up.at \in {"mark", "note"}
  /\ up' = [up EXCEPT !.at = IF up.at = "mark" THEN "marking" ELSE "noting", !.seen = queue]
  /\ UNCHANGED <<queue, seen, server, faults>>

\* updateQueueEntry, second half: nothing is written for an entry the value read
\* does not hold.
Stored(e, r) == IF up.seen[e] = Absent THEN queue ELSE [up.seen EXCEPT ![e] = r]

FreshRequest(q) == req[q] = Unused /\ row[q] = NoRow /\ q \notin image \union job

MarkUploading ==
  /\ up.at = "marking"
  /\ \E q \in Requests :
       /\ FreshRequest(q)
       /\ \A p \in Requests : FreshRequest(p) => q <= p
       /\ req' = [req EXCEPT ![q] = [at |-> "check", e |-> Current.e, ans |-> None]]
       /\ up' = [up EXCEPT !.at = "post", !.seen = None, !.q = q]
  /\ queue' = Stored(Current.e, [up.seen[Current.e] EXCEPT !.st = "uploading"])
  /\ UNCHANGED <<seen, row, image, job, leaked, faults>>

\* The response arrives: the receipt id, or None for an error status.
Receive ==
  /\ up.at = "post" /\ req[up.q].at = "replied"
  /\ req' = [req EXCEPT ![up.q] = Unused]
  /\ up' = [up EXCEPT !.at = "note", !.q = None, !.ans = req[up.q].ans]
  /\ UNCHANGED <<queue, seen, row, image, job, leaked, faults>>

\* The client no longer waits for its request: one the server holds goes on, one
\* that is still on its way may never arrive, an answer is thrown away.
Abandon ==
  /\ up.at = "post"
  /\ \/ req[up.q].at \in {"check", "replied"} /\ req' = [req EXCEPT ![up.q] = Unused]
     \/ req[up.q].at # "replied" /\ UNCHANGED req

\* fetch throws: no connection, a timeout, a response that is lost.
Disconnect ==
  /\ Fault /\ Abandon
  /\ up' = [up EXCEPT !.at = "note", !.q = None]
  /\ UNCHANGED <<queue, seen, row, image, job, leaked>>

\* Mutant of Failed: the attempt is not counted.
Retried(tries) == [st |-> "queued", tries |-> tries, id |-> None]

\* What a failed attempt writes: attempt is the one the list held, plus one.
Failed(tries) ==
  [st |-> IF tries + 1 >= MAX_ATTEMPTS THEN "error" ELSE "queued", tries |-> tries + 1, id |-> None]

\* What an accepted attempt writes.
Uploaded(id) == [st |-> "done", tries |-> up.seen[Current.e].tries, id |-> id]

NoteOutcome ==
  /\ up.at = "noting"
  /\ queue' = Stored(Current.e, IF up.ans = None THEN Failed(Current.tries) ELSE Uploaded(up.ans))
  /\ up' = IF Len(up.todo) > 1 THEN [Idle EXCEPT !.at = "mark", !.todo = Tail(up.todo)] ELSE Idle
  /\ UNCHANGED <<seen, server, faults>>

\* The app is killed at any point; its volatile state is gone.
Kill ==
  /\ Fault /\ (Abandon \/ (up.at \notin {"boot", "post"} /\ UNCHANGED req))
  /\ up' = [Idle EXCEPT !.at = "boot"]
  /\ seen' = [e \in All |-> IF seen[e] = None THEN None ELSE Over]
  /\ UNCHANGED <<queue, row, image, job, leaked>>

\* resetOrphanedUploads: an upload the last run left behind is queued again.
Revived(r) == IF r.st = "uploading" THEN [r EXCEPT !.st = "queued"] ELSE r

\* At boot the reset runs to its end before the first pass starts.
Boot ==
  /\ up.at = "boot"
  /\ queue' = [e \in All |-> Revived(queue[e])]
  /\ up' = Idle
  /\ UNCHANGED <<seen, server, faults>>

----------------------------------------------------------------------------
(* submit_receipt.  A request is answered with the id of a receipt, or     *)
(* with None: duplicate_photo, storage_unavailable, queue_unavailable,     *)
(* internal_error.                                                         *)

Step(q, at) == req' = [req EXCEPT ![q].at = at]

Answer(q, id) ==
  req' = [req EXCEPT ![q] = IF up.at = "post" /\ up.q = q
                              THEN [at |-> "replied", e |-> @.e, ans |-> id] ELSE Unused]

WithKey(q, st) == {p \in Requests : row[p].st = st /\ row[p].e = req[q].e}
WithPhoto(q, st) == {p \in Requests : row[p].st = st /\ row[p].hash /\ Photo[row[p].e] = Photo[req[q].e]}

\* get_receipt_by_idempotency_key: the idempotent short cut.
CheckKey(q) ==
  /\ req[q].at = "check"
  /\ \/ \E p \in WithKey(q, "live") : Answer(q, p)
     \/ WithKey(q, "live") = {} /\ Step(q, "hash")
  /\ UNCHANGED <<client, row, image, job, leaked, faults>>

\* check_photo_hash_receipt, another query: the row of the same key may be committed
\* by now, and is a duplicate photo then.
CheckHash(q) ==
  /\ req[q].at = "hash"
  /\ \/ WithPhoto(q, "live") # {} /\ Answer(q, None)
     \/ WithPhoto(q, "live") = {} /\ Step(q, "insert")
  /\ UNCHANGED <<client, row, image, job, leaked, faults>>

\* Mutant of Clash: no unique index behind the two look-ups.
NoIndex(q, st) == {}

\* create_receipt.  An uncommitted row with the same key or photo makes the INSERT
\* wait; a committed one makes it fail on one of the unique indexes.
Clash(q, st) == WithKey(q, st) \union WithPhoto(q, st)

Insert(q) ==
  /\ req[q].at = "insert" /\ Clash(q, "open") = {}
  /\ \/ /\ Clash(q, "live") = {}
        /\ row' = [row EXCEPT ![q] = [st |-> "open", e |-> req[q].e, hash |-> TRUE]]
        /\ Step(q, "put")
     \/ /\ \E p \in WithKey(q, "live") : Answer(q, p)
        /\ UNCHANGED row
     \/ /\ WithPhoto(q, "live") # {} /\ Answer(q, None)
        /\ UNCHANGED row
  /\ UNCHANGED <<client, image, job, leaked, faults>>

\* The request's exception ends its transaction; the row was never visible.
Rollback(q) == row' = [row EXCEPT ![q] = NoRow] /\ Answer(q, None)

\* upload_receipt_image; a put that raised may have stored the object.
Put(q) ==
  /\ req[q].at = "put"
  /\ \/ image' = image \union {q} /\ Step(q, "enqueue") /\ UNCHANGED <<row, leaked, faults>>
     \/ Fault /\ Rollback(q) /\ UNCHANGED <<image, leaked>>
     \/ Fault /\ Rollback(q) /\ image' = image \union {q} /\ leaked' = leaked \union {q}
  /\ UNCHANGED <<client, job>>

\* Mutant of DeleteImage: the error paths do not clean up.
LeaveImage(q) == UNCHANGED <<image, leaked>>

\* delete_receipt_image: a failure is logged and leaves the object where it is.
DeleteImage(q) ==
  \/ image' = image \ {q} /\ UNCHANGED leaked
  \/ UNCHANGED image /\ leaked' = leaked \union {q}

\* enqueue_ocr_job runs before the COMMIT.
Enqueue(q) ==
  /\ req[q].at = "enqueue"
  /\ \/ job' = job \union {q} /\ Step(q, "commit") /\ UNCHANGED <<row, image, leaked, faults>>
     \/ Fault /\ Rollback(q) /\ DeleteImage(q) /\ UNCHANGED job
  /\ UNCHANGED client

\* db.commit; when it raises, the row is not committed or, the connection having
\* broken after the server's commit, it is: the image is deleted either way.
Commit(q) ==
  /\ req[q].at = "commit"
  /\ \/ row' = [row EXCEPT ![q].st = "live"] /\ Answer(q, q) /\ UNCHANGED <<image, leaked, faults>>
     \/ Fault /\ Rollback(q) /\ DeleteImage(q)
     \/ Fault /\ row' = [row EXCEPT ![q].st = "live"] /\ Answer(q, None) /\ DeleteImage(q)
  /\ UNCHANGED <<client, job>>

\* The API process dies: the transaction is rolled back, nothing cleans up.
Die(q) ==
  /\ Fault /\ req[q].at \in {"hash", "insert", "put", "enqueue", "commit"} /\ Rollback(q)
  /\ leaked' = leaked \union (image \intersect {q})
  /\ UNCHANGED <<client, image, job>>

\* The OCR worker takes the job of a receipt that was never committed and finds
\* no row (process_receipt logs it and returns).
DropJob(q) ==
  /\ q \in job /\ row[q] = NoRow
  /\ job' = job \ {q}
  /\ UNCHANGED <<client, req, row, image, leaked, faults>>

\* The photo's hash of a receipt that was not read is given free: the task's failed
\* sentinel, or purge_photo_hashes after an hour.  The same photo may come again.
ReleaseHash(q) ==
  /\ row[q].st = "live" /\ row[q].hash
  /\ row' = [row EXCEPT ![q].hash = FALSE]
  /\ UNCHANGED <<client, req, image, job, leaked, faults>>

----------------------------------------------------------------------------
Client == ListQueue \/ UpdateRead \/ MarkUploading \/ Receive \/ NoteOutcome \/ Boot
Serve(q) == CheckKey(q) \/ CheckHash(q) \/ Insert(q) \/ Put(q) \/ Enqueue(q) \/ Commit(q)

Next ==
  \/ \E e \in All : EnqueueRead(e) \/ EnqueueWrite(e)
  \/ Client \/ Disconnect \/ Kill
  \/ \E q \in Requests : Serve(q) \/ Die(q) \/ DropJob(q) \/ ReleaseHash(q)

\* The client's promises and the server's requests run on; a fault, an enqueue by
\* the user and a kill need not happen.
Fairness ==
  /\ WF_vars(Client)
  /\ \A e \in All : WF_vars(EnqueueWrite(e))
  /\ \A q \in Requests : WF_vars(Serve(q)) /\ WF_vars(DropJob(q))

Spec == Init /\ [][Next]_vars /\ Fairness

----------------------------------------------------------------------------
\* However often a client replays an upload (killed, disconnected, answered with an
\* error after the commit), the server holds at most one receipt of its key, and an
\* entry the client takes for uploaded names that receipt.
UploadOnce ==
  /\ \A p, q \in Requests :
       row[p].st = "live" /\ row[q].st = "live" /\ row[p].e = row[q].e => p = q
  /\ \A e \in All : queue[e].st = "done" => row[queue[e].id].st = "live" /\ row[queue[e].id].e = e

\* Every path out of submit_receipt leaves R2 clean: an image without a receipt
\* belongs to a request still at work, or its clean-up itself failed.
ImageOwned ==
  \A q \in image \ leaked : row[q].st = "live" \/ req[q].at \in {"enqueue", "commit"}

\* processQueue's loop terminates with nothing left to upload: every attempt is
\* counted up to MAX_ATTEMPTS, also when an enqueue writes stale counts back.
QueueDrains == []<>(up.at = "idle" /\ Queued = <<>>)
=============================================================================
