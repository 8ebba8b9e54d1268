---------------------------- MODULE ReceiptScans ----------------------------
(***************************************************************************)
(* A receipt after its upload: the Celery task that reads it               *)
(* (worker/receipt_task.py process_receipt), the transaction that persists *)
(* what was read (worker/pipeline/persist.py), the rescan endpoint, and    *)
(* the purge batch.  ScanQueue models the upload before it.                *)
(*                                                                         *)
(* All receipts of the model are photos of ONE till ticket, the case the   *)
(* deduplication is for.  What a pass reads is abstracted to what dedup    *)
(* tells apart: the ticket's bar code, or a fingerprint ("exact", or       *)
(* "drift" with one digit misread), and how much of (store, time, total)   *)
(* was found.  A receipt's scan rows are of two kinds: those of a pass that *)
(* found the store, which last, and those without a store (store_status    *)
(* 'unknown'), which the purge deletes after 7 days.  Of each kind the     *)
(* model keeps the best status (matched, unresolved, rejected, failed, or  *)
(* none); the better of the two decides whether a rescan is allowed.       *)
(***************************************************************************)
EXTENDS Naturals

CONSTANTS Receipts,     \* the receipts, all being uploaded
          Owner,        \* the user of each receipt
          Readings,     \* what a pass may read: pairs of a ticket and a store reading
          Jobs,         \* bound: tasks queued or running at once
          MaxRetries,   \* max_retries of process_receipt
          RescanCap,    \* pipeline.anti_fraud.rescan_max_attempts
          Asked,        \* bound: the receipts whose owner asks for rescans
          MaxAsking,    \* bound: concurrent rescan requests per receipt
          MaxFaults,    \* bound: failures of R2, broker, database, workers
          None

ASSUME ScansAssumption ==
    /\ Receipts \subseteq Jobs /\ Jobs \subseteq Nat
    /\ Readings \subseteq {"code", "exact", "drift"} \X {"unknown", "known", "keyed"}
    /\ MaxRetries \in Nat /\ RescanCap \in Nat /\ MaxAsking \in Nat /\ MaxFaults \in Nat

VARIABLES
  row,       \* receipts: [st, code, fp, store, rescans]
  lines,     \* receipt -> the best status among its scan rows at a store
  adrift,    \* receipt -> the same among its scan rows without a store
  image,     \* receipt -> its image: "kept" in R2, "deleted", "marked" as deleted
  jobs,      \* slot -> Free or [r, at, n (retries), read, store, fold]
  asking,    \* receipt -> rescan requests between their checks and the UPDATE
  faults

vars == <<row, lines, adrift, image, jobs, asking, faults>>

Free == [r |-> None, at |-> "free", n |-> 0, read |-> "", store |-> "", fold |-> None]
Queued(r) == [Free EXCEPT !.r = r, !.at = "queued"]

Active == {"matched", "unresolved"}
Rank == [none |-> 0, failed |-> 1, rejected |-> 2, unresolved |-> 3, matched |-> 4]
Better(old, new) == IF Rank[new] > Rank[old] THEN new ELSE old

\* As create_receipt leaves it, no store yet.
Uploaded == [st |-> "open", code |-> FALSE, fp |-> "", store |-> "unknown",
             rescans |-> 0]

\* What _receipt_already_accepted sees of a receipt: the rows of both kinds.
Status(r) == Better(lines[r], adrift[r])

Fault == faults < MaxFaults /\ faults' = faults + 1
Live(r) == row[r].st = "live"

\* The first job of every receipt is enqueued before its INSERT is committed.
Init ==
  /\ row = [r \in Receipts |-> Uploaded]
  /\ lines = [r \in Receipts |-> "none"]
  /\ adrift = [r \in Receipts |-> "none"]
  /\ image = [r \in Receipts |-> "kept"]
  /\ jobs = [j \in Jobs |-> IF j \in Receipts THEN Queued(j) ELSE Free]
  /\ asking = [r \in Receipts |-> 0]
  /\ faults = 0

----------------------------------------------------------------------------
(* The end of submit_receipt: COMMIT, or rollback and removal of the image *)

Commit(r) ==
  /\ row[r].st = "open"
  /\ row' = [row EXCEPT ![r].st = "live"]
  /\ UNCHANGED <<lines, adrift, image, jobs, asking, faults>>

Abort(r) ==
  /\ Fault /\ row[r].st = "open"
  /\ row' = [row EXCEPT ![r].st = "none"]
  /\ image' = [image EXCEPT ![r] = "deleted"]
  /\ UNCHANGED <<lines, adrift, jobs, asking>>

----------------------------------------------------------------------------
(* process_receipt.  The broker's message is acknowledged when a worker    *)
(* takes it: whatever ends the task early, nobody runs it again.           *)

End(j) == jobs' = [jobs EXCEPT ![j] = Free]
Goto(j, at) == jobs' = [jobs EXCEPT ![j] = [Free EXCEPT !.r = jobs[j].r, !.at = at]]

\* "Receipt %s not found": the row is not committed yet, or never will be.
FindNothing(j) ==
  /\ jobs[j].at = "queued" /\ ~Live(jobs[j].r) /\ End(j)
  /\ UNCHANGED <<row, lines, adrift, image, asking, faults>>

Download(j) ==
  /\ jobs[j].at = "queued" /\ Live(jobs[j].r) /\ image[jobs[j].r] = "kept" /\ Goto(j, "ocr")
  /\ UNCHANGED <<row, lines, adrift, image, asking, faults>>

\* The scan row of a receipt without a store gets the column's default store_status
\* 'confirmed' and a null store_id, which ck_scans_store_status_consistency refuses:
\* the whole transaction is lost and the exception only logged.
Accepts(r) == Live(r) /\ row[r].store # "unknown"

\* The failed sentinel: _mark_receipt_failed and the end of the download retries
\* (which also release the photo's hash, see ScanQueue).
MarkFailed(r) ==
  lines' = IF Accepts(r) THEN [lines EXCEPT ![r] = Better(@, "failed")] ELSE lines

\* The image is gone (purged meanwhile) or R2 fails: retried, then given up.
DownloadFails(j) ==
  LET r == jobs[j].r IN
  /\ jobs[j].at = "queued" /\ Live(r)
  /\ IF image[r] = "kept" THEN Fault ELSE UNCHANGED faults
  /\ \/ /\ jobs[j].n < MaxRetries
        /\ jobs' = [jobs EXCEPT ![j].n = @ + 1]
        /\ UNCHANGED lines
     \/ jobs[j].n = MaxRetries /\ End(j) /\ MarkFailed(r)
  /\ UNCHANGED <<row, adrift, image, asking>>

\* A rejection that leaves the receipt as it is and adds one rejected row without a
\* store: the perceptual hash before OCR; no usable signals, age or daily cap after.
RejectEarly(j) ==
  /\ jobs[j].at = "ocr" /\ End(j)
  /\ adrift' = [adrift EXCEPT ![jobs[j].r] = Better(@, "rejected")]
  /\ UNCHANGED <<row, lines, image, asking, faults>>

\* fuzzy_match_intra_user: the same user's receipts of the last 48 hours that hold a
\* fingerprint, the receipt itself included; an equal one is preferred, and none is
\* taken when too many components differ or it is not among the latest ones.
Similar(r) ==
  {c \in Receipts : /\ Live(c) /\ Owner[c] = Owner[r] /\ image[c] = "kept"
                    /\ row[c].fp # "" /\ ~row[c].code}
Best(r, fp) ==
  LET equal == {c \in Similar(r) : row[c].fp = fp}
  IN IF equal # {} THEN equal ELSE Similar(r)

\* OCR, comprehension and matching (slow, outside services), then, without a bar
\* code, the look-up of a receipt to fold the new one into.
Recognise(j) ==
  LET r == jobs[j].r IN
  /\ jobs[j].at = "ocr"
  /\ \E reading \in Readings :
       LET read == reading[1] IN
       \E fold \in {None} \union (IF read = "code" THEN {} ELSE Best(r, read)) :
         jobs' = [jobs EXCEPT ![j] = [@ EXCEPT !.at = "write", !.read = read,
                                               !.store = reading[2], !.fold = fold]]
  /\ UNCHANGED <<row, lines, adrift, image, asking, faults>>

\* An exception of the pipeline (OCR, LLM, database): rollback, raise, no retry.
PipelineFails(j) ==
  /\ Fault /\ jobs[j].at \in {"ocr", "write"} /\ End(j)
  /\ UNCHANGED <<row, lines, adrift, image, asking>>

----------------------------------------------------------------------------
(* persist_pipeline_result, one transaction.                               *)

\* receipts_semantic_dedup_key: another receipt has this (store, time, total).
KeyTaken(r, store) == store = "keyed" /\ \E c \in Receipts \ {r} : Live(c) /\ row[c].store = "keyed"

\* Mutant of Holders: only a receipt with active lines is superseded.
StillActive(r) == {c \in Receipts \ {r} : row[c].code /\ Status(c) \in Active}

\* handle_barcode_rescan, on the receipt that holds the ticket's bar code: its
\* active rows of either kind are rejected.
Holders(r) == {c \in Receipts \ {r} : row[c].code}
Superseded(r, status) == [c \in Receipts |->
  IF c \in Holders(r) /\ status[c] \in Active THEN "rejected" ELSE status[c]]
Freed(r) == [c \in Receipts |-> IF c \in Holders(r) THEN [row[c] EXCEPT !.code = FALSE] ELSE row[c]]

\* _consolidate_rescan_into_existing keeps what the new pass did not read.
Coalesced(old, new) == IF new = "unknown" \/ old = "keyed" THEN old ELSE new

\* The same user's other receipt with this fingerprint (idx_receipts_fp_user).
Twins(r, fp) == {c \in Receipts \ {r} : Live(c) /\ Owner[c] = Owner[r] /\ row[c].fp = fp /\ ~row[c].code}

\* Where the rows of this pass go, and the receipts afterwards.
Target(j) ==
  LET r == jobs[j].r IN
  IF jobs[j].read = "code" THEN r
  ELSE IF jobs[j].fold # None THEN jobs[j].fold
  ELSE IF Twins(r, jobs[j].read) # {} THEN CHOOSE c \in Twins(r, jobs[j].read) : TRUE ELSE r

\* _upsert_receipt overwrites code, fingerprint and store alike.
CodeRead(old, store) == [old EXCEPT !.code = TRUE, !.fp = "", !.store = store]
PrintRead(old, fp, store) == [old EXCEPT !.code = FALSE, !.fp = fp, !.store = store]

Upserted(j) ==
  LET r == jobs[j].r
      t == Target(j)
  IN IF jobs[j].read = "code"
     THEN [Freed(r) EXCEPT ![r] = CodeRead(@, jobs[j].store)]
     ELSE IF jobs[j].fold # None THEN row
     ELSE IF t # r THEN [row EXCEPT ![t].store = Coalesced(@, jobs[j].store)]
     ELSE [row EXCEPT ![r] = PrintRead(@, jobs[j].read, jobs[j].store)]

Collides(j) ==
  /\ jobs[j].fold = None
  /\ KeyTaken(Target(j), Upserted(j)[Target(j)].store)

\* The rows carry one status here: what most lines of the pass got, or the single
\* rejected row, without a store, of a strict cross-user duplicate.  A reply without
\* items adds no row, but the older receipt's rows are superseded all the same.
Persist(j) ==
  LET superseded(status) ==
        IF jobs[j].read = "code" THEN Superseded(jobs[j].r, status) ELSE status
      added(status, st) == [status EXCEPT ![Target(j)] = Better(@, st)]
  IN
  /\ jobs[j].at = "write" /\ ~Collides(j) /\ Goto(j, "award")
  /\ row' = Upserted(j)
  /\ \E st \in Active \union {"rejected", "none"} :
       \/ /\ jobs[j].store # "unknown"
          /\ lines' = added(superseded(lines), st)
          /\ adrift' = superseded(adrift)
       \/ /\ jobs[j].store = "unknown" \/ st = "rejected"
          /\ lines' = superseded(lines)
          /\ adrift' = added(superseded(adrift), st)
  /\ UNCHANGED <<image, asking, faults>>

\* Mutant of Rollback: what handle_barcode_rescan did survives the failure.
KeepSuperseded(j) ==
  IF jobs[j].read = "code"
  THEN /\ row' = Freed(jobs[j].r)
       /\ lines' = Superseded(jobs[j].r, lines) /\ adrift' = Superseded(jobs[j].r, adrift)
  ELSE UNCHANGED <<row, lines, adrift>>

\* db.rollback of process_receipt.
Rollback(j) == UNCHANGED <<row, lines, adrift>>

\* PersistError: the exception is raised again and the task is over.
PersistFails(j) ==
  /\ jobs[j].at = "write" /\ Collides(j) /\ End(j) /\ Rollback(j)
  /\ UNCHANGED <<image, asking, faults>>

\* After the commit: rewards (RewardEvents), then the task returns.
Finish(j) ==
  /\ jobs[j].at = "award" /\ End(j)
  /\ UNCHANGED <<row, lines, adrift, image, asking, faults>>

\* SoftTimeLimitExceeded, also after the commit; the hard limit or a crash.
TimeOut(j) ==
  /\ Fault /\ jobs[j].at \in {"ocr", "write", "award"} /\ End(j) /\ MarkFailed(jobs[j].r)
  /\ UNCHANGED <<row, adrift, image, asking>>

KillWorker(j) ==
  /\ Fault /\ jobs[j].at \in {"ocr", "write", "award"} /\ End(j)
  /\ UNCHANGED <<row, lines, adrift, image, asking>>

----------------------------------------------------------------------------
(* rescan_receipt: checks on what it read, then the guarded UPDATE.        *)

Ask(r) ==
  /\ r \in Asked /\ Live(r) /\ Status(r) # "matched" /\ image[r] # "marked" /\ row[r].rescans < RescanCap
  /\ asking[r] < MaxAsking
  /\ asking' = [asking EXCEPT ![r] = @ + 1]
  /\ UNCHANGED <<row, lines, adrift, image, jobs, faults>>

\* Mutant of UnderCap: the UPDATE trusts the check made before it.
Unguarded(r) == TRUE

\* UPDATE receipts SET rescan_attempts = rescan_attempts + 1 WHERE ... < :cap.
UnderCap(r) == row[r].rescans < RescanCap

\* The job is enqueued before the route commits: a failed commit leaves a job
\* without its count; a failed enqueue leaves neither.
Rescan(r) ==
  /\ asking[r] > 0
  /\ asking' = [asking EXCEPT ![r] = @ - 1]
  /\ \/ /\ ~UnderCap(r) /\ UNCHANGED <<row, jobs, faults>>
     \/ /\ UnderCap(r) /\ Fault /\ UNCHANGED <<row, jobs>>
     \/ /\ UnderCap(r)
        /\ \E j \in Jobs : /\ jobs[j] = Free
                           /\ \A i \in Jobs : jobs[i] = Free => j <= i
                           /\ jobs' = [jobs EXCEPT ![j] = Queued(r)]
        /\ \/ row' = [row EXCEPT ![r].rescans = @ + 1] /\ UNCHANGED faults
           \/ Fault /\ UNCHANGED row
  /\ UNCHANGED <<lines, adrift, image>>

----------------------------------------------------------------------------
(* The purge batch.                                                        *)

\* purge_receipt_images: 48 hours after the upload, no deletion mark.  The model's
\* batch runs when the 48 hours are over.
DeleteImage(r) ==
  /\ Live(r) /\ image[r] = "kept"
  /\ image' = [image EXCEPT ![r] = "deleted"]
  /\ UNCHANGED <<row, lines, adrift, jobs, asking, faults>>

\* The mark is written after the delete succeeded, a commit per image; a run that
\* ends between the two is repeated the next day.
MarkDeleted(r) ==
  /\ Live(r) /\ image[r] = "deleted"
  /\ image' = [image EXCEPT ![r] = "marked"]
  /\ UNCHANGED <<row, lines, adrift, jobs, asking, faults>>

\* purge_unknown_scans: the rows without a store, once they are 7 days old, all of
\* them or the older ones.  They are deleted whatever their scan_type and status.
PurgeUnknown(r) ==
  /\ \E left \in {"none", "rejected", "unresolved"} :
       /\ Rank[left] < Rank[adrift[r]]
       /\ adrift' = [adrift EXCEPT ![r] = left]
  /\ UNCHANGED <<row, lines, image, jobs, asking, faults>>

----------------------------------------------------------------------------
Work(j) == \/ FindNothing(j) \/ Download(j) \/ DownloadFails(j) \/ RejectEarly(j)
           \/ Recognise(j) \/ Persist(j) \/ PersistFails(j) \/ Finish(j)
Batch(r) == DeleteImage(r) \/ MarkDeleted(r) \/ PurgeUnknown(r)

Next ==
  \/ \E r \in Receipts : Commit(r) \/ Abort(r) \/ Ask(r) \/ Rescan(r) \/ Batch(r)
  \/ \E j \in Jobs : Work(j) \/ PipelineFails(j) \/ TimeOut(j) \/ KillWorker(j)

Spec == Init /\ [][Next]_vars

----------------------------------------------------------------------------
\* The three unique indexes of the dedup hold in every committed state: at most one
\* receipt with the bar code, one with a fingerprint and no code, one with a store,
\* time and total.  Clearing the superseded receipt's code puts that receipt back
\* under the fingerprint index, which nothing checks there.
IndexesHold ==
  \A r, c \in Receipts : r # c /\ Live(r) /\ Live(c) =>
    /\ ~(row[r].code /\ row[c].code)
    /\ ~(row[r].store = "keyed" /\ row[c].store = "keyed")
    /\ ~(~row[r].code /\ ~row[c].code /\ row[r].fp # "" /\ row[r].fp = row[c].fp /\ Owner[r] = Owner[c])

\* However rescan requests interleave, a receipt is counted at most RescanCap
\* rescans: the check before the UPDATE is stale, the UPDATE's own guard is not.
RescanBudget == \A r \in Receipts : row[r].rescans <= RescanCap

\* A receipt's active rows at a store, the ones prices and rewards are made of, are
\* taken from it only by the commit in which its bar code passes to another receipt:
\* a pass that fails half-way undoes the superseding of handle_barcode_rescan, and
\* no purge, rejection, time-out or fold touches them.  The other receipt need not
\* have rows in exchange: its pass may have read the bar code and no items.
TakenByHolder ==
  [][\A r \in Receipts : lines[r] \in Active /\ lines'[r] \notin Active =>
       row[r].code /\ ~row'[r].code /\ \E c \in Receipts \ {r} : row'[c].code]_vars
=============================================================================
