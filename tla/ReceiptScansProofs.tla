-------------------------- MODULE ReceiptScansProofs --------------------------
(***************************************************************************)
(* Proofs about ReceiptScans: the rescan budget, the three unique indexes  *)
(* of the deduplication, and the rule by which a receipt loses its lines,  *)
(* for any number of receipts, tasks, owners and failures.                 *)
(***************************************************************************)
EXTENDS ReceiptScans, TLAPS

Statuses == {"none", "failed", "rejected", "unresolved", "matched"}
Stages == {"free", "queued", "ocr", "write", "award"}

Rows == [st: {"open", "live", "none"}, code: BOOLEAN, fp: {"", "exact", "drift"},
         store: {"unknown", "known", "keyed"}, rescans: Nat]
Tasks == [r: Receipts \cup {None}, at: Stages, n: Nat,
          read: {"", "code", "exact", "drift"},
          store: {"", "unknown", "known", "keyed"}, fold: Receipts \cup {None}]

\* The shape of the rows, the lines and the tasks.
TypeOK ==
  /\ row \in [Receipts -> Rows]
  /\ lines \in [Receipts -> Statuses] /\ adrift \in [Receipts -> Statuses]
  /\ jobs \in [Jobs -> Tasks]

\* A task past its start works on a row that is committed, and so is the row it
\* is folded into: a commit is never undone.
Working(j) ==
  /\ jobs[j].at # "free" => jobs[j].r \in Receipts
  /\ jobs[j].at \in {"ocr", "write", "award"} => Live(jobs[j].r)
  /\ jobs[j].at = "write" => /\ jobs[j].read # "" /\ jobs[j].store # ""
                             /\ jobs[j].fold # None => jobs[j].fold \in Receipts
                             /\ jobs[j].read = "code" => jobs[j].fold = None

JobInv == \A j \in Jobs : Working(j)

\* A row that is not committed holds nothing, and a row with the bar code holds no
\* fingerprint: this is why giving up the code cannot break the fingerprint index.
Clean(x) ==
  /\ x.st # "live" => ~x.code /\ x.fp = "" /\ x.store = "unknown"
  /\ x.code => x.fp = ""

RowInv == \A r \in Receipts : Clean(row[r])

IInv == TypeOK /\ JobInv /\ RowInv /\ IndexesHold /\ RescanBudget
-----------------------------------------------------------------------------
(* The order of the statuses.                                              *)

LEMMA RankIs ==
  /\ Rank["none"] = 0 /\ Rank["failed"] = 1 /\ Rank["rejected"] = 2
  /\ Rank["unresolved"] = 3 /\ Rank["matched"] = 4
  BY DEF Rank

\* The better of two statuses is one of them, at least as good as the old one.
LEMMA BetterIs ==
  ASSUME NEW old \in Statuses, NEW new \in Statuses
  PROVE  /\ Better(old, new) \in Statuses
         /\ old \in Active => Better(old, new) \in Active
         /\ new # "none" => Better(old, new) # "none"
  BY RankIs DEF Better, Statuses, Active

-----------------------------------------------------------------------------
\* All of this holds of the receipts as they are uploaded.
LEMMA InitIInv == Init => IInv
  <1> SUFFICES ASSUME Init PROVE IInv
      OBVIOUS
  <1>1. TypeOK
      BY ScansAssumption DEF Init, TypeOK, Rows, Tasks, Uploaded, Free, Queued, Statuses, Stages
  <1>2. JobInv
      BY ScansAssumption DEF Init, JobInv, Working, Free, Queued
  <1>3. RowInv
      BY DEF Init, RowInv, Clean, Uploaded
  <1>4. IndexesHold
      BY DEF Init, IndexesHold, Uploaded, Live
  <1>5. RescanBudget
    <2>1. \A r \in Receipts : row[r].rescans = 0
        BY DEF Init, Uploaded
    <2>2. RescanCap \in Nat /\ 0 <= RescanCap
        BY ScansAssumption
    <2>3. ASSUME NEW r \in Receipts PROVE row[r].rescans <= RescanCap
        BY <2>1, <2>2
    <2> QED
        BY <2>3 DEF RescanBudget
  <1> QED
      BY <1>1, <1>2, <1>3, <1>4, <1>5 DEF IInv
-----------------------------------------------------------------------------
(* The tasks.                                                              *)

\* A commit is never undone.
Lasting == \A r \in Receipts : Live(r) => row'[r].st = "live"

\* What a task says of itself holds after a step that undoes no commit.
LEMMA OthersWork ==
  ASSUME TypeOK, JobInv, Lasting, NEW j \in Jobs, NEW x \in Tasks,
         jobs' = [jobs EXCEPT ![j] = x],
         x.at # "free" => x.r \in Receipts,
         x.at \in {"ocr", "write", "award"} => row'[x.r].st = "live",
         x.at = "write" => /\ x.read # "" /\ x.store # ""
                           /\ x.fold # None => x.fold \in Receipts
                           /\ x.read = "code" => x.fold = None
  PROVE  JobInv' /\ (jobs \in [Jobs -> Tasks])'
  <1>1. jobs \in [Jobs -> Tasks]
      BY DEF TypeOK
  <1>2. (jobs \in [Jobs -> Tasks])'
      BY <1>1
  <1>3. ASSUME NEW i \in Jobs PROVE Working(i)'
    <2>1. CASE i = j
      <3>1. jobs'[i] = x
          BY <1>1, <2>1
      <3> QED
          BY <3>1 DEF Working, Live
    <2>2. CASE i # j
      <3>1. jobs'[i] = jobs[i]
          BY <1>1, <2>2
      <3>2. Working(i)
          BY DEF JobInv
      <3> QED
          BY <3>1, <3>2 DEF Working, Live, Lasting
    <2> QED
        BY <2>1, <2>2
  <1> QED
      BY <1>2, <1>3 DEF JobInv

\* Nothing changes for the tasks when none of them moves.
LEMMA TasksStay ==
  ASSUME TypeOK, JobInv, Lasting, jobs' = jobs
  PROVE  JobInv' /\ (jobs \in [Jobs -> Tasks])'
  BY DEF TypeOK, JobInv, Working, Live, Lasting

\* The slot a task leaves.
LEMMA Ended ==
  ASSUME TypeOK, JobInv, Lasting, NEW j \in Jobs, End(j)
  PROVE  JobInv' /\ (jobs \in [Jobs -> Tasks])'
  <1>1. Free \in Tasks /\ Free.at = "free"
      BY DEF Free, Tasks, Stages
  <1> QED
      BY <1>1, OthersWork DEF End

\* A step of a task on the row it works on.
LEMMA Moved ==
  ASSUME TypeOK, JobInv, Lasting, NEW j \in Jobs, NEW at \in {"ocr", "award"},
         Live(jobs[j].r), jobs[j].at # "free", Goto(j, at)
  PROVE  JobInv' /\ (jobs \in [Jobs -> Tasks])'
  <1>1. jobs[j].r \in Receipts
      BY DEF JobInv, Working
  <1>2. PICK r \in Receipts : r = jobs[j].r
      BY <1>1
  <1> DEFINE x == [Free EXCEPT !.r = r, !.at = at]
  <1>3. x \in Tasks /\ x.r = r /\ x.at = at
      BY DEF Free, Tasks, Stages
  <1>4. jobs' = [jobs EXCEPT ![j] = x]
      BY <1>2 DEF Goto
  <1>5. row'[r].st = "live"
      BY <1>2 DEF Lasting
  <1> QED
      BY <1>3, <1>4, <1>5, OthersWork
-----------------------------------------------------------------------------
(* The rows.                                                               *)

\* A step that leaves what the deduplication reads of every row, and commits at
\* most what it had not yet read, keeps the three indexes.
LEMMA SameDedup ==
  ASSUME RowInv, IndexesHold, Lasting,
         \A r \in Receipts : /\ row'[r].code = row[r].code
                             /\ row'[r].fp = row[r].fp
                             /\ row'[r].store = row[r].store
  PROVE  RowInv' /\ IndexesHold'
  <1>1. ASSUME NEW r \in Receipts PROVE Clean(row[r])'
    <2>1. Clean(row[r])
        BY DEF RowInv
    <2> QED
        BY <2>1 DEF Clean, Lasting, Live
  <1>2. ASSUME NEW r \in Receipts, NEW c \in Receipts, r # c, Live(r)', Live(c)'
        PROVE  /\ ~(row'[r].code /\ row'[c].code)
               /\ ~(row'[r].store = "keyed" /\ row'[c].store = "keyed")
               /\ ~(~row'[r].code /\ ~row'[c].code /\ row'[r].fp # ""
                      /\ row'[r].fp = row'[c].fp /\ Owner[r] = Owner[c])
    <2>1. Clean(row[r]) /\ Clean(row[c])
        BY DEF RowInv
    <2>2. CASE Live(r) /\ Live(c)
        BY <1>2, <2>2 DEF IndexesHold
    <2>3. CASE ~Live(r) \/ ~Live(c)
        BY <2>1, <2>3 DEF Clean, Live
    <2> QED
        BY <2>2, <2>3
  <1>3. IndexesHold'
      BY <1>2 DEF IndexesHold
  <1> QED
      BY <1>1, <1>3 DEF RowInv

\* A step that writes no row.
LEMMA RowStays ==
  ASSUME TypeOK, RowInv, IndexesHold, RescanBudget, row' = row
  PROVE  /\ Lasting /\ (row \in [Receipts -> Rows])'
         /\ RowInv' /\ IndexesHold' /\ RescanBudget'
  <1>1. Lasting
      BY DEF Lasting, Live
  <1>2. RowInv' /\ IndexesHold'
      BY <1>1, SameDedup
  <1> QED
      BY <1>1, <1>2 DEF TypeOK, RescanBudget

\* A row that another part of the program writes: its status, or its rescans.
LEMMA RowWritten ==
  ASSUME TypeOK, RowInv, IndexesHold, RescanBudget, NEW r \in Receipts, NEW x \in Rows,
         row' = [row EXCEPT ![r] = x],
         x.code = row[r].code, x.fp = row[r].fp, x.store = row[r].store,
         Live(r) => x.st = "live", x.rescans <= RescanCap
  PROVE  /\ Lasting /\ (row \in [Receipts -> Rows])'
         /\ RowInv' /\ IndexesHold' /\ RescanBudget'
  <1>1. /\ row'[r] = x
        /\ \A c \in Receipts : c # r => row'[c] = row[c]
        /\ row' \in [Receipts -> Rows]
      BY DEF TypeOK
  <1>2. Lasting
      BY <1>1 DEF Lasting, Live
  <1>3. \A c \in Receipts : /\ row'[c].code = row[c].code
                            /\ row'[c].fp = row[c].fp
                            /\ row'[c].store = row[c].store
      BY <1>1
  <1>4. RowInv' /\ IndexesHold'
      BY <1>2, <1>3, SameDedup
  <1>5. RescanBudget'
      BY <1>1 DEF RescanBudget
  <1> QED
      BY <1>1, <1>2, <1>4, <1>5
-----------------------------------------------------------------------------
(* The lines.                                                              *)

\* What a step may do to the lines of a receipt.
Rule ==
  \A r \in Receipts : lines[r] \in Active /\ lines'[r] \notin Active =>
    row[r].code /\ ~row'[r].code /\ \E c \in Receipts \ {r} : row'[c].code

\* A pass that adds rows to a receipt takes none away.
LEMMA LinesGrow ==
  ASSUME TypeOK, NEW r \in Receipts, NEW st \in Statuses,
         \/ lines' = lines
         \/ lines' = [lines EXCEPT ![r] = Better(@, st)]
  PROVE  (lines \in [Receipts -> Statuses])' /\ Rule
  <1>1. CASE lines' = lines
      BY <1>1 DEF TypeOK, Rule
  <1>2. CASE lines' = [lines EXCEPT ![r] = Better(@, st)]
    <2>1. lines \in [Receipts -> Statuses]
        BY DEF TypeOK
    <2>2. lines'[r] = Better(lines[r], st) /\ \A c \in Receipts : c # r => lines'[c] = lines[c]
        BY <1>2, <2>1
    <2>3. Better(lines[r], st) \in Statuses /\ (lines[r] \in Active => Better(lines[r], st) \in Active)
        BY <2>1, BetterIs
    <2>4. lines' \in [Receipts -> Statuses]
        BY <1>2, <2>1, <2>3
    <2> QED
        BY <2>2, <2>3, <2>4 DEF Rule
  <1> QED
      BY <1>1, <1>2

\* The same for the rows without a store, of which nothing more is said.
LEMMA AdriftGrows ==
  ASSUME TypeOK, NEW r \in Receipts, NEW st \in Statuses,
         adrift' = [adrift EXCEPT ![r] = Better(@, st)]
  PROVE  (adrift \in [Receipts -> Statuses])'
  <1>1. adrift \in [Receipts -> Statuses]
      BY DEF TypeOK
  <1>2. Better(adrift[r], st) \in Statuses
      BY <1>1, BetterIs
  <1> QED
      BY <1>1, <1>2

\* In particular the failed sentinel.
LEMMA FailedIsMarked ==
  ASSUME TypeOK, NEW r \in Receipts, MarkFailed(r)
  PROVE  (lines \in [Receipts -> Statuses])' /\ Rule
  <1>1. "failed" \in Statuses
      BY DEF Statuses
  <1>2. \/ lines' = lines
        \/ lines' = [lines EXCEPT ![r] = Better(@, "failed")]
      BY DEF MarkFailed
  <1> QED
      BY <1>1, <1>2, LinesGrow
-----------------------------------------------------------------------------
(* The steps.                                                              *)

Good == IInv' /\ Rule
LinesGood ==
  (lines \in [Receipts -> Statuses])' /\ (adrift \in [Receipts -> Statuses])' /\ Rule

\* A task that ends without having written a row.
LEMMA EndStep ==
  ASSUME IInv, NEW j \in Jobs, End(j), row' = row, LinesGood
  PROVE  Good
  <1>1. /\ Lasting /\ (row \in [Receipts -> Rows])'
        /\ RowInv' /\ IndexesHold' /\ RescanBudget'
      BY RowStays DEF IInv
  <1>2. JobInv' /\ (jobs \in [Jobs -> Tasks])'
      BY <1>1, Ended DEF IInv
  <1> QED
      BY <1>1, <1>2 DEF Good, LinesGood, IInv, TypeOK

LEMMA LinesStay == ASSUME TypeOK, lines' = lines, adrift' = adrift PROVE LinesGood
  BY DEF TypeOK, Rule, LinesGood

\* Whatever ends a task before or after its commit.
LEMMA EndingSteps ==
  ASSUME IInv, NEW j \in Jobs,
         \/ FindNothing(j) \/ PipelineFails(j) \/ PersistFails(j) \/ Finish(j) \/ KillWorker(j)
  PROVE  Good
  <1>1. End(j) /\ row' = row /\ lines' = lines /\ adrift' = adrift
      BY DEF FindNothing, PipelineFails, PersistFails, Rollback, Finish, KillWorker
  <1>2. LinesGood
      BY <1>1, LinesStay DEF IInv
  <1> QED
      BY <1>1, <1>2, EndStep

LEMMA RejectEarlyStep == ASSUME IInv, NEW j \in Jobs, RejectEarly(j) PROVE Good
  <1>1. PICK r \in Receipts : r = jobs[j].r
      BY DEF RejectEarly, IInv, JobInv, Working
  <1>2. adrift' = [adrift EXCEPT ![r] = Better(@, "rejected")] /\ lines' = lines
      BY <1>1 DEF RejectEarly
  <1>3. (adrift \in [Receipts -> Statuses])'
      BY <1>2, AdriftGrows DEF IInv, Statuses
  <1>4. LinesGood
      BY <1>2, <1>3 DEF IInv, TypeOK, Rule, LinesGood
  <1> QED
      BY <1>2, <1>4, EndStep DEF RejectEarly

LEMMA TimeOutStep == ASSUME IInv, NEW j \in Jobs, TimeOut(j) PROVE Good
  <1>1. PICK r \in Receipts : r = jobs[j].r
      BY DEF TimeOut, IInv, JobInv, Working
  <1>2. MarkFailed(r)
      BY <1>1 DEF TimeOut
  <1>3. LinesGood
      BY <1>2, FailedIsMarked DEF IInv, TypeOK, LinesGood, TimeOut
  <1> QED
      BY <1>3, EndStep DEF TimeOut

\* The rows of the scans, and of the receipts, when a task moves on.
LEMMA OnlyTasks ==
  ASSUME IInv, row' = row, lines' = lines, adrift' = adrift, Lasting => JobInv' /\ (jobs \in [Jobs -> Tasks])'
  PROVE  Good
  <1>1. /\ Lasting /\ (row \in [Receipts -> Rows])'
        /\ RowInv' /\ IndexesHold' /\ RescanBudget'
      BY RowStays DEF IInv
  <1>2. LinesGood
      BY LinesStay DEF IInv
  <1> QED
      BY <1>1, <1>2 DEF Good, LinesGood, IInv, TypeOK

LEMMA DownloadStep == ASSUME IInv, NEW j \in Jobs, Download(j) PROVE Good
  <1>1. /\ Live(jobs[j].r) /\ jobs[j].at # "free" /\ Goto(j, "ocr")
        /\ row' = row /\ lines' = lines /\ adrift' = adrift
      BY DEF Download
  <1>2. ASSUME Lasting PROVE JobInv' /\ (jobs \in [Jobs -> Tasks])'
      BY <1>1, <1>2, Moved DEF IInv
  <1> QED
      BY <1>1, <1>2, OnlyTasks

\* A failed download is retried, or the receipt marked.
LEMMA DownloadFailsStep == ASSUME IInv, NEW j \in Jobs, DownloadFails(j) PROVE Good
  <1>1. PICK r \in Receipts : r = jobs[j].r
      BY DEF DownloadFails, IInv, JobInv, Working
  <1>2. CASE End(j) /\ MarkFailed(r)
    <2>1. LinesGood
        BY <1>2, FailedIsMarked DEF IInv, TypeOK, LinesGood, DownloadFails
    <2> QED
        BY <1>2, <2>1, EndStep DEF DownloadFails
  <1>3. CASE jobs' = [jobs EXCEPT ![j].n = @ + 1] /\ lines' = lines
    <2>1. PICK y \in Tasks : y = jobs[j]
        BY DEF IInv, TypeOK
    <2> y.r = r /\ y.at = "queued" /\ y.n \in Nat
        BY <1>1, <2>1 DEF DownloadFails, Tasks
    <2>n. PICK n \in Nat : n = y.n + 1
        OBVIOUS
    <2> DEFINE x == [y EXCEPT !.n = n]
    <2>2. x \in Tasks /\ x.r = r /\ x.at = "queued"
        BY DEF Tasks
    <2>3. jobs' = [jobs EXCEPT ![j] = x]
        BY <1>3, <2>1, <2>n
    <2>4. ASSUME Lasting PROVE JobInv' /\ (jobs \in [Jobs -> Tasks])'
        BY <2>2, <2>3, <2>4, OthersWork DEF IInv
    <2> QED
        BY <1>3, <2>4, OnlyTasks DEF DownloadFails
  <1> QED
      BY <1>1, <1>2, <1>3 DEF DownloadFails

\* The fold found by the look-up is a receipt.
LEMMA RecogniseStep == ASSUME IInv, NEW j \in Jobs, Recognise(j) PROVE Good
  <1>1. PICK r \in Receipts : r = jobs[j].r
      BY DEF Recognise, IInv, JobInv, Working
  <1>2. Live(r)
      BY <1>1 DEF Recognise, IInv, JobInv, Working
  <1>3. PICK reading \in Readings :
          \E fold \in {None} \union (IF reading[1] = "code" THEN {} ELSE Best(r, reading[1])) :
            jobs' = [jobs EXCEPT ![j] = [@ EXCEPT !.at = "write", !.read = reading[1],
                                                  !.store = reading[2], !.fold = fold]]
      BY <1>1 DEF Recognise
  <1>4. /\ reading[1] \in {"code", "exact", "drift"}
        /\ reading[2] \in {"unknown", "known", "keyed"}
      BY ScansAssumption
  <1>5. PICK fold \in {None} \union (IF reading[1] = "code" THEN {} ELSE Best(r, reading[1])) :
            jobs' = [jobs EXCEPT ![j] = [@ EXCEPT !.at = "write", !.read = reading[1],
                                                  !.store = reading[2], !.fold = fold]]
      BY <1>3
  <1>6. fold \in Receipts \cup {None}
      BY DEF Best, Similar
  <1>7. PICK y \in Tasks : y = jobs[j]
      BY DEF IInv, TypeOK
  <1> DEFINE x == [y EXCEPT !.at = "write", !.read = reading[1], !.store = reading[2], !.fold = fold]
  <1>8. x \in Tasks
      BY <1>4, <1>6 DEF Tasks, Stages
  <1>9. /\ x.r = r /\ x.at = "write" /\ x.read # "" /\ x.store # ""
        /\ x.fold # None => x.fold \in Receipts
        /\ x.read = "code" => x.fold = None
      BY <1>1, <1>4, <1>6, <1>7 DEF Tasks
  <1>10. jobs' = [jobs EXCEPT ![j] = x]
      BY <1>5, <1>7
  <1>11. ASSUME Lasting PROVE JobInv' /\ (jobs \in [Jobs -> Tasks])'
    <2>1. row'[x.r].st = "live"
        BY <1>2, <1>9, <1>11 DEF Lasting
    <2> HIDE DEF x
    <2> QED
        BY <1>8, <1>9, <1>10, <1>11, <2>1, OthersWork DEF IInv
  <1> QED
      BY <1>11, OnlyTasks DEF Recognise

LEMMA CommitAbortStep ==
  ASSUME IInv, NEW r \in Receipts, Commit(r) \/ Abort(r)
  PROVE  Good
  <1>1. PICK y \in Rows : y = row[r]
      BY DEF IInv, TypeOK
  <1>2. PICK st \in {"live", "none"} : row' = [row EXCEPT ![r].st = st]
      BY DEF Commit, Abort
  <1> DEFINE x == [y EXCEPT !.st = st]
  <1>3. /\ x \in Rows /\ x.code = y.code /\ x.fp = y.fp /\ x.store = y.store
        /\ x.rescans = y.rescans
      BY DEF Rows
  <1>4. row' = [row EXCEPT ![r] = x]
      BY <1>1, <1>2
  <1>5. ~Live(r)
      BY DEF Commit, Abort, Live
  <1>6. y.rescans <= RescanCap
      BY <1>1 DEF IInv, RescanBudget
  <1>7. /\ Lasting /\ (row \in [Receipts -> Rows])'
        /\ RowInv' /\ IndexesHold' /\ RescanBudget'
    <2> HIDE DEF x
    <2> QED
        BY <1>1, <1>3, <1>4, <1>5, <1>6, RowWritten DEF IInv
  <1>8. JobInv' /\ (jobs \in [Jobs -> Tasks])'
      BY <1>7, TasksStay DEF IInv, Commit, Abort
  <1>9. LinesGood
      BY LinesStay DEF IInv, Commit, Abort
  <1> QED
      BY <1>7, <1>8, <1>9 DEF Good, LinesGood, IInv, TypeOK

\* The UPDATE of the rescan, which counts only under the cap.
LEMMA RescanStep == ASSUME IInv, NEW r \in Receipts, Rescan(r) PROVE Good
  <1>1. LinesGood
      BY LinesStay DEF IInv, Rescan
  <1>2. /\ Lasting /\ (row \in [Receipts -> Rows])'
        /\ RowInv' /\ IndexesHold' /\ RescanBudget'
    <2>1. CASE row' = row
        BY <2>1, RowStays DEF IInv
    <2>2. CASE UnderCap(r) /\ row' = [row EXCEPT ![r].rescans = @ + 1]
      <3>1. PICK y \in Rows : y = row[r]
          BY DEF IInv, TypeOK
      <3>4. RescanCap \in Nat /\ y.rescans \in Nat
          BY ScansAssumption DEF Rows
      <3>n. PICK n \in Nat : n = y.rescans + 1
          BY <3>4
      <3> DEFINE x == [y EXCEPT !.rescans = n]
      <3>2. /\ x \in Rows /\ x.code = y.code /\ x.fp = y.fp /\ x.store = y.store
            /\ x.st = y.st /\ x.rescans = n
          BY DEF Rows
      <3>3. row' = [row EXCEPT ![r] = x]
          BY <2>2, <3>1, <3>n
      <3>5. n <= RescanCap
          BY <2>2, <3>1, <3>n, <3>4 DEF UnderCap
      <3> HIDE DEF x
      <3> QED
          BY <3>1, <3>2, <3>3, <3>5, RowWritten DEF IInv, Live
    <2> QED
        BY <2>1, <2>2 DEF Rescan
  <1>3. JobInv' /\ (jobs \in [Jobs -> Tasks])'
    <2>1. CASE jobs' = jobs
        BY <1>2, <2>1, TasksStay DEF IInv
    <2>2. CASE \E j \in Jobs : jobs' = [jobs EXCEPT ![j] = Queued(r)]
      <3>1. PICK j \in Jobs : jobs' = [jobs EXCEPT ![j] = Queued(r)]
          BY <2>2
      <3>2. Queued(r) \in Tasks /\ Queued(r).r = r /\ Queued(r).at = "queued"
          BY DEF Queued, Free, Tasks, Stages
      <3> QED
          BY <1>2, <3>1, <3>2, OthersWork DEF IInv
    <2> QED
        BY <2>1, <2>2 DEF Rescan
  <1> QED
      BY <1>1, <1>2, <1>3 DEF Good, LinesGood, IInv, TypeOK

\* Requests that only read, and the purge batch, which keeps to its own rows.
LEMMA OtherSteps ==
  ASSUME IInv, \/ \E r \in Receipts : Ask(r) \/ Batch(r)
               \/ UNCHANGED vars
  PROVE  Good
  <1>1. row' = row /\ lines' = lines /\ jobs' = jobs
      BY DEF Ask, Batch, DeleteImage, MarkDeleted, PurgeUnknown, vars
  <1>2. (adrift \in [Receipts -> Statuses])'
    <2>1. CASE adrift' = adrift
        BY <2>1 DEF IInv, TypeOK
    <2>2. CASE \E r \in Receipts : PurgeUnknown(r)
        BY <2>2 DEF PurgeUnknown, IInv, TypeOK, Statuses
    <2> QED
        BY <2>1, <2>2 DEF Ask, Batch, DeleteImage, MarkDeleted, vars
  <1>3. LinesGood
      BY <1>1, <1>2 DEF LinesGood, Rule, IInv, TypeOK
  <1>4. /\ Lasting /\ (row \in [Receipts -> Rows])'
        /\ RowInv' /\ IndexesHold' /\ RescanBudget'
      BY <1>1, RowStays DEF IInv
  <1>5. JobInv' /\ (jobs \in [Jobs -> Tasks])'
      BY <1>1, <1>4, TasksStay DEF IInv
  <1> QED
      BY <1>3, <1>4, <1>5 DEF Good, LinesGood, IInv, TypeOK
-----------------------------------------------------------------------------
(* The commit of a pass.                                                   *)

Stores == {"unknown", "known", "keyed"}
Prints == {"exact", "drift"}

\* What the writes of a row change.
LEMMA WritesCode ==
  ASSUME NEW y \in Rows, NEW s \in Stores
  PROVE  /\ CodeRead(y, s) \in Rows
         /\ CodeRead(y, s).code /\ CodeRead(y, s).fp = "" /\ CodeRead(y, s).store = s
         /\ CodeRead(y, s).st = y.st /\ CodeRead(y, s).rescans = y.rescans
  BY DEF CodeRead, Rows, Stores

LEMMA Uncoded ==
  ASSUME NEW y \in Rows
  PROVE  /\ [y EXCEPT !.code = FALSE] \in Rows
         /\ ~[y EXCEPT !.code = FALSE].code
         /\ [y EXCEPT !.code = FALSE].fp = y.fp /\ [y EXCEPT !.code = FALSE].store = y.store
         /\ [y EXCEPT !.code = FALSE].st = y.st /\ [y EXCEPT !.code = FALSE].rescans = y.rescans
  BY DEF Rows

LEMMA Restored ==
  ASSUME NEW y \in Rows, NEW s \in Stores
  PROVE  /\ [y EXCEPT !.store = s] \in Rows
         /\ [y EXCEPT !.store = s].code = y.code
         /\ [y EXCEPT !.store = s].fp = y.fp /\ [y EXCEPT !.store = s].store = s
         /\ [y EXCEPT !.store = s].st = y.st /\ [y EXCEPT !.store = s].rescans = y.rescans
  BY DEF Rows, Stores

\* The row that a commit writes does not clash with another: nobody else keeps the
\* bar code, has the same store, time and total, or the fingerprint.
Alone(t) ==
  \A c \in Receipts \ {t} :
    /\ row'[t].code => ~row'[c].code
    /\ row'[t].store = "keyed" => ~(Live(c) /\ row[c].store = "keyed")
    /\ ~row'[t].code /\ row'[t].fp # "" =>
         ~(Live(c) /\ ~row'[c].code /\ row[c].fp = row'[t].fp /\ Owner[c] = Owner[t])

\* The other rows at most give up the bar code.
Yields(t) ==
  \A c \in Receipts \ {t} :
    /\ row'[c].code => row[c].code
    /\ row'[c].fp = row[c].fp /\ row'[c].store = row[c].store
    /\ row'[c].st = row[c].st /\ row'[c].rescans = row[c].rescans

\* Such a commit keeps the indexes: a row that gives up the code has no fingerprint
\* with which to enter the other index.
LEMMA CommitKeeps ==
  ASSUME RowInv, IndexesHold, RescanBudget, NEW t \in Receipts, Live(t), Alone(t), Yields(t),
         row'[t].st = "live", row'[t].rescans = row[t].rescans,
         row'[t].code => row'[t].fp = ""
  PROVE  Lasting /\ RowInv' /\ IndexesHold' /\ RescanBudget'
  <1>1. Lasting
      BY DEF Lasting, Live, Yields
  <1>2. RescanBudget'
      BY DEF RescanBudget, Yields
  <1>3. ASSUME NEW c \in Receipts PROVE Clean(row[c])'
    <2>1. Clean(row[c])
        BY DEF RowInv
    <2>2. CASE c = t
        BY <2>2 DEF Clean
    <2>3. CASE c # t
        BY <2>1, <2>3 DEF Clean, Yields
    <2> QED
        BY <2>2, <2>3
  <1>4. ASSUME NEW r \in Receipts, NEW c \in Receipts, r # c, Live(r)', Live(c)'
        PROVE  /\ ~(row'[r].code /\ row'[c].code)
               /\ ~(row'[r].store = "keyed" /\ row'[c].store = "keyed")
               /\ ~(~row'[r].code /\ ~row'[c].code /\ row'[r].fp # ""
                      /\ row'[r].fp = row'[c].fp /\ Owner[r] = Owner[c])
    <2>0. ASSUME NEW d \in Receipts \ {t}, Live(d)'
          PROVE  /\ ~(row'[t].code /\ row'[d].code)
                 /\ ~(row'[t].store = "keyed" /\ row'[d].store = "keyed")
                 /\ ~(~row'[t].code /\ ~row'[d].code /\ row'[t].fp # ""
                        /\ row'[d].fp = row'[t].fp /\ Owner[d] = Owner[t])
      <3>1. Live(d) /\ row'[d].fp = row[d].fp /\ row'[d].store = row[d].store
          BY <2>0 DEF Yields, Live
      <3>2. row'[t].code => ~row'[d].code
          BY DEF Alone
      <3>3. row'[t].store = "keyed" => row[d].store # "keyed"
          BY <3>1 DEF Alone
      <3>4. ~row'[t].code /\ row'[t].fp # "" =>
              ~(~row'[d].code /\ row[d].fp = row'[t].fp /\ Owner[d] = Owner[t])
          BY <3>1 DEF Alone
      <3> QED
          BY <3>1, <3>2, <3>3, <3>4
    <2>1. CASE r = t
        BY <1>4, <2>0, <2>1
    <2>2. CASE c = t
        BY <1>4, <2>0, <2>2
    <2>3. CASE r # t /\ c # t
      <3>1. Live(r) /\ Live(c) /\ Clean(row[r]) /\ Clean(row[c])
          BY <1>4, <2>3 DEF Yields, Live, RowInv
      <3>2. /\ ~(row[r].code /\ row[c].code)
            /\ ~(row[r].store = "keyed" /\ row[c].store = "keyed")
            /\ ~(~row[r].code /\ ~row[c].code /\ row[r].fp # ""
                      /\ row[r].fp = row[c].fp /\ Owner[r] = Owner[c])
          BY <1>4, <3>1 DEF IndexesHold
      <3> QED
          BY <2>3, <3>1, <3>2 DEF Yields, Clean
    <2> QED
        BY <2>1, <2>2, <2>3
  <1>5. IndexesHold'
      BY <1>4 DEF IndexesHold
  <1> QED
      BY <1>1, <1>2, <1>3, <1>5 DEF RowInv

\* Where a pass without a bar code goes.
LEMMA TargetIs ==
  ASSUME NEW j \in Jobs, jobs[j].r \in Receipts, jobs[j].fold # None => jobs[j].fold \in Receipts
  PROVE  /\ Target(j) \in Receipts
         /\ jobs[j].read = "code" => Target(j) = jobs[j].r
         /\ jobs[j].read # "code" /\ jobs[j].fold = None =>
              \/ Target(j) = jobs[j].r /\ Twins(jobs[j].r, jobs[j].read) = {}
              \/ Target(j) \in Twins(jobs[j].r, jobs[j].read) /\ Target(j) # jobs[j].r
  <1>1. CASE jobs[j].read = "code" \/ jobs[j].fold # None
      BY <1>1 DEF Target
  <1>2. CASE jobs[j].read # "code" /\ jobs[j].fold = None /\ Twins(jobs[j].r, jobs[j].read) = {}
      BY <1>2 DEF Target
  <1>3. CASE jobs[j].read # "code" /\ jobs[j].fold = None /\ Twins(jobs[j].r, jobs[j].read) # {}
    <2>1. Target(j) = CHOOSE c \in Twins(jobs[j].r, jobs[j].read) : TRUE
        BY <1>3 DEF Target
    <2>2. Target(j) \in Twins(jobs[j].r, jobs[j].read)
        BY <1>3, <2>1
    <2> QED
        BY <1>3, <2>2 DEF Twins
  <1> QED
      BY <1>1, <1>2, <1>3

RowsGood == /\ Lasting /\ (row \in [Receipts -> Rows])'
            /\ RowInv' /\ IndexesHold' /\ RescanBudget'

\* The pass read the bar code: it takes it from every other receipt.
LEMMA PersistCode ==
  ASSUME IInv, NEW j \in Jobs, NEW r \in Receipts, r = jobs[j].r, Live(r),
         NEW s \in Stores, s = jobs[j].store, jobs[j].read = "code", ~Collides(j),
         jobs[j].fold = None, row' = Upserted(j)
  PROVE  /\ RowsGood /\ row'[r].code
         /\ \A c \in Receipts \ {r} : ~row'[c].code
  <1>1. row \in [Receipts -> Rows]
      BY DEF IInv, TypeOK
  <1>2. Freed(r) \in [Receipts -> Rows]
    <2>1. ASSUME NEW c \in Receipts
          PROVE  (IF c \in Holders(r) THEN [row[c] EXCEPT !.code = FALSE] ELSE row[c]) \in Rows
      <3>1. PICK y \in Rows : y = row[c]
          BY <1>1
      <3> QED
          BY <3>1, Uncoded
    <2> QED
        BY <2>1 DEF Freed
  <1>3. ASSUME NEW c \in Receipts \ {r}
        PROVE  /\ ~Freed(r)[c].code
               /\ Freed(r)[c].fp = row[c].fp /\ Freed(r)[c].store = row[c].store
               /\ Freed(r)[c].st = row[c].st /\ Freed(r)[c].rescans = row[c].rescans
    <2>1. PICK y \in Rows : y = row[c]
        BY <1>1
    <2>2. Freed(r)[c] = IF row[c].code THEN [y EXCEPT !.code = FALSE] ELSE y
        BY <2>1 DEF Freed, Holders
    <2> QED
        BY <2>1, <2>2, Uncoded
  <1>4. Freed(r)[r] = row[r]
      BY DEF Freed, Holders
  <1>5. PICK y \in Rows : y = row[r]
      BY <1>1
  <1>6. Target(j) = r
      BY DEF Target
  <1>7. row' = [Freed(r) EXCEPT ![r] = CodeRead(y, s)]
      BY <1>4, <1>5, <1>2 DEF Upserted
  <1>8. /\ CodeRead(y, s) \in Rows
        /\ CodeRead(y, s).code /\ CodeRead(y, s).fp = "" /\ CodeRead(y, s).store = s
        /\ CodeRead(y, s).st = y.st /\ CodeRead(y, s).rescans = y.rescans
      BY WritesCode, Zenon
  <1>9. row' \in [Receipts -> Rows] /\ row'[r] = CodeRead(y, s)
        /\ \A c \in Receipts \ {r} : row'[c] = Freed(r)[c]
      BY <1>2, <1>7, <1>8
  <1>10. Yields(r) /\ \A c \in Receipts \ {r} : ~row'[c].code
      BY <1>3, <1>9 DEF Yields
  <1>11. ~KeyTaken(r, s)
      BY <1>6, <1>8, <1>9 DEF Collides
  <1>12. Alone(r)
      BY <1>8, <1>9, <1>10, <1>11 DEF Alone, KeyTaken
  <1>13. row'[r].st = "live" /\ row'[r].rescans = row[r].rescans /\ row'[r].fp = "" /\ row'[r].code
      BY <1>5, <1>8, <1>9 DEF Live
  <1>14. Lasting /\ RowInv' /\ IndexesHold' /\ RescanBudget'
      BY <1>10, <1>12, <1>13, CommitKeeps DEF IInv
  <1> QED
      BY <1>9, <1>10, <1>13, <1>14 DEF RowsGood

\* The pass read a fingerprint that no receipt of the owner holds.
LEMMA PersistPrint ==
  ASSUME IInv, NEW j \in Jobs, NEW r \in Receipts, r = jobs[j].r, Live(r),
         NEW s \in Stores, s = jobs[j].store, NEW fp \in Prints, fp = jobs[j].read,
         ~Collides(j), jobs[j].fold = None, Target(j) = r, Twins(r, fp) = {},
         row' = Upserted(j)
  PROVE  RowsGood /\ \A c \in Receipts : row'[c].code => row[c].code
  <1>1. PICK y \in Rows : y = row[r]
      BY DEF IInv, TypeOK
  <1>2. row' = [row EXCEPT ![r] = PrintRead(y, fp, s)]
      BY <1>1 DEF Upserted, Prints
  <1>3. /\ PrintRead(y, fp, s) \in Rows
        /\ ~PrintRead(y, fp, s).code /\ PrintRead(y, fp, s).fp = fp /\ PrintRead(y, fp, s).store = s
        /\ PrintRead(y, fp, s).st = y.st /\ PrintRead(y, fp, s).rescans = y.rescans
      BY DEF PrintRead, Rows, Stores, Prints
  <1>4. row' \in [Receipts -> Rows] /\ row'[r] = PrintRead(y, fp, s)
        /\ \A c \in Receipts \ {r} : row'[c] = row[c]
      BY <1>2, <1>3 DEF IInv, TypeOK
  <1>5. Yields(r)
      BY <1>4 DEF Yields
  <1>6. ~KeyTaken(r, s)
      BY <1>3, <1>4 DEF Collides
  <1>7. Alone(r)
      BY <1>3, <1>4, <1>6 DEF Alone, KeyTaken, Twins
  <1>8. row'[r].st = "live" /\ row'[r].rescans = row[r].rescans /\ ~row'[r].code
      BY <1>1, <1>3, <1>4 DEF Live
  <1>9. Lasting /\ RowInv' /\ IndexesHold' /\ RescanBudget'
      BY <1>5, <1>7, <1>8, CommitKeeps DEF IInv
  <1> QED
      BY <1>4, <1>8, <1>9 DEF RowsGood

\* It read one that another receipt of the owner holds, which takes the store.
LEMMA PersistTwin ==
  ASSUME IInv, NEW j \in Jobs, NEW r \in Receipts, r = jobs[j].r,
         NEW s \in Stores, s = jobs[j].store, NEW fp \in Prints, fp = jobs[j].read,
         ~Collides(j), jobs[j].fold = None,
         NEW t \in Twins(r, fp), t = Target(j), t # r, row' = Upserted(j)
  PROVE  RowsGood /\ \A c \in Receipts : row'[c].code => row[c].code
  <1>1. t \in Receipts /\ Live(t) /\ ~row[t].code
      BY DEF Twins
  <1>2. PICK y \in Rows : y = row[t]
      BY <1>1 DEF IInv, TypeOK
  <1>3. PICK n \in Stores : n = Coalesced(y.store, s)
      BY DEF Coalesced, Rows, Stores
  <1>4. row' = [row EXCEPT ![t] = [y EXCEPT !.store = n]]
      BY <1>2, <1>3 DEF Upserted, Prints
  <1>5. /\ [y EXCEPT !.store = n] \in Rows
        /\ [y EXCEPT !.store = n].code = y.code
        /\ [y EXCEPT !.store = n].fp = y.fp /\ [y EXCEPT !.store = n].store = n
        /\ [y EXCEPT !.store = n].st = y.st /\ [y EXCEPT !.store = n].rescans = y.rescans
      BY Restored
  <1>6. row' \in [Receipts -> Rows] /\ row'[t] = [y EXCEPT !.store = n]
        /\ \A c \in Receipts \ {t} : row'[c] = row[c]
      BY <1>1, <1>4, <1>5 DEF IInv, TypeOK
  <1>7. Yields(t)
      BY <1>6 DEF Yields
  <1>8. ~KeyTaken(t, n)
      BY <1>5, <1>6 DEF Collides
  <1>9. /\ row'[t].code = row[t].code /\ row'[t].fp = row[t].fp /\ row'[t].store = n
        /\ row'[t].st = "live" /\ row'[t].rescans = row[t].rescans
      BY <1>1, <1>2, <1>5, <1>6 DEF Live
  <1>10. Alone(t)
    <2>1. ASSUME NEW c \in Receipts \ {t}
          PROVE  ~row[t].code /\ row[t].fp # "" =>
                   ~(Live(c) /\ ~row[c].code /\ row[c].fp = row[t].fp /\ Owner[c] = Owner[t])
        BY <1>1 DEF IInv, IndexesHold
    <2> QED
        BY <1>1, <1>6, <1>8, <1>9, <2>1 DEF Alone, KeyTaken
  <1>11. Lasting /\ RowInv' /\ IndexesHold' /\ RescanBudget'
      BY <1>1, <1>7, <1>9, <1>10, CommitKeeps DEF IInv
  <1> QED
      BY <1>1, <1>6, <1>9, <1>11 DEF RowsGood

\* Active rows of f are gone from g only where r takes the bar code.
TakenFrom(r, f, g) ==
  \A c \in Receipts : f[c] \in Active /\ g[c] \notin Active => c \in Holders(r)

\* What superseding leaves, with or without rows added to the target.
LEMMA SupersededIs ==
  ASSUME NEW r \in Receipts, NEW f \in [Receipts -> Statuses], NEW t \in Receipts,
         NEW st \in Statuses, NEW g, g \in {f, Superseded(r, f)}
  PROVE  /\ g \in [Receipts -> Statuses] /\ TakenFrom(r, f, g)
         /\ [g EXCEPT ![t] = Better(@, st)] \in [Receipts -> Statuses]
         /\ TakenFrom(r, f, [g EXCEPT ![t] = Better(@, st)])
  <1>1. g \in [Receipts -> Statuses]
      BY DEF Superseded, Statuses
  <1>2. TakenFrom(r, f, g)
      BY DEF Superseded, TakenFrom
  <1>3. PICK x \in Statuses : x = Better(g[t], st) /\ (g[t] \in Active => x \in Active)
      BY <1>1, BetterIs
  <1>4. [g EXCEPT ![t] = Better(@, st)] = [g EXCEPT ![t] = x]
      BY <1>3
  <1>5. /\ [g EXCEPT ![t] = x] \in [Receipts -> Statuses]
        /\ TakenFrom(r, f, [g EXCEPT ![t] = x])
      BY <1>1, <1>2, <1>3 DEF TakenFrom
  <1> QED
      BY <1>1, <1>2, <1>4, <1>5

\* Whatever the pass adds to either kind, only the receipts that lose the bar code
\* lose their active rows.
LEMMA PersistLines ==
  ASSUME IInv, NEW j \in Jobs, NEW r \in Receipts, NEW t \in Receipts,
         NEW st \in Statuses, NEW code \in BOOLEAN, NEW g, NEW h,
         g = (IF code THEN Superseded(r, lines) ELSE lines),
         h = (IF code THEN Superseded(r, adrift) ELSE adrift),
         \/ lines' = [g EXCEPT ![t] = Better(@, st)] /\ adrift' = h
         \/ lines' = g /\ adrift' = [h EXCEPT ![t] = Better(@, st)],
         code => row'[r].code /\ \A c \in Receipts \ {r} : ~row'[c].code
  PROVE  LinesGood
  <1>1. lines \in [Receipts -> Statuses] /\ adrift \in [Receipts -> Statuses]
      BY DEF IInv, TypeOK
  <1>2. g \in {lines, Superseded(r, lines)} /\ h \in {adrift, Superseded(r, adrift)}
      OBVIOUS
  <1>3. /\ g \in [Receipts -> Statuses] /\ TakenFrom(r, lines, g)
        /\ [g EXCEPT ![t] = Better(@, st)] \in [Receipts -> Statuses]
        /\ TakenFrom(r, lines, [g EXCEPT ![t] = Better(@, st)])
      BY <1>1, <1>2, SupersededIs
  <1>4. /\ h \in [Receipts -> Statuses]
        /\ [h EXCEPT ![t] = Better(@, st)] \in [Receipts -> Statuses]
      BY <1>1, <1>2, SupersededIs
  <1>5. (lines \in [Receipts -> Statuses])' /\ (adrift \in [Receipts -> Statuses])'
      BY <1>3, <1>4
  <1>6. CASE code
    <2>1. TakenFrom(r, lines, lines')
        BY <1>3
    <2> QED
        BY <1>5, <1>6, <2>1 DEF TakenFrom, Holders, LinesGood, Rule
  <1>7. CASE ~code
    <2>1. lines' = lines \/ lines' = [lines EXCEPT ![t] = Better(@, st)]
        BY <1>7
    <2>2. Rule
        BY <2>1, LinesGrow DEF IInv
    <2> QED
        BY <1>5, <2>2 DEF LinesGood
  <1> QED
      BY <1>6, <1>7

LEMMA PersistStep == ASSUME IInv, NEW j \in Jobs, Persist(j) PROVE Good
  <1>1. jobs[j].at = "write" /\ Working(j)
      BY DEF Persist, IInv, JobInv
  <1>2. PICK r \in Receipts : r = jobs[j].r /\ Live(r)
      BY <1>1 DEF Working
  <1>3. /\ jobs[j].read \in {"", "code", "exact", "drift"} /\ jobs[j].read # ""
        /\ jobs[j].store \in {"", "unknown", "known", "keyed"} /\ jobs[j].store # ""
      BY <1>1 DEF Working, IInv, TypeOK, Tasks
  <1>4. PICK s \in Stores : s = jobs[j].store
      BY <1>3 DEF Stores
  <1>5. /\ jobs[j].fold # None => jobs[j].fold \in Receipts
        /\ jobs[j].read = "code" => jobs[j].fold = None
      BY <1>1 DEF Working
  <1>6. /\ Target(j) \in Receipts
        /\ jobs[j].read = "code" => Target(j) = r
        /\ jobs[j].read # "code" /\ jobs[j].fold = None =>
             \/ Target(j) = r /\ Twins(r, jobs[j].read) = {}
             \/ Target(j) \in Twins(r, jobs[j].read) /\ Target(j) # r
      BY <1>2, <1>5, TargetIs
  <1>7. ~Collides(j) /\ row' = Upserted(j) /\ Goto(j, "award")
      BY DEF Persist
  <1>8. /\ RowsGood
        /\ jobs[j].read = "code" => row'[r].code /\ \A c \in Receipts \ {r} : ~row'[c].code
    <2>1. CASE jobs[j].read = "code"
        BY <1>2, <1>4, <1>5, <1>7, <2>1, PersistCode
    <2>2. CASE jobs[j].read # "code" /\ jobs[j].fold # None
      <3>1. row' = row
          BY <1>7, <2>2 DEF Upserted
      <3> QED
          BY <2>2, <3>1, RowStays DEF IInv, RowsGood
    <2>3. CASE jobs[j].read # "code" /\ jobs[j].fold = None
      <3>1. PICK fp \in Prints : fp = jobs[j].read
          BY <1>3, <2>3 DEF Prints
      <3>2. CASE Target(j) = r /\ Twins(r, fp) = {}
          BY <1>2, <1>4, <1>7, <2>3, <3>1, <3>2, PersistPrint
      <3>3. CASE Target(j) \in Twins(r, fp) /\ Target(j) # r
        <4>1. PICK t \in Twins(r, fp) : t = Target(j)
            BY <3>3
        <4> QED
            BY <1>2, <1>4, <1>7, <2>3, <3>1, <3>3, <4>1, PersistTwin
      <3> QED
          BY <1>6, <2>3, <3>1, <3>2, <3>3
    <2> QED
        BY <2>1, <2>2, <2>3
  <1>9. JobInv' /\ (jobs \in [Jobs -> Tasks])'
    <2>1. Live(jobs[j].r) /\ jobs[j].at # "free"
        BY <1>1, <1>2
    <2> QED
        BY <1>7, <1>8, <2>1, Moved DEF IInv, RowsGood
  <1>10. LinesGood
    <2>1. PICK t \in Receipts : t = Target(j)
        BY <1>6
    <2>2. PICK code \in BOOLEAN : code = (jobs[j].read = "code")
        OBVIOUS
    <2> DEFINE g == IF code THEN Superseded(r, lines) ELSE lines
               h == IF code THEN Superseded(r, adrift) ELSE adrift
    <2>3. PICK st \in Active \union {"rejected", "none"} :
            \/ lines' = [g EXCEPT ![t] = Better(@, st)] /\ adrift' = h
            \/ lines' = g /\ adrift' = [h EXCEPT ![t] = Better(@, st)]
        BY <1>2, <2>1, <2>2 DEF Persist
    <2>4. st \in Statuses
        BY DEF Statuses, Active
    <2>5. code => row'[r].code /\ \A c \in Receipts \ {r} : ~row'[c].code
        BY <1>8, <2>2
    <2> QED
        BY <2>3, <2>4, <2>5, PersistLines
  <1> QED
      BY <1>8, <1>9, <1>10 DEF Good, LinesGood, RowsGood, IInv, TypeOK
-----------------------------------------------------------------------------
(* The theorems.                                                           *)

LEMMA StepIInv == IInv /\ [Next]_vars => Good
  <1> SUFFICES ASSUME IInv, [Next]_vars PROVE Good
      OBVIOUS
  <1>1. CASE UNCHANGED vars
      BY <1>1, OtherSteps
  <1>2. ASSUME NEW r \in Receipts, Commit(r) \/ Abort(r) \/ Ask(r) \/ Rescan(r) \/ Batch(r)
        PROVE  Good
      BY <1>2, CommitAbortStep, OtherSteps, RescanStep
  <1>3. ASSUME NEW j \in Jobs, Work(j) \/ PipelineFails(j) \/ TimeOut(j) \/ KillWorker(j)
        PROVE  Good
      BY <1>3, EndingSteps, RejectEarlyStep, TimeOutStep, DownloadStep, DownloadFailsStep,
         RecogniseStep, PersistStep DEF Work
  <1> QED
      BY <1>1, <1>2, <1>3 DEF Next

\* The inductive invariant: the shape of the receipts and tasks, that a task past
\* its start works on a committed row, and that a row with a bar code holds no
\* fingerprint.
THEOREM Inductive == Spec => []IInv
  <1>1. IInv /\ [Next]_vars => IInv'
      BY StepIInv DEF Good
  <1> QED
      BY InitIInv, <1>1, PTL DEF Spec

\* The unique indexes of the deduplication hold in every committed state, also
\* after handle_barcode_rescan has put a superseded receipt back under the
\* fingerprint index.
THEOREM IndexesHoldHolds == Spec => []IndexesHold
  <1>1. IInv => IndexesHold
      BY DEF IInv
  <1> QED
      BY Inductive, <1>1, PTL

\* A receipt is counted at most RescanCap rescans, however the requests that
\* passed the check before the UPDATE of rescan_receipt interleave.
THEOREM RescanBudgetHolds == Spec => []RescanBudget
  <1>1. IInv => RescanBudget
      BY DEF IInv
  <1> QED
      BY Inductive, <1>1, PTL

\* A receipt's active rows at a store are taken from it only by the commit in which
\* its bar code passes to another receipt: neither a failing pass nor a purge, a
\* rejection, a time-out or a fold touches them (handle_barcode_rescan).
THEOREM TakenByHolderHolds == Spec => TakenByHolder
  <1>1. IInv /\ [Next]_vars => Rule
      BY StepIInv DEF Good
  <1>2. Rule => [\A r \in Receipts : lines[r] \in Active /\ lines'[r] \notin Active =>
       row[r].code /\ ~row'[r].code /\ \E c \in Receipts \ {r} : row'[c].code]_vars
      BY DEF Rule
  <1> QED
      BY Inductive, <1>1, <1>2, PTL DEF Spec, TakenByHolder
=============================================================================
