--------------------------- MODULE TranscribeJobs ---------------------------
(***************************************************************************)
(* Batch runs the server works on, and the app's memory of them             *)
(* (lib/transcribeRun.ts, jobsLedger.ts, jobsReconcile.ts).                 *)
(*                                                                         *)
(* The pump writes a ledger row before each request.  The request can lose   *)
(* contact while the server goes on, and the app can quit at any point: a   *)
(* watcher or the next launch's reconcile pass then asks the server and      *)
(* lands the transcript, unless the user ran the file again, cancelled or    *)
(* deleted the record meanwhile.  Every wait is a place where that happens.  *)
(*                                                                         *)
(* A job id stands for its run; ids grow with the time the request left.     *)
(* The store's epoch moves only together with abandonActiveRun, so "the     *)
(* epoch moved" is pump.live for a pump and a stopped watcher for the rail.  *)
(* The server's side is what it answers: running, done, failed, unknown or   *)
(* nothing, at any time.  Runs without a job (a standard server, a text      *)
(* source, a link with the site's own subtitles) leave no row and are out.   *)
(***************************************************************************)
EXTENDS Naturals, Sequences, FiniteSets, FiniteSetsExt, SequencesExt

CONSTANTS
  Paths,      \* source files
  MaxJobs,    \* bound: runs ever posted
  MaxLaunches,\* bound: launches of the app
  MaxFaults,  \* bound: store calls that fail
  MaxRows,    \* jobsLedger.ts MAX_ROWS
  MaxRetries  \* jobsReconcile.ts MAX_RETRIES

ASSUME JobsAssumption ==
  /\ MaxJobs \in Nat /\ MaxLaunches \in Nat /\ MaxFaults \in Nat /\ MaxRows \in Nat \ {0}
  /\ MaxRetries \in Nat /\ IsFiniteSet(Paths)

Jobs == 1 .. MaxJobs

VARIABLES
  next,     \* the next job id (newProgressId)
  path,     \* LedgerRow.path
  backend   \* the backend is still configured

(* jobsLedger.ts                                                           *)
VARIABLES
  rows,     \* `ledger`
  disk,     \* the file
  read,     \* `loaded`, `loading`
  failed,   \* `readFailed`
  owed,     \* a write() waits for the read
  io,       \* invokes in their storeTurn
  faults    \* store calls that failed

(* transcribeRun.ts                                                        *)
VARIABLES
  running,  \* the rail is taken
  pump,     \* where it waits, for which job, whether its epoch is current
  queue,    \* status of each path's row
  orphan    \* QueueItem.orphanJobId of the row, 0 for none

(* jobsReconcile.ts                                                        *)
VARIABLES
  launch,   \* launches of the app so far
  base,     \* launchedAt: the first id of this launch
  by,       \* who watches a job: `watching`, `orphans`, `attachedId`
  ask,      \* what its watcher waits for
  stopped,  \* `stoppedIds`
  pass,     \* the reconcile pass: where it waits, its rows, those running
  rerun, timer, retries

(* History: what is recorded of each run in the mirror, and what the file    *)
(* holds while that save is parked, under way or failed.  "own" is a record *)
(* under an id of its own, the others carry the job's.                      *)
VARIABLES rec, recDisk

(* History variables of the properties: runs whose row reached the disk and  *)
(* was not dropped for its age or the cap; runs the user gave up; and of each *)
(* run the record a crash took while its row was already forgotten.          *)
VARIABLES promised, dismissed, taken

world   == <<next, path, backend>>
ledger  == <<rows, disk, read, failed, owed, io, faults>>
rail    == <<running, pump, queue, orphan>>
watches == <<by, ask, stopped>>
passes  == <<pass, rerun, timer, retries>>
records == <<rec, recDisk>>
ghosts  == <<promised, dismissed, taken>>
app     == <<launch, base>>
vars == <<world, ledger, rail, app, watches, passes, records, ghosts>>

-----------------------------------------------------------------------------
(* The ledger.                                                              *)

(* boundLedger: the newest n rows stay, as many as fit MAX_LEDGER_BYTES.     *)
Fits == 1 .. MaxRows
Bounded(S, n) == {j \in S : Cardinality({k \in S : k > j}) < n}

Load == [op |-> "load", rows |-> {}, for |-> 0]
Save(S, j) == [op |-> "save", rows |-> S, for |-> j]

(* storeTurn: one call at a time, each sent when the one before settled.     *)
OutOfTurn(q, calls) == calls \o q
InTurn(q, calls) == q \o calls

(* `ledger` takes these values in turn, each followed by write(); the last  *)
(* write is the one the caller awaits as j.                                 *)
Writes(steps, j) ==
  IF steps = <<>>
  THEN UNCHANGED <<rows, read, owed, io>>
  ELSE /\ rows' = Last(steps)
       /\ IF read = "yes"
          THEN /\ io' = InTurn(io, [i \in DOMAIN steps |->
                                      Save(steps[i], IF i = Len(steps) THEN j ELSE 0)])
               /\ UNCHANGED <<read, owed>>
          ELSE /\ owed' = TRUE /\ read' = "reading"
               /\ io' = IF read = "no" THEN InTurn(io, <<Load>>) ELSE io

(* forgetRow of each of S; nothing to write when none is there.             *)
Forgetting(S) == IF rows \cap S = {} THEN <<>> ELSE <<rows \ S>>
Forget(S) == Writes(Forgetting(S), 0)

(* addRow: the rows past their age go, then the bound, never the new row.    *)
Adding(S, old, j, n) == Bounded((S \ old) \cup {j}, n)

Awaited(j) == owed \/ \E i \in DOMAIN io : io[i].for = j

SaveLands ==
  /\ io # <<>> /\ Head(io).op = "save"
  /\ io' = Tail(io)
  /\ \/ disk' = Head(io).rows /\ UNCHANGED faults
     \/ faults < MaxFaults /\ faults' = faults + 1 /\ UNCHANGED disk   \* logged
  /\ UNCHANGED <<world, rows, read, failed, owed, rail, app, watches, passes,
                 records, ghosts>>

(* A late read brings rows no pass has seen: reconcile them, unless the     *)
(* pass itself is reading.                                                  *)
LateLoad ==
  CASE pass.pc = "load" -> /\ pass' = [pass EXCEPT !.pc = "collect"]
                           /\ UNCHANGED rerun
    [] failed /\ pass.pc = "idle" -> /\ pass' = [pass EXCEPT !.pc = "collect"]
                                     /\ UNCHANGED rerun
    [] failed /\ pass.pc \notin {"idle", "load"} -> rerun' = TRUE /\ UNCHANGED pass
    [] OTHER -> UNCHANGED <<pass, rerun>>

LoadLands ==
  /\ io # <<>> /\ Head(io).op = "load"
  /\ \E old \in SUBSET disk, n \in Fits :       \* old: past their age
     LET now == Bounded((disk \ old) \cup rows, n)
     IN  /\ rows' = now /\ promised' = promised \ ((disk \cup rows) \ now)
         /\ io' = Tail(io) \o IF owed THEN <<Save(now, pump.job)>> ELSE <<>>
  /\ read' = "yes" /\ owed' = FALSE
  /\ LateLoad
  /\ UNCHANGED <<world, disk, failed, faults, rail, app, watches, timer, retries,
                 records, dismissed, taken>>

LoadFails ==
  /\ io # <<>> /\ Head(io).op = "load"
  /\ faults < MaxFaults /\ faults' = faults + 1
  /\ io' = Tail(io) /\ read' = "no" /\ failed' = TRUE /\ owed' = FALSE
  /\ pass' = IF pass.pc = "load"
             THEN [pass EXCEPT !.pc = "collect", !.retry = TRUE] ELSE pass
  /\ UNCHANGED <<world, rows, disk, rail, app, watches, rerun, timer, retries,
                 records, ghosts>>

-----------------------------------------------------------------------------
(* upsertRecord, deleteRecord: the mirror now, the file some time later.     *)
Keeps(j, r) ==
  /\ rec' = [rec EXCEPT ![j] = r]
  /\ \E old \in {rec[j], recDisk[j]} : recDisk' = [recDisk EXCEPT ![j] = old]

(* The rail and the pump.                                                   *)

Idle == [pc |-> "idle", job |-> 0, live |-> FALSE]

(* stopOrphan of each of S: its watcher ends; the callers forget its row.    *)
(* What the DELETE it sends does to the job is among the answers.           *)
PassRows == pass.todo \cup pass.running
NeverStopped(j) == FALSE
Stopped(j) == j \in stopped
StopOrphans(S) ==
  /\ stopped' = stopped \cup S
  /\ by' = [j \in Jobs |-> IF j \in S THEN "none" ELSE by[j]]

(* setOrphanStop: the lost requests of these files, found in the watchers,  *)
(* in the pass, and in the ledger among earlier launches' unwatched rows.   *)
OrphansOf(F) ==
  {j \in 1 .. next - 1 :
     /\ path[j] \in F
     /\ \/ by[j] \in {"head", "lost"}
        \/ j \in PassRows
        \/ j \in rows /\ j < base /\ by[j] = "none"}

(* Every earlier run of these files is given up; while the ledger is unread *)
(* only those the hook can see.                                             *)
EarlierOf(F) == {j \in 1 .. next - 1 : path[j] \in F}
GivenUp(F) == IF read = "yes" THEN EarlierOf(F) ELSE OrphansOf(F)
GiveUpFiles(F) ==
  dismissed' = dismissed \cup GivenUp(F)

Queued(q) == {p \in Paths : q[p] = "queued"}

(* The pump takes the next queued file of q, having forgotten the rows S;    *)
(* with none left, or after an epoch move, it ends.                          *)
PumpGoesOn(q, S) ==
  IF Queued(q) = {}
  THEN /\ Writes(Forgetting(S), 0)
       /\ pump' = Idle /\ running' = FALSE /\ queue' = q
       /\ UNCHANGED <<next, path, promised>>
  ELSE \E p \in Queued(q), old \in SUBSET (rows \ S), n \in Fits :
         /\ LET now == Adding(rows \ S, old, next, n)
            IN  /\ Writes(Forgetting(S) \o <<now>>, next)
                /\ promised' = promised \ ((rows \ S) \ now)
         /\ pump' = [pc |-> "persist", job |-> next, live |-> TRUE]
         /\ running' = TRUE /\ queue' = [q EXCEPT ![p] = "running"]
         /\ path' = [path EXCEPT ![next] = p] /\ next' = next + 1

(* startRun: the picked files become the queue.                             *)
StartRun(F) ==
  /\ ~running /\ backend
  /\ F # {} /\ next + Cardinality(F) - 1 <= MaxJobs
  /\ StopOrphans(OrphansOf(F)) /\ GiveUpFiles(F)
  /\ PumpGoesOn([p \in Paths |-> IF p \in F THEN "queued" ELSE "none"], OrphansOf(F))
  /\ orphan' = [p \in Paths |-> 0]
  /\ UNCHANGED <<backend, disk, failed, faults, app, ask, passes, records, taken>>

(* retryFile: at the same epoch, the file's own lost request stopped first. *)
RetryFile(p) ==
  /\ ~running /\ backend /\ queue[p] = "failed" /\ next <= MaxJobs
  /\ StopOrphans(OrphansOf({p})) /\ GiveUpFiles({p})
  /\ PumpGoesOn([queue EXCEPT ![p] = "queued"], OrphansOf({p}))
  /\ orphan' = [orphan EXCEPT ![p] = 0]
  /\ UNCHANGED <<backend, disk, failed, faults, app, ask, passes, records, taken>>

(* The row is on disk, or could not be: the request leaves, unless a cancel *)
(* came during the write.                                                   *)
PumpPosts ==
  /\ pump.pc = "persist" /\ ~Awaited(pump.job)
  /\ IF pump.live
     THEN /\ pump' = [pump EXCEPT !.pc = "post"]
          /\ promised' = IF pump.job \in disk \/ faults = 0
                         THEN promised \cup {pump.job} ELSE promised
          /\ UNCHANGED <<rows, read, owed, io, running>>
     ELSE /\ Forget({pump.job}) /\ pump' = Idle /\ running' = FALSE
          /\ UNCHANGED promised
  /\ UNCHANGED <<world, disk, failed, faults, queue, orphan, app, watches, passes,
                 records, dismissed, taken>>

(* The request settled: done, or refused, under an id of the record's own.  *)
PumpSettles ==
  /\ pump.pc = "post" /\ pump.live
  /\ Keeps(pump.job, "own")
  /\ \E s \in {"done", "failed"} :
       PumpGoesOn([queue EXCEPT ![path[pump.job]] = s], {pump.job})
  /\ UNCHANGED <<backend, disk, failed, faults, orphan, app, watches,
                 passes, dismissed, taken>>

(* Contact is lost: a failed record under the job's id, and watchOrphan,     *)
(* which finds the row unless it was evicted.                               *)
PumpLosesContact ==
  /\ pump.pc = "post" /\ pump.live
  /\ Keeps(pump.job, "failed")
  /\ by' = IF pump.job \in rows THEN [by EXCEPT ![pump.job] = "lost"] ELSE by
  /\ PumpGoesOn([queue EXCEPT ![path[pump.job]] = "failed"], {})
  /\ orphan' = [orphan EXCEPT ![path[pump.job]] = pump.job]
  /\ UNCHANGED <<backend, disk, failed, faults, app, ask, stopped,
                 passes, dismissed, taken>>

(* The aborted request comes back after the epoch moved: no record.         *)
PumpUnwinds ==
  /\ pump.pc = "post" /\ ~pump.live
  /\ Forget({pump.job}) /\ pump' = Idle /\ running' = FALSE
  /\ UNCHANGED <<world, disk, failed, faults, queue, orphan, app, watches, passes,
                 records, ghosts>>

(* The reattached run whose stop hook is installed: not one settled already. *)
Attached == {j \in Jobs : by[j] = "att" /\ ask[j] # "settling"}

(* cancelRun, through abandonActiveRun: a reattached run's watcher stops,   *)
(* the rail is free and its row goes; a pump is told by the epoch.          *)
CancelRun ==
  /\ running
  /\ LET mine == Attached \cup ({pump.job} \ {0})
     IN  dismissed' = dismissed \cup mine
  /\ by' = [j \in Jobs |-> IF j \in Attached THEN "none" ELSE by[j]]
  /\ Forget(Attached)
  /\ running' = (running /\ Attached = {})
  /\ pump' = [pump EXCEPT !.live = FALSE]
  /\ queue' = [p \in Paths |-> IF queue[p] \in {"queued", "running"}
                               THEN "cancelled" ELSE queue[p]]
  /\ UNCHANGED <<next, path, backend, disk, failed, faults, orphan, app, ask,
                 stopped, passes, records, promised, taken>>

(* openHistoryRecord: the queue is that record's row, which names the job a   *)
(* watcher may still finish.                                                *)
OpenRecord(j) ==
  /\ ~running /\ rec[j] = "failed"
  /\ queue' = [p \in Paths |-> IF p = path[j] THEN "failed" ELSE "none"]
  /\ orphan' = [p \in Paths |-> IF p = path[j] /\ j \in rows THEN j ELSE 0]
  /\ UNCHANGED <<world, ledger, running, pump, app, watches, passes, records, ghosts>>

CloseRecord ==
  /\ ~running /\ queue # [p \in Paths |-> "none"]
  /\ queue' = [p \in Paths |-> "none"] /\ orphan' = [p \in Paths |-> 0]
  /\ UNCHANGED <<world, ledger, running, pump, app, watches, passes, records, ghosts>>

(* deleteRecord, through forgetRecord: the rail's own run is left alone.    *)
DeleteRecord(j) ==
  /\ rec[j] \in {"failed", "done"}
  /\ Keeps(j, "none")
  /\ IF by[j] = "att" THEN UNCHANGED <<rows, read, owed, io, by, stopped>>
     ELSE StopOrphans({j}) /\ Forget({j})
  /\ LET gone == {j} \ Attached
     IN  dismissed' = dismissed \cup gone
  /\ UNCHANGED <<next, path, backend, disk, failed, faults, rail, app, ask,
                 passes, promised, taken>>

(* A backend removed, here or by a sync pull.                               *)
RemoveBackend ==
  /\ backend /\ backend' = FALSE
  /\ UNCHANGED <<next, path, ledger, rail, app, watches,
                 passes, records, ghosts>>

-----------------------------------------------------------------------------
(* What a job's status and result say, and what the app makes of them.      *)

(* settleReattached, when the rail is its own.                               *)
KeepsRail(j) == running
FreesRail(j) == running /\ by[j] # "att"

(* recordRun under the job's id, as failJob and ingestJobResult do: the     *)
(* rail's own run frees it, a lost request's row settles.                   *)
Records(j, s) ==
  /\ Keeps(j, s)
  /\ running' = FreesRail(j)
  /\ LET p == path[j]
     IN IF by[j] = "att" THEN queue' = [queue EXCEPT ![p] = s] /\ UNCHANGED orphan
        ELSE IF orphan[p] = j /\ queue[p] = "failed"
        THEN queue' = [queue EXCEPT ![p] = s] /\ orphan' = [orphan EXCEPT ![p] = 0]
        ELSE UNCHANGED <<queue, orphan>>

RecordsNothing == UNCHANGED <<records, running, queue, orphan>>

(* scheduleRetry.                                                           *)
ScheduleRetry ==
  IF timer \/ retries >= MaxRetries THEN UNCHANGED <<timer, retries>>
  ELSE timer' = TRUE /\ retries' = retries + 1

(* The listing of lostRecord, behind a backend that is gone: stopped         *)
(* meanwhile, unknown, or the row goes, with the reason on its record.      *)
ListingKnown(j) ==
  /\ ~Stopped(j)
  /\ IF rec[j] = "failed" THEN Records(j, "failed") ELSE RecordsNothing
  /\ Forget({j}) /\ dismissed' = dismissed \cup {j}

unwatched == <<backend, next, path, disk, failed, faults, pump, app,
               promised, taken>>

-----------------------------------------------------------------------------
(* watchJob.                                                                *)

(* giveUp: it stops first, then settles the run failed.                      *)
GivesUp(j) ==
  /\ by' = [by EXCEPT ![j] = "none"] /\ ask' = [ask EXCEPT ![j] = "no"]
  /\ Records(j, "failed") /\ Forget({j})
  /\ UNCHANGED dismissed

Waits(j, s) ==
  /\ ask' = [ask EXCEPT ![j] = s]
  /\ RecordsNothing /\ UNCHANGED <<rows, read, owed, io, by, dismissed>>

(* A tick finds the row past maxAgeMs.                                      *)
AgesOut(j) ==
  /\ by[j] # "none" /\ ask[j] = "no"
  /\ GivesUp(j)
  /\ UNCHANGED <<stopped, passes, unwatched>>

(* Any other tick: the backend is gone, or the status is asked for.          *)
Tick(j) ==
  /\ by[j] # "none" /\ ask[j] = "no"
  /\ \/ backend /\ Waits(j, "status")
     \/ ~backend /\ by[j] # "head" /\ GivesUp(j)
     \/ /\ ~backend /\ by[j] = "head"
        /\ by' = [by EXCEPT ![j] = "none"] /\ ask' = [ask EXCEPT ![j] = "listing"]
        /\ RecordsNothing /\ UNCHANGED <<rows, read, owed, io, dismissed>>
  /\ UNCHANGED <<stopped, passes, unwatched>>

(* An answer to a watcher stopped meanwhile is dropped.                      *)
LateAnswer(j) ==
  /\ ask[j] \notin {"no", "listing"} /\ by[j] = "none"
  /\ Waits(j, "no")
  /\ UNCHANGED <<stopped, passes, unwatched>>

StatusSays(j) ==
  /\ ask[j] = "status" /\ by[j] # "none"
  /\ \/ Waits(j, "no")                        \* an error, or still running
     \/ GivesUp(j)                            \* unknown, failed or cancelled
     \/ Waits(j, "result")                    \* done
  /\ UNCHANGED <<stopped, passes, unwatched>>

(* ingestDone: a result Rust can never accept settles the run failed.       *)
ResultSays(j) ==
  /\ ask[j] = "result" /\ by[j] # "none"
  /\ \/ Waits(j, "no")
     \/ Waits(j, "tracks")
     \/ /\ Records(j, "failed") /\ Forget({j})
        /\ ask' = [ask EXCEPT ![j] = "settling"]
        /\ UNCHANGED <<by, dismissed>>
  /\ UNCHANGED <<stopped, passes, unwatched>>

(* withSiteTracks answered: the transcript lands.                            *)
Lands(j) ==
  /\ ask[j] = "tracks" /\ by[j] # "none"
  /\ Records(j, "done") /\ Forget({j})
  /\ ask' = [ask EXCEPT ![j] = "settling"]
  /\ UNCHANGED <<by, stopped, passes, dismissed, unwatched>>

(* forgetRow was awaited; the watcher stops only now.                       *)
WatchStops(j) ==
  /\ ask[j] = "settling"
  /\ by' = [by EXCEPT ![j] = "none"] /\ ask' = [ask EXCEPT ![j] = "no"]
  /\ RecordsNothing
  /\ UNCHANGED <<rows, read, owed, io, stopped, passes, dismissed, unwatched>>

ListingSays(j) ==
  /\ ask[j] = "listing"
  /\ ask' = [ask EXCEPT ![j] = "no"]
  /\ \/ /\ Stopped(j)
        /\ RecordsNothing
        /\ UNCHANGED <<rows, read, owed, io, timer, retries, dismissed>>
     \/ /\ ~Stopped(j) /\ ScheduleRetry         \* the listing failed
        /\ RecordsNothing /\ UNCHANGED <<rows, read, owed, io, dismissed>>
     \/ ListingKnown(j) /\ UNCHANGED <<timer, retries>>
  /\ UNCHANGED <<by, stopped, pass, rerun, unwatched>>

-----------------------------------------------------------------------------
(* reconcileJobs.                                                           *)

Mine(j) == by[j] = "none" /\ j < base
Cur == Min(pass.todo)

(* The pass begins: the ledger is read first if it still has to be.          *)
PassFrom(r) ==
  /\ pass' = [pc |-> IF read = "yes" THEN "collect" ELSE "load",
              todo |-> {}, running |-> {}, retry |-> FALSE, backend |-> backend]
  /\ rerun' = r
  /\ IF read = "no" THEN read' = "reading" /\ io' = InTurn(io, <<Load>>)
     ELSE UNCHANGED <<read, io>>

TimerFires ==
  /\ timer /\ timer' = FALSE
  /\ IF pass.pc = "idle" THEN PassFrom(rerun)
     ELSE rerun' = TRUE /\ UNCHANGED <<pass, read, io>>
  /\ UNCHANGED <<world, rows, disk, failed, faults, owed, rail, app, watches, retries,
                 records, ghosts>>

(* It works on the rows and the backends it finds now.                       *)
PassCollects ==
  /\ pass.pc = "collect"
  /\ pass' = [pass EXCEPT !.pc = "next", !.todo = {j \in rows : Mine(j)},
                          !.backend = backend]
  /\ UNCHANGED <<world, ledger, rail, app, watches, rerun, timer, retries,
                 records, ghosts>>

Handled(retry) ==
  pass' = [pass EXCEPT !.pc = "next", !.todo = @ \ {Cur}, !.retry = @ \/ retry]

(* The next row, oldest first.  A row stopped before the pass could see it  *)
(* is forgotten and cancelled here.                                         *)
PassTakes ==
  /\ pass.pc = "next" /\ pass.todo # {}
  /\ \/ /\ Stopped(Cur)
        /\ Handled(FALSE) /\ Forget({Cur})
     \/ /\ ~Stopped(Cur) /\ pass.retry /\ pass.backend    \* its host did not answer
        /\ Handled(TRUE) /\ UNCHANGED <<rows, read, owed, io>>
     \/ /\ ~Stopped(Cur)
        /\ pass' = [pass EXCEPT !.pc = IF pass.backend THEN "status" ELSE "listing"]
        /\ UNCHANGED <<rows, read, owed, io>>
  /\ UNCHANGED <<next, path, backend, disk, failed, faults, rail, app, watches,
                 rerun, timer, retries, records, ghosts>>

(* Its status or result came.                                               *)
PassSettles(s) ==
  /\ Handled(FALSE) /\ Records(Cur, s) /\ Forget({Cur})
PassGoes(p) ==
  /\ pass' = p /\ RecordsNothing /\ UNCHANGED <<rows, read, owed, io>>
PassLeaves(retry) ==
  /\ Handled(retry) /\ RecordsNothing /\ UNCHANGED <<rows, read, owed, io>>

PassHears ==
  /\ pass.pc \in {"status", "result", "tracks"}
  /\ \/ Stopped(Cur) /\ PassLeaves(FALSE)
     \/ /\ ~Stopped(Cur) /\ pass.pc # "tracks"
        /\ PassLeaves(TRUE) \/ PassSettles("failed")
     \/ /\ ~Stopped(Cur) /\ pass.pc = "status"
        /\ \/ PassGoes([pass EXCEPT !.pc = "next", !.todo = @ \ {Cur},
                                    !.running = @ \cup {Cur}])
           \/ PassGoes([pass EXCEPT !.pc = "result"])
     \/ /\ ~Stopped(Cur) /\ pass.pc = "result"
        /\ PassGoes([pass EXCEPT !.pc = "tracks"])
     \/ ~Stopped(Cur) /\ pass.pc = "tracks" /\ PassSettles("done")
  /\ UNCHANGED <<stopped, by, ask, rerun, timer, retries, dismissed, unwatched>>

PassLists ==
  /\ pass.pc = "listing"
  /\ \/ Stopped(Cur) /\ PassLeaves(FALSE) /\ UNCHANGED dismissed
     \/ /\ ~Stopped(Cur) /\ PassLeaves(TRUE)
        /\ UNCHANGED dismissed
     \/ ListingKnown(Cur) /\ Handled(FALSE)
  /\ UNCHANGED <<stopped, by, ask, rerun, timer, retries, unwatched>>

(* The end of a pass: the newest running row takes the rail back if the     *)
(* workbench is untouched, the others are watched headless; then the pass    *)
(* owed, or a retry.  An empty queue says nothing about picked files.       *)
PassEnds ==
  /\ pass.pc = "next" /\ pass.todo = {}
  /\ \E untouched \in BOOLEAN :
       LET live == pass.running \ stopped
           rails == untouched /\ live # {}
           newest == Max(live)
       IN  /\ untouched => ~running /\ \A p \in Paths : queue[p] = "none"
           /\ by' = [j \in Jobs |-> IF j \notin live THEN by[j]
                                    ELSE IF rails /\ j = newest THEN "att" ELSE "head"]
           /\ running' = (running \/ rails)
           /\ queue' = IF rails THEN [queue EXCEPT ![path[newest]] = "running"] ELSE queue
  /\ IF rerun THEN PassFrom(FALSE) /\ UNCHANGED <<timer, retries>>
     ELSE /\ pass' = [pass EXCEPT !.pc = "idle", !.running = {}, !.retry = FALSE]
          /\ IF pass.retry THEN ScheduleRetry ELSE UNCHANGED <<timer, retries>>
          /\ UNCHANGED <<rerun, read, io>>
  /\ UNCHANGED <<world, rows, disk, failed, faults, owed, pump, orphan, app, ask, stopped,
                 records, ghosts>>

-----------------------------------------------------------------------------
(* The end of the process.                                                  *)

NoJobs(v) == [j \in Jobs |-> v]
Booted == [pc |-> "load", todo |-> {}, running |-> {}, retry |-> FALSE,
           backend |-> TRUE]

(* The app quits or dies at any point and is started again.                  *)
Relaunch ==
  /\ launch < MaxLaunches /\ launch' = launch + 1
  /\ rows' = {} /\ read' = "reading" /\ failed' = FALSE /\ owed' = FALSE /\ io' = <<Load>>
  /\ running' = FALSE /\ pump' = Idle
  /\ queue' = [p \in Paths |-> "none"] /\ orphan' = [p \in Paths |-> 0]
  /\ base' = next /\ by' = NoJobs("none") /\ ask' = NoJobs("no") /\ stopped' = {}
  /\ pass' = Booted /\ rerun' = FALSE /\ timer' = FALSE /\ retries' = 0
  /\ rec' \in [Jobs -> {rec[j] : j \in Jobs} \cup {recDisk[j] : j \in Jobs}]
  /\ \A j \in Jobs : rec'[j] \in {rec[j], recDisk[j]}
  /\ recDisk' = rec'
  /\ taken' = [j \in Jobs |-> IF j \notin disk /\ rec'[j] = "none" /\ rec[j] # "none"
                             THEN rec[j] ELSE taken[j]]
  /\ dismissed' = dismissed \ disk
  /\ UNCHANGED <<world, disk, faults, promised>>

Init ==
  /\ next = 1 /\ path = NoJobs(CHOOSE p \in Paths : TRUE)
  /\ backend = TRUE
  /\ rows = {} /\ disk = {} /\ read = "reading" /\ failed = FALSE
  /\ owed = FALSE /\ io = <<Load>> /\ faults = 0
  /\ running = FALSE /\ pump = Idle
  /\ queue = [p \in Paths |-> "none"] /\ orphan = [p \in Paths |-> 0]
  /\ launch = 1 /\ base = 1
  /\ by = NoJobs("none") /\ ask = NoJobs("no") /\ stopped = {}
  /\ pass = Booted /\ rerun = FALSE /\ timer = FALSE /\ retries = 0
  /\ rec = NoJobs("none") /\ recDisk = NoJobs("none")
  /\ promised = {} /\ dismissed = {} /\ taken = NoJobs("none")

LedgerIO == SaveLands \/ LoadLands \/ LoadFails
Pump == PumpPosts \/ PumpSettles \/ PumpLosesContact \/ PumpUnwinds
Watcher(j) == Tick(j) \/ AgesOut(j) \/ LateAnswer(j) \/ StatusSays(j)
              \/ ResultSays(j) \/ Lands(j) \/ WatchStops(j) \/ ListingSays(j)
Reconcile == TimerFires \/ PassCollects \/ PassTakes \/ PassHears \/ PassLists
             \/ PassEnds
User == \/ \E F \in SUBSET Paths : StartRun(F)
        \/ \E p \in Paths : RetryFile(p)
        \/ \E j \in Jobs : DeleteRecord(j) \/ OpenRecord(j)
        \/ CancelRun \/ CloseRecord \/ RemoveBackend

Next == LedgerIO \/ Pump \/ Reconcile \/ User \/ Relaunch \/ \E j \in Jobs : Watcher(j)

Spec == Init /\ [][Next]_vars

-----------------------------------------------------------------------------
(* A run whose row reached the disk is in the ledger or in History at every *)
(* moment after, through failed saves, late reads, evictions and crashes,    *)
(* until the user gives it up or its row is dropped for its age or for the    *)
(* cap.  One crash is excepted, and EveryIngestKept asks for it too: the one      *)
(* that comes when the row is forgotten already and the record, in the mirror *)
(* since before, has not reached the disk.                                    *)
Recorded(j) == rec[j] # "none" \/ recDisk[j] # "none"
Taken == {j \in Jobs : taken[j] # "none"}
NoRunForgotten ==
  \A j \in (promised \ Taken) \ dismissed : j \in disk \/ Recorded(j)

(* jobsReconcile.ts:19 says of every ingest that "the row is forgotten only    *)
(* after the record was written": a transcript it landed would be found again, *)
(* or its row, after a crash at any moment.  It is violated: what was written *)
(* by then is the mirror, and the ledger without the row may reach the disk   *)
(* before the record does.                                                    *)
EveryIngestKept ==
  \A j \in promised \ dismissed :
    taken[j] \in {"none", "done"} => j \in disk \/ Recorded(j)

(* A run the user retried, cancelled or deleted never lands a transcript or  *)
(* a failed record again, wherever its watcher or the pass was waiting; only *)
(* what a lost save left on disk may come back.                             *)
DismissedNeverLands ==
  [][\A j \in dismissed : rec'[j] \in {rec[j], recDisk[j], "none"}]_vars

(* An earlier launch's row that is known is watched, in the pass, or has a   *)
(* pass coming, until the retries are spent: no refused read, stop or failed *)
(* listing leaves it to nobody.  Nobody polls what the pass works on.  And     *)
(* the rail is taken exactly while a pump runs or a reattached run has its    *)
(* stop hook: a rail nobody owns would refuse every start, for good.         *)
WorkIsOwned ==
  /\ read = "yes" =>
       \A j \in rows : j < base =>
         \/ by[j] # "none" \/ ask[j] # "no" \/ j \in PassRows
         \/ pass.pc \in {"load", "collect"} \/ pass.retry \/ rerun \/ timer
         \/ retries = MaxRetries
  /\ \A j \in PassRows : by[j] = "none"
  /\ running <=> pump.pc # "idle" \/ Attached # {}
=============================================================================
