---------------------------- MODULE OutcomeQueue ----------------------------
(***************************************************************************)
(* The usage outcomes that wait to be posted (src/lib/usageOutcome.ts) and   *)
(* the file that keeps them across restarts (store/usage_queue.rs): a save   *)
(* replaces the whole file, and Rust runs the file's reads and writes one     *)
(* at a time.                                                               *)
(*                                                                          *)
(* An outcome is the number of the operation that queued it; 0 waits on the  *)
(* disk from before.  Age, backoff and the cap on the queue are left out:     *)
(* any part of it may be due at any time.                                   *)
(***************************************************************************)
EXTENDS WindowCalls

CONSTANT MaxWrites  \* bound on the saves underway when a post is answered and tried again
ASSUME WritesAssumption == MaxWrites \in Nat

VARIABLES
  queue,     \* what this session holds
  qloaded,   \* the file was read
  qreading,  \* the read underway: "no", "init" (the launch) or "save" (a save's)
  qtimer,    \* the 300 ms save timer runs
  qwrites,   \* saves on their way, oldest first
  qwait,     \* how many saves a quit still waits for
  qdisk,     \* the file
  post       \* the batch being posted

(* History.                                                                 *)
VARIABLES
  server,    \* outcomes the server has
  dropped,   \* outcomes given up: the server or a removed backend refuses them
  qfailed    \* a read or a write of the file failed, and no write landed since

queueWindow == <<queue, qloaded, qreading, qtimer, qwrites, qwait, post>>
queueVars == <<queueWindow, qdisk, server, dropped, qfailed>>

Outcomes == 0..MaxOps

QueueTypeOK ==
  /\ queue \subseteq Outcomes /\ qdisk \subseteq Outcomes /\ post \subseteq Outcomes
  /\ server \subseteq Outcomes /\ dropped \subseteq Outcomes
  /\ qloaded \in BOOLEAN /\ qreading \in {"no", "init", "save"} /\ qtimer \in BOOLEAN
  /\ qwrites \in Seq(SUBSET Outcomes) /\ qwait \in Nat /\ qfailed \in BOOLEAN

QueueInit ==
  /\ queue = {} /\ qloaded = FALSE /\ qreading = "no" /\ qtimer = FALSE
  /\ qwrites = <<>> /\ qwait = 0 /\ qdisk = {0} /\ post = {}
  /\ server = {} /\ dropped = {} /\ qfailed = FALSE

(* initOutcomeQueue, at the launch.                                         *)
QueueBoots ==
  /\ qreading' = "init"
  /\ UNCHANGED <<queue, qloaded, qtimer, qwrites, qwait, qdisk, post, server, dropped,
                 qfailed>>

(* The process ends.                                                        *)
QueueDies ==
  /\ queue' = {} /\ qloaded' = FALSE /\ qreading' = "no" /\ qtimer' = FALSE
  /\ qwrites' = <<>> /\ qwait' = 0 /\ post' = {} /\ qfailed' = FALSE
  /\ UNCHANGED <<qdisk, server, dropped>>

(* persist: not while the file is read, whose reader writes what it merged.   *)
Persist == qtimer' = (qtimer \/ qreading = "no")

(* enqueueOutcome.                                                          *)
Enqueue ==
  /\ Acts("queue")
  /\ queue' = queue \cup {Edit}
  /\ Persist
  /\ UNCHANGED <<asked, faults, qloaded, qreading, qwrites, qwait, qdisk, post, server,
                 dropped, qfailed>>

(* Mutant: a save before the file was read.                                 *)
SavesUnread ==
  /\ qtimer' = FALSE
  /\ qwrites' = Append(qwrites, queue)
  /\ UNCHANGED qreading

(* startSave: the file is read first if it was not yet.                       *)
StartSave ==
  /\ qtimer' = FALSE
  /\ IF qloaded
     THEN qwrites' = Append(qwrites, queue) /\ UNCHANGED qreading
     ELSE qreading' = "save" /\ UNCHANGED qwrites

QueueTimer ==
  /\ qtimer
  /\ StartSave
  /\ UNCHANGED <<callVars, queue, qloaded, qwait, qdisk, post, server, dropped, qfailed>>

(* flushOutcomeSave: the save of a running timer at once, and whatever saves  *)
(* are underway.                                                            *)
QueueSaves == Len(qwrites) + (IF qreading = "save" THEN 1 ELSE 0)
FlushQueue(quits) ==
  /\ IF qtimer THEN StartSave ELSE UNCHANGED <<qtimer, qwrites, qreading>>
  /\ qwait' = IF ~quits THEN qwait ELSE QueueSaves + (IF qtimer THEN 1 ELSE 0)

(* readPersisted's answer, and what its caller does with it.                  *)
ReadLands ==
  /\ qreading # "no"
  /\ qreading' = "no" /\ qloaded' = TRUE
  /\ queue' = queue \cup qdisk
  /\ IF qreading = "init"
     THEN qtimer' = TRUE /\ UNCHANGED qwrites
     ELSE qwrites' = Append(qwrites, queue') /\ UNCHANGED qtimer
  /\ UNCHANGED <<callVars, qwait, qdisk, post, server, dropped, qfailed>>

ReadFails ==
  /\ qreading # "no"
  /\ Fails /\ qfailed' = TRUE
  /\ qreading' = "no" /\ qwait' = 0
  /\ UNCHANGED <<asked, ops, use, left, queue, qloaded, qtimer, qwrites, qdisk, post,
                 server, dropped>>

(* save_usage_outcomes; a failed one is not tried again by itself.            *)
WriteSettles ==
  /\ qwrites # <<>>
  /\ qwrites' = Tail(qwrites)
  /\ qwait' = IF qwait = 0 THEN 0 ELSE qwait - 1
  /\ \/ qdisk' = Head(qwrites) /\ qfailed' = FALSE /\ UNCHANGED faults
     \/ Fails /\ qfailed' = TRUE /\ UNCHANGED qdisk
  /\ UNCHANGED <<asked, ops, use, left, queue, qloaded, qreading, qtimer, post, server,
                 dropped>>

(* flushPass: one batch at a time is posted.                                 *)
Post ==
  /\ post = {}
  /\ post' \in (SUBSET queue) \ {{}}
  /\ UNCHANGED <<callVars, queue, qloaded, qreading, qtimer, qwrites, qwait, qdisk,
                 server, dropped, qfailed>>

(* applyPost, to the queue as it is when the answer comes.                    *)
ApplyPost(kept) ==
  /\ queue' = kept
  /\ post' = {}
  /\ Persist
  /\ UNCHANGED <<callVars, qloaded, qreading, qwrites, qwait, qdisk, qfailed>>

PostSent ==
  /\ post # {}
  /\ server' = server \cup post /\ UNCHANGED dropped
  /\ ApplyPost(queue \ post)

(* Unreachable, or the answer is lost: the batch is posted again.              *)
PostRetried ==
  /\ post # {} /\ Len(qwrites) < MaxWrites
  /\ server' \in {server, server \cup post} /\ UNCHANGED dropped
  /\ ApplyPost(queue)

PostRefused ==
  /\ post # {}
  /\ dropped' = dropped \cup post /\ UNCHANGED server
  /\ ApplyPost(queue \ post)
=============================================================================
