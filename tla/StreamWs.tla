------------------------------ MODULE StreamWs ------------------------------
(***************************************************************************)
(* One streaming session's WebSocket client (transport/stream.rs, run).     *)
(* The main loop writes; a reader task owns the read half and hands it what  *)
(* the server said, over a channel whose last message is always Closed.     *)
(* The socket can die under either half first, a stop can come at any time, *)
(* even while connecting, and every wait has a deadline.  What must survive *)
(* all of it: the finals the reader received, and one honest word to the    *)
(* window before `closed`.                                                  *)
(***************************************************************************)
EXTENDS Integers, Sequences, FiniteSets

CONSTANTS MaxFrames   \* bound on the frames the server ever sends

ASSUME FramesAssumption == MaxFrames \in Nat

VARIABLES
  stop,     \* ws_stop was sent
  pcmOpen,  \* the capture thread still holds the PCM sender
  pc,       \* where run() waits
  draining, \* the local of that name
  sawError, \* the grace's local: the reader reported an error in it
  evt,      \* evt_rx: what the reader queued
  reader,   \* the read task
  errorSeen,\* its local: an `error` frame was forwarded
  link,     \* the connection, as the client's kernel knows it
  wire,     \* frames the server sent, not yet read
  sent,     \* how many it sent
  asked,    \* the server got flush and stop
  events,   \* kinds of StreamEvent on_event was called with
  finals,   \* `final`s forwarded to the window
  closing   \* how the server ended the session, as far as the reader saw

(* History: `final`s queued when the loops ended.                          *)
VARIABLE owed

serverVars == <<link, wire, sent, asked>>
readerVars == <<reader, errorSeen, closing>>
taskVars   == <<pc, draining, sawError, events, finals, owed>>
wsVars == <<stop, pcmOpen, taskVars, evt, readerVars, serverVars>>

(* "restart" is a 1011 or 1012 close, "refusal" any other that speaks.     *)
CloseFrames == {"ordinary", "restart", "refusal"}
Frames == {"frame", "final", "last", "error", "closing"} \cup CloseFrames

(* The channel's messages: a parsed frame, ServerClose, ReadError, Closed.  *)
FromReader == {"frame", "final", "last", "error", "restart", "refusal",
               "readError", "closed"}

(* Types; and no `final` is forwarded twice.                                *)
WsTypeOK ==
  /\ stop \in BOOLEAN /\ pcmOpen \in BOOLEAN /\ draining \in BOOLEAN
  /\ sawError \in BOOLEAN
  /\ pc \in {"connecting", "live", "writing", "reading", "grace", "leftovers",
             "settling", "done"}
  /\ evt \in Seq(FromReader)
  /\ reader \in {"off", "reading", "lastFinal", "ended"}
  /\ errorSeen \in BOOLEAN
  /\ link \in {"up", "broken", "hung", "over"}
  /\ wire \in Seq(Frames)
  /\ sent \in 0..MaxFrames /\ asked \in BOOLEAN
  /\ events \subseteq {"final", "last", "error", "closeError", "readError",
                       "lost", "failed", "incomplete", "closed"}
  /\ finals \in 0..sent /\ owed \in 0..sent
  /\ closing \in {"no", "ordinary", "said"}

WsInit ==
  /\ stop = FALSE /\ pcmOpen = TRUE
  /\ pc = "connecting" /\ draining = FALSE /\ sawError = FALSE
  /\ evt = <<>> /\ reader = "off" /\ errorSeen = FALSE
  /\ link = "up" /\ wire = <<>> /\ sent = 0 /\ asked = FALSE
  /\ events = {} /\ finals = 0 /\ owed = 0 /\ closing = "no"

-----------------------------------------------------------------------------
(* The session around it: finish() or Drop, and the capture thread's end.  *)

StopSent ==
  /\ ~stop
  /\ stop' = TRUE
  /\ UNCHANGED <<pcmOpen, taskVars, evt, readerVars, serverVars>>

CaptureEnds ==
  /\ pcmOpen
  /\ pcmOpen' = FALSE
  /\ UNCHANGED <<stop, taskVars, evt, readerVars, serverVars>>

-----------------------------------------------------------------------------
(* The server and the network.                                             *)

(* `last` answers a flush; nothing follows a close frame.                   *)
ServerSends(f) ==
  /\ reader # "off" /\ link = "up" /\ sent < MaxFrames  \* bound
  /\ f = "last" => asked /\ \A i \in DOMAIN wire : wire[i] # "last"
  /\ wire' = Append(wire, f)
  /\ sent' = sent + 1
  /\ link' = IF f \in CloseFrames THEN "over" ELSE link
  /\ UNCHANGED <<stop, pcmOpen, taskVars, evt, readerVars, asked>>

LinkFails(how) ==
  /\ reader # "off" /\ (link = "up" \/ (link = "hung" /\ how = "broken"))
  /\ link' = how
  /\ wire' \in {SubSeq(wire, 1, n) : n \in 0..Len(wire)}
  /\ UNCHANGED <<stop, pcmOpen, taskVars, evt, readerVars, sent, asked>>

-----------------------------------------------------------------------------
(* The reader task.                                                         *)

ReaderEnds(messages) ==
  /\ reader' = "ended"
  /\ evt' = evt \o Append(messages, "closed")

Reads ==
  /\ reader \in {"reading", "lastFinal"} /\ wire # <<>>
  /\ wire' = Tail(wire)
  /\ UNCHANGED <<stop, pcmOpen, taskVars, link, sent, asked>>

(* A text frame is forwarded; after the last `final` the reader only waits  *)
(* out a short grace.                                                       *)
ReadsFrame ==
  /\ Reads
  /\ LET f == Head(wire) IN
     /\ f \in {"frame", "final", "last", "error"}
     /\ evt' = Append(evt, f)
     /\ errorSeen' = (errorSeen \/ f = "error")
     /\ reader' = IF f = "last" THEN "lastFinal" ELSE reader
  /\ UNCHANGED closing

ReadsClosing ==
  /\ Reads /\ Head(wire) = "closing"
  /\ ReaderEnds(<<>>)
  /\ closing' = "said"
  /\ UNCHANGED errorSeen

(* close_frame_error: an ordinary close is silent, and so is one after an   *)
(* `error` frame; within the grace a close only ends it.                    *)
ReadsClose ==
  /\ Reads /\ Head(wire) \in CloseFrames
  /\ LET f == Head(wire) IN
     /\ ReaderEnds(IF f = "ordinary" \/ errorSeen \/ reader = "lastFinal"
                   THEN <<>> ELSE <<f>>)
     /\ closing' = IF f = "ordinary" THEN "ordinary" ELSE closing
  /\ UNCHANGED errorSeen

(* A reset under the reader; a hung link never tells.                       *)
ReadError ==
  /\ reader \in {"reading", "lastFinal"} /\ wire = <<>> /\ link = "broken"
  /\ ReaderEnds(IF reader = "lastFinal" THEN <<>> ELSE <<"readError">>)
  /\ UNCHANGED <<stop, pcmOpen, taskVars, errorSeen, closing, serverVars>>

GraceElapses ==
  /\ reader = "lastFinal" /\ wire = <<>>
  /\ ReaderEnds(<<>>)
  /\ UNCHANGED <<stop, pcmOpen, taskVars, errorSeen, closing, serverVars>>

-----------------------------------------------------------------------------
(* The main loop.                                                          *)

TaskUnchanged == UNCHANGED <<stop, pcmOpen, readerVars, serverVars>>

(* fail!                                                                   *)
WsSetupFails ==
  /\ pc = "connecting"
  /\ pc' = "done"
  /\ events' = events \cup {"failed", "closed"}
  /\ UNCHANGED <<draining, sawError, finals, owed, evt>> /\ TaskUnchanged

(* A stop that came meanwhile is remembered: straight to the drain.         *)
WsConnects ==
  /\ pc = "connecting"
  /\ draining' = stop
  /\ pc' = IF stop THEN "writing" ELSE "live"
  /\ reader' = "reading"
  /\ UNCHANGED <<stop, pcmOpen, sawError, events, finals, owed, evt,
                 errorSeen, closing, serverVars>>

(* server_close_event, read_error_event: in the drain a restart or a lost   *)
(* connection costs at most a phrase.                                       *)
EventOf(m) ==
  CASE m \in {"final", "last", "error"} -> {m}
    [] m = "frame"     -> {}
    [] m = "restart"   -> {IF draining THEN "incomplete" ELSE "closeError"}
    [] m = "refusal"   -> {"closeError"}
    [] m = "readError" -> {IF draining THEN "incomplete" ELSE "readError"}
    [] m = "closed"    -> {}

IsFinal(m) == m \in {"final", "last"}
FinalsIn(s) == Cardinality({i \in DOMAIN s : IsFinal(s[i])})

Forwards(m) ==
  /\ events' = events \cup EventOf(m)
  /\ finals' = finals + FinalsIn(<<m>>)

(* Leaving the loops for the leftovers.                                     *)
LoopEnds(rest) ==
  /\ pc' = "leftovers"
  /\ owed' = finals + FinalsIn(rest)

(* The live loop's select: a stop or the end of the PCM starts the drain,   *)
(* in any order with what the reader queued.                                *)
LiveStops ==
  /\ pc = "live" /\ (stop \/ ~pcmOpen)
  /\ draining' = TRUE
  /\ pc' = "writing"
  /\ UNCHANGED <<sawError, events, finals, owed, evt>> /\ TaskUnchanged

LiveReceives ==
  /\ pc = "live" /\ evt # <<>>
  /\ evt' = Tail(evt)
  /\ IF Head(evt) = "closed"
     THEN LoopEnds(Tail(evt)) /\ UNCHANGED <<events, finals>>
     ELSE Forwards(Head(evt)) /\ UNCHANGED <<pc, owed>>
  /\ UNCHANGED <<draining, sawError>> /\ TaskUnchanged

(* An audio frame or keepalive fails ...                                    *)
LiveWriteFails ==
  /\ pc = "live" /\ link \in {"broken", "over"}
  /\ pc' = "grace"
  /\ UNCHANGED <<draining, sawError, events, finals, owed, evt>> /\ TaskUnchanged

(* Mutant: a stall is reported, and the loop goes on.                       *)
LiveWriteStallsOn ==
  /\ pc = "live" /\ link = "hung"
  /\ events' = events \cup {"lost"}
  /\ UNCHANGED <<pc, owed, draining, sawError, finals, evt>> /\ TaskUnchanged

(* ... or stalls past SEND_TIMEOUT, which is reported at once.              *)
LiveWriteStalls ==
  /\ pc = "live" /\ link = "hung"
  /\ events' = events \cup {"lost"}
  /\ LoopEnds(evt)
  /\ UNCHANGED <<draining, sawError, finals, evt>> /\ TaskUnchanged

(* The drain's writes: flush and stop arrive if the link carries them       *)
(* before DRAIN_WRITE_DEADLINE; a failed write is not looked at.            *)
DrainWrites(inTime) ==
  /\ pc = "writing"
  /\ asked' = (link = "up" /\ inTime)
  /\ pc' = "reading"
  /\ UNCHANGED <<stop, pcmOpen, draining, sawError, events, finals, owed, evt, readerVars,
                 link, wire, sent>>

DrainReceives ==
  /\ pc = "reading" /\ evt # <<>>
  /\ evt' = Tail(evt)
  /\ IF Head(evt) = "closed"
     THEN LoopEnds(Tail(evt)) /\ UNCHANGED <<events, finals>>
     ELSE Forwards(Head(evt)) /\ UNCHANGED <<pc, owed>>
  /\ UNCHANGED <<draining, sawError>> /\ TaskUnchanged

(* Mutant: an idle window that ran out just closes.                         *)
DrainIdlesQuietly ==
  /\ pc = "reading" /\ evt = <<>>
  /\ LoopEnds(<<>>)
  /\ UNCHANGED <<draining, sawError, events, finals, evt>> /\ TaskUnchanged

(* No frame for the idle window, though one may be on its way.              *)
DrainIdles ==
  /\ pc = "reading" /\ evt = <<>>
  /\ events' = events \cup {"incomplete"}
  /\ LoopEnds(<<>>)
  /\ UNCHANGED <<draining, sawError, finals, evt>> /\ TaskUnchanged

(* WRITE_FAIL_GRACE: wait for the reader's terminal message.  An error it   *)
(* reported, now, speaks for the lost connection.                           *)
SpeaksForLoss(m) == m \in {"error", "restart", "refusal", "readError"}

GraceReceives ==
  /\ pc = "grace" /\ evt # <<>>
  /\ evt' = Tail(evt)
  /\ IF Head(evt) = "closed"
     THEN LoopEnds(Tail(evt)) /\ UNCHANGED <<events, finals>>
     ELSE Forwards(Head(evt)) /\ UNCHANGED <<pc, owed>>
  /\ sawError' = (sawError \/ SpeaksForLoss(Head(evt)))
  /\ UNCHANGED draining /\ TaskUnchanged

GraceEnds ==
  /\ pc = "grace" /\ evt = <<>>
  /\ events' = IF sawError THEN events ELSE events \cup {"lost"}
  /\ LoopEnds(<<>>)
  /\ UNCHANGED <<draining, sawError, finals, evt>> /\ TaskUnchanged

(* Mutant: what the reader queued meanwhile is dropped.                     *)
LeftoversDropped ==
  /\ pc = "leftovers"
  /\ pc' = "settling"
  /\ UNCHANGED <<draining, sawError, owed, events, finals, evt>> /\ TaskUnchanged

(* try_recv until nothing, or Closed, is queued.                            *)
Leftovers ==
  /\ pc = "leftovers"
  /\ events' = events \cup UNION {EventOf(evt[i]) : i \in DOMAIN evt}
  /\ finals' = finals + FinalsIn(evt)
  /\ evt' = <<>>
  /\ pc' = "settling"
  /\ UNCHANGED <<draining, sawError, owed>> /\ TaskUnchanged

(* Abort the reader, decide about the recording (StreamSession), close.     *)
Ends ==
  /\ pc = "settling"
  /\ reader' = "ended"
  /\ events' = events \cup {"closed"}
  /\ pc' = "done"
  /\ UNCHANGED <<stop, pcmOpen, draining, sawError, finals, owed, evt,
                 errorSeen, closing, serverVars>>

-----------------------------------------------------------------------------
Server ==
  \/ \E f \in Frames : ServerSends(f)
  \/ \E how \in {"broken", "hung"} : LinkFails(how)

Reader ==
  \/ ReadsFrame
  \/ ReadsClosing
  \/ ReadsClose
  \/ ReadError
  \/ GraceElapses

Task ==
  \/ WsSetupFails
  \/ WsConnects
  \/ LiveStops
  \/ LiveReceives
  \/ LiveWriteFails
  \/ LiveWriteStalls
  \/ \E inTime \in BOOLEAN : DrainWrites(inTime)
  \/ DrainReceives
  \/ DrainIdles
  \/ GraceReceives
  \/ GraceEnds
  \/ Leftovers
  \/ Ends

WsNext ==
  \/ StopSent
  \/ CaptureEnds
  \/ Server
  \/ Reader
  \/ Task

WsSpec == WsInit /\ [][WsNext]_wsVars

(* Both tasks are scheduled, every await of run() has a deadline, and a     *)
(* keepalive is written every 10 s; nobody need stop or answer.             *)
WsFairSpec == WsSpec /\ WF_wsVars(Reader) /\ WF_wsVars(Task)

-----------------------------------------------------------------------------
Closed == "closed" \in events
Spoke  == events \cap {"error", "closeError", "readError", "lost", "failed",
                       "incomplete"} # {}

(* No bare `closed` hides a loss: a session that ends without the server's  *)
(* last `final`, its `closing` or an ordinary close has said so first, by   *)
(* an error or as incomplete, whichever half saw the socket die.            *)
NothingLostSilently ==
  Closed => /\ finals >= owed
            /\ Spoke \/ "last" \in events \/ closing # "no"

(* A stopped session, or one whose link is gone, reaches `closed`: "every   *)
(* socket read/write is bounded".                                           *)
SessionCloses == (stop \/ link # "up") ~> Closed
=============================================================================
