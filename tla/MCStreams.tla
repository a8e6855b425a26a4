----------------------------- MODULE MCStreams -----------------------------
(***************************************************************************)
(* What a streaming session is made of, for TLC: its commands and threads,  *)
(* its socket, and its clip cutter.  They share no variable, so a behaviour *)
(* of the three together is one of each, and a run that moves one of them,  *)
(* chosen at the start, with the others at rest, checks what a run of each  *)
(* alone would.                                                            *)
(***************************************************************************)
EXTENDS StreamSession, StreamWs, ClipCutter

VARIABLE part   \* the one that moves

PartsInit ==
  /\ part \in {"session", "socket", "clips"}
  /\ Init /\ WsInit /\ CutInit

SessionMoves == part = "session" /\ Next    /\ UNCHANGED <<part, wsVars, cutVars>>
SocketMoves  == part = "socket"  /\ WsNext  /\ UNCHANGED <<part, vars, cutVars>>
ClipsMove    == part = "clips"   /\ CutNext /\ UNCHANGED <<part, vars, wsVars>>

PartsNext == SessionMoves \/ SocketMoves \/ ClipsMove

(* The session's threads are idle at rest; the socket's tasks are not, so    *)
(* their fairness speaks of the runs that move them.                        *)
PartsSpec ==
  /\ PartsInit /\ [][PartsNext]_<<part, vars, wsVars, cutVars>>
  /\ Fairness
  /\ WF_wsVars(part = "socket" /\ Reader) /\ WF_wsVars(part = "socket" /\ Task)
=============================================================================
