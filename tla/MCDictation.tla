---------------------------- MODULE MCDictation ----------------------------
(***************************************************************************)
(* Bounds for TLC: how many gestures the user makes, and how many commands, *)
(* events and rejections may outlast the prologue of the next start.        *)
(***************************************************************************)
EXTENDS DictationController

Budget(via, gestures, late) == [via |-> via, gestures |-> gestures, late |-> late]

\* Three gestures each; over a stream, where sessions have more ways to go
\* on, two with a late arrival.
MCBudgets == {Budget("stream", 3, 0), Budget("stream", 2, 1), Budget("batch", 3, 1)}

\* The Home button starts, cancels and starts; one command is late.
LateCancel == {Budget("stream", 3, 1), Budget("batch", 3, 1)}
=============================================================================
