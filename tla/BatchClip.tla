----------------------------- MODULE BatchClip ------------------------------
(***************************************************************************)
(* What batch dictation promises about a recorded clip, without threads,   *)
(* locks or event channels: it is recorded, taken by one transcription at  *)
(* most, sent at most once and never while withdrawn, and what it leaves   *)
(* on disk is decided once, by whether it is withdrawn at that moment.     *)
(* RecordSession (src-tauri/src/session.rs) implements it.                 *)
(***************************************************************************)
EXTENDS Integers, FiniteSets

CONSTANTS
  Clips,   \* names of clips
  Memory   \* how many withdrawals are remembered

VARIABLES
  fate,       \* per clip: how far it has come
  withdrawn,  \* clips whose withdrawal is remembered
  files       \* clips with something on disk

vars == <<fate, withdrawn, files>>

Fates == {"none", "recording", "taken", "sent", "over"}

TypeOK ==
  /\ fate \in [Clips -> Fates]
  /\ withdrawn \subseteq Clips /\ Cardinality(withdrawn) <= Memory
  /\ files \subseteq Clips

Init ==
  /\ fate = [c \in Clips |-> "none"]
  /\ withdrawn = {} /\ files = {}

Becomes(c, from, to) ==
  /\ fate[c] \in from /\ fate'[c] = to
  /\ fate' = [fate EXCEPT ![c] = to]

Record(c) == Becomes(c, {"none"}, "recording") /\ UNCHANGED <<withdrawn, files>>

(* Discarded, replaced, or never heard: nobody takes it.                   *)
GiveUp(c) == Becomes(c, {"recording"}, "over") /\ UNCHANGED <<withdrawn, files>>

Take(c) == Becomes(c, {"recording"}, "taken") /\ UNCHANGED <<withdrawn, files>>

(* The recording reaches the disk before it is sent.                       *)
Keep(c) ==
  /\ fate[c] = "taken" /\ c \notin files /\ c \in files'
  /\ files' = files \cup {c}
  /\ UNCHANGED <<fate, withdrawn>>

Send(c) ==
  /\ c \notin withdrawn
  /\ Becomes(c, {"taken"}, "sent")
  /\ UNCHANGED <<withdrawn, files>>

(* A withdrawn clip leaves nothing; any other keeps what was kept.          *)
Conclude(c) ==
  /\ Becomes(c, {"taken", "sent"}, "over")
  /\ files' \in IF c \in withdrawn THEN {files \ {c}} ELSE {files, files \cup {c}}
  /\ UNCHANGED withdrawn

(* Only a full memory forgets, and then one withdrawal.                     *)
Withdraw(c) ==
  /\ c \notin withdrawn /\ c \in withdrawn'
  /\ IF Cardinality(withdrawn) < Memory
     THEN withdrawn' = withdrawn \cup {c}
     ELSE \E old \in withdrawn : withdrawn' = (withdrawn \ {old}) \cup {c}
  /\ UNCHANGED <<fate, files>>

Next ==
  \E c \in Clips :
    Record(c) \/ GiveUp(c) \/ Take(c) \/ Keep(c) \/ Send(c) \/ Conclude(c) \/ Withdraw(c)

Spec == Init /\ [][Next]_vars
=============================================================================
