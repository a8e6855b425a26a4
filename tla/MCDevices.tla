----------------------------- MODULE MCDevices -----------------------------
(***************************************************************************)
(* The input and output devices, for TLC: the hotkey listener, the chord    *)
(* engine on its own against every registrable list, and the mute worker.   *)
(* They share no variable, so a behaviour of the three together is one of   *)
(* each, and a run that moves one of them, chosen at the start, with the    *)
(* others at rest, checks what a run of each alone would.                  *)
(***************************************************************************)
EXTENDS MCHotkeyListener, ChordFamily, MuteWorker

VARIABLE part   \* the one that moves

\* A part at rest has one initial state.
PartsInit ==
  /\ part \in {"listener", "chords", "mute"}
  /\ Init /\ FamilyInit /\ MuteInit
  /\ part # "chords" => chords = CHOOSE c \in Configs : TRUE
  /\ part # "mute" => muted = {}

ListenerMoves == part = "listener" /\ Next       /\ UNCHANGED <<part, familyVars, muteVars>>
ChordsMove    == part = "chords"   /\ FamilyNext /\ UNCHANGED <<part, vars, muteVars>>
MuteMoves     == part = "mute"     /\ MuteNext   /\ UNCHANGED <<part, vars, familyVars>>

PartsNext == ListenerMoves \/ ChordsMove \/ MuteMoves

\* No fair step of the listener is enabled while it is at rest.
PartsSpec ==
  PartsInit /\ [][PartsNext]_<<part, vars, familyVars, muteVars>> /\ Fairness
=============================================================================
