-------------------------- MODULE MCHotkeyListener --------------------------
(***************************************************************************)
(* The chord lists the listener is checked with: a push-to-talk chord of   *)
(* two modifiers (or one) inside its hands-free upgrade, and two chords    *)
(* that share no key.                                                      *)
(***************************************************************************)
EXTENDS HotkeyListener

Family == << [keys |-> {"ctrl", "shift"}, kind |-> "hold"],
             [keys |-> {"ctrl", "shift", "space"}, kind |-> "handsFree"] >>

Pair == << [keys |-> {"ctrl"}, kind |-> "hold"],
           [keys |-> {"f9"}, kind |-> "hold"] >>

OneModFamily == << [keys |-> {"ctrl"}, kind |-> "hold"],
                   [keys |-> {"ctrl", "space"}, kind |-> "handsFree"] >>
=============================================================================
