---------------------------- MODULE ChordEngine ----------------------------
(***************************************************************************)
(* The chord engine both hotkey backends share                             *)
(* (src-tauri/src/hotkeys/chord_engine.rs): which chords may register side *)
(* by side, and what one key transition fires.  A chord is a record of its *)
(* keys and its kind; its profile is its place in the registered list.     *)
(***************************************************************************)
EXTENDS Naturals, Sequences, SequencesExt

ChordKinds == {"hold", "handsFree", "quickAdd"}

MayNestIn(kind, sup) == kind = "hold" /\ sup = "handsFree"

Inside(a, b) == a \subseteq b /\ a # b

(* The bug: only the chord that is contained is refused, not its superset. *)
ConflictsOneWay(existing, candidate) ==
  \/ candidate.keys = existing.keys
  \/ Inside(candidate.keys, existing.keys) /\ ~MayNestIn(candidate.kind, existing.kind)

(* registration_conflict: may not register beside the accepted `existing`. *)
Conflicts(existing, candidate) ==
  \/ candidate.keys = existing.keys
  \/ Inside(candidate.keys, existing.keys) /\ ~MayNestIn(candidate.kind, existing.kind)
  \/ Inside(existing.keys, candidate.keys) /\ ~MayNestIn(existing.kind, candidate.kind)

(* chords_from: in config order, the first of two that clash wins.         *)
RegisterNext(accepted, candidate) ==
  IF \E c \in ToSet(accepted) : Conflicts(c, candidate)
  THEN accepted ELSE Append(accepted, candidate)

Accepting(candidates) ==
  LET upTo[n \in 0..Len(candidates)] ==
        IF n = 0 THEN <<>> ELSE RegisterNext(upTo[n - 1], candidates[n])
  IN upTo

Registered(candidates) == Accepting(candidates)[Len(candidates)]

-----------------------------------------------------------------------------
(* The engine: the chords that fired and are not re-armed, the chords fully *)
(* held at the last event, and the active holds in the order they started.  *)
NewEngine == [active |-> {}, prev |-> {}, started |-> <<>>]

Subsets(chords, i) ==
  {j \in DOMAIN chords : Inside(chords[j].keys, chords[i].keys)}

(* A peer fully held, other than one of i's own strict subsets.            *)
BlockedByPeer(chords, fully, i) == \E j \in fully \ {i} : j \notin Subsets(chords, i)

Fire(e, fires) == [e EXCEPT !.fires = @ \o fires]

(* The active holds inside chord i, as their places in the starting order.  *)
Donors(chords, e, i) == {n \in DOMAIN e.started : e.started[n] \in Subsets(chords, i)}

(* Hold i is no longer active.                                             *)
PlaceOf(started, i) == CHOOSE n \in DOMAIN started : started[n] = i
Forget(e, i) ==
  [e EXCEPT !.active = @ \ {i}, !.started = RemoveAt(@, PlaceOf(@, i))]

(* The bug: a hold whose release a peer suppresses is forgotten without its *)
(* stop.                                                                   *)
HoldArmStopsUnlessBlocked(chords, fully, e, i) ==
  CASE i \in fully \ e.prev /\ ~BlockedByPeer(chords, fully, i) /\ i \notin e.active ->
         Fire([e EXCEPT !.active = @ \cup {i}, !.started = Append(@, i)],
              <<<<"start", i>>>>)
    [] i \in e.prev \ fully /\ i \in e.active ->
         Fire(Forget(e, i), IF BlockedByPeer(chords, fully, i) THEN <<>> ELSE <<<<"stop", i>>>>)
    [] OTHER -> e

HoldArm(chords, fully, e, i) ==
  CASE i \in fully \ e.prev /\ ~BlockedByPeer(chords, fully, i) /\ i \notin e.active ->
         Fire([e EXCEPT !.active = @ \cup {i}, !.started = Append(@, i)],
              <<<<"start", i>>>>)
    [] i \in e.prev \ fully /\ i \in e.active ->
         Fire(Forget(e, i), <<<<"stop", i>>>>)
    [] OTHER -> e

(* The bug: a hold that is upgraded stays the engine's.                    *)
Upgrades(chords, fully, e, i) ==
  /\ i \in fully \ e.prev /\ ~BlockedByPeer(chords, fully, i) /\ i \notin e.active
  /\ Donors(chords, e, i) # {}
HandsFreeArmKeepsHold(chords, fully, e, i) ==
  IF Upgrades(chords, fully, e, i)
  THEN Fire([e EXCEPT !.active = @ \cup {i}], <<<<"reclassify", i>>>>)
  ELSE IF i \notin fully THEN [e EXCEPT !.active = @ \ {i}] ELSE e

HandsFreeArm(chords, fully, e, i) ==
  LET donors == Donors(chords, e, i)
      donor  == e.started[Max(donors)]   \* the most recent
  IN CASE i \in fully \ e.prev /\ ~BlockedByPeer(chords, fully, i) /\ i \notin e.active ->
            IF donors = {}
            THEN Fire([e EXCEPT !.active = @ \cup {i}], <<<<"toggle", i>>>>)
            ELSE Fire(Forget([e EXCEPT !.active = @ \cup {i}], donor),
                      <<<<"release", donor>>, <<"reclassify", i>>>>)
       [] i \notin fully -> [e EXCEPT !.active = @ \ {i}]
       [] OTHER -> e

QuickAddArm(chords, fully, e, i) ==
  CASE i \in fully \ e.prev /\ ~BlockedByPeer(chords, fully, i) /\ i \notin e.active ->
         Fire([e EXCEPT !.active = @ \cup {i}], <<<<"quickAdd", i>>>>)
    [] i \notin fully -> [e EXCEPT !.active = @ \ {i}]
    [] OTHER -> e

StepChord(chords, fully, e, i) ==
  CASE chords[i].kind = "hold" -> HoldArm(chords, fully, e, i)
    [] chords[i].kind = "handsFree" -> HandsFreeArm(chords, fully, e, i)
    [] OTHER -> QuickAddArm(chords, fully, e, i)

FullyHeld(chords, held) == {i \in DOMAIN chords : chords[i].keys \subseteq held}

(* The chords one after another, in list order.                            *)
Sweep(chords, fully, start) ==
  LET after[n \in 0..Len(chords)] ==
        IF n = 0 THEN start ELSE StepChord(chords, fully, after[n - 1], n)
  IN after

(* Engine::step: every chord, then the levels are remembered.  The fires of *)
(* the event are left in .fires.                                           *)
Step(chords, engine, held) ==
  LET fully == FullyHeld(chords, held)
      start == [active |-> engine.active, prev |-> engine.prev,
                started |-> engine.started, fires |-> <<>>]
  IN [Sweep(chords, fully, start)[Len(chords)] EXCEPT !.prev = fully]

EngineOf(e) == [active |-> e.active, prev |-> e.prev, started |-> e.started]

(* active_holds, keys_for_profile: what a teardown still owes.             *)
ActiveHolds(chords, engine) == {i \in engine.active : chords[i].kind = "hold"}
=============================================================================
