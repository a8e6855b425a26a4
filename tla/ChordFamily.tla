---------------------------- MODULE ChordFamily ----------------------------
(***************************************************************************)
(* One keyboard in front of the chord engine, and the dictation session    *)
(* the fired triggers run, for every list of chords a configuration may    *)
(* hold.  Keys go down and up in any order; each transition is one         *)
(* Engine::step.                                                           *)
(***************************************************************************)
EXTENDS ChordEngine, FiniteSets

CONSTANTS AllKeys, MaxChords

ASSUME KeysAssumption == IsFiniteSet(AllKeys) /\ AllKeys # {} /\ MaxChords \in Nat

VARIABLES
  chords,    \* the registered chords
  pressed,   \* the keys that are down
  engine,    \* the engine's state
  fired,     \* what the last transition fired
  dictation  \* the session the triggers run in the window, NotDictating if none

familyVars == <<chords, pressed, engine, fired, dictation>>

NotDictating == [mode |-> "none", by |-> 0, upgraded |-> FALSE]

Chord == [keys : (SUBSET AllKeys) \ {{}}, kind : ChordKinds]

Configs == {Registered(c) : c \in UNION {[1..n -> Chord] : n \in 1..MaxChords}}

FamilyInit ==
  /\ chords \in Configs
  /\ pressed = {} /\ engine = NewEngine /\ fired = <<>> /\ dictation = NotDictating

(* What the window makes of a trigger (dictation.ts, dictate): a stop ends  *)
(* any session, a toggle starts or ends one, a reclassify upgrades a hold.  *)
Dictating(mode, i, upgraded) == [mode |-> mode, by |-> i, upgraded |-> upgraded]

Dictate(s, fire) ==
  CASE fire[1] = "start" -> IF s = NotDictating THEN Dictating("hold", fire[2], FALSE) ELSE s
    [] fire[1] = "stop" -> NotDictating
    [] fire[1] = "toggle" ->
         IF s = NotDictating THEN Dictating("handsFree", fire[2], FALSE) ELSE NotDictating
    [] fire[1] = "reclassify" ->
         IF s.mode = "handsFree" THEN NotDictating
         ELSE Dictating("handsFree", fire[2], s.mode = "hold")
    [] OTHER -> s

(* The triggers of one transition, in their order.                         *)
Dictated(s, triggers) ==
  LET upTo[n \in 0..Len(triggers)] ==
        IF n = 0 THEN s ELSE Dictate(upTo[n - 1], triggers[n])
  IN upTo[Len(triggers)]

Transition(keys) ==
  LET e == Step(chords, engine, keys)
      \* a further press is a gesture of its own: the upgrade is history
      s == IF keys \subseteq pressed THEN dictation ELSE [dictation EXCEPT !.upgraded = FALSE]
  IN /\ pressed' = keys
     /\ engine' = EngineOf(e)
     /\ fired' = e.fires
     /\ dictation' = Dictated(s, e.fires)
     /\ UNCHANGED chords

KeyGoesDown(k) == k \notin pressed /\ Transition(pressed \cup {k})
KeyGoesUp(k)   == k \in pressed /\ Transition(pressed \ {k})

FamilyNext == \E k \in AllKeys : KeyGoesDown(k) \/ KeyGoesUp(k)

FamilySpec == FamilyInit /\ [][FamilyNext]_familyVars

-----------------------------------------------------------------------------

FireNames == {"start", "stop", "release", "toggle", "reclassify", "quickAdd"}

(* The engine's state is about the registered chords, and the active holds *)
(* are the ones whose start is remembered.                                 *)
FamilyTypeOK ==
  /\ chords \in Seq(Chord) /\ pressed \subseteq AllKeys
  /\ engine.active \cup engine.prev \subseteq DOMAIN chords
  /\ ToSet(engine.started) = ActiveHolds(chords, engine)
  /\ IsInjective(engine.started)
  /\ \A i \in DOMAIN fired : fired[i] \in FireNames \X DOMAIN chords
  /\ dictation \in [mode : {"none", "hold", "handsFree"}, by : 0..MaxChords,
                    upgraded : BOOLEAN]

(* A push-to-talk session runs only while every key of its chord is down:  *)
(* whatever else is pressed, suppressed, handed over or released in        *)
(* between, no session is left listening to a chord nobody holds.          *)
HoldMeansHeld ==
  dictation.mode = "hold" =>
    /\ chords[dictation.by].keys \subseteq pressed
    /\ dictation.by \in engine.active

(* No two push-to-talk chords are ever live at once, in any list of chords *)
(* the registration lets through: the first one to complete silences its    *)
(* peers, and nested holds never register; and a transition that completes *)
(* several chords at once is ambiguous and fires at most one of them.      *)
OneChordWins ==
  /\ Cardinality(ActiveHolds(chords, engine)) <= 1
  /\ Cardinality({i \in DOMAIN fired :
                    fired[i][1] \in {"start", "toggle", "reclassify", "quickAdd"}}) <= 1

(* A session upgraded to hands-free outlives the keys that started it: the *)
(* hold handed it over, so its own release stops nothing.                  *)
UpgradeOutlivesTheKeys ==
  [][dictation.upgraded /\ Inside(pressed', pressed) => dictation' = dictation]_familyVars
=============================================================================
