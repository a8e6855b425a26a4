--------------------------- MODULE HotkeyProofs ---------------------------
(***************************************************************************)
(* Proofs about the hotkeys: the chord engine in front of one keyboard, for *)
(* every list of chords a configuration may hold, and the Linux listener   *)
(* around it, for every number of restarts.  In the listener's part what   *)
(* the engine fires is left open: none of it is needed.                    *)
(***************************************************************************)
EXTENDS HotkeyListener, ChordFamily, NaturalsInduction, WellFoundedInduction,
        FiniteSetTheorems, SequenceTheorems, TLAPS

-----------------------------------------------------------------------------
(* The chord engine.  Recursion over a list: what holds of 0, and of each n *)
(* if of n - 1, holds up to the end.                                       *)

LEMMA UpTheList ==
  ASSUME NEW N \in Nat, NEW P, 0 \in P, \A n \in 1..N : n - 1 \in P => n \in P
  PROVE  0..N \subseteq P
<1> DEFINE R == {ss \in Nat \X Nat : ss[1] < ss[2]}
           T == {n \in 0..N : n \notin P}
<1> SUFFICES ASSUME T # {} PROVE FALSE
  OBVIOUS
<1>1. IsWellFoundedOn(R, Nat)
  BY NatLessThanWellFounded DEF OpToRel
<1>2. \A x, y \in Nat : y < x => <<y, x>> \in R
  OBVIOUS
<1>3. T \subseteq Nat
  OBVIOUS
<1> HIDE DEF R
<1>4. PICK n \in T : \A y \in T : <<y, n>> \notin R
  <2> HIDE DEF T
  <2> QED BY <1>1, <1>3, WFMin
<1>5. n \in 1..N /\ n - 1 \in Nat /\ n - 1 < n
  OBVIOUS
<1>6. n - 1 \notin T
  BY <1>2, <1>4, <1>5, <1>3
<1> QED
  BY <1>5, <1>6

Runs(f, N, base, next) == f[0] = base /\ \A n \in 1..N : f[n] = next[<<f[n - 1], n>>]

LEMMA Recursion ==
  ASSUME NEW N \in Nat, NEW S, NEW base \in S, NEW next \in [S \X (1..N) -> S]
  PROVE  \E f \in [0..N -> S] : Runs(f, N, base, next)
<1> DEFINE Run(k, f) == f[0] = base /\ \A n \in 1..k : f[n] = next[<<f[n - 1], n>>]
           P == {k \in 0..N : \E f \in [0..k -> S] : Run(k, f)}
<1>1. 0 \in P
  <2>1. [n \in 0..0 |-> base] \in [0..0 -> S] /\ Run(0, [n \in 0..0 |-> base])
    OBVIOUS
  <2>2. \E f \in [0..0 -> S] : Run(0, f)
    <3> HIDE DEF Run
    <3> QED
      BY <2>1
  <2> QED
    BY <2>2
<1>2. ASSUME NEW k \in 1..N, k - 1 \in P PROVE k \in P
  <2>1. PICK f \in [0..(k - 1) -> S] : Run(k - 1, f)
    BY <1>2
  <2> DEFINE g == [n \in 0..k |-> IF n = k THEN next[<<f[k - 1], k>>] ELSE f[n]]
  <2>2. f[k - 1] \in S
    OBVIOUS
  <2>3. g \in [0..k -> S]
    BY <2>2
  <2>4. g[0] = base
    BY <2>1
  <2>5. ASSUME NEW n \in 1..k PROVE g[n] = next[<<g[n - 1], n>>]
    <3>1. n - 1 \in 0..k /\ n - 1 # k /\ n \in 0..k
      OBVIOUS
    <3>2. g[n - 1] = f[n - 1]
      BY <3>1
    <3>3. CASE n = k
      BY <3>1, <3>2, <3>3
    <3>4. CASE n # k
      <4>1. n \in 1..(k - 1)
        BY <3>4
      <4>2. f[n] = next[<<f[n - 1], n>>]
        BY <4>1, <2>1
      <4> QED
        BY <3>1, <3>2, <3>4, <4>2
    <3> QED
      BY <3>3, <3>4
  <2> HIDE DEF g
  <2> QED
    BY <2>3, <2>4, <2>5
<1>3. N \in P
  <2> HIDE DEF P
  <2>1. 0..N \subseteq P
    BY <1>1, <1>2, UpTheList
  <2> QED
    BY <2>1
<1> QED
  BY <1>3 DEF Runs

-----------------------------------------------------------------------------
(* Registration: no two chords of a list it lets through conflict.          *)

Compatible(list) == \A i, j \in DOMAIN list : i # j => ~Conflicts(list[i], list[j])

LEMMA ConflictIsMutual ==
  ASSUME NEW a \in Chord, NEW b \in Chord
  PROVE  Conflicts(a, b) <=> Conflicts(b, a)
  BY DEF Conflicts

LEMMA RegisterNextType ==
  ASSUME NEW list \in Seq(Chord), NEW c \in Chord
  PROVE  /\ RegisterNext(list, c) \in Seq(Chord)
         /\ Len(RegisterNext(list, c)) <= Len(list) + 1
         /\ Compatible(list) => Compatible(RegisterNext(list, c))
<1>1. CASE \E d \in ToSet(list) : Conflicts(d, c)
  <2>1. RegisterNext(list, c) = list
    BY <1>1 DEF RegisterNext
  <2>2. Len(list) \in Nat
    OBVIOUS
  <2> QED
    BY <2>1, <2>2
<1>2. CASE ~\E d \in ToSet(list) : Conflicts(d, c)
  <2>1. RegisterNext(list, c) = Append(list, c)
    BY <1>2 DEF RegisterNext
  <2>2. Append(list, c) \in Seq(Chord) /\ Len(Append(list, c)) = Len(list) + 1
    OBVIOUS
  <2>3. ASSUME Compatible(list), NEW i \in DOMAIN Append(list, c), NEW j \in DOMAIN Append(list, c),
               i # j
        PROVE  ~Conflicts(Append(list, c)[i], Append(list, c)[j])
    <3>1. \A n \in DOMAIN Append(list, c) :
            \/ n \in DOMAIN list /\ Append(list, c)[n] = list[n] /\ list[n] \in Chord
            \/ n = Len(list) + 1 /\ Append(list, c)[n] = c
      OBVIOUS
    <3>2. \A n \in DOMAIN list : ~Conflicts(list[n], c)
      BY <1>2 DEF ToSet
    <3>3. \A n \in DOMAIN list : ~Conflicts(c, list[n])
      <4>1. \A n \in DOMAIN list : list[n] \in Chord
        OBVIOUS
      <4> QED
        BY <3>2, <4>1, ConflictIsMutual
    <3> QED
      BY <2>3, <3>1, <3>2, <3>3 DEF Compatible
  <2>4. Compatible(list) => Compatible(Append(list, c))
    BY <2>3 DEF Compatible
  <2> QED
    BY <2>1, <2>2, <2>4
<1> QED
  BY <1>1, <1>2

LEMMA RegisteredIsCompatible ==
  ASSUME NEW candidates \in Seq(Chord)
  PROVE  /\ Registered(candidates) \in Seq(Chord)
         /\ Len(Registered(candidates)) <= Len(candidates)
         /\ Compatible(Registered(candidates))
<1> DEFINE N == Len(candidates)
           S == Seq(Chord)
           next == [sn \in S \X (1..N) |-> RegisterNext(sn[1], candidates[sn[2]])]
           Eq(f) == f = [n \in 0..N |-> IF n = 0 THEN <<>>
                                        ELSE RegisterNext(f[n - 1], candidates[n])]
           f == Accepting(candidates)
<1>1. N \in Nat /\ <<>> \in S /\ \A n \in 1..N : candidates[n] \in Chord
  OBVIOUS
<1>2. next \in [S \X (1..N) -> S]
  <2>1. ASSUME NEW sn \in S \X (1..N)
        PROVE  RegisterNext(sn[1], candidates[sn[2]]) \in S
    <3>1. sn[1] \in S /\ candidates[sn[2]] \in Chord
      BY <1>1
    <3> QED
      BY <3>1, RegisterNextType
  <2> QED
    BY <2>1
<1>3. \E g : Eq(g)
  <2> DEFINE none == <<>>
  <2>1. N \in Nat /\ none \in S
    BY <1>1
  <2>2. PICK g \in [0..N -> S] : Runs(g, N, none, next)
    <3> HIDE DEF next, N, S, none
    <3> QED
      BY <1>2, <2>1, Recursion
  <2>3. ASSUME NEW n \in 1..N PROVE next[<<g[n - 1], n>>] = RegisterNext(g[n - 1], candidates[n])
    <3>1. n - 1 \in 0..N
      OBVIOUS
    <3>2. g[n - 1] \in S
      BY <3>1
    <3> QED
      BY <3>2
  <2>4. \A n \in 0..N : n = 0 \/ n \in 1..N
    OBVIOUS
  <2>5. g = [n \in 0..N |-> g[n]]
    OBVIOUS
  <2>6. \A n \in 0..N : g[n] = IF n = 0 THEN <<>> ELSE RegisterNext(g[n - 1], candidates[n])
    <3> HIDE DEF next, N, S
    <3> QED
      BY <2>2, <2>3, <2>4 DEF Runs
  <2>7. Eq(g)
    <3> HIDE DEF next, N, S
    <3> QED
      BY <2>5, <2>6
  <2> QED
    BY <2>7
<1>4. Eq(f)
  <2>1. f = CHOOSE g : Eq(g)
    BY DEF Accepting
  <2> HIDE DEF f, Eq
  <2> QED
    BY <1>3, <2>1
<1>5. f[0] = <<>> /\ \A n \in 1..N : f[n] = RegisterNext(f[n - 1], candidates[n])
  <2> HIDE DEF f
  <2> QED
    BY <1>4, <1>1
<1> DEFINE P == {n \in 0..N : f[n] \in S /\ Len(f[n]) <= n /\ Compatible(f[n])}
<1>6. 0 \in P
  <2>1. f[0] = <<>> /\ 0 \in 0..N /\ <<>> \in S
    BY <1>1, <1>5
  <2>2. Len(<<>>) <= 0 /\ DOMAIN <<>> = {}
    OBVIOUS
  <2>3. Compatible(<<>>)
    BY <2>2 DEF Compatible
  <2> HIDE DEF f
  <2> QED
    BY <2>1, <2>2, <2>3
<1>7. ASSUME NEW n \in 1..N, n - 1 \in P PROVE n \in P
  <2>1. f[n - 1] \in S /\ Len(f[n - 1]) <= n - 1 /\ Compatible(f[n - 1])
    BY <1>7
  <2>2. f[n] = RegisterNext(f[n - 1], candidates[n])
    BY <1>5
  <2>3. f[n] \in S /\ Len(f[n]) <= Len(f[n - 1]) + 1 /\ Compatible(f[n])
    BY <2>1, <2>2, <1>1, RegisterNextType
  <2>4. Len(f[n]) \in Nat /\ Len(f[n - 1]) \in Nat
    BY <2>1, <2>3
  <2>5. Len(f[n]) <= n
    BY <2>1, <2>3, <2>4
  <2> QED
    BY <2>3, <2>5
<1>8. N \in P
  <2>1. 0..N \subseteq P
    <3> HIDE DEF P, N
    <3> QED
      BY <1>1, <1>6, <1>7, UpTheList
  <2> QED
    BY <2>1, <1>1
<1> QED
  BY <1>8 DEF Registered

-----------------------------------------------------------------------------
(* One event of the engine.                                                *)

Lists == {list \in Seq(Chord) : Compatible(list)}

Fires(list) == Seq(FireNames \X DOMAIN list)

Engines(list) ==
  [active : SUBSET DOMAIN list, prev : SUBSET DOMAIN list, started : Seq(DOMAIN list),
   fires : Fires(list)]

(* Chord w completes at this event and no peer is in its way.              *)
Wins(list, fully, prev, w) == w \in fully \ prev /\ ~BlockedByPeer(list, fully, w)

LEMMA ChordsOfAList ==
  ASSUME NEW list \in Lists
  PROVE  /\ Len(list) \in Nat /\ DOMAIN list = 1..Len(list)
         /\ \A i \in DOMAIN list : list[i] \in Chord /\ list[i].kind \in ChordKinds
<1>1. list \in Seq(Chord)
  BY DEF Lists
<1>2. \A c \in Chord : c.kind \in ChordKinds
  BY DEF Chord
<1>3. Len(list) \in Nat /\ DOMAIN list = 1..Len(list) /\ \A i \in DOMAIN list : list[i] \in Chord
  BY <1>1
<1> QED
  BY <1>2, <1>3

LEMMA OneWinner ==
  ASSUME NEW list \in Lists, NEW fully \in SUBSET DOMAIN list, NEW prev,
         NEW v, NEW w, Wins(list, fully, prev, v), Wins(list, fully, prev, w)
  PROVE  v = w
<1> SUFFICES ASSUME v # w PROVE FALSE
  OBVIOUS
<1>1. v \in Subsets(list, w) /\ w \in Subsets(list, v)
  BY DEF Wins, BlockedByPeer
<1> QED
  BY <1>1 DEF Subsets, Inside

(* The first engine of a sweep is the one it starts with, and each next one *)
(* takes one chord: any such run is the sweep.                             *)
LEMMA SweepIs ==
  ASSUME NEW list \in Lists, NEW fully, NEW e, NEW g,
         g = [n \in 0..Len(list) |-> IF n = 0 THEN e ELSE StepChord(list, fully, g[n - 1], n)]
  PROVE  Sweep(list, fully, e)[Len(list)] = g[Len(list)]
<1> DEFINE N == Len(list)
           Eq(f) == f = [n \in 0..N |-> IF n = 0 THEN e ELSE StepChord(list, fully, f[n - 1], n)]
           f == Sweep(list, fully, e)
           P == {n \in 0..N : f[n] = g[n]}
<1>1. N \in Nat
  BY ChordsOfAList
<1>2. Eq(f)
  <2>1. f = CHOOSE h : Eq(h)
    BY DEF Sweep
  <2>2. Eq(g)
    OBVIOUS
  <2> HIDE DEF f, Eq
  <2> QED
    BY <2>1, <2>2
<1>3. f[0] = e /\ \A n \in 1..N : f[n] = StepChord(list, fully, f[n - 1], n)
  <2> HIDE DEF f
  <2> QED
    BY <1>2, <1>1
<1>4. g[0] = e /\ \A n \in 1..N : g[n] = StepChord(list, fully, g[n - 1], n)
  BY <1>1
<1> HIDE DEF f
<1>5. 0 \in P
  BY <1>1, <1>3, <1>4
<1>6. ASSUME NEW n \in 1..N, n - 1 \in P PROVE n \in P
  BY <1>3, <1>4, <1>6
<1>7. 0..N \subseteq P
  <2> HIDE DEF P, N
  <2> QED
    BY <1>1, <1>5, <1>6, UpTheList
<1> QED
  BY <1>1, <1>7 DEF f

(* A chord that neither completes nor was let go leaves the engine alone.   *)
LEMMA StepIdles ==
  ASSUME NEW list \in Lists, NEW fully \in SUBSET DOMAIN list, NEW s \in Engines(list),
         NEW i \in DOMAIN list, s.active \subseteq fully,
         i \in s.active \/ ~Wins(list, fully, s.prev, i)
  PROVE  StepChord(list, fully, s, i) = s
<1>1. ~(i \in fully \ s.prev /\ ~BlockedByPeer(list, fully, i) /\ i \notin s.active)
  BY DEF Wins
<1>2. ~(i \in s.prev \ fully /\ i \in s.active)
  OBVIOUS
<1>3. i \notin fully => [s EXCEPT !.active = @ \ {i}] = s
  <2> SUFFICES ASSUME i \notin fully PROVE [s EXCEPT !.active = @ \ {i}] = s
    OBVIOUS
  <2>1. s.active \ {i} = s.active
    OBVIOUS
  <2> QED
    BY <2>1 DEF Engines
<1>4. HoldArm(list, fully, s, i) = s
  BY <1>1, <1>2 DEF HoldArm
<1>5. HandsFreeArm(list, fully, s, i) = s
  BY <1>1, <1>3 DEF HandsFreeArm
<1>6. QuickAddArm(list, fully, s, i) = s
  BY <1>1, <1>3 DEF QuickAddArm
<1> QED
  BY <1>4, <1>5, <1>6 DEF StepChord

LEMMA ForgettingTheOnlyOne ==
  ASSUME NEW h
  PROVE  RemoveAt(<<h>>, PlaceOf(<<h>>, h)) = <<>>
<1>1. DOMAIN <<h>> = {1} /\ <<h>>[1] = h
  OBVIOUS
<1>2. PlaceOf(<<h>>, h) = 1
  BY <1>1 DEF PlaceOf
<1>3. SubSeq(<<h>>, 1, 0) = <<>> /\ SubSeq(<<h>>, 2, 1) = <<>> /\ Len(<<h>>) = 1
  OBVIOUS
<1>4. RemoveAt(<<h>>, 1) = <<>> \o <<>>
  BY <1>3 DEF RemoveAt
<1> QED
  BY <1>2, <1>4

(* No hold is active, or one is and is all the engine remembers of starts.  *)
HoldsOf(list, active) == {i \in active : list[i].kind = "hold"}

OneHold(list, e) ==
  \/ e.started = <<>> /\ HoldsOf(list, e.active) = {}
  \/ \E h \in DOMAIN list : e.started = <<h>> /\ HoldsOf(list, e.active) = {h}

(* What the chord that completes alone does.                               *)
Started(list, a, b, w) ==
  /\ list[w].kind = "hold" /\ a.started = <<>> /\ b.started = <<w>>
  /\ b.active = a.active \cup {w} /\ b.fires = <<<<"start", w>>>>

Toggled(list, a, b, w) ==
  /\ list[w].kind = "handsFree" /\ a.started = <<>> /\ b.started = <<>>
  /\ b.active = a.active \cup {w} /\ b.fires = <<<<"toggle", w>>>>

Upgraded(list, a, b, w) ==
  \E h \in DOMAIN list :
    /\ list[w].kind = "handsFree" /\ a.started = <<h>> /\ b.started = <<>>
    /\ HoldsOf(list, a.active) = {h} /\ b.active = (a.active \cup {w}) \ {h}
    /\ b.fires = <<<<"release", h>>, <<"reclassify", w>>>>

Opened(list, a, b, w) ==
  /\ list[w].kind = "quickAdd" /\ b.started = a.started
  /\ b.active = a.active \cup {w} /\ b.fires = <<<<"quickAdd", w>>>>

WinFires(list, a, b, w) ==
  Started(list, a, b, w) \/ Toggled(list, a, b, w) \/ Upgraded(list, a, b, w)
    \/ Opened(list, a, b, w)

LEMMA EngineWith ==
  ASSUME NEW list, NEW e \in Engines(list), NEW active
  PROVE  [e EXCEPT !.active = active]
           = [active |-> active, prev |-> e.prev, started |-> e.started, fires |-> e.fires]
  BY DEF Engines

LEMMA StopFire ==
  ASSUME NEW list, NEW a \in Engines(list), NEW n, a.fires = <<>>,
         RemoveAt(a.started, PlaceOf(a.started, n)) = <<>>
  PROVE  Fire(Forget(a, n), <<<<"stop", n>>>>)
           = [active |-> a.active \ {n}, prev |-> a.prev, started |-> <<>>,
              fires |-> <<<<"stop", n>>>>]
<1> DEFINE fires == <<<<"stop", n>>>>
           r == Forget(a, n)
<1>1. r = [active |-> a.active \ {n}, prev |-> a.prev, started |-> <<>>, fires |-> <<>>]
  <2>1. r = [a EXCEPT !.active = a.active \ {n}, !.started = <<>>]
    BY DEF Forget
  <2> HIDE DEF r
  <2> QED
    BY <2>1 DEF Engines
<1>2. <<>> \o fires = fires
  OBVIOUS
<1>3. Fire(r, fires) = [r EXCEPT !.fires = @ \o fires]
  BY DEF Fire
<1> HIDE DEF r, fires
<1>4. Fire(r, fires) = [active |-> a.active \ {n}, prev |-> a.prev, started |-> <<>>, fires |-> fires]
  BY <1>1, <1>2, <1>3
<1> QED
  BY <1>4 DEF r, fires

LEMMA WinnerFires ==
  ASSUME NEW list \in Lists, NEW fully \in SUBSET DOMAIN list, NEW e \in Engines(list),
         NEW w, Wins(list, fully, e.prev, w),
         e.active \subseteq e.prev, e.prev \subseteq fully, e.fires = <<>>, OneHold(list, e)
  PROVE  /\ StepChord(list, fully, e, w) \in Engines(list)
         /\ StepChord(list, fully, e, w).prev = e.prev
         /\ WinFires(list, e, StepChord(list, fully, e, w), w)
<1> DEFINE b == StepChord(list, fully, e, w)
<1>1. /\ w \in DOMAIN list /\ w \in fully \ e.prev /\ ~BlockedByPeer(list, fully, w)
      /\ w \notin e.active
  BY DEF Wins
<1>2. list[w] \in Chord /\ list[w].kind \in ChordKinds
  BY <1>1, ChordsOfAList
<1>3. /\ e.active \in SUBSET DOMAIN list /\ e.prev \in SUBSET DOMAIN list
      /\ e.started \in Seq(DOMAIN list) /\ e.fires \in Fires(list)
  BY DEF Engines
<1>4. ASSUME NEW h \in HoldsOf(list, e.active)
      PROVE  /\ h \in DOMAIN list /\ h # w /\ h \in Subsets(list, w)
             /\ list[h].kind = "hold" /\ list[w].kind = "handsFree"
  <2>1. h \in e.active /\ list[h].kind = "hold" /\ h \in DOMAIN list /\ h # w /\ h \in fully
    BY <1>1, <1>3 DEF HoldsOf
  <2>2. h \in Subsets(list, w)
    BY <1>1, <2>1 DEF BlockedByPeer
  <2>3. ~Conflicts(list[w], list[h])
    BY <1>1, <2>1 DEF Lists, Compatible
  <2>4. Inside(list[h].keys, list[w].keys)
    BY <2>2 DEF Subsets
  <2>5. list[w].kind = "handsFree"
    BY <2>3, <2>4 DEF Conflicts, MayNestIn
  <2> QED
    BY <2>1, <2>2, <2>5
<1>6. ASSUME NEW f, f \in Seq(FireNames \X DOMAIN list) PROVE e.fires \o f = f /\ f \in Fires(list)
  BY <1>6 DEF Fires
<1>7. CASE list[w].kind = "hold"
  <2>1. HoldsOf(list, e.active) = {}
    BY <1>4, <1>7
  <2>2. e.started = <<>>
    BY <2>1 DEF OneHold
  <2>3. b = HoldArm(list, fully, e, w)
    BY <1>7 DEF StepChord
  <2>4. b = Fire([e EXCEPT !.active = @ \cup {w}, !.started = Append(@, w)], <<<<"start", w>>>>)
    BY <1>1, <2>3 DEF HoldArm
  <2>5. <<<<"start", w>>>> \in Seq(FireNames \X DOMAIN list)
    BY <1>1 DEF FireNames
  <2>6. e.fires \o <<<<"start", w>>>> = <<<<"start", w>>>> /\ <<<<"start", w>>>> \in Fires(list)
    BY <1>6, <2>5
  <2>7. Append(e.started, w) = <<w>> /\ <<w>> \in Seq(DOMAIN list)
    BY <1>1, <2>2
  <2>8. e.active \cup {w} \in SUBSET DOMAIN list
    BY <1>1, <1>3
  <2>9. b = [active |-> e.active \cup {w}, prev |-> e.prev, started |-> <<w>>,
             fires |-> <<<<"start", w>>>>]
    BY <2>4, <2>6, <2>7 DEF Fire, Engines
  <2>10. b \in Engines(list)
    BY <1>3, <2>6, <2>7, <2>8, <2>9 DEF Engines
  <2> QED
    BY <1>7, <2>2, <2>9, <2>10 DEF WinFires, Started
<1>8. CASE list[w].kind = "handsFree"
  <2> DEFINE donors == Donors(list, e, w)
             donor == e.started[Max(donors)]
  <2>1. b = HandsFreeArm(list, fully, e, w)
    BY <1>8 DEF StepChord
  <2>2. b = IF donors = {}
              THEN Fire([e EXCEPT !.active = @ \cup {w}], <<<<"toggle", w>>>>)
              ELSE Fire(Forget([e EXCEPT !.active = @ \cup {w}], donor),
                        <<<<"release", donor>>, <<"reclassify", w>>>>)
    BY <1>1, <2>1 DEF HandsFreeArm
  <2>3. e.active \cup {w} \in SUBSET DOMAIN list
    BY <1>1, <1>3
  <2>4. CASE e.started = <<>>
    <3>1. donors = {}
      BY <2>4 DEF Donors
    <3>2. <<<<"toggle", w>>>> \in Seq(FireNames \X DOMAIN list)
      BY <1>1 DEF FireNames
    <3>3. e.fires \o <<<<"toggle", w>>>> = <<<<"toggle", w>>>> /\ <<<<"toggle", w>>>> \in Fires(list)
      BY <1>6, <3>2
    <3>4. b = Fire([e EXCEPT !.active = @ \cup {w}], <<<<"toggle", w>>>>)
      BY <2>2, <3>1
    <3>5. b = [active |-> e.active \cup {w}, prev |-> e.prev, started |-> <<>>,
               fires |-> <<<<"toggle", w>>>>]
      BY <2>4, <3>3, <3>4 DEF Fire, Engines
    <3>6. b \in Engines(list)
      BY <1>3, <2>3, <2>4, <3>3, <3>5 DEF Engines
    <3> QED
      BY <1>8, <2>4, <3>5, <3>6 DEF WinFires, Toggled
  <2>5. ASSUME NEW h \in DOMAIN list, e.started = <<h>>, HoldsOf(list, e.active) = {h}
        PROVE  b \in Engines(list) /\ b.prev = e.prev /\ Upgraded(list, e, b, w)
    <3>1. h \in Subsets(list, w) /\ h # w
      BY <1>4, <2>5
    <3>2. DOMAIN e.started = {1} /\ e.started[1] = h
      BY <2>5
    <3>3. donors = {1}
      BY <3>1, <3>2 DEF Donors
    <3>4. Max(donors) = 1
      BY <3>3 DEF Max
    <3>5. donor = h
      BY <3>2, <3>4
    <3>6. <<<<"release", h>>, <<"reclassify", w>>>> \in Seq(FireNames \X DOMAIN list)
      BY <1>1 DEF FireNames
    <3>7. /\ e.fires \o <<<<"release", h>>, <<"reclassify", w>>>> = <<<<"release", h>>, <<"reclassify", w>>>>
          /\ <<<<"release", h>>, <<"reclassify", w>>>> \in Fires(list)
      BY <1>6, <3>6
    <3>8. b = Fire(Forget([e EXCEPT !.active = @ \cup {w}], h), <<<<"release", h>>, <<"reclassify", w>>>>)
      BY <2>2, <3>3, <3>5
    <3>9. RemoveAt(e.started, PlaceOf(e.started, h)) = <<>>
      BY <2>5, ForgettingTheOnlyOne
    <3> DEFINE m == [e EXCEPT !.active = @ \cup {w}]
               r == Forget(m, h)
               fires == <<<<"release", h>>, <<"reclassify", w>>>>
    <3>10. m = [active |-> e.active \cup {w}, prev |-> e.prev, started |-> e.started,
                fires |-> e.fires]
      BY EngineWith
    <3>14. r = [active |-> (e.active \cup {w}) \ {h}, prev |-> e.prev, started |-> <<>>,
                fires |-> e.fires]
      <4> HIDE DEF m
      <4>1. m.started = e.started /\ m.active = e.active \cup {w}
        BY <3>10
      <4>2. r = [m EXCEPT !.active = (e.active \cup {w}) \ {h}, !.started = <<>>]
        BY <3>9, <4>1 DEF Forget
      <4> QED
        BY <3>10, <4>2
    <3>11. b = [active |-> (e.active \cup {w}) \ {h}, prev |-> e.prev, started |-> <<>>,
                fires |-> fires]
      <4>1. b = Fire(r, fires) /\ e.fires \o fires = fires
        BY <3>7, <3>8
      <4> HIDE DEF r, fires, b
      <4> QED
        BY <3>14, <4>1 DEF Fire
    <3>12. (e.active \cup {w}) \ {h} \in SUBSET DOMAIN list /\ <<>> \in Seq(DOMAIN list)
      BY <2>3
    <3>13. b \in Engines(list)
      BY <1>3, <3>7, <3>11, <3>12 DEF Engines
    <3> QED
      BY <1>8, <2>5, <3>11, <3>13 DEF Upgraded
  <2>6. \/ e.started = <<>>
        \/ \E h \in DOMAIN list : e.started = <<h>> /\ HoldsOf(list, e.active) = {h}
    BY DEF OneHold
  <2>7. (\E h \in DOMAIN list : e.started = <<h>> /\ HoldsOf(list, e.active) = {h})
          => b \in Engines(list) /\ b.prev = e.prev /\ Upgraded(list, e, b, w)
    BY <2>5
  <2> HIDE DEF b
  <2>8. CASE b \in Engines(list) /\ b.prev = e.prev /\ Upgraded(list, e, b, w)
    BY <2>8 DEF WinFires, b
  <2> QED
    BY <2>4, <2>6, <2>7, <2>8
<1>9. CASE list[w].kind = "quickAdd"
  <2>1. b = QuickAddArm(list, fully, e, w)
    BY <1>9 DEF StepChord
  <2>2. b = Fire([e EXCEPT !.active = @ \cup {w}], <<<<"quickAdd", w>>>>)
    BY <1>1, <2>1 DEF QuickAddArm
  <2>3. <<<<"quickAdd", w>>>> \in Seq(FireNames \X DOMAIN list)
    BY <1>1 DEF FireNames
  <2>4. e.fires \o <<<<"quickAdd", w>>>> = <<<<"quickAdd", w>>>> /\ <<<<"quickAdd", w>>>> \in Fires(list)
    BY <1>6, <2>3
  <2>5. b = [active |-> e.active \cup {w}, prev |-> e.prev, started |-> e.started,
             fires |-> <<<<"quickAdd", w>>>>]
    BY <2>2, <2>4 DEF Fire, Engines
  <2>6. e.active \cup {w} \in SUBSET DOMAIN list
    BY <1>1, <1>3
  <2>7. b \in Engines(list)
    BY <1>3, <2>4, <2>5, <2>6 DEF Engines
  <2> QED
    BY <1>9, <2>5, <2>7 DEF WinFires, Opened
<1> QED
  BY <1>2, <1>7, <1>8, <1>9 DEF ChordKinds

(* A press completes chords and lets none go: the winner, if there is one,  *)
(* fires, and no other chord does anything.                                *)
LEMMA SweepOfAPress ==
  ASSUME NEW list \in Lists, NEW fully \in SUBSET DOMAIN list, NEW e \in Engines(list),
         e.active \subseteq e.prev, e.prev \subseteq fully, e.fires = <<>>, OneHold(list, e)
  PROVE  LET b == Sweep(list, fully, e)[Len(list)]
         IN  \/ b = e
             \/ \E w \in DOMAIN list :
                  /\ Wins(list, fully, e.prev, w) /\ b \in Engines(list)
                  /\ WinFires(list, e, b, w)
<1> DEFINE N == Len(list)
<1>1. N \in Nat /\ DOMAIN list = 1..N
  BY ChordsOfAList
<1>2. \A n \in 0..N : n = 0 \/ n \in 1..N
  BY <1>1
<1>3. CASE \A w \in DOMAIN list : ~Wins(list, fully, e.prev, w)
  <2> DEFINE g == [n \in 0..N |-> e]
  <2>1. ASSUME NEW n \in 1..N PROVE StepChord(list, fully, g[n - 1], n) = e
    <3>1. g[n - 1] = e
      BY <1>1
    <3>2. n \in DOMAIN list /\ e.active \subseteq fully /\ ~Wins(list, fully, e.prev, n)
      BY <1>1, <1>3
    <3> QED
      BY <3>1, <3>2, StepIdles
  <2>2. g = [n \in 0..N |-> IF n = 0 THEN e ELSE StepChord(list, fully, g[n - 1], n)]
    BY <1>2, <2>1
  <2>3. g[N] = e
    BY <1>1
  <2> HIDE DEF g
  <2> QED
    BY <2>2, <2>3, SweepIs
<1>4. ASSUME NEW w \in DOMAIN list, Wins(list, fully, e.prev, w)
      PROVE  LET b == Sweep(list, fully, e)[Len(list)]
             IN  b \in Engines(list) /\ WinFires(list, e, b, w)
  <2> DEFINE b == StepChord(list, fully, e, w)
             g == [n \in 0..N |-> IF w <= n THEN b ELSE e]
  <2>1. b \in Engines(list) /\ b.prev = e.prev /\ WinFires(list, e, b, w)
    BY <1>4, WinnerFires
  <2>2. b.active \subseteq fully /\ w \in 1..N
    <3>1. b.active \subseteq e.active \cup {w}
      BY <2>1 DEF WinFires, Started, Toggled, Upgraded, Opened
    <3>2. w \in fully
      BY <1>4 DEF Wins
    <3> QED
      BY <1>1, <3>1, <3>2
  <2>3. ASSUME NEW n \in 1..N PROVE g[n] = StepChord(list, fully, g[n - 1], n)
    <3>1. n \in DOMAIN list /\ n - 1 \in 0..N /\ n \in 0..N /\ w \in Nat
      BY <1>1, <2>2
    <3>2. n # w => ~Wins(list, fully, e.prev, n)
      BY <1>4, OneWinner
    <3>3. CASE n = w
      <4>1. g[n - 1] = e /\ g[n] = b
        <5>1. ~(w <= n - 1) /\ w <= n
          BY <3>1, <3>3
        <5> HIDE DEF b
        <5> QED
          BY <3>1, <5>1
      <4> QED
        BY <3>3, <4>1
    <3>4. CASE n < w
      <4>1. g[n - 1] = e /\ g[n] = e
        <5>1. ~(w <= n - 1) /\ ~(w <= n)
          BY <3>1, <3>4
        <5> HIDE DEF b
        <5> QED
          BY <3>1, <5>1
      <4>2. ~Wins(list, fully, e.prev, n) /\ e.active \subseteq fully
        BY <3>1, <3>2, <3>4
      <4> QED
        BY <3>1, <4>1, <4>2, StepIdles
    <3>5. CASE w < n
      <4>1. g[n - 1] = b /\ g[n] = b
        <5>1. w <= n - 1 /\ w <= n
          BY <3>1, <3>5
        <5> HIDE DEF b
        <5> QED
          BY <3>1, <5>1
      <4>2. ~Wins(list, fully, b.prev, n)
        BY <2>1, <3>1, <3>2, <3>5
      <4> HIDE DEF b, g
      <4> QED
        BY <2>1, <2>2, <3>1, <4>1, <4>2, StepIdles
    <3> QED
      BY <3>1, <3>3, <3>4, <3>5
  <2>4. g[0] = e
    BY <1>1, <2>2
  <2>5. g = [n \in 0..N |-> IF n = 0 THEN e ELSE StepChord(list, fully, g[n - 1], n)]
    <3>1. g = [n \in 0..N |-> g[n]]
      OBVIOUS
    <3> HIDE DEF g
    <3> QED
      BY <1>2, <2>3, <2>4, <3>1
  <2>6. g[N] = b
    BY <1>1, <2>2
  <2>7. Sweep(list, fully, e)[N] = b
    <3> HIDE DEF g, b
    <3> QED
      BY <2>5, <2>6, SweepIs
  <2> QED
    BY <2>1, <2>7
<1> QED
  BY <1>3, <1>4

(* A release lets chords go and completes none: what is no longer held is   *)
(* no longer active, and the hold that was stops.                          *)
Stops(list, fully, a, b, h) ==
  /\ a.started = <<h>> /\ h \notin fully
  /\ b.started = <<>> /\ b.fires = <<<<"stop", h>>>>

LEMMA SweepOfARelease ==
  ASSUME NEW list \in Lists, NEW fully \in SUBSET DOMAIN list, NEW e \in Engines(list),
         e.active \subseteq e.prev, fully \subseteq e.prev, e.fires = <<>>, OneHold(list, e)
  PROVE  LET b == Sweep(list, fully, e)[Len(list)]
         IN  /\ b \in Engines(list) /\ b.active = e.active \cap fully
             /\ \/ \E h \in DOMAIN list : Stops(list, fully, e, b, h)
                \/ /\ b.started = e.started /\ b.fires = <<>>
                   /\ HoldsOf(list, e.active) \subseteq fully
<1> DEFINE N == Len(list)
           Gone(n) == {j \in 1..n : j \notin fully}
           Falls(n) == HoldsOf(list, e.active) \cap Gone(n) # {}
           h == CHOOSE x : e.started = <<x>>
           g == [n \in 0..N |->
                   [active  |-> e.active \ Gone(n), prev |-> e.prev,
                    started |-> IF Falls(n) THEN <<>> ELSE e.started,
                    fires   |-> IF Falls(n) THEN <<<<"stop", h>>>> ELSE <<>>]]
<1>1. N \in Nat /\ DOMAIN list = 1..N
  BY ChordsOfAList
<1>2. /\ e.active \in SUBSET DOMAIN list /\ e.prev \in SUBSET DOMAIN list
      /\ e.started \in Seq(DOMAIN list) /\ e.fires \in Fires(list)
      /\ e = [active |-> e.active, prev |-> e.prev, started |-> e.started, fires |-> e.fires]
  BY DEF Engines
<1>3. ASSUME NEW n \in 0..N, Falls(n)
      PROVE  /\ h \in 1..N /\ h \in Gone(n) /\ e.started = <<h>>
             /\ HoldsOf(list, e.active) = {h}
  <2>1. PICK x \in DOMAIN list : e.started = <<x>> /\ HoldsOf(list, e.active) = {x}
    BY <1>3 DEF OneHold
  <2>2. h = x
    <3>1. \A y : e.started = <<y>> => y = x
      BY <2>1
    <3> QED
      BY <2>1, <3>1
  <2> HIDE DEF h, Gone
  <2> QED
    BY <1>1, <1>3, <2>1, <2>2
<1> HIDE DEF h
<1>4. ASSUME NEW n \in 0..N PROVE g[n] \in Engines(list)
  <2>1. e.active \ Gone(n) \in SUBSET DOMAIN list
    BY <1>2
  <2>2. Falls(n) => <<<<"stop", h>>>> \in Fires(list)
    BY <1>1, <1>3 DEF Fires, FireNames
  <2>3. <<>> \in Seq(DOMAIN list) /\ <<>> \in Fires(list)
    BY DEF Fires
  <2>4. (IF Falls(n) THEN <<>> ELSE e.started) \in Seq(DOMAIN list)
    BY <1>2, <2>3
  <2>5. (IF Falls(n) THEN <<<<"stop", h>>>> ELSE <<>>) \in Fires(list)
    BY <2>2, <2>3
  <2> HIDE DEF Falls, Gone
  <2> QED
    BY <1>2, <2>1, <2>4, <2>5 DEF Engines
<1>5. g[0] = e
  <2>1. Gone(0) = {}
    OBVIOUS
  <2>2. ~Falls(0) /\ e.active \ Gone(0) = e.active
    BY <2>1
  <2>3. g[0] = [active |-> e.active \ Gone(0), prev |-> e.prev,
                started |-> IF Falls(0) THEN <<>> ELSE e.started,
                fires |-> IF Falls(0) THEN <<<<"stop", h>>>> ELSE <<>>]
    <3>1. 0 \in 0..N
      BY <1>1
    <3> HIDE DEF Falls, Gone
    <3> QED
      BY <3>1
  <2>4. g[0] = [active |-> e.active, prev |-> e.prev, started |-> e.started, fires |-> <<>>]
    <3> HIDE DEF Falls, Gone, g
    <3> QED
      BY <2>2, <2>3
  <2> QED
    BY <1>2, <2>4
<1>6. ASSUME NEW n \in 1..N PROVE g[n] = StepChord(list, fully, g[n - 1], n)
  <2> DEFINE a == g[n - 1]
  <2>1. n \in DOMAIN list /\ n - 1 \in 0..N /\ n \in 0..N
    BY <1>1
  <2>2. Gone(n) = Gone(n - 1) \cup (IF n \in fully THEN {} ELSE {n})
    OBVIOUS
  <2>3. a \in Engines(list)
    BY <1>4, <2>1
  <2>4. /\ a.active = e.active \ Gone(n - 1) /\ a.prev = e.prev
        /\ a.started = (IF Falls(n - 1) THEN <<>> ELSE e.started)
        /\ a.fires = (IF Falls(n - 1) THEN <<<<"stop", h>>>> ELSE <<>>)
    <3> HIDE DEF Falls, Gone
    <3> QED
      BY <2>1
  <2>5. ~(n \in fully \ a.prev /\ ~BlockedByPeer(list, fully, n) /\ n \notin a.active)
    BY <2>4
  <2>6. CASE n \in fully \/ (list[n].kind = "hold" /\ n \notin a.active)
    <3>1. StepChord(list, fully, a, n) = a
      <4>1. ~(n \in a.prev \ fully /\ n \in a.active)
        BY <2>6
      <4> HIDE DEF a, g
      <4>2. HoldArm(list, fully, a, n) = a
        BY <2>5, <4>1 DEF HoldArm
      <4>3. n \in fully => HandsFreeArm(list, fully, a, n) = a
        BY <2>5 DEF HandsFreeArm
      <4>4. n \in fully => QuickAddArm(list, fully, a, n) = a
        BY <2>5 DEF QuickAddArm
      <4> QED
        BY <2>6, <4>2, <4>3, <4>4 DEF StepChord
    <3>2. n \notin fully => n \notin e.active
      <4>1. n \notin Gone(n - 1)
        OBVIOUS
      <4> QED
        BY <2>6, <2>4, <4>1
    <3>3. e.active \ Gone(n) = e.active \ Gone(n - 1) /\ (Falls(n) <=> Falls(n - 1))
      BY <2>2, <3>2 DEF HoldsOf
    <3>4. g[n] = a
      <4> HIDE DEF Falls, Gone
      <4> QED
        BY <2>1, <3>3
    <3> QED
      BY <3>1, <3>4
  <2>7. CASE n \notin fully /\ list[n].kind = "hold" /\ n \in a.active
    <3>1. n \in HoldsOf(list, e.active) /\ n \notin Gone(n - 1) /\ n \in Gone(n)
      BY <2>4, <2>7 DEF HoldsOf
    <3>2. Falls(n)
      BY <3>1
    <3>3. h = n /\ e.started = <<n>> /\ HoldsOf(list, e.active) = {n}
      BY <1>3, <2>1, <3>1, <3>2
    <3>4. ~Falls(n - 1)
      BY <3>1, <3>3
    <3>5. a.started = <<n>> /\ a.fires = <<>>
      BY <2>4, <3>3, <3>4
    <3>6. StepChord(list, fully, a, n) = Fire(Forget(a, n), <<<<"stop", n>>>>)
      <4>1. n \in a.prev \ fully /\ n \in a.active
        BY <2>4, <2>7
      <4> HIDE DEF a, g
      <4> QED
        BY <2>5, <2>7, <4>1 DEF StepChord, HoldArm
    <3>7. RemoveAt(a.started, PlaceOf(a.started, n)) = <<>>
      BY <3>5, ForgettingTheOnlyOne
    <3>8. Fire(Forget(a, n), <<<<"stop", n>>>>)
            = [active |-> a.active \ {n}, prev |-> a.prev, started |-> <<>>, fires |-> <<<<"stop", n>>>>]
      <4> HIDE DEF a, g
      <4> QED
        BY <2>3, <3>5, <3>7, StopFire
    <3>9. e.active \ Gone(n) = a.active \ {n}
      BY <2>2, <2>4, <2>7
    <3>10. g[n] = [active |-> a.active \ {n}, prev |-> a.prev, started |-> <<>>, fires |-> <<<<"stop", n>>>>]
      <4> HIDE DEF Falls, Gone, a
      <4> QED
        BY <2>1, <2>4, <3>2, <3>3, <3>9
    <3> QED
      BY <3>6, <3>8, <3>10
  <2>8. CASE n \notin fully /\ list[n].kind # "hold"
    <3>1. StepChord(list, fully, a, n) = [a EXCEPT !.active = @ \ {n}]
      <4> HIDE DEF a, g
      <4>1. HandsFreeArm(list, fully, a, n) = [a EXCEPT !.active = @ \ {n}]
        BY <2>5, <2>8 DEF HandsFreeArm
      <4>2. QuickAddArm(list, fully, a, n) = [a EXCEPT !.active = @ \ {n}]
        BY <2>5, <2>8 DEF QuickAddArm
      <4> QED
        BY <2>8, <4>1, <4>2 DEF StepChord
    <3>2. [a EXCEPT !.active = @ \ {n}]
            = [active |-> a.active \ {n}, prev |-> a.prev, started |-> a.started, fires |-> a.fires]
      <4> HIDE DEF a, g
      <4> QED
        BY <2>3, EngineWith
    <3>3. e.active \ Gone(n) = a.active \ {n}
      BY <2>2, <2>4, <2>8
    <3>4. Falls(n) <=> Falls(n - 1)
      BY <2>2, <2>8 DEF HoldsOf
    <3>5. g[n] = [active |-> a.active \ {n}, prev |-> a.prev, started |-> a.started, fires |-> a.fires]
      <4> HIDE DEF Falls, Gone, a
      <4> QED
        BY <2>1, <2>4, <3>3, <3>4
    <3> QED
      BY <3>1, <3>2, <3>5
  <2> QED
    BY <2>6, <2>7, <2>8
<1>7. g = [n \in 0..N |-> IF n = 0 THEN e ELSE StepChord(list, fully, g[n - 1], n)]
  <2>1. g = [n \in 0..N |-> g[n]]
    OBVIOUS
  <2>2. \A n \in 0..N : n = 0 \/ n \in 1..N
    BY <1>1
  <2> HIDE DEF g
  <2> QED
    BY <1>5, <1>6, <2>1, <2>2
<1>8. Sweep(list, fully, e)[N] = g[N]
  <2> HIDE DEF g
  <2> QED
    BY <1>7, SweepIs
<1>9. N \in 0..N /\ e.active \ Gone(N) = e.active \cap fully
  BY <1>1, <1>2
<1>10. /\ g[N] \in Engines(list) /\ g[N].active = e.active \cap fully
       /\ g[N].started = (IF Falls(N) THEN <<>> ELSE e.started)
       /\ g[N].fires = (IF Falls(N) THEN <<<<"stop", h>>>> ELSE <<>>)
  <2>1. g[N] \in Engines(list)
    BY <1>4, <1>9
  <2> HIDE DEF Falls, Gone
  <2> QED
    BY <1>9, <2>1
<1>11. CASE Falls(N)
  <2>1. h \in DOMAIN list /\ h \notin fully /\ e.started = <<h>>
    BY <1>1, <1>3, <1>9, <1>11
  <2> HIDE DEF g, Falls
  <2> QED
    BY <1>8, <1>10, <1>11, <2>1 DEF Stops
<1>12. CASE ~Falls(N)
  <2>1. HoldsOf(list, e.active) \subseteq fully
    BY <1>1, <1>2, <1>12 DEF HoldsOf
  <2> HIDE DEF g, Falls
  <2> QED
    BY <1>8, <1>10, <1>12, <2>1
<1> QED
  BY <1>11, <1>12

-----------------------------------------------------------------------------
(* The session the triggers run.                                           *)

Dictations ==
  [mode : {"none", "hold", "handsFree"}, by : 0..MaxChords, upgraded : BOOLEAN]

LEMMA DictatedNothing ==
  ASSUME NEW s
  PROVE  Dictated(s, <<>>) = s
<1> DEFINE Eq(f) == f = [n \in 0..Len(<<>>) |-> IF n = 0 THEN s ELSE Dictate(f[n - 1], <<>>[n])]
           f == CHOOSE h : Eq(h)
           g == [n \in 0..0 |-> s]
<1>1. Len(<<>>) = 0
  OBVIOUS
<1>2. Eq(g)
  BY <1>1
<1>3. Eq(f)
  <2> HIDE DEF Eq, g
  <2> QED
    BY <1>2
<1>4. f[0] = s
  <2> HIDE DEF f
  <2> QED
    BY <1>1, <1>3
<1> QED
  BY <1>1, <1>4 DEF Dictated

LEMMA DictatedOne ==
  ASSUME NEW s, NEW a
  PROVE  Dictated(s, <<a>>) = Dictate(s, a)
<1> DEFINE Eq(f) == f = [n \in 0..Len(<<a>>) |-> IF n = 0 THEN s ELSE Dictate(f[n - 1], <<a>>[n])]
           f == CHOOSE h : Eq(h)
           g == [n \in 0..1 |-> IF n = 0 THEN s ELSE Dictate(s, a)]
<1>1. Len(<<a>>) = 1 /\ <<a>>[1] = a
  OBVIOUS
<1>2. Eq(g)
  <2>1. g[0] = s /\ \A n \in 0..1 : n = 0 \/ n = 1
    OBVIOUS
  <2>2. \A n \in 0..1 : g[n] = IF n = 0 THEN s ELSE Dictate(g[n - 1], <<a>>[n])
    BY <1>1, <2>1
  <2>3. g = [n \in 0..1 |-> g[n]]
    OBVIOUS
  <2> HIDE DEF g
  <2> QED
    BY <1>1, <2>2, <2>3
<1>3. Eq(f)
  <2> HIDE DEF Eq, g
  <2> QED
    BY <1>2
<1>4. f[0] = s /\ f[1] = Dictate(f[0], a)
  <2> HIDE DEF f
  <2> QED
    BY <1>1, <1>3
<1> QED
  BY <1>1, <1>4 DEF Dictated

LEMMA DictatedTwo ==
  ASSUME NEW s, NEW a, NEW b
  PROVE  Dictated(s, <<a, b>>) = Dictate(Dictate(s, a), b)
<1> DEFINE Eq(f) == f = [n \in 0..Len(<<a, b>>) |->
                           IF n = 0 THEN s ELSE Dictate(f[n - 1], <<a, b>>[n])]
           f == CHOOSE h : Eq(h)
           t == Dictate(s, a)
           g == [n \in 0..2 |-> IF n = 0 THEN s ELSE IF n = 1 THEN t ELSE Dictate(t, b)]
<1>1. Len(<<a, b>>) = 2 /\ <<a, b>>[1] = a /\ <<a, b>>[2] = b
  OBVIOUS
<1>2. Eq(g)
  <2>1. g[0] = s /\ g[1] = t /\ \A n \in 0..2 : n = 0 \/ n = 1 \/ n = 2
    OBVIOUS
  <2>2. \A n \in 0..2 : g[n] = IF n = 0 THEN s ELSE Dictate(g[n - 1], <<a, b>>[n])
    BY <1>1, <2>1
  <2>3. g = [n \in 0..2 |-> g[n]]
    OBVIOUS
  <2> HIDE DEF g
  <2> QED
    BY <1>1, <2>2, <2>3
<1>3. Eq(f)
  <2> HIDE DEF Eq, g
  <2> QED
    BY <1>2
<1>4. f[0] = s /\ f[1] = Dictate(f[0], a) /\ f[2] = Dictate(f[1], b)
  <2> HIDE DEF f
  <2> QED
    BY <1>1, <1>3
<1> QED
  BY <1>1, <1>4 DEF Dictated

(* The session follows the one hold the engine remembers.                  *)
Follows(d, started) ==
  /\ d.mode = "hold" => started = <<d.by>>
  /\ d.upgraded => d.mode = "handsFree" /\ started = <<>>

LEMMA TheSessionFollows ==
  ASSUME NEW list \in Lists, Len(list) <= MaxChords, NEW a, NEW b, NEW w \in DOMAIN list,
         WinFires(list, a, b, w), NEW s \in Dictations, Follows(s, a.started), ~s.upgraded
  PROVE  Dictated(s, b.fires) \in Dictations /\ Follows(Dictated(s, b.fires), b.started)
<1>1. w \in 0..MaxChords /\ MaxChords \in Nat
  BY KeysAssumption, ChordsOfAList
<1>2. NotDictating \in Dictations /\ Follows(NotDictating, b.started)
  BY <1>1 DEF NotDictating, Dictations, Follows
<1>3. \A mode \in {"hold", "handsFree"}, upgraded \in BOOLEAN :
        Dictating(mode, w, upgraded) \in Dictations
  BY <1>1 DEF Dictating, Dictations
<1>4. CASE Started(list, a, b, w)
  <2>1. Dictated(s, b.fires) = Dictate(s, <<"start", w>>)
    BY <1>4, DictatedOne DEF Started
  <2>2. Dictate(s, <<"start", w>>) = IF s = NotDictating THEN Dictating("hold", w, FALSE) ELSE s
    BY DEF Dictate
  <2>3. Follows(Dictating("hold", w, FALSE), b.started)
    BY <1>4 DEF Started, Follows, Dictating
  <2>4. s.mode # "hold" /\ Follows(s, b.started)
    BY <1>4 DEF Started, Follows
  <2> QED
    BY <1>3, <2>1, <2>2, <2>3, <2>4
<1>5. CASE Toggled(list, a, b, w)
  <2>1. Dictated(s, b.fires) = Dictate(s, <<"toggle", w>>)
    BY <1>5, DictatedOne DEF Toggled
  <2>2. Dictate(s, <<"toggle", w>>)
          = IF s = NotDictating THEN Dictating("handsFree", w, FALSE) ELSE NotDictating
    BY DEF Dictate
  <2>3. Follows(Dictating("handsFree", w, FALSE), b.started)
    BY DEF Follows, Dictating
  <2> QED
    BY <1>2, <1>3, <2>1, <2>2, <2>3
<1>6. ASSUME Upgraded(list, a, b, w)
      PROVE  Dictated(s, b.fires) \in Dictations /\ Follows(Dictated(s, b.fires), b.started)
  <2>1. PICK h \in DOMAIN list :
          b.started = <<>> /\ b.fires = <<<<"release", h>>, <<"reclassify", w>>>>
    BY <1>6 DEF Upgraded
  <2>2. Dictated(s, b.fires) = Dictate(Dictate(s, <<"release", h>>), <<"reclassify", w>>)
    BY <2>1, DictatedTwo
  <2>3. Dictate(s, <<"release", h>>) = s
    BY DEF Dictate
  <2>4. Dictate(s, <<"reclassify", w>>)
          = IF s.mode = "handsFree" THEN NotDictating
            ELSE Dictating("handsFree", w, s.mode = "hold")
    BY DEF Dictate
  <2>5. \A u \in BOOLEAN : Follows(Dictating("handsFree", w, u), b.started)
    BY <2>1 DEF Follows, Dictating
  <2>6. (s.mode = "hold") \in BOOLEAN
    OBVIOUS
  <2> QED
    BY <1>2, <1>3, <2>2, <2>3, <2>4, <2>5, <2>6
<1>7. CASE Opened(list, a, b, w)
  <2>1. Dictated(s, b.fires) = Dictate(s, <<"quickAdd", w>>)
    BY <1>7, DictatedOne DEF Opened
  <2>2. Dictate(s, <<"quickAdd", w>>) = s
    BY DEF Dictate
  <2> QED
    BY <1>7, <2>1, <2>2 DEF Opened
<1> QED
  BY <1>4, <1>5, <1>6, <1>7 DEF WinFires

-----------------------------------------------------------------------------
(* The inductive invariant.                                                *)

FamilyShape ==
  /\ chords \in Lists /\ Len(chords) <= MaxChords /\ pressed \in SUBSET AllKeys
  /\ engine \in [active : SUBSET DOMAIN chords, prev : SUBSET DOMAIN chords,
                 started : Seq(DOMAIN chords)]
  /\ fired \in Fires(chords) /\ dictation \in Dictations

(* What the engine remembers is what is held: the chords complete now, of   *)
(* which the active ones are some and of them at most one a hold.          *)
Remembered ==
  /\ engine.prev = FullyHeld(chords, pressed) /\ engine.active \subseteq engine.prev
  /\ OneHold(chords, engine)

Rising == {"start", "toggle", "reclassify", "quickAdd"}

FiredOnce == \E n \in 1..2 : \A i \in DOMAIN fired : fired[i][1] \in Rising => i = n

FamilyIInv ==
  FamilyShape /\ Remembered /\ FiredOnce /\ Follows(dictation, engine.started)

LEMMA FamilyStarts == FamilyInit => FamilyIInv
<1> SUFFICES ASSUME FamilyInit PROVE FamilyIInv
  OBVIOUS
<1>0. PICK n \in 1..MaxChords : \E c \in [1..n -> Chord] : chords = Registered(c)
  BY DEF FamilyInit, Configs
<1>1. PICK c \in [1..n -> Chord] : chords = Registered(c)
  BY <1>0
<1>2. c \in Seq(Chord) /\ Len(c) = n /\ n <= MaxChords /\ MaxChords \in Nat /\ n \in Nat
  BY KeysAssumption
<1>3. Registered(c) \in Seq(Chord) /\ Len(Registered(c)) <= n /\ Compatible(Registered(c))
  BY <1>2, RegisteredIsCompatible
<1>4. chords \in Lists
  BY <1>1, <1>3 DEF Lists
<1>5. Len(chords) \in Nat /\ DOMAIN chords = 1..Len(chords) /\ \A i \in DOMAIN chords : chords[i] \in Chord
  BY <1>4, ChordsOfAList
<1>6. Len(chords) <= MaxChords
  BY <1>1, <1>2, <1>3, <1>5
<1>7. pressed = {} /\ engine = NewEngine /\ fired = <<>> /\ dictation = NotDictating
  BY DEF FamilyInit
<1>8. /\ engine \in [active : SUBSET DOMAIN chords, prev : SUBSET DOMAIN chords,
                     started : Seq(DOMAIN chords)]
      /\ engine.prev = {} /\ engine.active = {} /\ engine.started = <<>>
  BY <1>7 DEF NewEngine
<1>9. fired \in Fires(chords) /\ DOMAIN fired = {}
  BY <1>7 DEF Fires
<1>10. dictation \in Dictations /\ Follows(dictation, engine.started)
  BY <1>2, <1>7 DEF NotDictating, Dictations, Follows
<1>11. FullyHeld(chords, pressed) = {}
  <2>1. \A c2 \in Chord : c2.keys # {}
    BY DEF Chord
  <2> QED
    BY <1>5, <1>7, <2>1 DEF FullyHeld
<1>12. FiredOnce
  BY <1>9 DEF FiredOnce
<1>13. Remembered
  BY <1>8, <1>11 DEF Remembered, OneHold, HoldsOf
<1>14. pressed \in SUBSET AllKeys
  BY <1>7
<1> QED
  BY <1>4, <1>6, <1>8, <1>9, <1>10, <1>12, <1>13, <1>14 DEF FamilyIInv, FamilyShape

(* One event: what the sweep leaves is what the next state has.            *)
LEMMA OneEvent ==
  ASSUME FamilyIInv, NEW keys \in SUBSET AllKeys, Transition(keys)
  PROVE  LET fully == FullyHeld(chords, keys)
             e == [active |-> engine.active, prev |-> engine.prev,
                   started |-> engine.started, fires |-> <<>>]
             b == Sweep(chords, fully, e)[Len(chords)]
             s == IF keys \subseteq pressed THEN dictation
                  ELSE [dictation EXCEPT !.upgraded = FALSE]
         IN  /\ fully \in SUBSET DOMAIN chords /\ e \in Engines(chords)
             /\ e.active = engine.active /\ e.prev = engine.prev
             /\ e.started = engine.started /\ e.fires = <<>>
             /\ e.active \subseteq e.prev /\ OneHold(chords, e)
             /\ pressed' = keys /\ chords' = chords
             /\ b \in Engines(chords) =>
                  /\ engine' = [active |-> b.active, prev |-> fully, started |-> b.started]
                  /\ fired' = b.fires
                  /\ dictation' = Dictated(s, b.fires)
<1> DEFINE fully == FullyHeld(chords, keys)
           e == [active |-> engine.active, prev |-> engine.prev,
                 started |-> engine.started, fires |-> <<>>]
           b == Sweep(chords, fully, e)[Len(chords)]
           r == Step(chords, engine, keys)
           s == IF keys \subseteq pressed THEN dictation
                ELSE [dictation EXCEPT !.upgraded = FALSE]
<1>1. fully \in SUBSET DOMAIN chords
  BY DEF FullyHeld
<1>2. e \in Engines(chords)
  <2>1. <<>> \in Fires(chords)
    BY DEF Fires
  <2> QED
    BY <2>1 DEF FamilyIInv, FamilyShape, Engines
<1>3. e.active \subseteq e.prev /\ OneHold(chords, e)
  BY DEF FamilyIInv, Remembered, OneHold
<1>4. r = [b EXCEPT !.prev = fully]
  BY DEF Step
<1>5. /\ pressed' = keys /\ chords' = chords /\ engine' = EngineOf(r)
      /\ fired' = r.fires /\ dictation' = Dictated(s, r.fires)
  <2> HIDE DEF b
  <2> QED
    BY DEF Transition
<1>6. ASSUME b \in Engines(chords)
      PROVE  /\ r.active = b.active /\ r.prev = fully /\ r.started = b.started
             /\ r.fires = b.fires
  <2> HIDE DEF b, r, fully
  <2> QED
    BY <1>4, <1>6 DEF Engines
<1>7. ASSUME b \in Engines(chords)
      PROVE  engine' = [active |-> b.active, prev |-> fully, started |-> b.started]
  <2> HIDE DEF b, r, fully
  <2> QED
    BY <1>5, <1>6, <1>7 DEF EngineOf
<1> HIDE DEF b, r, fully, s
<1>8. b \in Engines(chords) => fired' = b.fires /\ dictation' = Dictated(s, b.fires)
  BY <1>5, <1>6
<1>9. /\ e.active = engine.active /\ e.prev = engine.prev
      /\ e.started = engine.started /\ e.fires = <<>>
  OBVIOUS
<1> HIDE DEF e
<1>10. /\ fully \in SUBSET DOMAIN chords /\ e \in Engines(chords)
       /\ e.active = engine.active /\ e.prev = engine.prev
       /\ e.started = engine.started /\ e.fires = <<>>
       /\ e.active \subseteq e.prev /\ OneHold(chords, e)
       /\ pressed' = keys /\ chords' = chords
       /\ b \in Engines(chords) =>
            /\ engine' = [active |-> b.active, prev |-> fully, started |-> b.started]
            /\ fired' = b.fires
            /\ dictation' = Dictated(s, b.fires)
  BY <1>1, <1>2, <1>3, <1>5, <1>7, <1>8, <1>9
<1> QED
  BY <1>10 DEF e, b, fully, s

(* Whatever wins, one chord at most is what fired, and one hold is active.  *)
LEMMA WinLeavesOne ==
  ASSUME NEW list \in Lists, NEW a \in Engines(list), NEW b \in Engines(list),
         NEW w \in DOMAIN list, OneHold(list, a), WinFires(list, a, b, w),
         list[w].kind = "hold" => HoldsOf(list, a.active) = {}
  PROVE  /\ OneHold(list, b) /\ b.active \subseteq a.active \cup {w}
         /\ \E n \in 1..2 : \A i \in DOMAIN b.fires : b.fires[i][1] \in Rising => i = n
<1>1. CASE Started(list, a, b, w)
  <2>1. HoldsOf(list, b.active) = {w}
    BY <1>1 DEF Started, HoldsOf
  <2>2. DOMAIN b.fires = {1}
    BY <1>1 DEF Started
  <2>3. OneHold(list, b) /\ b.active \subseteq a.active \cup {w}
    BY <1>1, <2>1 DEF OneHold, Started
  <2> QED
    BY <2>2, <2>3
<1>2. CASE Toggled(list, a, b, w) \/ Opened(list, a, b, w)
  <2>1. HoldsOf(list, b.active) = HoldsOf(list, a.active)
    BY <1>2 DEF Toggled, Opened, HoldsOf
  <2>2. DOMAIN b.fires = {1}
    BY <1>2 DEF Toggled, Opened
  <2>3. b.started = a.started /\ b.active \subseteq a.active \cup {w}
    BY <1>2 DEF Toggled, Opened
  <2>4. OneHold(list, b)
    BY <2>1, <2>3 DEF OneHold
  <2> QED
    BY <2>2, <2>3, <2>4
<1>3. ASSUME Upgraded(list, a, b, w)
      PROVE  /\ OneHold(list, b) /\ b.active \subseteq a.active \cup {w}
             /\ \E n \in 1..2 : \A i \in DOMAIN b.fires : b.fires[i][1] \in Rising => i = n
  <2>1. PICK h \in DOMAIN list :
          /\ list[w].kind = "handsFree" /\ b.started = <<>>
          /\ HoldsOf(list, a.active) = {h} /\ b.active = (a.active \cup {w}) \ {h}
          /\ b.fires = <<<<"release", h>>, <<"reclassify", w>>>>
    BY <1>3 DEF Upgraded
  <2>2. HoldsOf(list, b.active) = {}
    BY <2>1 DEF HoldsOf
  <2>3. DOMAIN b.fires = {1, 2} /\ b.fires[1][1] = "release"
    BY <2>1
  <2>4. \A i \in DOMAIN b.fires : b.fires[i][1] \in Rising => i = 2
    BY <2>3 DEF Rising
  <2>5. OneHold(list, b) /\ b.active \subseteq a.active \cup {w}
    BY <2>1, <2>2 DEF OneHold
  <2> QED
    BY <2>4, <2>5
<1> QED
  BY <1>1, <1>2, <1>3 DEF WinFires

LEMMA PressKeeps ==
  ASSUME FamilyIInv, NEW k \in AllKeys, KeyGoesDown(k)
  PROVE  FamilyIInv'
<1> DEFINE keys == pressed \cup {k}
           fully == FullyHeld(chords, keys)
           e == [active |-> engine.active, prev |-> engine.prev,
                 started |-> engine.started, fires |-> <<>>]
           b == Sweep(chords, fully, e)[Len(chords)]
           s == [dictation EXCEPT !.upgraded = FALSE]
<1>1. keys \in SUBSET AllKeys /\ Transition(keys) /\ ~(keys \subseteq pressed)
  BY DEF KeyGoesDown, FamilyIInv, FamilyShape
<1>2. /\ fully \in SUBSET DOMAIN chords /\ e \in Engines(chords)
      /\ e.active = engine.active /\ e.prev = engine.prev
      /\ e.started = engine.started /\ e.fires = <<>>
      /\ e.active \subseteq e.prev /\ OneHold(chords, e)
      /\ pressed' = keys /\ chords' = chords
      /\ b \in Engines(chords) =>
           /\ engine' = [active |-> b.active, prev |-> fully, started |-> b.started]
           /\ fired' = b.fires
           /\ dictation' = Dictated(s, b.fires)
  BY <1>1, OneEvent
<1>3. chords \in Lists /\ Len(chords) <= MaxChords
  BY DEF FamilyIInv, FamilyShape
<1>4. e.prev \subseteq fully
  BY <1>2 DEF FamilyIInv, Remembered, FullyHeld
<1>5. s \in Dictations /\ Follows(s, e.started) /\ ~s.upgraded
  <2>1. dictation \in Dictations /\ Follows(dictation, engine.started)
    BY DEF FamilyIInv, FamilyShape
  <2>2. s.mode = dictation.mode /\ s.by = dictation.by /\ s.upgraded = FALSE /\ s \in Dictations
    BY <2>1 DEF Dictations
  <2> HIDE DEF s, e
  <2> QED
    BY <1>2, <2>1, <2>2 DEF Follows
<1> HIDE DEF e, b, s, fully, keys
<1>6. \/ b = e
      \/ \E w \in DOMAIN chords :
           Wins(chords, fully, e.prev, w) /\ b \in Engines(chords) /\ WinFires(chords, e, b, w)
  BY <1>2, <1>3, <1>4, SweepOfAPress DEF b
<1>7. ASSUME b \in Engines(chords), b.active \subseteq fully, OneHold(chords, b),
             \E n \in 1..2 : \A i \in DOMAIN b.fires : b.fires[i][1] \in Rising => i = n,
             Dictated(s, b.fires) \in Dictations, Follows(Dictated(s, b.fires), b.started)
      PROVE  FamilyIInv'
  <2>1. /\ engine' = [active |-> b.active, prev |-> fully, started |-> b.started]
        /\ fired' = b.fires /\ dictation' = Dictated(s, b.fires)
        /\ pressed' = keys /\ chords' = chords
    BY <1>2, <1>7
  <2>2. /\ b.active \in SUBSET DOMAIN chords /\ b.started \in Seq(DOMAIN chords)
        /\ b.fires \in Fires(chords)
    BY <1>7 DEF Engines
  <2>3. /\ engine'.active = b.active /\ engine'.prev = fully /\ engine'.started = b.started
        /\ engine' \in [active : SUBSET DOMAIN chords, prev : SUBSET DOMAIN chords,
                        started : Seq(DOMAIN chords)]
    BY <1>2, <2>1, <2>2
  <2>4. FamilyShape'
    BY <1>1, <1>3, <1>7, <2>1, <2>2, <2>3 DEF FamilyShape
  <2>5. OneHold(chords', engine')
    BY <1>7, <2>1, <2>3 DEF OneHold
  <2>6. Remembered'
    BY <1>7, <2>1, <2>3, <2>5 DEF Remembered, fully
  <2>7. FiredOnce'
    BY <1>7, <2>1 DEF FiredOnce
  <2>8. Follows(dictation', engine'.started)
    BY <1>7, <2>1, <2>3
  <2> QED
    BY <2>4, <2>6, <2>7, <2>8 DEF FamilyIInv
<1>8. CASE b = e
  <2>1. b \in Engines(chords) /\ b.active \subseteq fully /\ OneHold(chords, b)
    BY <1>2, <1>4, <1>8
  <2>2. b.fires = <<>> /\ DOMAIN b.fires = {} /\ b.started = e.started
    BY <1>2, <1>8
  <2>3. Dictated(s, b.fires) = s
    BY <2>2, DictatedNothing
  <2>4. \A i \in DOMAIN b.fires : b.fires[i][1] \in Rising => i = 1
    BY <2>2
  <2> QED
    BY <1>5, <1>7, <2>1, <2>2, <2>3, <2>4
<1>9. ASSUME NEW w \in DOMAIN chords, Wins(chords, fully, e.prev, w), b \in Engines(chords),
             WinFires(chords, e, b, w)
      PROVE  FamilyIInv'
  <2>1. chords[w].kind = "hold" => HoldsOf(chords, e.active) = {}
    <3>1. CASE Started(chords, e, b, w)
      <4>1. \A h \in DOMAIN chords : <<>> # <<h>>
        OBVIOUS
      <4> QED
        BY <1>2, <3>1, <4>1 DEF Started, OneHold
    <3>2. chords[w].kind = "hold" => Started(chords, e, b, w)
      BY <1>9 DEF WinFires, Toggled, Upgraded, Opened
    <3> QED
      BY <3>1, <3>2
  <2>2. /\ OneHold(chords, b) /\ b.active \subseteq e.active \cup {w}
        /\ \E n \in 1..2 : \A i \in DOMAIN b.fires : b.fires[i][1] \in Rising => i = n
    BY <1>2, <1>3, <1>9, <2>1, WinLeavesOne
  <2>3. b.active \subseteq fully
    BY <1>2, <1>4, <1>9, <2>2 DEF Wins
  <2>4. Dictated(s, b.fires) \in Dictations /\ Follows(Dictated(s, b.fires), b.started)
    BY <1>3, <1>5, <1>9, TheSessionFollows
  <2> QED
    BY <1>7, <1>9, <2>2, <2>3, <2>4
<1> QED
  BY <1>6, <1>8, <1>9

LEMMA ReleaseOutcome ==
  ASSUME FamilyIInv, NEW k \in AllKeys, KeyGoesUp(k)
  PROVE  /\ FamilyIInv'
         /\ (\E h : engine.started = <<h>>) \/ dictation' = dictation
<1> DEFINE keys == pressed \ {k}
           fully == FullyHeld(chords, keys)
           e == [active |-> engine.active, prev |-> engine.prev,
                 started |-> engine.started, fires |-> <<>>]
           b == Sweep(chords, fully, e)[Len(chords)]
<1>1. keys \in SUBSET AllKeys /\ Transition(keys) /\ keys \subseteq pressed
  BY DEF KeyGoesUp, FamilyIInv, FamilyShape
<1>2. /\ fully \in SUBSET DOMAIN chords /\ e \in Engines(chords)
      /\ e.active = engine.active /\ e.prev = engine.prev
      /\ e.started = engine.started /\ e.fires = <<>>
      /\ e.active \subseteq e.prev /\ OneHold(chords, e)
      /\ pressed' = keys /\ chords' = chords
      /\ b \in Engines(chords) =>
           /\ engine' = [active |-> b.active, prev |-> fully, started |-> b.started]
           /\ fired' = b.fires
           /\ dictation' = Dictated(dictation, b.fires)
  BY <1>1, OneEvent
<1>3. /\ chords \in Lists /\ Len(chords) <= MaxChords
      /\ dictation \in Dictations /\ Follows(dictation, engine.started)
  BY DEF FamilyIInv, FamilyShape
<1>4. fully \subseteq e.prev
  BY <1>1, <1>2 DEF FamilyIInv, Remembered, FullyHeld
<1> HIDE DEF e, b, fully, keys
<1>5. /\ b \in Engines(chords) /\ b.active = e.active \cap fully
      /\ \/ \E h \in DOMAIN chords : Stops(chords, fully, e, b, h)
         \/ /\ b.started = e.started /\ b.fires = <<>>
            /\ HoldsOf(chords, e.active) \subseteq fully
  BY <1>2, <1>3, <1>4, SweepOfARelease DEF b
<1>6. /\ engine' = [active |-> b.active, prev |-> fully, started |-> b.started]
      /\ fired' = b.fires /\ dictation' = Dictated(dictation, b.fires)
  BY <1>2, <1>5
<1>7. /\ engine'.active = b.active /\ engine'.prev = fully /\ engine'.started = b.started
      /\ engine' \in [active : SUBSET DOMAIN chords, prev : SUBSET DOMAIN chords,
                      started : Seq(DOMAIN chords)]
  BY <1>2, <1>5, <1>6 DEF Engines
<1>8. ASSUME OneHold(chords, b), \A i \in DOMAIN b.fires : b.fires[i][1] \notin Rising,
             dictation' \in Dictations, Follows(dictation', b.started)
      PROVE  FamilyIInv'
  <2>1. b.fires \in Fires(chords) /\ b.active \subseteq fully
    BY <1>5 DEF Engines
  <2>2. FamilyShape'
    BY <1>1, <1>2, <1>3, <1>6, <1>7, <1>8, <2>1 DEF FamilyShape
  <2>3. OneHold(chords', engine')
    BY <1>2, <1>7, <1>8 DEF OneHold
  <2>4. Remembered'
    BY <1>2, <1>7, <2>1, <2>3 DEF Remembered, fully
  <2>5. FiredOnce'
    BY <1>6, <1>8 DEF FiredOnce
  <2>6. Follows(dictation', engine'.started)
    BY <1>7, <1>8
  <2> QED
    BY <2>2, <2>4, <2>5, <2>6 DEF FamilyIInv
<1>9. ASSUME NEW h \in DOMAIN chords, Stops(chords, fully, e, b, h)
      PROVE  FamilyIInv' /\ \E x : engine.started = <<x>>
  <2>1. e.started = <<h>> /\ h \notin fully /\ b.started = <<>> /\ b.fires = <<<<"stop", h>>>>
    BY <1>9 DEF Stops
  <2>2. \E x : engine.started = <<x>>
    BY <1>2, <2>1
  <2>3. HoldsOf(chords, e.active) = {h}
    BY <1>2, <2>1 DEF OneHold
  <2>4. HoldsOf(chords, b.active) = {}
    BY <1>5, <2>1, <2>3 DEF HoldsOf
  <2>5. OneHold(chords, b)
    BY <2>1, <2>4 DEF OneHold
  <2>6. dictation' = NotDictating
    <3>1. dictation' = Dictate(dictation, <<"stop", h>>)
      BY <1>6, <2>1, DictatedOne
    <3> QED
      BY <3>1 DEF Dictate
  <2>7. dictation' \in Dictations /\ Follows(dictation', b.started)
    BY <2>6, KeysAssumption DEF NotDictating, Dictations, Follows
  <2>8. \A i \in DOMAIN b.fires : b.fires[i][1] \notin Rising
    BY <2>1 DEF Rising
  <2> QED
    BY <1>8, <2>2, <2>5, <2>7, <2>8
<1>10. CASE b.started = e.started /\ b.fires = <<>> /\ HoldsOf(chords, e.active) \subseteq fully
  <2>1. HoldsOf(chords, b.active) = HoldsOf(chords, e.active)
    BY <1>5, <1>10 DEF HoldsOf
  <2>2. OneHold(chords, b)
    BY <1>2, <1>10, <2>1 DEF OneHold
  <2>3. dictation' = dictation
    BY <1>6, <1>10, DictatedNothing
  <2>4. DOMAIN b.fires = {}
    BY <1>10
  <2>5. dictation' \in Dictations /\ Follows(dictation', b.started)
    BY <1>2, <1>3, <1>10, <2>3
  <2> QED
    BY <1>8, <2>2, <2>3, <2>4, <2>5
<1> QED
  BY <1>5, <1>9, <1>10

THEOREM FamilyInvariant == FamilySpec => []FamilyIInv
<1>1. FamilyIInv /\ [FamilyNext]_familyVars => FamilyIInv'
  <2> SUFFICES ASSUME FamilyIInv, [FamilyNext]_familyVars PROVE FamilyIInv'
    OBVIOUS
  <2>1. ASSUME NEW k \in AllKeys, KeyGoesDown(k) PROVE FamilyIInv'
    BY <2>1, PressKeeps
  <2>2. ASSUME NEW k \in AllKeys, KeyGoesUp(k) PROVE FamilyIInv'
    BY <2>2, ReleaseOutcome
  <2>3. CASE UNCHANGED familyVars
    BY <2>3 DEF familyVars, FamilyIInv, FamilyShape, Remembered, FiredOnce
  <2> QED
    BY <2>1, <2>2, <2>3 DEF FamilyNext
<1> QED
  BY <1>1, FamilyStarts, PTL DEF FamilySpec

(* The engine's state stays about the registered chords, and each variable  *)
(* keeps its type, for any keys and any number of chords.                  *)
THEOREM FamilyTypeCorrect == FamilySpec => []FamilyTypeOK
<1>1. FamilyIInv => FamilyTypeOK
  <2> SUFFICES ASSUME FamilyIInv PROVE FamilyTypeOK
    OBVIOUS
  <2>1. /\ chords \in Seq(Chord) /\ pressed \subseteq AllKeys
        /\ engine.active \cup engine.prev \subseteq DOMAIN chords
    BY DEF FamilyIInv, FamilyShape, Lists
  <2>2. ToSet(engine.started) = ActiveHolds(chords, engine) /\ IsInjective(engine.started)
    <3>1. ActiveHolds(chords, engine) = HoldsOf(chords, engine.active)
      BY DEF ActiveHolds, HoldsOf
    <3>2. CASE engine.started = <<>> /\ HoldsOf(chords, engine.active) = {}
      BY <3>1, <3>2 DEF ToSet, IsInjective
    <3>3. ASSUME NEW h, engine.started = <<h>>, HoldsOf(chords, engine.active) = {h}
          PROVE  ToSet(engine.started) = ActiveHolds(chords, engine) /\ IsInjective(engine.started)
      <4>1. DOMAIN engine.started = {1} /\ engine.started[1] = h
        BY <3>3
      <4> QED
        BY <3>1, <3>3, <4>1 DEF ToSet, IsInjective
    <3> QED
      BY <3>2, <3>3 DEF FamilyIInv, Remembered, OneHold
  <2>3. \A i \in DOMAIN fired : fired[i] \in FireNames \X DOMAIN chords
    <3>1. fired \in Seq(FireNames \X DOMAIN chords)
      BY DEF FamilyIInv, FamilyShape, Fires
    <3> QED
      BY <3>1
  <2>4. dictation \in Dictations
    BY DEF FamilyIInv, FamilyShape
  <2> QED
    BY <2>1, <2>2, <2>3, <2>4 DEF FamilyTypeOK, Dictations
<1> QED
  BY <1>1, FamilyInvariant, PTL

(* A push-to-talk session runs only while every key of its chord is down,   *)
(* for any keys and any list of chords the registration lets through.      *)
THEOREM NobodyTalksUnheld == FamilySpec => []HoldMeansHeld
<1>1. FamilyIInv => HoldMeansHeld
  <2> SUFFICES ASSUME FamilyIInv, dictation.mode = "hold"
               PROVE  chords[dictation.by].keys \subseteq pressed /\ dictation.by \in engine.active
    BY DEF HoldMeansHeld
  <2>1. engine.started = <<dictation.by>>
    BY DEF FamilyIInv, Follows
  <2>2. dictation.by \in engine.active
    BY <2>1 DEF FamilyIInv, Remembered, OneHold, HoldsOf
  <2> QED
    BY <2>2 DEF FamilyIInv, Remembered, FullyHeld
<1> QED
  BY <1>1, FamilyInvariant, PTL

(* No two push-to-talk chords are live at once, and no key fires two        *)
(* chords, for any keys and any list the registration lets through.        *)
THEOREM TheOneChordWins == FamilySpec => []OneChordWins
<1>1. FamilyIInv => OneChordWins
  <2> SUFFICES ASSUME FamilyIInv PROVE OneChordWins
    OBVIOUS
  <2> DEFINE F == {i \in DOMAIN fired : fired[i][1] \in {"start", "toggle", "reclassify", "quickAdd"}}
  <2>1. ASSUME NEW S, NEW x, S \subseteq {x} PROVE Cardinality(S) <= 1
    <3>1. IsFiniteSet({x}) /\ Cardinality({x}) = 1
      BY FS_Singleton
    <3> QED
      BY <2>1, <3>1, FS_Subset
  <2>2. \E x : ActiveHolds(chords, engine) \subseteq {x}
    BY DEF FamilyIInv, Remembered, OneHold, HoldsOf, ActiveHolds
  <2>3. \E n : F \subseteq {n}
    BY DEF FamilyIInv, FiredOnce, Rising
  <2>4. Cardinality(ActiveHolds(chords, engine)) <= 1
    BY <2>1, <2>2
  <2>5. Cardinality(F) <= 1
    <3> HIDE DEF F
    <3> QED
      BY <2>1, <2>3
  <2> QED
    BY <2>4, <2>5 DEF OneChordWins
<1> QED
  BY <1>1, FamilyInvariant, PTL

(* A session upgraded to hands-free outlives the keys that started it, for   *)
(* any keys and any list the registration lets through.                    *)
THEOREM TheUpgradeStays == FamilySpec => UpgradeOutlivesTheKeys
<1>1. FamilyIInv /\ [FamilyNext]_familyVars
        => [dictation.upgraded /\ Inside(pressed', pressed) => dictation' = dictation]_familyVars
  <2> SUFFICES ASSUME FamilyIInv, FamilyNext, dictation.upgraded, Inside(pressed', pressed)
               PROVE  dictation' = dictation
    OBVIOUS
  <2>1. ASSUME NEW k \in AllKeys, KeyGoesDown(k) PROVE FALSE
    BY <2>1 DEF KeyGoesDown, Transition, Inside
  <2>2. ASSUME NEW k \in AllKeys, KeyGoesUp(k) PROVE dictation' = dictation
    <3>1. engine.started = <<>>
      BY DEF FamilyIInv, Follows
    <3>2. \A h : <<h>> # <<>>
      OBVIOUS
    <3> QED
      BY <2>2, <3>1, <3>2, ReleaseOutcome
  <2> QED
    BY <2>1, <2>2 DEF FamilyNext
<1> QED
  BY <1>1, FamilyInvariant, PTL DEF FamilySpec, UpgradeOutlivesTheKeys

-----------------------------------------------------------------------------
(* The listener: what a manufactured stop cut loose.                                      *)

SessionType ==
  /\ session \in [mode : {"none", "hold", "handsFree", "finalizing"}, by : {session.by},
                  down : SUBSET session.down, refired : BOOLEAN]
  /\ latch \in BOOLEAN

(* While a finalizing session waits under a modifier not let go since its   *)
(* stop, and no chord fired since, the loss latch is armed.                *)
LatchStands ==
  session.mode = "finalizing" /\ session.down # {} /\ ~session.refired => latch

CutLoose == SessionType /\ LatchStands /\ ChordTextDiverted

LEMMA CutLooseStep == CutLoose /\ [Next]_vars => CutLoose'
<1> SUFFICES ASSUME CutLoose, [Next]_vars PROVE CutLoose'
  OBVIOUS
<1> USE DEF CutLoose, SessionType, LatchStands, ChordTextDiverted
<1>1. CASE UNCHANGED <<session, latch, intoChord>>
  BY <1>1
<1>2. ASSUME NEW down, StopSession(down), latch' \in BOOLEAN, latch => latch',
             down # {} => latch', UNCHANGED intoChord
      PROVE  CutLoose'
  BY <1>2 DEF StopSession, IsCapturing, NoSession
<1>3. ASSUME NEW p, RunSession(p, "hold") \/ RunSession(p, "handsFree") \/ KeepSession,
             latch' \in BOOLEAN, UNCHANGED intoChord
      PROVE  CutLoose'
  BY <1>3 DEF RunSession, KeepSession, NoSession
<1>4. ASSUME NEW g \in Gens, ReaderStep(g)
      PROVE  CutLoose'
  <2>1. CASE DispatchRising(g)
    <3>1. UNCHANGED intoChord
      BY <2>1 DEF DispatchRising
    <3>2. ASSUME NEW p, DoStart(g, p) PROVE CutLoose'
      <4>1. CASE g = generation
        BY <3>1, <3>2, <4>1, <1>3 DEF DoStart, Rises
      <4>2. CASE g # generation
        BY <3>1, <3>2, <4>2 DEF DoStart
      <4>3. QED
        BY <4>1, <4>2
    <3>3. ASSUME NEW p, DoToggle(p) PROVE CutLoose'
      <4>1. CASE session = NoSession
        <5>1. ~IsCapturing
          BY <4>1 DEF IsCapturing, NoSession
        <5>2. RunSession(p, "handsFree") /\ latch' = FALSE
          BY <3>3, <4>1, <5>1 DEF DoToggle, Rises
        <5>3. QED
          BY <3>1, <5>2, <1>3
      <4>2. CASE session # NoSession /\ IsCapturing
        <5>1. StopSession({}) /\ latch' = FALSE
          BY <3>3, <4>2 DEF DoToggle, Rises
        <5>2. session'.down = {} /\ session'.mode = "finalizing"
          BY <4>2, <5>1 DEF StopSession, NoSession
        <5>3. session' \in [mode : {"none", "hold", "handsFree", "finalizing"},
                            by : {session'.by}, down : SUBSET session'.down,
                            refired : BOOLEAN]
          BY <4>2, <5>1 DEF StopSession, NoSession
        <5>4. QED
          BY <3>1, <5>1, <5>2, <5>3
      <4>3. CASE session # NoSession /\ ~IsCapturing
        <5>1. session' = NoSession /\ latch' = FALSE
          BY <3>3, <4>3 DEF DoToggle, Rises
        <5>2. QED
          BY <3>1, <5>1 DEF NoSession
      <4>4. QED
        BY <4>1, <4>2, <4>3
    <3>4. ASSUME NEW p, DoReclassify(p) PROVE CutLoose'
      <4>1. CASE session.mode \in {"none", "hold"}
        BY <3>1, <3>4, <4>1, <1>3 DEF DoReclassify, Rises
      <4>2. CASE session.mode = "handsFree"
        BY <3>1, <3>4, <4>2 DEF DoReclassify, Rises, StopSession, IsCapturing, NoSession
      <4>3. CASE session.mode = "finalizing"
        BY <3>1, <3>4, <4>3, <1>3 DEF DoReclassify, Rises
      <4>4. QED
        BY <4>1, <4>2, <4>3
    <3>5. QED
      BY <2>1, <3>1, <3>2, <3>3, <3>4 DEF DispatchRising
  <2>2. CASE DispatchStop(g)
    BY <2>2, <1>2 DEF DispatchStop
  <2>3. CASE Manufacture(g)
    <3> DEFINE p == Head(reader[g].fires)[2]
    <3>1. StopSession(ModsOf(p) \cap phys) /\ Arms(p) /\ UNCHANGED intoChord
      BY <2>3 DEF Manufacture
    <3> HIDE DEF p
    <3>2. latch' \in BOOLEAN /\ (latch => latch') /\ (ModsOf(p) \cap phys # {} => latch')
      BY <3>1 DEF Arms
    <3>3. QED
      BY <3>1, <3>2, <1>2
  <2>4. CASE Wake(g) \/ Debounce(g) \/ Drain(g) \/ Commit(g) \/ ForgetHold(g)
               \/ ClaimStop(g) \/ PostLoop(g)
    BY <2>4, <1>1 DEF Wake, Debounce, Drain, Commit, ForgetHold, ClaimStop, PostLoop,
                      registries
  <2>5. QED
    BY <1>4, <2>1, <2>2, <2>3, <2>4 DEF ReaderStep
<1>5. CASE \E g \in Gens : Park(g)
  BY <1>5, <1>1 DEF Park, registries
<1>6. CASE \E k \in Keys : Press(k)
  BY <1>6, <1>1 DEF Press, registries
<1>7. ASSUME NEW down, session' = [session EXCEPT !.down = down], down \subseteq session.down,
             UNCHANGED <<latch, intoChord>>
      PROVE  CutLoose'
  BY <1>7
<1>8. CASE (\E k \in Keys : Release(k)) \/ StreamEnds
  BY <1>8, <1>7 DEF Release, StreamEnds, registries
<1>9. CASE Retire \/ Take \/ Clear \/ Spawn
  BY <1>9, <1>1 DEF Retire, Take, Clear, Spawn, registries
<1>10. CASE TakeEmits
  <2> DEFINE p == Head(td.owed)
  <2>1. StopSession(ModsOf(p) \cap phys) /\ Arms(p) /\ UNCHANGED intoChord
    BY <1>10 DEF TakeEmits
  <2> HIDE DEF p
  <2>2. latch' \in BOOLEAN /\ (latch => latch') /\ (ModsOf(p) \cap phys # {} => latch')
    BY <2>1 DEF Arms
  <2>3. QED
    BY <2>1, <2>2, <1>2
<1>11. CASE Inject
  <2>1. session' = NoSession /\ latch' = FALSE /\ "plain" \notin intoChord'
    BY <1>11 DEF Inject
  <2>2. QED
    BY <2>1 DEF NoSession
<1>12. CASE UNCHANGED vars
  BY <1>12, <1>1 DEF vars, registries
<1>13. QED
  BY <1>4, <1>5, <1>6, <1>8, <1>9, <1>10, <1>11, <1>12 DEF Next, ApplyStep

(* A transcript cut loose by a manufactured stop is never typed while a     *)
(* modifier that was down at that stop has not been let go since, unless a  *)
(* chord fired in between: every chord, every restart, every unplug.       *)
THEOREM CutLooseTextDiverted == Spec => []ChordTextDiverted
<1>1. Init => CutLoose
  <2> SUFFICES ASSUME Init PROVE CutLoose
    OBVIOUS
  <2>1. session = NoSession /\ latch = FALSE /\ intoChord = {}
    BY DEF Init
  <2>2. QED
    BY <2>1 DEF CutLoose, SessionType, LatchStands, ChordTextDiverted, NoSession
<1>2. CutLoose => ChordTextDiverted
  BY DEF CutLoose
<1> QED
  BY <1>1, <1>2, CutLooseStep, PTL DEF Spec
-----------------------------------------------------------------------------
(* A reader and the keyboard.                                               *)

Down(k) == <<"down", k>>
Up(k)   == <<"up", k>>
Lost    == <<"lost">>

ReaderOf(e, f) ==
  [st : {"none", "parked", "busy", "post", "gone"}, w : Nat, q : Seq(Events),
   held : SUBSET Keys, pend : Seq(Keys), engine : {e}, ev : {<<>>} \cup Events,
   todo : Seq(Event), fires : {f}]

(* A parked reader has finished what it took out of its queue.             *)
Sound(r) ==
  /\ r \in ReaderOf(r.engine, r.fires)
  /\ r.st = "parked" => r.todo = <<>> /\ r.ev = <<>>

(* x is followed by y: y is queued behind every x.                         *)
Followed(s, x, y) ==
  \A i \in 1..Len(s) : s[i] = x => \E j \in (i + 1)..Len(s) : s[j] = y

(* The reader follows the keyboard still: no end of its stream is ahead.    *)
Listens(r) == r.st \in {"parked", "busy"} /\ Lost \notin ToSet(r.q) /\ r.ev # Lost

(* What the reader has queued, taken, deferred and is committing ends with  *)
(* k let go.                                                               *)
LetsGo(r, k) ==
  /\ Followed(r.q, Down(k), Up(k))
  /\ r.ev = Down(k) => Up(k) \in ToSet(r.q)
  /\ \/ r.ev = Up(k) \/ Up(k) \in ToSet(r.q) \/ k \in ToSet(r.pend)
     \/ /\ Down(k) \notin ToSet(r.todo)
        /\ k \in r.held => Up(k) \in ToSet(r.todo)

(* A reader that listens lets go of whatever is not down.                   *)
Tracks(r, down) == Sound(r) /\ (Listens(r) => \A k \in Keys \ down : LetsGo(r, k))

AllTrack ==
  /\ reader = [g \in Gens |-> reader[g]]
  /\ \A g \in Gens : Tracks(reader[g], phys)

-----------------------------------------------------------------------------
(* The readers and the mirror.                                              *)

Live(r) == r.st \in {"parked", "busy", "post"}

(* What may be left of an apply.                                           *)
Left == Applies \cup {<<"clear", "spawn">>, <<"spawn">>, <<"clear">>, <<"take">>, <<>>}

Clearing == "clear" \in ToSet(td.steps)

ApplyType ==
  /\ td \in [steps : Left, owed : {td.owed}]
  /\ td.steps # <<>> => alive = 0
  /\ writers \in Nat

(* Of the readers that still run, only the one EvdevState owns may count a  *)
(* key, unless a clear is due.                                             *)
OneWriter ==
  /\ \A g \in Gens : Live(reader[g]) => reader[g].w <= writers
  /\ ~Clearing => \A g \in Gens : Live(reader[g]) /\ reader[g].w = writers => g = alive

(* Unless a clear is due, every key counted is held by a reader that will   *)
(* take it out of the mirror.                                              *)
Counted ==
  ~Clearing => \A k \in heldKeys : \E g \in Gens :
                 Live(reader[g]) /\ reader[g].w = writers /\ k \in reader[g].held

GateInv == AllTrack /\ ApplyType /\ OneWriter /\ Counted

-----------------------------------------------------------------------------
(* Sequences: their elements, and what is followed by what.                 *)

LEMMA AppendSet ==
  ASSUME NEW S, NEW s \in Seq(S), NEW e \in S
  PROVE  /\ Append(s, e) \in Seq(S) /\ ToSet(Append(s, e)) = ToSet(s) \cup {e}
         /\ \A x, y : Followed(s, x, y) /\ e # x => Followed(Append(s, e), x, y)
         /\ \A x : e # x => Followed(Append(s, e), x, e)
<1> DEFINE r == Append(s, e)
<1>1. /\ r \in Seq(S) /\ Len(r) = Len(s) + 1 /\ Len(s) \in Nat
      /\ \A i \in 1..Len(s) : r[i] = s[i]
      /\ r[Len(s) + 1] = e
      /\ DOMAIN r = 1..Len(r) /\ DOMAIN s = 1..Len(s)
  BY AppendProperties, LenProperties
<1> HIDE DEF r
<1>2. ToSet(r) = ToSet(s) \cup {e}
  <2>1. ASSUME NEW x \in ToSet(r) PROVE x \in ToSet(s) \cup {e}
    BY <1>1, <2>1 DEF ToSet
  <2>2. ToSet(s) \subseteq ToSet(r) /\ e \in ToSet(r)
    BY <1>1 DEF ToSet
  <2>3. QED
    BY <2>1, <2>2
<1>3. ASSUME NEW x, NEW y, Followed(s, x, y) \/ y = e, e # x
      PROVE  Followed(r, x, y)
  <2>1. SUFFICES ASSUME NEW i \in 1..Len(r), r[i] = x
                 PROVE  \E j \in (i + 1)..Len(r) : r[j] = y
    BY DEF Followed
  <2>2. i \in 1..Len(s) /\ s[i] = x
    BY <1>1, <1>3, <2>1
  <2>3. CASE Followed(s, x, y)
    <3>1. PICK j \in (i + 1)..Len(s) : s[j] = y
      BY <2>2, <2>3 DEF Followed
    <3>2. j \in (i + 1)..Len(r) /\ r[j] = y
      BY <1>1, <2>2, <3>1
    <3>3. QED
      BY <3>2
  <2>4. CASE y = e
    <3>1. Len(r) \in (i + 1)..Len(r) /\ r[Len(r)] = y
      BY <1>1, <2>2, <2>4
    <3>2. QED
      BY <3>1
  <2>5. QED
    BY <1>3, <2>3, <2>4
<1>4. QED
  BY <1>1, <1>2, <1>3 DEF r

LEMMA TailSet ==
  ASSUME NEW S, NEW s \in Seq(S), s # <<>>
  PROVE  /\ Head(s) \in S /\ Tail(s) \in Seq(S)
         /\ ToSet(s) = {Head(s)} \cup ToSet(Tail(s))
         /\ \A x, y : Followed(s, x, y) => /\ Followed(Tail(s), x, y)
                                           /\ Head(s) = x => y \in ToSet(Tail(s))
<1> DEFINE t == Tail(s)
           h == Head(s)
<1>1. /\ h \in S /\ t \in Seq(S) /\ Len(t) = Len(s) - 1 /\ Len(s) \in Nat \ {0}
      /\ h = s[1] /\ \A i \in 1..Len(t) : t[i] = s[i + 1]
      /\ DOMAIN t = 1..Len(t) /\ DOMAIN s = 1..Len(s)
  BY HeadTailProperties, LenProperties, EmptySeq
<1> HIDE DEF t, h
<1>2. \A j \in 2..Len(s) : j - 1 \in 1..Len(t) /\ t[j - 1] = s[j]
  BY <1>1
<1>3. ToSet(s) = {h} \cup ToSet(t)
  <2>1. ASSUME NEW x \in ToSet(s) PROVE x \in {h} \cup ToSet(t)
    <3>1. PICK i \in 1..Len(s) : s[i] = x
      BY <1>1 DEF ToSet
    <3>2. CASE i = 1
      BY <1>1, <3>1, <3>2
    <3>3. CASE i # 1
      <4>1. i \in 2..Len(s)
        BY <1>1, <3>1, <3>3
      <4>2. QED
        BY <1>1, <1>2, <3>1, <4>1 DEF ToSet
    <3>4. QED
      BY <3>2, <3>3
  <2>2. ASSUME NEW x \in ToSet(t) PROVE x \in ToSet(s)
    <3>1. PICK i \in 1..Len(t) : t[i] = x
      BY <1>1 DEF ToSet
    <3>2. i + 1 \in 1..Len(s) /\ s[i + 1] = x
      BY <1>1, <3>1
    <3>3. QED
      BY <1>1, <3>2 DEF ToSet
  <2>3. h \in ToSet(s)
    BY <1>1 DEF ToSet
  <2>4. QED
    BY <2>1, <2>2, <2>3
<1>4. ASSUME NEW x, NEW y, Followed(s, x, y)
      PROVE  Followed(t, x, y) /\ (h = x => y \in ToSet(t))
  <2>1. ASSUME NEW i \in 1..Len(t), t[i] = x
        PROVE  \E j \in (i + 1)..Len(t) : t[j] = y
    <3>1. i + 1 \in 1..Len(s) /\ s[i + 1] = x
      BY <1>1, <2>1
    <3>2. PICK j \in (i + 2)..Len(s) : s[j] = y
      <4>1. PICK j \in ((i + 1) + 1)..Len(s) : s[j] = y
        BY <1>4, <3>1 DEF Followed
      <4>2. QED
        BY <1>1, <4>1
    <3>3. j - 1 \in (i + 1)..Len(t) /\ t[j - 1] = y
      BY <1>1, <3>2
    <3>4. QED
      BY <3>3
  <2>2. ASSUME h = x PROVE y \in ToSet(t)
    <3>1. 1 \in 1..Len(s) /\ s[1] = x
      BY <1>1, <2>2
    <3>2. PICK j \in (1 + 1)..Len(s) : s[j] = y
      BY <1>4, <3>1 DEF Followed
    <3>3. j \in 2..Len(s)
      BY <3>2
    <3>4. QED
      BY <1>1, <1>2, <3>2, <3>3 DEF ToSet
  <2>3. QED
    BY <2>1, <2>2 DEF Followed
<1>5. QED
  BY <1>1, <1>3, <1>4 DEF t, h

LEMMA SplitSet ==
  ASSUME NEW S, NEW s \in Seq(S), NEW n \in 0..Len(s)
  PROVE  /\ SubSeq(s, n + 1, Len(s)) \in Seq(S)
         /\ \A x \in ToSet(s) : \/ x \in ToSet(SubSeq(s, n + 1, Len(s)))
                                \/ \E i \in 1..n : s[i] = x
<1> DEFINE t == SubSeq(s, n + 1, Len(s))
<1>1. /\ Len(s) \in Nat /\ DOMAIN s = 1..Len(s)
      /\ \A i \in 1..Len(s) : s[i] \in S
  BY LenProperties, ElementOfSeq
<1>2. /\ t \in Seq(S) /\ Len(t) = Len(s) - n /\ DOMAIN t = 1..Len(t)
      /\ \A i \in 1..Len(t) : t[i] = s[n + i]
  <2>1. n + 1 \in Int /\ Len(s) \in Int /\ \A i \in (n + 1)..Len(s) : s[i] \in S
    BY <1>1
  <2>2. /\ t \in Seq(S)
        /\ Len(t) = IF n + 1 <= Len(s) THEN Len(s) - (n + 1) + 1 ELSE 0
        /\ \A i \in 1..(Len(s) - (n + 1) + 1) : t[i] = s[(n + 1) + i - 1]
    BY <2>1, SubSeqProperties
  <2> HIDE DEF t
  <2>3. n \in Nat /\ n <= Len(s)
    BY <1>1
  <2>4. Len(t) = Len(s) - n
    <3>1. CASE n + 1 <= Len(s)
      BY <1>1, <2>2, <2>3, <3>1
    <3>2. CASE ~(n + 1 <= Len(s))
      <4>1. n = Len(s)
        <5>1. \A a, b \in Nat : a <= b /\ ~(a + 1 <= b) => a = b
          OBVIOUS
        <5>2. QED
          BY <1>1, <2>3, <3>2, <5>1
      <4>2. Len(t) = 0
        BY <2>2, <3>2
      <4>3. QED
        BY <1>1, <4>1, <4>2
    <3>3. QED
      BY <3>1, <3>2
  <2>5. ASSUME NEW i \in 1..Len(t) PROVE t[i] = s[n + i]
    <3>1. i \in 1..(Len(s) - (n + 1) + 1) /\ (n + 1) + i - 1 = n + i
      BY <1>1, <2>3, <2>4, <2>5
    <3>2. QED
      BY <2>2, <3>1
  <2>6. QED
    BY <2>2, <2>4, <2>5, LenProperties
<1> HIDE DEF t
<1>3. ASSUME NEW x \in ToSet(s), ~ \E i \in 1..n : s[i] = x PROVE x \in ToSet(t)
  <2>1. PICK i \in 1..Len(s) : s[i] = x
    BY <1>1 DEF ToSet
  <2>2. ~(i \in 1..n)
    BY <1>3, <2>1
  <2>3. i - n \in 1..Len(t) /\ n + (i - n) = i
    BY <1>1, <1>2, <2>1, <2>2
  <2>4. t[i - n] = x
    BY <1>2, <2>1, <2>3
  <2>5. QED
    BY <1>2, <2>3, <2>4 DEF ToSet
<1>4. QED
  BY <1>2, <1>3 DEF t

LEMMA WithdrawSet ==
  ASSUME NEW S, NEW s \in Seq(S), NEW k \in ToSet(s)
  PROVE  /\ Withdraw(s, k) \in Seq(S)
         /\ \A x \in ToSet(s) : x = k \/ x \in ToSet(Withdraw(s, k))
<1> DEFINE n == CHOOSE i \in DOMAIN s : s[i] = k
           a == SubSeq(s, 1, n - 1)
           b == SubSeq(s, n + 1, Len(s))
<1>1. /\ Len(s) \in Nat /\ DOMAIN s = 1..Len(s)
      /\ \A i \in 1..Len(s) : s[i] \in S
  BY LenProperties, ElementOfSeq
<1>2. n \in 1..Len(s) /\ s[n] = k
  BY <1>1 DEF ToSet
<1>3. Withdraw(s, k) = a \o b
  BY DEF Withdraw, RemoveAt
<1> HIDE DEF n
<1>4. /\ a \in Seq(S) /\ Len(a) = n - 1
      /\ \A i \in 1..Len(a) : a[i] = s[i]
  <2>1. n - 1 \in Int /\ 1 \in Int /\ \A i \in 1..(n - 1) : s[i] \in S
    BY <1>1, <1>2
  <2>2. /\ a \in Seq(S)
        /\ Len(a) = IF 1 <= n - 1 THEN (n - 1) - 1 + 1 ELSE 0
        /\ \A i \in 1..((n - 1) - 1 + 1) : a[i] = s[1 + i - 1]
    BY <2>1, SubSeqProperties
  <2> HIDE DEF a
  <2>3. Len(a) = n - 1
    BY <1>1, <1>2, <2>2
  <2>4. \A i \in 1..Len(a) : a[i] = s[i]
    BY <1>1, <1>2, <2>2, <2>3
  <2>5. QED
    BY <2>2, <2>3, <2>4
<1>5. b \in Seq(S) /\ \A x \in ToSet(s) : x \in ToSet(b) \/ \E i \in 1..n : s[i] = x
  BY <1>1, <1>2, SplitSet
<1> HIDE DEF a, b
<1>6. /\ a \o b \in Seq(S) /\ Len(a \o b) = Len(a) + Len(b) /\ Len(b) \in Nat
      /\ \A i \in 1..(Len(a) + Len(b)) :
           (a \o b)[i] = IF i <= Len(a) THEN a[i] ELSE b[i - Len(a)]
      /\ DOMAIN (a \o b) = 1..(Len(a) + Len(b)) /\ DOMAIN b = 1..Len(b)
  BY <1>4, <1>5, ConcatProperties, LenProperties
<1> DEFINE c == a \o b
<1> HIDE DEF c
<1>7. ASSUME NEW x \in ToSet(s), x # k PROVE x \in ToSet(c)
  <2>1. CASE x \in ToSet(b)
    <3>1. PICK i \in 1..Len(b) : b[i] = x
      BY <1>6, <2>1 DEF ToSet
    <3>2. i + Len(a) \in 1..(Len(a) + Len(b)) /\ ~(i + Len(a) <= Len(a))
          /\ (i + Len(a)) - Len(a) = i
      BY <1>2, <1>4, <1>6, <3>1
    <3>3. c[i + Len(a)] = x
      BY <1>6, <3>1, <3>2 DEF c
    <3>4. QED
      BY <1>6, <3>2, <3>3 DEF ToSet, c
  <2>2. CASE x \notin ToSet(b)
    <3>1. PICK i \in 1..n : s[i] = x
      BY <1>5, <2>2
    <3>2. i # n
      BY <1>2, <1>7, <3>1
    <3>3. i \in 1..Len(a) /\ i \in 1..(Len(a) + Len(b)) /\ i <= Len(a)
      BY <1>2, <1>4, <1>6, <3>1, <3>2
    <3>4. c[i] = x
      BY <1>4, <1>6, <3>1, <3>3 DEF c
    <3>5. QED
      BY <1>6, <3>3, <3>4 DEF ToSet, c
  <2>3. QED
    BY <2>1, <2>2
<1>8. QED
  BY <1>3, <1>6, <1>7 DEF c

-----------------------------------------------------------------------------
(* What a reader does with its events.                                      *)

LEMMA EventFacts ==
  /\ \A k \in Keys : /\ Down(k) \in Event /\ Up(k) \in Event
                     /\ Down(k) # Lost /\ Up(k) # Lost /\ Down(k) # <<>> /\ Up(k) # <<>>
                     /\ \A j \in Keys : /\ Down(j) # Up(k)
                                        /\ Up(j) = Up(k) => j = k
                                        /\ Down(j) = Down(k) => j = k
  /\ \A e \in Event : /\ e[2] \in Keys
                      /\ e[1] = "down" => e = Down(e[2])
                      /\ e[1] # "down" => e = Up(e[2])
  /\ Lost # <<>> /\ Events = Event \cup {Lost}
BY DEF Down, Up, Lost, Event, Events

(* Nothing but the engine, its fires, or a busy state changes.              *)
LEMMA TracksFires ==
  ASSUME NEW r, NEW D, Tracks(r, D), r.st # "parked", NEW x, NEW y
  PROVE  /\ Tracks([r EXCEPT !.fires = x], D)
         /\ Tracks([r EXCEPT !.fires = x, !.engine = y], D)
BY DEF Tracks, Sound, ReaderOf, Listens, LetsGo

LEMMA TracksGone ==
  ASSUME NEW D
  PROVE  Tracks([NoReader EXCEPT !.st = "gone"], D)
BY EmptySeq DEF Tracks, Sound, ReaderOf, Listens, NoReader

(* expire, and the event that woke the reader.                              *)
LEMMA TracksWoken ==
  ASSUME NEW r, NEW D, Tracks(r, D), r.st \in {"parked", "busy"}, ~HasWork(r),
         NEW due \in 0..Len(r.pend), NEW event \in {0, 1}, event <= Len(r.q)
  PROVE  Tracks([r EXCEPT !.st = "busy",
                          !.todo = [i \in 1..due |-> <<"up", r.pend[i]>>],
                          !.pend = SubSeq(@, due + 1, Len(@)),
                          !.ev = IF event = 1 THEN Head(r.q) ELSE <<>>,
                          !.q = IF event = 1 THEN Tail(@) ELSE @], D)
<1> DEFINE todo == [i \in 1..due |-> Up(r.pend[i])]
           pend == SubSeq(r.pend, due + 1, Len(r.pend))
           ev   == IF event = 1 THEN Head(r.q) ELSE <<>>
           q    == IF event = 1 THEN Tail(r.q) ELSE r.q
           n    == [r EXCEPT !.st = "busy", !.todo = todo, !.pend = pend, !.ev = ev,
                             !.q = q]
<1>1. /\ r \in ReaderOf(r.engine, r.fires) /\ r.todo = <<>> /\ r.ev = <<>>
      /\ r.q \in Seq(Events) /\ r.pend \in Seq(Keys) /\ r.held \in SUBSET Keys
  BY DEF Tracks, Sound, ReaderOf, HasWork
<1>2. event = 1 => r.q # <<>>
  BY <1>1, LenProperties, EmptySeq
<1>3. /\ Len(r.pend) \in Nat /\ due \in Nat /\ \A i \in 1..due : r.pend[i] \in Keys
      /\ DOMAIN r.pend = 1..Len(r.pend) /\ \A i \in 1..due : i \in 1..Len(r.pend)
  BY <1>1, LenProperties, ElementOfSeq
<1>4. /\ todo \in Seq(Event) /\ DOMAIN todo = 1..due
      /\ \A i \in 1..due : todo[i] = Up(r.pend[i])
  <2>1. \A i \in 1..due : Up(r.pend[i]) \in Event
    BY <1>3, EventFacts
  <2>2. todo \in [1..due -> Event]
    BY <2>1
  <2>3. QED
    BY <1>3, <2>2, SeqDef
<1>5. /\ pend \in Seq(Keys)
      /\ \A x \in ToSet(r.pend) : x \in ToSet(pend) \/ \E i \in 1..due : r.pend[i] = x
  BY <1>1, SplitSet
<1>6. /\ q \in Seq(Events) /\ ev \in {<<>>} \cup Events
      /\ ToSet(r.q) = ToSet(q) \cup (IF event = 1 THEN {ev} ELSE {})
      /\ \A x, y : Followed(r.q, x, y) => /\ Followed(q, x, y)
                                          /\ event = 1 /\ ev = x => y \in ToSet(q)
  <2>1. CASE event = 1
    BY <1>1, <1>2, <2>1, TailSet
  <2>2. CASE event = 0
    BY <1>1, <2>2
  <2>3. QED
    BY <2>1, <2>2
<1> HIDE DEF todo, pend, ev, q
<1>7. /\ n.st = "busy" /\ n.todo = todo /\ n.pend = pend /\ n.ev = ev /\ n.q = q
      /\ n.held = r.held /\ n.engine = r.engine /\ n.fires = r.fires
      /\ n \in ReaderOf(n.engine, n.fires)
  BY <1>1, <1>4, <1>5, <1>6 DEF ReaderOf
<1> HIDE DEF n
<1>8. ASSUME Listens(n), NEW k \in Keys \ D
      PROVE  LetsGo(n, k)
  <2>1. Lost \notin ToSet(q) /\ ev # Lost
    BY <1>7, <1>8 DEF Listens
  <2>2. Lost \notin ToSet(r.q)
    BY <1>6, <2>1
  <2>3. LetsGo(r, k)
    BY <1>1, <2>2, EventFacts DEF Tracks, Listens
  <2>4. Followed(q, Down(k), Up(k)) /\ (ev = Down(k) => Up(k) \in ToSet(q))
    <3>1. Followed(r.q, Down(k), Up(k))
      BY <2>3 DEF LetsGo
    <3>2. ev = Down(k) => event = 1
      BY EventFacts DEF ev
    <3>3. QED
      BY <1>6, <3>1, <3>2
  <2>5. ASSUME ev # Up(k), Up(k) \notin ToSet(q), k \notin ToSet(pend)
        PROVE  Down(k) \notin ToSet(todo) /\ (k \in r.held => Up(k) \in ToSet(todo))
    <3>1. Up(k) \notin ToSet(r.q) /\ r.ev # Up(k)
      BY <1>1, <1>6, <2>5, EventFacts
    <3>2. Down(k) \notin ToSet(todo)
      BY <1>3, <1>4, EventFacts DEF ToSet
    <3>3. k \in ToSet(r.pend) => Up(k) \in ToSet(todo)
      <4>1. SUFFICES ASSUME k \in ToSet(r.pend) PROVE Up(k) \in ToSet(todo)
        OBVIOUS
      <4>2. PICK i \in 1..due : r.pend[i] = k
        BY <1>5, <2>5, <4>1
      <4>3. todo[i] = Up(k) /\ i \in DOMAIN todo
        BY <1>4, <4>2
      <4>4. QED
        BY <4>3 DEF ToSet
    <3>4. Up(k) \notin ToSet(r.todo)
      BY <1>1 DEF ToSet
    <3>5. k \in r.held => k \in ToSet(r.pend)
      BY <2>3, <3>1, <3>4 DEF LetsGo
    <3>6. QED
      BY <3>2, <3>3, <3>5
  <2>6. QED
    BY <1>7, <2>4, <2>5 DEF LetsGo
<1>9. Tracks(n, D)
  BY <1>7, <1>8 DEF Tracks, Sound
<1>10. QED
  BY <1>9 DEF n, todo, pend, ev, q, Up

(* Draining commits every deferred release; the reader listens no more.     *)
LEMMA TracksDrained ==
  ASSUME NEW r, NEW D, Tracks(r, D)
  PROVE  Tracks([r EXCEPT !.st = "post", !.ev = <<>>, !.pend = <<>>,
                          !.todo = [i \in DOMAIN r.pend |-> <<"up", r.pend[i]>>]], D)
<1> DEFINE todo == [i \in DOMAIN r.pend |-> Up(r.pend[i])]
           n    == [r EXCEPT !.st = "post", !.ev = <<>>, !.pend = <<>>, !.todo = todo]
<1>1. r \in ReaderOf(r.engine, r.fires) /\ r.pend \in Seq(Keys)
  BY DEF Tracks, Sound, ReaderOf
<1>2. todo \in Seq(Event)
  <2>1. /\ Len(r.pend) \in Nat /\ DOMAIN r.pend = 1..Len(r.pend)
        /\ \A i \in 1..Len(r.pend) : Up(r.pend[i]) \in Event
    BY <1>1, LenProperties, ElementOfSeq, EventFacts
  <2>2. todo \in [1..Len(r.pend) -> Event]
    BY <2>1
  <2>3. QED
    BY <2>1, <2>2, SeqDef
<1> HIDE DEF todo
<1>3. n \in ReaderOf(n.engine, n.fires) /\ n.st = "post"
  BY <1>1, <1>2, EmptySeq DEF ReaderOf
<1> HIDE DEF n
<1>4. Tracks(n, D)
  BY <1>3 DEF Tracks, Sound, Listens
<1>5. QED
  BY <1>4 DEF n, todo, Up

(* Debouncer::on_event.                                                     *)
LEMMA TracksDebounced ==
  ASSUME NEW r, NEW D, Tracks(r, D), r.st = "busy", r.todo = <<>>,
         r.ev # <<>>, r.ev # <<"lost">>
  PROVE  Tracks([OnEvent(r) EXCEPT !.ev = <<>>], D)
<1> DEFINE k == r.ev[2]
           n == [OnEvent(r) EXCEPT !.ev = <<>>]
<1>1. /\ r \in ReaderOf(r.engine, r.fires) /\ r.pend \in Seq(Keys)
      /\ r.q \in Seq(Events)
  BY DEF Tracks, Sound, ReaderOf
<1>2. r.ev \in Event /\ k \in Keys
  BY <1>1, EventFacts DEF ReaderOf, Lost
<1>3. <<r.ev>> \in Seq(Event) /\ ToSet(<<r.ev>>) = {r.ev}
  BY <1>2 DEF ToSet
<1>4. ToSet(r.todo) = {}
  BY DEF ToSet
<1>5. Listens(r) => /\ Lost \notin ToSet(r.q)
                    /\ \A j \in Keys \ D : LetsGo(r, j)
  BY DEF Tracks, Listens
<1>6. r.st = "busy" => (Lost \notin ToSet(r.q) => Listens(r))
  BY DEF Listens, Lost
<1>7. ASSUME NEW t \in Seq(Event), NEW p \in Seq(Keys),
             n = [r EXCEPT !.todo = t, !.pend = p, !.ev = <<>>],
             \A j \in ToSet(r.pend) : j \in ToSet(p) \/ (r.ev = Down(j)),
             ToSet(t) \subseteq {r.ev},
             r.ev = Up(k) => k \in ToSet(p) \/ (k \notin r.held /\ Up(k) \in ToSet(t)),
             Lost \notin ToSet(r.q), NEW j \in Keys \ D
      PROVE  LetsGo(n, j)
  <2>1. LetsGo(r, j)
    BY <1>5, <1>6, <1>7
  <2>2. /\ n.q = r.q /\ n.ev = <<>> /\ n.pend = p /\ n.todo = t /\ n.held = r.held
    BY <1>1, <1>7 DEF ReaderOf
  <2>3. Followed(n.q, Down(j), Up(j)) /\ n.ev # Down(j)
    BY <2>1, <2>2, EventFacts DEF LetsGo
  <2>4. CASE r.ev = Down(j)
    BY <2>1, <2>2, <2>3, <2>4 DEF LetsGo
  <2>5. CASE r.ev = Up(j)
    <3>1. k = j
      BY <2>5 DEF Up
    <3>2. CASE k \in ToSet(p)
      BY <2>2, <2>3, <3>1, <3>2 DEF LetsGo
    <3>3. CASE k \notin ToSet(p)
      <4>1. j \notin r.held /\ Up(j) \in ToSet(t)
        BY <1>7, <2>5, <3>1, <3>3
      <4>2. Down(j) \notin ToSet(t)
        BY <1>7, <2>5, EventFacts
      <4>3. QED
        BY <2>2, <2>3, <4>1, <4>2 DEF LetsGo
    <3>4. QED
      BY <3>2, <3>3
  <2>6. CASE r.ev # Down(j) /\ r.ev # Up(j)
    <3>1. Down(j) \notin ToSet(t) /\ Up(j) \notin ToSet(r.todo)
      BY <1>4, <1>7, <2>6
    <3>2. Up(j) \in ToSet(r.q) \/ j \in ToSet(r.pend) \/ j \notin r.held
      BY <2>1, <2>6, <3>1 DEF LetsGo
    <3>3. j \in ToSet(r.pend) => j \in ToSet(p)
      BY <1>7, <2>6
    <3>4. QED
      BY <2>2, <2>3, <3>1, <3>2, <3>3 DEF LetsGo
  <2>7. QED
    BY <2>4, <2>5, <2>6
<1>8. ASSUME NEW t \in Seq(Event), NEW p \in Seq(Keys),
             n = [r EXCEPT !.todo = t, !.pend = p, !.ev = <<>>],
             \A j \in ToSet(r.pend) : j \in ToSet(p) \/ (r.ev = Down(j)),
             ToSet(t) \subseteq {r.ev},
             r.ev = Up(k) => k \in ToSet(p) \/ (k \notin r.held /\ Up(k) \in ToSet(t))
      PROVE  Tracks(n, D)
  <2>1. n \in ReaderOf(n.engine, n.fires) /\ n.st = "busy" /\ n.q = r.q
    BY <1>1, <1>8 DEF ReaderOf
  <2>2. Listens(n) => Lost \notin ToSet(r.q)
    BY <2>1 DEF Listens
  <2>3. \A j \in Keys \ D : Lost \notin ToSet(r.q) => LetsGo(n, j)
    BY <1>7, <1>8
  <2>4. QED
    BY <2>1, <2>2, <2>3 DEF Tracks, Sound
<1>9. CASE r.ev[1] = "down" /\ k \in ToSet(r.pend)
  <2>1. /\ Withdraw(r.pend, k) \in Seq(Keys) /\ r.ev = Down(k)
        /\ \A j \in ToSet(r.pend) : j = k \/ j \in ToSet(Withdraw(r.pend, k))
    BY <1>1, <1>2, <1>9, WithdrawSet, EventFacts
  <2>2. n = [r EXCEPT !.todo = <<>>, !.pend = Withdraw(r.pend, k), !.ev = <<>>]
    BY <1>1, <1>9 DEF OnEvent, ReaderOf
  <2>3. r.ev # Up(k) /\ <<>> \in Seq(Event) /\ ToSet(<<>>) \subseteq {r.ev}
    BY <1>2, <2>1, EventFacts DEF ToSet
  <2>4. QED
    BY <1>8, <2>1, <2>2, <2>3
<1>10. CASE (r.ev[1] = "down" /\ k \notin ToSet(r.pend)) \/ (r.ev[1] # "down" /\ k \notin r.held)
  <2>1. n = [r EXCEPT !.todo = <<r.ev>>, !.pend = r.pend, !.ev = <<>>]
    BY <1>1, <1>10 DEF OnEvent, ReaderOf
  <2>2. r.ev = Up(k) => k \notin r.held /\ Up(k) \in ToSet(<<r.ev>>)
    BY <1>2, <1>3, <1>10, EventFacts
  <2>3. QED
    BY <1>1, <1>3, <1>8, <2>1, <2>2
<1>11. CASE r.ev[1] # "down" /\ k \in r.held
  <2> DEFINE p == IF k \in ToSet(r.pend) THEN r.pend ELSE Append(r.pend, k)
  <2>1. p \in Seq(Keys) /\ ToSet(r.pend) \subseteq ToSet(p) /\ k \in ToSet(p)
    BY <1>1, <1>2, AppendSet
  <2>2. n = [r EXCEPT !.todo = <<>>, !.pend = p, !.ev = <<>>]
    BY <1>1, <1>11 DEF OnEvent, ReaderOf
  <2> HIDE DEF p
  <2>3. <<>> \in Seq(Event) /\ ToSet(<<>>) \subseteq {r.ev}
    BY DEF ToSet
  <2>4. QED
    BY <1>8, <2>1, <2>2, <2>3
<1>12. QED
  BY <1>9, <1>10, <1>11

(* commit, as far as the held set goes.                                     *)
LEMMA TracksCommitted ==
  ASSUME NEW r, NEW D, Tracks(r, D), r.st \in {"busy", "post"}, r.todo # <<>>,
         NEW n, n \in ReaderOf(n.engine, n.fires), n.st = r.st, n.q = r.q, n.ev = r.ev,
         n.pend = r.pend, n.todo = Tail(r.todo),
         n.held = IF Head(r.todo)[1] = "down" THEN r.held \cup {Head(r.todo)[2]}
                                              ELSE r.held \ {Head(r.todo)[2]}
  PROVE  Tracks(n, D)
<1> DEFINE e == Head(r.todo)
<1>1. /\ r.todo \in Seq(Event) /\ e \in Event /\ ToSet(r.todo) = {e} \cup ToSet(n.todo)
  <2>1. r.todo \in Seq(Event)
    BY DEF Tracks, Sound, ReaderOf
  <2>2. QED
    BY <2>1, TailSet
<1>2. ASSUME Listens(n), NEW j \in Keys \ D
      PROVE  LetsGo(n, j)
  <2>1. LetsGo(r, j)
    BY <1>2 DEF Tracks, Listens
  <2>2. CASE r.ev = Up(j) \/ Up(j) \in ToSet(r.q) \/ j \in ToSet(r.pend)
    BY <2>1, <2>2 DEF LetsGo
  <2>3. CASE ~(r.ev = Up(j) \/ Up(j) \in ToSet(r.q) \/ j \in ToSet(r.pend))
    <3>1. Down(j) \notin ToSet(r.todo) /\ (j \in r.held => Up(j) \in ToSet(r.todo))
      BY <2>1, <2>3 DEF LetsGo
    <3>2. Down(j) \notin ToSet(n.todo) /\ e # Down(j)
      BY <1>1, <3>1
    <3>3. j \in n.held => j \in r.held /\ e # Up(j)
      <4>1. CASE e[1] = "down"
        <5>1. e = Down(e[2]) /\ e[2] # j
          BY <1>1, <3>2, <4>1, EventFacts
        <5>2. n.held = r.held \cup {e[2]}
          BY <4>1
        <5>3. QED
          BY <1>1, <5>1, <5>2, EventFacts
      <4>2. CASE e[1] # "down"
        <5>1. n.held = r.held \ {e[2]}
          BY <4>2
        <5>2. e = Up(j) => e[2] = j
          BY DEF Up
        <5>3. QED
          BY <5>1, <5>2
      <4>3. QED
        BY <4>1, <4>2
    <3>4. j \in n.held => Up(j) \in ToSet(n.todo)
      BY <1>1, <3>1, <3>3
    <3>5. QED
      BY <2>1, <3>2, <3>4 DEF LetsGo
  <2>4. QED
    BY <2>2, <2>3
<1>3. QED
  BY <1>2 DEF Tracks, Sound

(* The kernel queues an event.                                              *)
LEMMA TracksDelivered ==
  ASSUME NEW r, NEW D, NEW C, Tracks(r, D), r.st \in {"parked", "busy"},
         NEW ev \in Events,
         \/ ev = Lost
         \/ \E k \in Keys : ev = Down(k) /\ C = D \cup {k}
         \/ \E k \in Keys : ev = Up(k) /\ C = D \ {k}
  PROVE  Tracks([r EXCEPT !.q = Append(@, ev)], C)
<1> DEFINE n == [r EXCEPT !.q = Append(@, ev)]
<1>1. r \in ReaderOf(r.engine, r.fires) /\ r.q \in Seq(Events)
  BY DEF Tracks, Sound, ReaderOf
<1>2. /\ Append(r.q, ev) \in Seq(Events) /\ ToSet(Append(r.q, ev)) = ToSet(r.q) \cup {ev}
      /\ \A x, y : Followed(r.q, x, y) /\ ev # x => Followed(Append(r.q, ev), x, y)
      /\ \A x : ev # x => Followed(Append(r.q, ev), x, ev)
  BY <1>1, AppendSet
<1>3. /\ n.q = Append(r.q, ev) /\ n.st = r.st /\ n.ev = r.ev /\ n.pend = r.pend
      /\ n.todo = r.todo /\ n.held = r.held
      /\ n \in ReaderOf(n.engine, n.fires)
  BY <1>1, <1>2 DEF ReaderOf
<1> HIDE DEF n
<1>4. ASSUME Listens(n), NEW j \in Keys \ C PROVE LetsGo(n, j)
  <2>1. ev # Lost /\ Lost \notin ToSet(r.q) /\ r.ev # Lost
    BY <1>2, <1>3, <1>4 DEF Listens
  <2>2. \A i \in Keys \ D : LetsGo(r, i)
    BY <2>1 DEF Tracks, Listens
  <2>3. CASE ev = Up(j)
    <3>1. Followed(n.q, Down(j), Up(j)) /\ Up(j) \in ToSet(n.q)
      BY <1>2, <1>3, <2>3, EventFacts
    <3>2. QED
      BY <3>1 DEF LetsGo
  <2>4. CASE ev # Up(j)
    <3>1. ev # Down(j) /\ j \in Keys \ D
      BY <2>1, <2>4, <1>4, EventFacts
    <3>2. LetsGo(r, j)
      BY <2>2, <3>1
    <3>3. Followed(n.q, Down(j), Up(j))
      BY <1>2, <1>3, <3>1, <3>2 DEF LetsGo
    <3>4. QED
      BY <1>2, <1>3, <3>2, <3>3 DEF LetsGo
  <2>5. QED
    BY <2>3, <2>4
<1>5. QED
  BY <1>3, <1>4 DEF Tracks, Sound, n

-----------------------------------------------------------------------------
(* Every reader tracks the keyboard.                                        *)

LEMMA OneReader ==
  ASSUME AllTrack, NEW g \in Gens, NEW n, reader' = [reader EXCEPT ![g] = n],
         Tracks(n, phys), UNCHANGED phys
  PROVE  AllTrack'
BY DEF AllTrack

LEMMA CommitTracks ==
  ASSUME AllTrack, NEW g \in Gens, Commit(g)
  PROVE  /\ UNCHANGED <<phys, alive, writers, td>>
         /\ \E n, hd :
              /\ reader' = [reader EXCEPT ![g] = n] /\ Tracks(n, phys)
              /\ n.st = reader[g].st /\ n.st \in {"busy", "post"} /\ n.w = reader[g].w
              /\ \/ n.held = reader[g].held /\ heldKeys' = heldKeys
                 \/ n.held = reader[g].held \cup hd /\ SetHeld(n.w, hd, TRUE)
                 \/ n.held = reader[g].held \ hd /\ SetHeld(n.w, hd, FALSE)
<1> DEFINE r    == reader[g]
           e    == Head(r.todo)
           down == e[1] = "down"
           held == IF down THEN r.held \cup {e[2]} ELSE r.held \ {e[2]}
           s    == Step(Chords, r.engine, held)
           a    == [r EXCEPT !.todo = Tail(@)]
           b    == [r EXCEPT !.todo = Tail(@), !.held = held, !.engine = EngineOf(s),
                             !.fires = s.fires]
<1>1. /\ Tracks(r, phys) /\ r.st \in {"busy", "post"} /\ r.todo # <<>>
      /\ r \in ReaderOf(r.engine, r.fires)
  BY DEF Commit, Running, AllTrack, Tracks, Sound
<1>2. /\ \/ held = r.held /\ reader' = [reader EXCEPT ![g] = a] /\ UNCHANGED heldKeys
         \/ reader' = [reader EXCEPT ![g] = b] /\ SetHeld(r.w, {e[2]}, down)
      /\ UNCHANGED <<phys, alive, writers, td>>
  BY DEF Commit, AllTrack
<1>3. r.todo \in Seq(Event) /\ e \in Event /\ Tail(r.todo) \in Seq(Event) /\ e[2] \in Keys
  BY <1>1, TailSet, EventFacts DEF ReaderOf
<1>4. held \in SUBSET Keys
  BY <1>1, <1>3 DEF ReaderOf
<1> HIDE DEF s
<1>5. /\ a \in ReaderOf(a.engine, a.fires) /\ a.st = r.st /\ a.q = r.q /\ a.ev = r.ev
      /\ a.pend = r.pend /\ a.todo = Tail(r.todo) /\ a.held = r.held /\ a.w = r.w
  BY <1>1, <1>3 DEF ReaderOf
<1>6. /\ b \in ReaderOf(b.engine, b.fires) /\ b.st = r.st /\ b.q = r.q /\ b.ev = r.ev
      /\ b.pend = r.pend /\ b.todo = Tail(r.todo) /\ b.held = held /\ b.w = r.w
  BY <1>1, <1>3, <1>4 DEF ReaderOf
<1> HIDE DEF a, b
<1>7. Tracks(b, phys)
  BY <1>1, <1>6, TracksCommitted
<1>8. held = r.held => Tracks(a, phys)
  BY <1>1, <1>5, TracksCommitted
<1>9. CASE held = r.held /\ reader' = [reader EXCEPT ![g] = a] /\ UNCHANGED heldKeys
  BY <1>1, <1>2, <1>5, <1>8, <1>9
<1>10. CASE reader' = [reader EXCEPT ![g] = b] /\ SetHeld(r.w, {e[2]}, down)
  <2>1. CASE down
    <3>1. SetHeld(b.w, {e[2]}, TRUE) /\ b.held = r.held \cup {e[2]}
      BY <1>6, <1>10, <2>1 DEF SetHeld
    <3> HIDE DEF e, down, held
    <3>2. QED
      BY <1>1, <1>2, <1>6, <1>7, <1>10, <3>1
  <2>2. CASE ~down
    <3>1. SetHeld(b.w, {e[2]}, FALSE) /\ b.held = r.held \ {e[2]}
      BY <1>6, <1>10, <2>2 DEF SetHeld
    <3> HIDE DEF e, down, held
    <3>2. QED
      BY <1>1, <1>2, <1>6, <1>7, <1>10, <3>1
  <2>3. QED
    BY <2>1, <2>2
<1>11. QED
  BY <1>2, <1>9, <1>10

(* Every open reader gets the event of the keyboard.                        *)
LEMMA DeliverTracks ==
  ASSUME AllTrack, NEW ev \in Events, Deliver(ev),
         \/ ev = Lost
         \/ \E k \in Keys : ev = Down(k) /\ phys' = phys \cup {k}
         \/ \E k \in Keys : ev = Up(k) /\ phys' = phys \ {k}
  PROVE  /\ AllTrack'
         /\ \A g \in Gens : /\ reader'[g].st = reader[g].st /\ reader'[g].w = reader[g].w
                            /\ reader'[g].held = reader[g].held
<1>1. /\ reader' = [g \in Gens |-> IF Open(g) THEN [reader[g] EXCEPT !.q = Append(@, ev)]
                                              ELSE reader[g]]
      /\ \A g \in Gens : Tracks(reader[g], phys)
  BY DEF Deliver, AllTrack
<1>2. ASSUME NEW g \in Gens
      PROVE  /\ Tracks(reader'[g], phys') /\ reader'[g].st = reader[g].st
             /\ reader'[g].w = reader[g].w /\ reader'[g].held = reader[g].held
  <2> DEFINE r == reader[g]
  <2>1. Tracks(r, phys) /\ r \in ReaderOf(r.engine, r.fires)
    BY <1>1 DEF Tracks, Sound
  <2>2. CASE Open(g)
    <3>1. reader'[g] = [r EXCEPT !.q = Append(@, ev)] /\ r.st \in {"parked", "busy"}
      BY <1>1, <2>2 DEF Open
    <3> HIDE DEF r
    <3>2. Tracks([r EXCEPT !.q = Append(@, ev)], phys')
      BY <2>1, <3>1, TracksDelivered
    <3>3. /\ [r EXCEPT !.q = Append(@, ev)].st = r.st
          /\ [r EXCEPT !.q = Append(@, ev)].w = r.w
          /\ [r EXCEPT !.q = Append(@, ev)].held = r.held
      BY <2>1 DEF ReaderOf
    <3>4. QED
      BY <3>1, <3>2, <3>3 DEF r
  <2>3. CASE ~Open(g)
    <3>1. reader'[g] = r
      BY <1>1, <2>3
    <3>2. ~Listens(r)
      BY <2>3 DEF Open, Listens, Lost
    <3>3. QED
      BY <2>1, <3>1, <3>2 DEF Tracks
  <2>4. QED
    BY <2>2, <2>3
<1>3. reader' = [g \in Gens |-> reader'[g]]
  BY <1>1
<1>4. QED
  BY <1>2, <1>3 DEF AllTrack

-----------------------------------------------------------------------------
(* The mirror.                                                              *)

LEMMA LeftFacts ==
  ASSUME NEW s \in Left
  PROVE  /\ s # <<>> /\ Head(s) = "take" =>
              /\ Tail(s) \in Left
              /\ "clear" \in ToSet(Tail(s)) <=> "clear" \in ToSet(s)
         /\ s # <<>> /\ Head(s) = "clear" =>
              /\ Tail(s) \in Left /\ "clear" \in ToSet(s)
              /\ "clear" \notin ToSet(Tail(s))
         /\ s # <<>> /\ Head(s) = "spawn" => Tail(s) = <<>> /\ "clear" \notin ToSet(s)
<1>1. \A x, y, z : /\ ToSet(<<x, y, z>>) = {x, y, z} /\ ToSet(<<x, y>>) = {x, y}
                   /\ ToSet(<<x>>) = {x} /\ ToSet(<<>>) = {}
                   /\ Head(<<x, y, z>>) = x /\ Tail(<<x, y, z>>) = <<y, z>>
                   /\ Head(<<x, y>>) = x /\ Tail(<<x, y>>) = <<y>>
                   /\ Head(<<x>>) = x /\ Tail(<<x>>) = <<>>
  BY DEF ToSet
<1>2. CASE s = <<"take", "clear", "spawn">>
  BY <1>1, <1>2 DEF Left
<1>3. CASE s = <<"clear", "take">>
  BY <1>1, <1>3 DEF Left
<1>4. CASE s = <<"take", "clear">>
  BY <1>1, <1>4 DEF Left
<1>5. CASE s = <<"clear", "spawn">>
  BY <1>1, <1>5 DEF Left
<1>6. CASE s = <<"spawn">>
  BY <1>1, <1>6 DEF Left
<1>7. CASE s = <<"clear">>
  BY <1>1, <1>7 DEF Left
<1>8. CASE s = <<"take">>
  BY <1>1, <1>8 DEF Left
<1>9. QED
  BY <1>2, <1>3, <1>4, <1>5, <1>6, <1>7, <1>8 DEF Left, Applies

LEMMA AppliesClear == \A s \in Applies : "clear" \in ToSet(s) /\ s # <<>> /\ s \in Left
<1>1. \A x, y, z : ToSet(<<x, y, z>>) = {x, y, z} /\ ToSet(<<x, y>>) = {x, y}
  BY DEF ToSet
<1>2. \A s \in Applies : "clear" \in ToSet(s)
  BY <1>1 DEF Applies
<1>3. \A s \in Applies : s # <<>>
  BY DEF Applies
<1>4. QED
  BY <1>2, <1>3 DEF Left

(* No reader joins or leaves, and none changes what it holds.               *)
LEMMA MirrorKept ==
  ASSUME ApplyType, OneWriter, Counted, UNCHANGED <<alive, writers, heldKeys, td>>,
         \A g \in Gens : /\ Live(reader'[g]) <=> Live(reader[g])
                         /\ reader'[g].w = reader[g].w /\ reader'[g].held = reader[g].held
  PROVE  ApplyType' /\ OneWriter' /\ Counted'
BY DEF ApplyType, OneWriter, Counted, Clearing, Live

(* One reader adds to what it holds or takes from it, or is done.           *)
LEMMA MirrorMoves ==
  ASSUME ApplyType, OneWriter, Counted, AllTrack, UNCHANGED <<alive, writers, td>>,
         NEW g \in Gens, NEW n, reader' = [reader EXCEPT ![g] = n],
         Live(reader[g]), Live(n) => n.w = reader[g].w,
         NEW hd,
         \/ Live(n) /\ n.held = reader[g].held \cup hd /\ SetHeld(reader[g].w, hd, TRUE)
         \/ Live(n) /\ n.held = reader[g].held \ hd /\ SetHeld(reader[g].w, hd, FALSE)
         \/ ~Live(n) /\ hd = reader[g].held /\ SetHeld(reader[g].w, hd, FALSE)
  PROVE  ApplyType' /\ OneWriter' /\ Counted'
<1>1. ApplyType'
  BY DEF ApplyType
<1>2. /\ reader'[g] = n /\ \A h \in Gens \ {g} : reader'[h] = reader[h]
      /\ Clearing' = Clearing
  BY DEF AllTrack, Clearing
<1>3. OneWriter'
  BY <1>2 DEF OneWriter
<1>4. ASSUME ~Clearing, NEW k \in heldKeys'
      PROVE  \E h \in Gens : Live(reader'[h]) /\ reader'[h].w = writers' /\ k \in reader'[h].held
  <2>1. CASE reader[g].w # writers
    <3>1. heldKeys' = heldKeys
      BY <2>1 DEF SetHeld
    <3>2. PICK h \in Gens : Live(reader[h]) /\ reader[h].w = writers /\ k \in reader[h].held
      BY <1>4, <3>1 DEF Counted
    <3>3. h # g
      BY <2>1, <3>2
    <3>4. QED
      BY <1>2, <3>2, <3>3
  <2>2. CASE reader[g].w = writers
    <3>1. \A h \in Gens : Live(reader[h]) /\ reader[h].w = writers => h = g
      BY <1>4, <2>2 DEF OneWriter
    <3>2. k \in heldKeys => k \in reader[g].held
      BY <1>4, <3>1 DEF Counted
    <3>3. CASE Live(n) /\ n.held = reader[g].held \cup hd /\ SetHeld(reader[g].w, hd, TRUE)
      <4>1. k \in n.held
        BY <1>4, <2>2, <3>2, <3>3 DEF SetHeld
      <4>2. QED
        BY <1>2, <2>2, <3>3, <4>1
    <3>4. CASE Live(n) /\ n.held = reader[g].held \ hd /\ SetHeld(reader[g].w, hd, FALSE)
      <4>1. k \in n.held
        BY <1>4, <2>2, <3>2, <3>4 DEF SetHeld
      <4>2. QED
        BY <1>2, <2>2, <3>4, <4>1
    <3>5. CASE ~Live(n) /\ hd = reader[g].held /\ SetHeld(reader[g].w, hd, FALSE)
      BY <1>4, <2>2, <3>2, <3>5 DEF SetHeld
    <3>6. QED
      BY <3>3, <3>4, <3>5
  <2>3. QED
    BY <2>1, <2>2
<1>5. Counted'
  BY <1>2, <1>4 DEF Counted
<1>6. QED
  BY <1>1, <1>3, <1>5

-----------------------------------------------------------------------------
(* Each step keeps both.                                                    *)

LEMMA KeyboardStep ==
  ASSUME GateInv, (\E k \in Keys : Press(k) \/ Release(k)) \/ StreamEnds
  PROVE  GateInv'
<1>1. /\ AllTrack'
      /\ \A g \in Gens : /\ reader'[g].st = reader[g].st /\ reader'[g].w = reader[g].w
                         /\ reader'[g].held = reader[g].held
  <2>1. ASSUME NEW k \in Keys, Press(k)
        PROVE  Deliver(Down(k)) /\ phys' = phys \cup {k} /\ Down(k) \in Events
    BY <2>1, EventFacts DEF Press, Down
  <2>2. ASSUME NEW k \in Keys, Release(k)
        PROVE  Deliver(Up(k)) /\ phys' = phys \ {k} /\ Up(k) \in Events
    BY <2>2, EventFacts DEF Release, Up
  <2>3. StreamEnds => Deliver(Lost) /\ Lost \in Events
    BY EventFacts DEF StreamEnds, Lost
  <2>4. QED
    BY <2>1, <2>2, <2>3, DeliverTracks DEF GateInv
<1>2. UNCHANGED <<alive, writers, heldKeys, td>>
  BY DEF Press, Release, StreamEnds, registries
<1>3. QED
  BY <1>1, <1>2, MirrorKept DEF GateInv, Live

(* A step of one reader that keeps its keys.                                *)
LEMMA OneReaderKeeps ==
  ASSUME GateInv, NEW g \in Gens, NEW n, reader' = [reader EXCEPT ![g] = n],
         Tracks(n, phys), Live(n) <=> Live(reader[g]),
         n.w = reader[g].w, n.held = reader[g].held,
         UNCHANGED <<phys, alive, writers, heldKeys, td>>
  PROVE  GateInv'
<1>1. AllTrack'
  BY OneReader DEF GateInv
<1>2. \A h \in Gens : /\ Live(reader'[h]) <=> Live(reader[h])
                      /\ reader'[h].w = reader[h].w /\ reader'[h].held = reader[h].held
  BY DEF GateInv, AllTrack
<1>3. QED
  BY <1>1, <1>2, MirrorKept DEF GateInv

LEMMA WakeStep ==
  ASSUME GateInv, NEW g \in Gens, Wake(g)
  PROVE  GateInv'
<1> DEFINE r == reader[g]
<1>1. /\ r.st \in {"parked", "busy"} /\ ~HasWork(r)
      /\ UNCHANGED <<phys, alive, writers, heldKeys, td>>
  BY DEF Wake, registries
<1>2. Tracks(r, phys) /\ r \in ReaderOf(r.engine, r.fires)
  BY DEF GateInv, AllTrack, Tracks, Sound
<1>3. PICK due \in 0..Len(r.pend), event \in {0, 1} :
        /\ event <= Len(r.q)
        /\ reader' = [reader EXCEPT ![g] =
             [r EXCEPT !.st = "busy",
                       !.todo = [i \in 1..due |-> <<"up", r.pend[i]>>],
                       !.pend = SubSeq(@, due + 1, Len(@)),
                       !.ev = IF event = 1 THEN Head(r.q) ELSE <<>>,
                       !.q = IF event = 1 THEN Tail(@) ELSE @]]
  BY DEF Wake
<1> DEFINE n == [r EXCEPT !.st = "busy",
                          !.todo = [i \in 1..due |-> <<"up", r.pend[i]>>],
                          !.pend = SubSeq(@, due + 1, Len(@)),
                          !.ev = IF event = 1 THEN Head(r.q) ELSE <<>>,
                          !.q = IF event = 1 THEN Tail(@) ELSE @]
<1>4. Tracks(n, phys)
  BY <1>1, <1>2, <1>3, TracksWoken
<1>5. n.st = "busy" /\ n.w = r.w /\ n.held = r.held
  BY <1>2 DEF ReaderOf
<1>6. reader' = [reader EXCEPT ![g] = n]
  BY <1>3
<1> HIDE DEF n
<1>7. QED
  BY <1>1, <1>4, <1>5, <1>6, OneReaderKeeps DEF Live

LEMMA DebounceDrainStep ==
  ASSUME GateInv, NEW g \in Gens, Debounce(g) \/ Drain(g)
  PROVE  GateInv'
<1> DEFINE r == reader[g]
<1>1. r.st = "busy" /\ UNCHANGED <<phys, alive, writers, heldKeys, td>>
  BY DEF Debounce, Drain, registries
<1>2. Tracks(r, phys) /\ r \in ReaderOf(r.engine, r.fires)
  BY DEF GateInv, AllTrack, Tracks, Sound
<1>3. CASE Debounce(g)
  <2> DEFINE n == [OnEvent(r) EXCEPT !.ev = <<>>]
  <2>1. /\ r.todo = <<>> /\ r.ev # <<>> /\ r.ev # <<"lost">>
        /\ reader' = [reader EXCEPT ![g] = n]
    BY <1>3 DEF Debounce
  <2>2. Tracks(n, phys)
    BY <1>1, <1>2, <2>1, TracksDebounced
  <2>3. n.st = "busy" /\ n.w = r.w /\ n.held = r.held
    <3>1. \A x : /\ [[r EXCEPT !.pend = x] EXCEPT !.ev = <<>>].st = "busy"
                 /\ [[r EXCEPT !.pend = x] EXCEPT !.ev = <<>>].w = r.w
                 /\ [[r EXCEPT !.pend = x] EXCEPT !.ev = <<>>].held = r.held
                 /\ [[r EXCEPT !.todo = x] EXCEPT !.ev = <<>>].st = "busy"
                 /\ [[r EXCEPT !.todo = x] EXCEPT !.ev = <<>>].w = r.w
                 /\ [[r EXCEPT !.todo = x] EXCEPT !.ev = <<>>].held = r.held
      BY <1>1, <1>2 DEF ReaderOf
    <3>2. \E x : OnEvent(r) = [r EXCEPT !.pend = x] \/ OnEvent(r) = [r EXCEPT !.todo = x]
      BY DEF OnEvent
    <3>3. QED
      BY <3>1, <3>2
  <2> HIDE DEF n
  <2>4. QED
    BY <1>1, <2>1, <2>2, <2>3, OneReaderKeeps DEF Live
<1>4. CASE Drain(g)
  <2> DEFINE n == [r EXCEPT !.st = "post", !.ev = <<>>, !.pend = <<>>,
                            !.todo = [i \in DOMAIN r.pend |-> <<"up", r.pend[i]>>]]
  <2>1. reader' = [reader EXCEPT ![g] = n]
    BY <1>4 DEF Drain
  <2>2. Tracks(n, phys)
    BY <1>2, TracksDrained
  <2>3. n.st = "post" /\ n.w = r.w /\ n.held = r.held
    BY <1>2 DEF ReaderOf
  <2> HIDE DEF n
  <2>4. QED
    BY <1>1, <2>1, <2>2, <2>3, OneReaderKeeps DEF Live
<1>5. QED
  BY <1>3, <1>4

LEMMA FiresStep ==
  ASSUME GateInv, NEW g \in Gens,
         DispatchRising(g) \/ DispatchStop(g) \/ ForgetHold(g) \/ ClaimStop(g)
           \/ Manufacture(g)
  PROVE  GateInv'
<1>1. Fired(g) /\ UNCHANGED <<phys, alive, writers, heldKeys, td>>
  BY DEF DispatchRising, DispatchStop, ForgetHold, ClaimStop, Manufacture
<1>2. PICK fires : NextFire(g, fires)
  BY DEF DispatchRising, DispatchStop, ForgetHold, ClaimStop, Manufacture
<1>3. PICK x : reader' = [reader EXCEPT ![g] = [reader[g] EXCEPT !.fires = x]]
  BY <1>2 DEF NextFire, GateInv, AllTrack
<1>4. /\ Tracks(reader[g], phys) /\ reader[g].st \in {"busy", "post"}
      /\ reader[g] \in ReaderOf(reader[g].engine, reader[g].fires)
  BY <1>1 DEF GateInv, AllTrack, Fired, Running, Tracks, Sound
<1> DEFINE n == [reader[g] EXCEPT !.fires = x]
<1>5. Tracks(n, phys)
  BY <1>4, TracksFires
<1>6. n.st = reader[g].st /\ n.w = reader[g].w /\ n.held = reader[g].held
  BY <1>4 DEF ReaderOf
<1> HIDE DEF n
<1>7. QED
  BY <1>1, <1>3, <1>4, <1>5, <1>6, OneReaderKeeps DEF Live, n

LEMMA CommitStep ==
  ASSUME GateInv, NEW g \in Gens, Commit(g)
  PROVE  GateInv'
<1>1. PICK n, hd :
        /\ reader' = [reader EXCEPT ![g] = n] /\ Tracks(n, phys)
        /\ n.st = reader[g].st /\ n.st \in {"busy", "post"} /\ n.w = reader[g].w
        /\ \/ n.held = reader[g].held /\ heldKeys' = heldKeys
           \/ n.held = reader[g].held \cup hd /\ SetHeld(n.w, hd, TRUE)
           \/ n.held = reader[g].held \ hd /\ SetHeld(n.w, hd, FALSE)
  BY CommitTracks DEF GateInv
<1>2. UNCHANGED <<phys, alive, writers, td>>
  BY CommitTracks DEF GateInv
<1>3. Live(reader[g]) /\ Live(n)
  BY <1>1 DEF Live
<1>4. CASE n.held = reader[g].held /\ heldKeys' = heldKeys
  BY <1>1, <1>2, <1>3, <1>4, OneReaderKeeps
<1>5. CASE \/ n.held = reader[g].held \cup hd /\ SetHeld(n.w, hd, TRUE)
           \/ n.held = reader[g].held \ hd /\ SetHeld(n.w, hd, FALSE)
  <2>1. AllTrack'
    BY <1>1, <1>2, OneReader DEF GateInv
  <2>2. ApplyType' /\ OneWriter' /\ Counted'
    BY <1>1, <1>2, <1>3, <1>5, MirrorMoves DEF GateInv
  <2>3. QED
    BY <2>1, <2>2 DEF GateInv
<1>6. QED
  BY <1>1, <1>4, <1>5

(* An aborted reader that is dropped at the await counts no key any more.   *)
LEMMA ParkStep ==
  ASSUME GateInv, NEW g \in Gens, Park(g)
  PROVE  GateInv'
<1> DEFINE r == reader[g]
<1>1. /\ r.st = "busy" /\ ~HasWork(r)
      /\ UNCHANGED <<phys, alive, writers, heldKeys, td>>
  BY DEF Park, registries
<1>2. Tracks(r, phys) /\ r \in ReaderOf(r.engine, r.fires)
  BY DEF GateInv, AllTrack, Tracks, Sound
<1>3. CASE g = alive
  <2> DEFINE n == [r EXCEPT !.st = "parked"]
  <2>1. reader' = [reader EXCEPT ![g] = n]
    BY <1>3 DEF Park, GateInv, AllTrack
  <2>2. /\ n.st = "parked" /\ n.w = r.w /\ n.held = r.held /\ n.q = r.q /\ n.ev = r.ev
        /\ n.todo = r.todo /\ n.pend = r.pend /\ n \in ReaderOf(n.engine, n.fires)
        /\ n.todo = <<>> /\ n.ev = <<>>
    BY <1>1, <1>2 DEF ReaderOf, HasWork
  <2> HIDE DEF n
  <2>3. Tracks(n, phys)
    BY <1>1, <1>2, <2>2 DEF Tracks, Sound, Listens, LetsGo
  <2>4. QED
    BY <1>1, <2>1, <2>2, <2>3, OneReaderKeeps DEF Live
<1>4. CASE g # alive
  <2> DEFINE n == [NoReader EXCEPT !.st = "gone"]
  <2>1. reader' = [reader EXCEPT ![g] = n] /\ ~Live(n)
    BY <1>4 DEF Park, Live, NoReader
  <2>2. Tracks(n, phys)
    BY TracksGone
  <2> HIDE DEF n
  <2>3. AllTrack'
    BY <1>1, <2>1, <2>2, OneReader DEF GateInv
  <2>4. /\ reader'[g] = n /\ \A h \in Gens \ {g} : reader'[h] = reader[h]
        /\ Clearing' = Clearing
    BY <1>1, <2>1 DEF GateInv, AllTrack, Clearing
  <2>5. ApplyType' /\ OneWriter'
    BY <1>1, <2>1, <2>4 DEF GateInv, ApplyType, OneWriter
  <2>6. ASSUME ~Clearing, NEW k \in heldKeys
        PROVE  \E h \in Gens \ {g} : Live(reader[h]) /\ reader[h].w = writers
                                     /\ k \in reader[h].held
    <3>1. PICK h \in Gens : Live(reader[h]) /\ reader[h].w = writers /\ k \in reader[h].held
      BY <2>6 DEF GateInv, Counted
    <3>2. h = alive
      BY <2>6, <3>1 DEF GateInv, OneWriter
    <3>3. QED
      BY <1>4, <3>1, <3>2
  <2>7. Counted'
    BY <1>1, <2>4, <2>6 DEF Counted
  <2>8. QED
    BY <2>3, <2>5, <2>7 DEF GateInv
<1>5. QED
  BY <1>3, <1>4

(* The keys a reader still held leave the mirror with it.                   *)
LEMMA PostLoopStep ==
  ASSUME GateInv, NEW g \in Gens, PostLoop(g)
  PROVE  GateInv'
<1> DEFINE r == reader[g]
<1>1. /\ r.st = "post" /\ SetHeld(r.w, r.held, FALSE)
      /\ UNCHANGED <<phys, alive, writers, td>>
  BY DEF PostLoop
<1>2. Tracks(r, phys) /\ r \in ReaderOf(r.engine, r.fires)
  BY DEF GateInv, AllTrack, Tracks, Sound
<1>3. PICK x : \/ reader' = [reader EXCEPT ![g] = [NoReader EXCEPT !.st = "gone"]]
               \/ reader' = [reader EXCEPT ![g] =
                    [r EXCEPT !.held = {}, !.engine = NewEngine, !.fires = x]]
  BY DEF PostLoop
<1>4. Live(r)
  BY <1>1 DEF Live
<1>5. CASE reader' = [reader EXCEPT ![g] = [NoReader EXCEPT !.st = "gone"]]
  <2> DEFINE n == [NoReader EXCEPT !.st = "gone"]
  <2>1. ~Live(n) /\ Tracks(n, phys)
    BY TracksGone DEF Live, NoReader
  <2> HIDE DEF n
  <2>2. reader' = [reader EXCEPT ![g] = n]
    BY <1>5 DEF n
  <2>3. ApplyType' /\ OneWriter' /\ Counted'
    BY <1>1, <1>4, <2>1, <2>2, MirrorMoves DEF GateInv
  <2>4. AllTrack'
    BY <1>1, <2>1, <2>2, OneReader DEF GateInv
  <2>5. QED
    BY <2>3, <2>4 DEF GateInv
<1>6. CASE reader' = [reader EXCEPT ![g] =
                        [r EXCEPT !.held = {}, !.engine = NewEngine, !.fires = x]]
  <2> DEFINE n == [r EXCEPT !.held = {}, !.engine = NewEngine, !.fires = x]
  <2>1. n.st = "post" /\ n.w = r.w /\ n.held = {} /\ n \in ReaderOf(n.engine, n.fires)
    BY <1>1, <1>2 DEF ReaderOf
  <2> HIDE DEF n
  <2>2. reader' = [reader EXCEPT ![g] = n]
    BY <1>6 DEF n
  <2>3. Tracks(n, phys) /\ Live(n)
    BY <2>1 DEF Tracks, Sound, Listens, Live
  <2>4. n.held = r.held \ r.held
    BY <2>1
  <2>5. ApplyType' /\ OneWriter' /\ Counted'
    BY <1>1, <1>4, <2>1, <2>2, <2>3, <2>4, MirrorMoves DEF GateInv
  <2>6. AllTrack'
    BY <1>1, <2>2, <2>3, OneReader DEF GateInv
  <2>7. QED
    BY <2>5, <2>6 DEF GateInv
<1>7. QED
  BY <1>3, <1>5, <1>6

LEMMA RetireStep ==
  ASSUME GateInv, Retire
  PROVE  GateInv'
<1>1. /\ reader' = [g \in Gens |-> IF reader[g].st = "parked"
                                   THEN [NoReader EXCEPT !.st = "gone"] ELSE reader[g]]
      /\ alive' = 0 /\ UNCHANGED <<phys, writers>>
  BY DEF Retire, registries
<1>2. AllTrack'
  <2>1. \A g \in Gens : Tracks(reader'[g], phys)
    BY <1>1, TracksGone DEF GateInv, AllTrack
  <2>2. reader' = [g \in Gens |-> reader'[g]]
    BY <1>1
  <2>3. QED
    BY <1>1, <2>1, <2>2 DEF AllTrack
<1>3. PICK steps \in Applies : td' = [td EXCEPT !.steps = steps]
  BY DEF Retire
<1>4. td'.steps = steps /\ td' \in [steps : Left, owed : {td'.owed}]
  BY <1>3, AppliesClear DEF GateInv, ApplyType
<1>5. ApplyType' /\ Clearing'
  BY <1>1, <1>3, <1>4, AppliesClear DEF GateInv, ApplyType, Clearing
<1>6. OneWriter' /\ Counted'
  <2>1. ~Live([NoReader EXCEPT !.st = "gone"])
    BY DEF NoReader, Live
  <2>2. \A g \in Gens : Live(reader'[g]) => reader'[g].w <= writers'
    BY <1>1, <2>1 DEF GateInv, OneWriter
  <2>3. QED
    BY <1>5, <2>2 DEF OneWriter, Counted
<1>7. QED
  BY <1>2, <1>5, <1>6 DEF GateInv

LEMMA TeardownStep ==
  ASSUME GateInv, ApplyStep
  PROVE  GateInv'
<1>1. td \in [steps : Left, owed : {td.owed}]
  BY DEF GateInv, ApplyType
<1>2. CASE Take \/ TakeEmits
  <2>1. UNCHANGED <<phys, reader, alive, writers, heldKeys>>
    BY <1>2 DEF Take, TakeEmits
  <2>2. /\ td' \in [steps : Left, owed : {td'.owed}]
        /\ "clear" \in ToSet(td'.steps) <=> "clear" \in ToSet(td.steps)
        /\ td.steps = <<>> => td'.steps = <<>>
    <3>1. CASE TakeEmits
      <4>1. td' = [td EXCEPT !.owed = Tail(@)]
        BY <3>1 DEF TakeEmits
      <4>2. td'.steps = td.steps /\ td' \in [steps : Left, owed : {td'.owed}]
        BY <1>1, <4>1
      <4>3. QED
        BY <4>2
    <3>2. CASE Take
      <4>1. PICK x : td' = [steps |-> Tail(td.steps), owed |-> x]
        BY <3>2 DEF Take
      <4>2. td.steps # <<>> /\ Head(td.steps) = "take" /\ td.steps \in Left
        BY <1>1, <3>2 DEF Take
      <4>3. /\ Tail(td.steps) \in Left
            /\ "clear" \in ToSet(Tail(td.steps)) <=> "clear" \in ToSet(td.steps)
        BY <4>2, LeftFacts
      <4>4. QED
        BY <4>1, <4>2, <4>3
    <3>3. QED
      BY <1>2, <3>1, <3>2
  <2>3. Clearing' <=> Clearing
    BY <2>2 DEF Clearing
  <2>4. ApplyType'
    BY <2>1, <2>2 DEF GateInv, ApplyType
  <2>5. AllTrack' /\ OneWriter' /\ Counted'
    BY <2>1, <2>3 DEF GateInv, AllTrack, OneWriter, Counted
  <2>6. QED
    BY <2>4, <2>5 DEF GateInv
<1>3. CASE Clear
  <2>1. /\ UNCHANGED <<phys, reader, alive>> /\ heldKeys' = {} /\ writers' = writers + 1
        /\ td' = [td EXCEPT !.steps = Tail(@)]
        /\ td.steps # <<>> /\ Head(td.steps) = "clear"
    BY <1>3 DEF Clear
  <2>2. Tail(td.steps) \in Left
    BY <1>1, <2>1, LeftFacts
  <2>3. td' \in [steps : Left, owed : {td'.owed}]
    BY <1>1, <2>1, <2>2
  <2>4. ApplyType'
    BY <2>1, <2>3 DEF GateInv, ApplyType
  <2>5. \A g \in Gens : Live(reader[g]) => reader[g].w <= writers + 1 /\ reader[g].w # writers + 1
    <3>1. ASSUME NEW g \in Gens, Live(reader[g])
          PROVE  reader[g].w <= writers /\ reader[g].w \in Nat /\ writers \in Nat
      BY <3>1 DEF GateInv, AllTrack, Tracks, Sound, ReaderOf, OneWriter, ApplyType
    <3>2. QED
      BY <3>1
  <2>6. OneWriter' /\ Counted'
    BY <2>1, <2>5 DEF OneWriter, Counted
  <2>7. AllTrack'
    BY <2>1 DEF GateInv, AllTrack
  <2>8. QED
    BY <2>4, <2>6, <2>7 DEF GateInv
<1>4. CASE Spawn
  <2> DEFINE n == [NoReader EXCEPT !.st = "parked", !.w = writers]
  <2>1. /\ reader' = [reader EXCEPT ![generation] = n] /\ alive' = generation
        /\ UNCHANGED <<phys, writers, heldKeys>>
        /\ td' = [td EXCEPT !.steps = Tail(@)]
        /\ td.steps # <<>> /\ Head(td.steps) = "spawn"
    BY <1>4 DEF Spawn, registries
  <2>2. Tail(td.steps) = <<>> /\ ~Clearing /\ alive = 0
    BY <1>1, <2>1, LeftFacts DEF GateInv, ApplyType, Clearing
  <2>3. td' \in [steps : Left, owed : {td'.owed}] /\ td'.steps = <<>>
    BY <1>1, <2>1, <2>2 DEF Left
  <2>4. ApplyType'
    BY <2>1, <2>3 DEF GateInv, ApplyType
  <2>5. n \in ReaderOf(n.engine, n.fires) /\ n.w = writers /\ n.q = <<>> /\ n.held = {}
        /\ n.ev = <<>> /\ n.todo = <<>>
    BY EmptySeq DEF NoReader, ReaderOf, GateInv, ApplyType
  <2> HIDE DEF n
  <2>6. \A k \in Keys : LetsGo(n, k)
    <3>1. \A x, y : Followed(<<>>, x, y)
      BY DEF Followed
    <3>2. \A x : x \notin ToSet(<<>>)
      BY DEF ToSet
    <3>3. QED
      BY <2>5, <3>1, <3>2, EventFacts DEF LetsGo
  <2>7. Tracks(n, phys)
    BY <2>5, <2>6 DEF Tracks, Sound
  <2>8. AllTrack'
    BY <2>1, <2>7 DEF GateInv, AllTrack
  <2>9. \A g \in Gens : ~(Live(reader[g]) /\ reader[g].w = writers)
    BY <2>2 DEF GateInv, OneWriter, Gens
  <2>10. heldKeys = {}
    BY <2>2, <2>9 DEF GateInv, Counted
  <2>11. \A g \in Gens : reader'[g] = IF g = generation THEN n ELSE reader[g]
    BY <2>1 DEF GateInv, AllTrack
  <2>12. writers \in Nat
    BY DEF GateInv, ApplyType
  <2>13. \A g \in Gens : Live(reader'[g]) => reader'[g].w <= writers'
    BY <2>1, <2>5, <2>11, <2>12 DEF GateInv, OneWriter
  <2>14. \A g \in Gens : Live(reader'[g]) /\ reader'[g].w = writers' => g = alive'
    BY <2>1, <2>9, <2>11
  <2>15. OneWriter' /\ Counted'
    BY <2>1, <2>10, <2>13, <2>14 DEF OneWriter, Counted
  <2>16. QED
    BY <2>4, <2>8, <2>15 DEF GateInv
<1>5. QED
  BY <1>2, <1>3, <1>4 DEF ApplyStep

LEMMA GateStep == GateInv /\ [Next]_vars => GateInv'
<1> SUFFICES ASSUME GateInv, [Next]_vars PROVE GateInv'
  OBVIOUS
<1>1. ASSUME NEW g \in Gens, ReaderStep(g) \/ Park(g)
      PROVE  GateInv'
  BY <1>1, WakeStep, DebounceDrainStep, CommitStep, FiresStep, PostLoopStep, ParkStep
     DEF ReaderStep
<1>2. CASE Inject \/ UNCHANGED vars
  <2>1. UNCHANGED <<phys, reader, alive, writers, heldKeys, td>>
    BY <1>2 DEF Inject, vars, registries
  <2>2. QED
    BY <2>1 DEF GateInv, AllTrack, ApplyType, OneWriter, Counted, Clearing
<1>3. QED
  BY <1>1, <1>2, KeyboardStep, RetireStep, TeardownStep DEF Next

LEMMA GateInit == Init => GateInv
<1> SUFFICES ASSUME Init PROVE GateInv
  OBVIOUS
<1>1. /\ phys = {} /\ alive = 1 /\ heldKeys = {} /\ writers = 0
      /\ td = [steps |-> <<>>, owed |-> <<>>]
      /\ reader = [g \in Gens |-> IF g = 1 THEN [NoReader EXCEPT !.st = "parked"]
                                  ELSE NoReader]
  BY DEF Init
<1>2. ASSUME NEW r, r \in {NoReader, [NoReader EXCEPT !.st = "parked"]}
      PROVE  Tracks(r, {}) /\ r.w = 0 /\ (Live(r) => r # NoReader)
  <2>1. r \in ReaderOf(r.engine, r.fires) /\ r.w = 0 /\ r.q = <<>> /\ r.held = {}
        /\ r.ev = <<>> /\ r.todo = <<>>
    <3>1. CASE r = NoReader
      BY <3>1, EmptySeq DEF NoReader, ReaderOf
    <3>2. CASE r = [NoReader EXCEPT !.st = "parked"]
      BY <3>2, EmptySeq DEF NoReader, ReaderOf
    <3>3. QED
      BY <1>2, <3>1, <3>2
  <2>2. \A x, y : Followed(<<>>, x, y) /\ x \notin ToSet(<<>>)
    BY DEF Followed, ToSet
  <2>3. \A k \in Keys : LetsGo(r, k)
    BY <2>1, <2>2, EventFacts DEF LetsGo
  <2>4. ~Live(NoReader)
    BY DEF Live, NoReader
  <2>5. QED
    BY <2>1, <2>3, <2>4 DEF Tracks, Sound
<1>3. \A g \in Gens : /\ Tracks(reader[g], phys) /\ reader[g].w = 0
                      /\ Live(reader[g]) => g = 1
  BY <1>1, <1>2
<1>4. AllTrack
  BY <1>1, <1>3 DEF AllTrack
<1>5. ApplyType
  BY <1>1 DEF ApplyType, Left
<1>6. OneWriter /\ Counted
  BY <1>1, <1>3 DEF OneWriter, Counted
<1>7. QED
  BY <1>4, <1>5, <1>6 DEF GateInv

(* Once everything has settled, the injection gate counts no key that is    *)
(* not physically down: HeldKeys and its writers, over every restart.      *)
THEOREM GateUnwedged == Spec => []GateNeverWedges
<1>1. GateInv => GateNeverWedges
  <2> SUFFICES ASSUME GateInv, Quiet, NEW k \in heldKeys PROVE k \in phys
    BY DEF GateNeverWedges
  <2>1. ~Clearing
    BY DEF Quiet, Clearing, ToSet
  <2>2. PICK g \in Gens : Live(reader[g]) /\ k \in reader[g].held
    BY <2>1 DEF GateInv, Counted
  <2> DEFINE r == reader[g]
  <2>3. /\ r.st = "parked" /\ r.q = <<>> /\ r.pend = <<>> /\ Tracks(r, phys)
        /\ r.todo = <<>> /\ r.ev = <<>> /\ k \in Keys
    BY <2>2 DEF Quiet, Running, Live, GateInv, AllTrack, Tracks, Sound, ReaderOf
  <2>4. \A x : x \notin ToSet(<<>>)
    BY DEF ToSet
  <2>5. Listens(r)
    BY <2>3, <2>4, EventFacts DEF Listens
  <2>6. CASE k \notin phys
    <3>1. LetsGo(r, k)
      BY <2>3, <2>5, <2>6 DEF Tracks
    <3>2. QED
      BY <2>2, <2>3, <2>4, <3>1, EventFacts DEF LetsGo
  <2>7. QED
    BY <2>6
<1> QED
  BY <1>1, GateInit, GateStep, PTL DEF Spec
=============================================================================
