----------------------- MODULE TranscriptionProofs ------------------------
(***************************************************************************)
(* Proofs about what sends a whole recording to the server: the runs over  *)
(* files with the app's ledger of them, for every number of files, runs,   *)
(* launches, faults, rows and retries, and batch dictation, for every      *)
(* bound and every cap.                                                    *)
(***************************************************************************)
EXTENDS TranscribeJobs, RecordSession, SequenceTheorems, FiniteSetTheorems,
        WellFoundedInduction, TLAPS

(* The runs over files.                                                     *)

(* Which records a crash took is spelled out in every step below.            *)
USE DEF Taken

-----------------------------------------------------------------------------
(* The inductive invariant.                                                 *)

Known == 1 .. next - 1      \* the runs posted so far
Earlier == 1 .. base - 1    \* those of earlier launches

Call == {Load} \cup {Save(S, j) : S \in SUBSET Jobs, j \in 0 .. MaxJobs}
PumpStates == {Idle} \cup [pc : {"persist", "post"}, job : Jobs, live : BOOLEAN]
Talks == {"status", "result", "tracks"}
PassStates == [pc : {"idle", "load", "collect", "next", "listing"} \cup Talks,
               todo : SUBSET Jobs, running : SUBSET Jobs, retry : BOOLEAN, backend : BOOLEAN]

WorldType ==
  /\ next \in 1 .. MaxJobs + 1 /\ backend \in BOOLEAN
  /\ launch \in Nat /\ base \in 1 .. MaxJobs + 1
LedgerType ==
  /\ rows \subseteq Jobs /\ disk \subseteq Jobs
  /\ read \in {"no", "reading", "yes"} /\ failed \in BOOLEAN /\ owed \in BOOLEAN
  /\ io \in Seq(Call) /\ faults \in Nat
RailType == running \in BOOLEAN /\ pump \in PumpStates
WatchType ==
  /\ by \in [Jobs -> {"none", "head", "lost", "att"}]
  /\ ask \in [Jobs -> {"no", "listing", "settling"} \cup Talks]
  /\ stopped \subseteq Jobs
PassType ==
  /\ pass \in PassStates
  /\ rerun \in BOOLEAN /\ timer \in BOOLEAN /\ retries \in 0 .. MaxRetries
RecordType ==
  /\ rec \in [Jobs -> {"none", "own", "failed", "done"}]
  /\ recDisk \in [Jobs -> {"none", "own", "failed", "done"}]
  /\ promised \subseteq Jobs /\ dismissed \subseteq Jobs
  /\ taken \in [Jobs -> {"none", "own", "failed", "done"}]

TypeOK ==
  WorldType /\ LedgerType /\ RailType /\ WatchType /\ PassType /\ RecordType

(* Nothing is known of a run before its request; the pump works on the      *)
(* newest one, which nobody watches, stopped or recorded yet.              *)
OnlyKnownRuns ==
  /\ base <= next
  /\ rows \cup disk \cup stopped \cup promised \cup dismissed \subseteq Known
  /\ \A c \in Range(io) : c.rows \subseteq Known /\ c.for < next
  /\ \A j \in Jobs \ Known :
       by[j] = "none" /\ ask[j] = "no" /\ rec[j] = "none" /\ recDisk[j] = "none"
  /\ \A j \in Jobs \ Earlier : by[j] \notin {"head", "att"} /\ ask[j] # "listing"
PumpIsNewest ==
  pump.pc # "idle" =>
    /\ pump.job = next - 1 /\ base <= pump.job
    /\ by[pump.job] = "none" /\ ask[pump.job] = "no" /\ rec[pump.job] = "none"
    /\ pump.job \notin stopped
    /\ pump.live <=> pump.job \notin dismissed

(* What the ledger's calls are, and what an unread ledger leaves alone.     *)
IoShape ==
  /\ read = "no" => io = <<>>
  /\ read = "reading" => io = <<Load>>
  /\ read = "yes" => ~owed /\ \A c \in Range(io) : c.op = "save"
Unread ==
  read # "yes" =>
    /\ rows \cap Earlier = {} /\ PassRows = {}
    /\ \A j \in Earlier : by[j] = "none" /\ ask[j] = "no"
    /\ failed \/ pass.pc = "load"

(* The pass works on earlier launches' rows, one of them at a time; nobody  *)
(* polls what it works on, and who is watched was not stopped.              *)
PassShape ==
  /\ PassRows \subseteq Earlier
  /\ pass.todo \cap pass.running = {}
  /\ pass.pc \in {"idle", "load", "collect"} => PassRows = {}
  /\ pass.pc \in Talks \cup {"listing"} => pass.todo # {}
  /\ \A j \in PassRows : by[j] = "none" /\ ask[j] \in {"no", "listing"}
  /\ \A j \in Jobs : by[j] # "none" => j \notin stopped
At(j) == pass.pc \in Talks /\ j \in pass.todo /\ j = Cur

(* The rail has one owner.                                                 *)
RailOwner ==
  /\ running <=> pump.pc # "idle" \/ Attached # {}
  /\ Attached # {} => pump.pc = "idle"
  /\ \A i, j \in Attached : i = j

(* A run that was given up has no watcher, no pump, and the pass will not   *)
(* take it up: it was stopped, or its row is gone.                          *)
GoneRow(j) ==
  /\ j \notin IF read = "yes" THEN rows ELSE disk
  /\ j \notin pass.running
  /\ j \in pass.todo => ~pass.backend /\ ~At(j)
DismissedInv ==
  /\ stopped \subseteq dismissed
  /\ \A j \in dismissed : /\ by[j] = "none" \/ ask[j] = "settling"
                          /\ j \in Earlier => j \in stopped \/ GoneRow(j)
  /\ \A j \in Jobs : ask[j] = "listing" =>
       /\ ~backend /\ by[j] = "none" /\ j \notin pass.running /\ ~At(j)
       /\ j \in pass.todo => ~pass.backend

(* Whoever stops with a row forgets it, and an earlier launch's row that     *)
(* stays is somebody's.                                                     *)
Owned(j) ==
  \/ by[j] # "none" \/ ask[j] # "no" \/ j \in PassRows
  \/ pass.pc \in {"load", "collect"} \/ pass.retry \/ rerun \/ timer
  \/ retries = MaxRetries
RowsOwned ==
  /\ read = "yes" => \A j \in rows \cap Earlier : Owned(j)
  /\ \A j \in rows \cap Earlier :
       /\ ask[j] # "settling"
       /\ by[j] = "none" => ask[j] \in {"no", "listing"}
       /\ j \in stopped => ask[j] # "listing" /\ j \notin pass.running
       /\ j \in stopped /\ pass.pc \in Talks \cup {"listing"} => j # Cur

(* A promise is kept by the record, or by the row on its way to the disk.    *)
InLedger(j) ==
  /\ j \in disk
  /\ read = "yes" => j \in rows
  /\ \A c \in Range(io) : c.op = "save" => j \in c.rows
PromiseInv ==
  /\ \A j \in (promised \ Taken) \ dismissed : rec[j] # "none" \/ InLedger(j)
  /\ \A j \in rows \cap Earlier : read = "yes" => InLedger(j)
  /\ \A j \in (promised \ Taken) \ dismissed : j \in Attached \cup (PassRows \ stopped) => j \in rows

(* While the pump waits for its row, no save without the row is the last.   *)
Covering(q, j) ==
  \A i \in 1 .. Len(q) : q[i].op = "save" /\ j \notin q[i].rows =>
    \E k \in (i + 1) .. Len(q) : q[k].for = j
PersistInv ==
  pump.pc = "persist" =>
    /\ pump.job \in rows
    /\ read = "yes" =>
         /\ Covering(io, pump.job)
         /\ \A c \in Range(io) : c.for = pump.job => pump.job \in c.rows
         /\ faults = 0 /\ pump.job \notin disk => \E c \in Range(io) : c.for = pump.job
    /\ read # "yes" => owed \/ faults > 0

IInv ==
  /\ TypeOK
  /\ OnlyKnownRuns
  /\ PumpIsNewest
  /\ IoShape
  /\ Unread
  /\ PassShape
  /\ RailOwner
  /\ DismissedInv
  /\ RowsOwned
  /\ PromiseInv
  /\ PersistInv

-----------------------------------------------------------------------------
(* The ids of runs; the least and the greatest of a set of them are members. *)

LEMMA JobsAreNumbers == \A j \in Jobs : j \in Nat /\ j # 0 /\ j <= MaxJobs
BY JobsAssumption DEF Jobs

LEMMA NatIsWellFounded == IsWellFoundedOn({ss \in Nat \X Nat : ss[1] < ss[2]}, Nat)
BY NatLessThanWellFounded DEF OpToRel

LEMMA Least ==
  ASSUME NEW S \in SUBSET Nat, S # {}
  PROVE  \E x \in S : \A y \in S : x <= y
<1> DEFINE R == {ss \in Nat \X Nat : ss[1] < ss[2]}
<1>1. IsWellFoundedOn(R, Nat)
  BY NatIsWellFounded
<1>2. \A x, y \in Nat : y < x => <<y, x>> \in R
  OBVIOUS
<1> HIDE DEF R
<1>3. PICK x \in S : \A y \in S : <<y, x>> \notin R
  BY <1>1, WFMin
<1>4. ASSUME NEW y \in S PROVE x <= y
  <2>1. x \in Nat /\ y \in Nat
    OBVIOUS
  <2>2. ~(y < x)
    BY <1>2, <1>3, <2>1
  <2> QED
    BY <2>1, <2>2
<1> QED
  BY <1>4

LEMMA MinIsMember ==
  ASSUME NEW S \in SUBSET Jobs, S # {}
  PROVE  Min(S) \in S
<1>1. S \in SUBSET Nat
  BY JobsAssumption DEF Jobs
<1> QED
  BY <1>1, Least DEF Min

LEMMA MaxIsMember ==
  ASSUME NEW S \in SUBSET Jobs, S # {}
  PROVE  Max(S) \in S
<1> DEFINE Gaps == {MaxJobs - x : x \in S}
<1>1. Gaps \in SUBSET Nat /\ Gaps # {}
  <2>1. MaxJobs \in Nat
    BY JobsAssumption
  <2>2. ASSUME NEW x \in S PROVE MaxJobs - x \in Nat
    BY <2>1, JobsAreNumbers
  <2> QED
    BY <2>2
<1>2. PICK g \in Gaps : \A h \in Gaps : g <= h
  BY <1>1, Least
<1>3. PICK x \in S : g = MaxJobs - x
  OBVIOUS
<1>4. ASSUME NEW y \in S PROVE x >= y
  <2>1. MaxJobs - y \in Gaps
    OBVIOUS
  <2>2. g <= MaxJobs - y
    BY <1>2, <2>1
  <2> QED
    BY <1>3, <2>2, JobsAssumption DEF Jobs
<1> QED
  BY <1>4 DEF Max

-----------------------------------------------------------------------------
(* What a write does to the ledger.                                         *)

LEMMA OneWrite ==
  ASSUME NEW S, NEW j, Writes(<<S>>, j)
  PROVE  /\ rows' = S
         /\ read = "yes" => io' = io \o <<Save(S, j)>> /\ UNCHANGED <<read, owed>>
         /\ read # "yes" => /\ owed' = TRUE /\ read' = "reading"
                            /\ io' = IF read = "no" THEN io \o <<Load>> ELSE io
<1>1. <<S>> # <<>> /\ Last(<<S>>) = S
  BY DEF Last
<1>2. [i \in DOMAIN <<S>> |-> Save(<<S>>[i], IF i = Len(<<S>>) THEN j ELSE 0)] = <<Save(S, j)>>
  OBVIOUS
<1> QED
  BY <1>1, <1>2 DEF Writes, InTurn

LEMMA TwoWrites ==
  ASSUME NEW S, NEW T, NEW j, Writes(<<S, T>>, j)
  PROVE  /\ rows' = T
         /\ read = "yes" => /\ io' = io \o <<Save(S, 0), Save(T, j)>>
                            /\ UNCHANGED <<read, owed>>
         /\ read # "yes" => /\ owed' = TRUE /\ read' = "reading"
                            /\ io' = IF read = "no" THEN io \o <<Load>> ELSE io
<1>1. <<S, T>> # <<>> /\ Last(<<S, T>>) = T
  BY DEF Last
<1>2. [i \in DOMAIN <<S, T>> |-> Save(<<S, T>>[i], IF i = Len(<<S, T>>) THEN j ELSE 0)]
         = <<Save(S, 0), Save(T, j)>>
  OBVIOUS
<1> QED
  BY <1>1, <1>2 DEF Writes, InTurn

LEMMA TwoSteps ==
  ASSUME NEW S, NEW T
  PROVE  <<S>> \o <<T>> = <<S, T>>
<1> DEFINE s == <<S>> \o <<T>>
           t == <<S, T>>
<1>1. s \in Seq({S, T}) /\ Len(s) = 2 /\ s[1] = S /\ s[2] = T
  <2>1. <<S>> \in Seq({S, T}) /\ <<T>> \in Seq({S, T})
    OBVIOUS
  <2> QED
    BY <2>1
<1>2. t \in Seq({S, T}) /\ Len(t) = 2 /\ t[1] = S /\ t[2] = T
  OBVIOUS
<1> HIDE DEF s, t
<1>3. \A i \in 1 .. Len(s) : s[i] = t[i]
  BY <1>1, <1>2
<1>4. s = t
  BY <1>1, <1>2, <1>3, SeqEqual
<1> QED
  BY <1>4 DEF s, t

(* A call added at the end.                                                *)
LEMMA InTurnKeeps ==
  ASSUME NEW q \in Seq(Call), NEW calls \in Seq(Call)
  PROVE  /\ q \o calls \in Seq(Call)
         /\ Range(q \o calls) = Range(q) \cup Range(calls)
         /\ \A j \in Nat : Covering(q, j) /\ (\A c \in Range(calls) : j \in c.rows)
                             => Covering(q \o calls, j)
<1>1. q \o calls \in Seq(Call) /\ Len(q \o calls) = Len(q) + Len(calls)
  OBVIOUS
<1>2. \A i \in 1 .. Len(q) : (q \o calls)[i] = q[i]
  OBVIOUS
<1>3. \A i \in 1 .. Len(calls) : (q \o calls)[Len(q) + i] = calls[i]
  OBVIOUS
<1>4. \A i \in 1 .. Len(q \o calls) :
        i \in 1 .. Len(q) \/ \E k \in 1 .. Len(calls) : i = Len(q) + k
  <2> TAKE i \in 1 .. Len(q \o calls)
  <2>1. CASE i <= Len(q)
    BY <2>1
  <2>2. CASE i > Len(q)
    <3>1. i - Len(q) \in 1 .. Len(calls)
      BY <1>1, <2>2
    <3>2. i = Len(q) + (i - Len(q))
      BY <1>1
    <3> QED
      BY <3>1, <3>2
  <2> QED
    BY <2>1, <2>2
<1>5. Range(q \o calls) = Range(q) \cup Range(calls)
  <2>1. \A c : c \in Range(q \o calls) => c \in Range(q) \cup Range(calls)
    BY <1>1, <1>2, <1>3, <1>4 DEF Range
  <2>2. \A c : c \in Range(q) => c \in Range(q \o calls)
    BY <1>1, <1>2 DEF Range
  <2>3. \A c : c \in Range(calls) => c \in Range(q \o calls)
    <3> SUFFICES ASSUME NEW k \in 1 .. Len(calls) PROVE calls[k] \in Range(q \o calls)
      BY DEF Range
    <3>1. Len(q) + k \in DOMAIN (q \o calls)
      BY <1>1
    <3> QED
      BY <3>1, <1>3 DEF Range
  <2> QED
    BY <2>1, <2>2, <2>3
<1>6. ASSUME NEW j \in Nat, Covering(q, j), \A c \in Range(calls) : j \in c.rows
      PROVE  Covering(q \o calls, j)
  <2> SUFFICES ASSUME NEW i \in 1 .. Len(q \o calls),
                      (q \o calls)[i].op = "save", j \notin (q \o calls)[i].rows
               PROVE  \E k \in (i + 1) .. Len(q \o calls) : (q \o calls)[k].for = j
    BY DEF Covering
  <2>1. i \in 1 .. Len(q)
    <3> SUFFICES ASSUME NEW k \in 1 .. Len(calls), i = Len(q) + k PROVE FALSE
      BY <1>4
    <3>1. (q \o calls)[i] = calls[k] /\ calls[k] \in Range(calls)
      BY <1>3 DEF Range
    <3> QED
      BY <3>1, <1>6
  <2>2. PICK k \in (i + 1) .. Len(q) : q[k].for = j
    BY <1>2, <1>6, <2>1 DEF Covering
  <2>3. k \in (i + 1) .. Len(q \o calls) /\ k \in 1 .. Len(q)
    BY <1>1, <2>1
  <2> QED
    BY <1>2, <2>2, <2>3
<1> QED
  BY <1>1, <1>5, <1>6

-----------------------------------------------------------------------------
(* Steps of the ledger that only forget, or leave it alone.                 *)

LedgerDrops(S) ==
  /\ UNCHANGED <<disk, failed, faults>>
  /\ rows' = rows \ S
  /\ LedgerType' /\ IoShape'
  /\ read' = "yes" <=> read = "yes"
  /\ \A c \in Range(io') : c.rows \subseteq Known /\ c.for < next
  /\ \A j \in Jobs \ S : InLedger(j) => InLedger(j)'
  /\ pump'.pc = pump.pc /\ pump'.job = pump.job /\ (pump.pc = "persist" => pump.job \notin S)
       => PersistInv'

LEMMA CallParts ==
  ASSUME TypeOK
  PROVE  /\ \A c \in Range(io) : c \in Call
         /\ \A S \in SUBSET Jobs, j \in 0 .. MaxJobs : Save(S, j) \in Call
         /\ \A S, j : /\ Save(S, j).op = "save" /\ Save(S, j).rows = S
                      /\ Save(S, j).for = j
         /\ Load \in Call /\ Load.op = "load" /\ Load.rows = {} /\ Load.for = 0
         /\ 0 \in 0 .. MaxJobs
<1>1. \A c \in Range(io) : c \in Call
  BY DEF TypeOK, LedgerType, Range
<1>2. \A S \in SUBSET Jobs, j \in 0 .. MaxJobs : Save(S, j) \in Call
  BY DEF Call
<1>3. \A S, j : Save(S, j).op = "save" /\ Save(S, j).rows = S /\ Save(S, j).for = j
  BY DEF Save
<1>4. Load \in Call /\ Load.op = "load" /\ Load.rows = {} /\ Load.for = 0
  BY DEF Call, Load
<1> QED
  BY <1>1, <1>2, <1>3, <1>4, JobsAssumption

LEMMA RangeOne == \A c : Range(<<c>>) = {c}
BY DEF Range
LEMMA RangeTwo == \A c, d : Range(<<c, d>>) = {c, d}
<1> SUFFICES ASSUME NEW c, NEW d PROVE Range(<<c, d>>) = {c, d}
  OBVIOUS
<1>1. DOMAIN <<c, d>> = {1, 2} /\ <<c, d>>[1] = c /\ <<c, d>>[2] = d
  OBVIOUS
<1> QED
  BY <1>1 DEF Range

LEMMA KeepsLedger ==
  ASSUME IInv, UNCHANGED ledger
  PROVE  LedgerDrops({})
<1>1. LedgerType' /\ IoShape'
  BY DEF IInv, TypeOK, LedgerType, IoShape, ledger
<1>2. \A j \in Jobs : InLedger(j) => InLedger(j)'
  BY DEF InLedger, ledger
<1>3. ASSUME pump'.pc = pump.pc, pump'.job = pump.job PROVE PersistInv'
  BY <1>3 DEF IInv, PersistInv, ledger, Covering
<1> QED
  BY <1>1, <1>2, <1>3 DEF LedgerDrops, IInv, OnlyKnownRuns, ledger

LEMMA ForgetDrops ==
  ASSUME IInv, NEW S, Forget(S), UNCHANGED <<disk, failed, faults>>
  PROVE  LedgerDrops(S)
<1>1. CASE rows \cap S = {}
  <2>1. UNCHANGED ledger /\ rows = rows \ S
    BY <1>1 DEF Forget, Forgetting, Writes, ledger
  <2>2. LedgerDrops({})
    BY <2>1, KeepsLedger
  <2>3. \A j \in Jobs \ S : InLedger(j) => InLedger(j)'
    BY <2>1 DEF InLedger, ledger
  <2> QED
    BY <2>1, <2>2, <2>3 DEF LedgerDrops
<1>2. CASE rows \cap S # {}
  <2>1. Writes(<<rows \ S>>, 0)
    BY <1>2 DEF Forget, Forgetting
  <2> DEFINE call == Save(rows \ S, 0)
  <2>2. /\ rows' = rows \ S
        /\ read = "yes" => io' = io \o <<call>> /\ UNCHANGED <<read, owed>>
        /\ read # "yes" => /\ owed' = TRUE /\ read' = "reading"
                           /\ io' = IF read = "no" THEN io \o <<Load>> ELSE io
    BY <2>1, OneWrite
  <2> HIDE DEF call
  <2>3. rows \ S \in SUBSET Jobs
    BY DEF IInv, TypeOK, LedgerType
  <2>4. CASE read = "yes"
    <3>1. call \in Call /\ call.op = "save" /\ call.rows = rows \ S /\ call.for = 0
      BY <2>3, CallParts DEF call, IInv
    <3>2. io \in Seq(Call) /\ <<call>> \in Seq(Call) /\ io' = io \o <<call>>
      BY <2>2, <2>4, <3>1 DEF IInv, TypeOK, LedgerType
    <3>3. io' \in Seq(Call) /\ Range(io') = Range(io) \cup {call}
      BY <3>2, InTurnKeeps, RangeOne
    <3>4. LedgerType'
      BY <2>2, <2>3, <2>4, <3>3 DEF IInv, TypeOK, LedgerType
    <3>5. IoShape'
      BY <2>2, <2>4, <3>1, <3>3 DEF IInv, IoShape
    <3>6. \A c \in Range(io') : c.rows \subseteq Known /\ c.for < next
      <4>1. rows \subseteq Known /\ 0 < next
        BY JobsAssumption DEF IInv, OnlyKnownRuns, TypeOK, WorldType
      <4> QED
        BY <4>1, <3>1, <3>3 DEF IInv, OnlyKnownRuns
    <3>7. \A j \in Jobs \ S : InLedger(j) => InLedger(j)'
      BY <2>2, <2>4, <3>1, <3>3 DEF InLedger
    <3>8. ASSUME pump'.pc = pump.pc, pump'.job = pump.job,
                 pump.pc = "persist" => pump.job \notin S
          PROVE  PersistInv'
      <4> SUFFICES ASSUME pump.pc = "persist" PROVE PersistInv'
        BY <3>8 DEF PersistInv
      <4>1. pump.job \in rows /\ pump.job \in Nat /\ pump.job # 0
        <5>1. pump.job \in rows /\ rows \subseteq Jobs
          BY <2>4 DEF IInv, PersistInv, TypeOK, LedgerType
        <5> QED
          BY <5>1, JobsAreNumbers
      <4>2. Covering(io', pump.job)
        <5>1. Covering(io, pump.job) /\ pump.job \in call.rows
          BY <2>4, <3>1, <3>8, <4>1 DEF IInv, PersistInv
        <5>2. \A c \in Range(<<call>>) : pump.job \in c.rows
          BY <5>1, RangeOne
        <5> QED
          BY <3>2, <4>1, <5>1, <5>2, InTurnKeeps
      <4>3. \A c \in Range(io') : c.for = pump'.job => pump'.job \in c.rows
        BY <2>4, <3>1, <3>3, <3>8, <4>1 DEF IInv, PersistInv
      <4>4. pump'.job \in rows'
        BY <2>2, <3>8, <4>1
      <4>5. faults' = 0 /\ pump'.job \notin disk' => \E c \in Range(io') : c.for = pump'.job
        BY <2>4, <3>3, <3>8 DEF IInv, PersistInv
      <4> QED
        BY <2>2, <2>4, <3>8, <4>2, <4>3, <4>4, <4>5 DEF PersistInv
    <3> QED
      BY <2>2, <2>4, <3>4, <3>5, <3>6, <3>7, <3>8 DEF LedgerDrops
  <2>5. CASE read # "yes"
    <3>1. io' = <<Load>>
      <4>1. CASE read = "no"
        BY <2>2, <4>1 DEF IInv, IoShape
      <4>2. CASE read = "reading"
        BY <2>2, <4>2 DEF IInv, IoShape
      <4> QED
        BY <2>5, <4>1, <4>2 DEF IInv, TypeOK, LedgerType
    <3>2. <<Load>> \in Seq(Call) /\ Range(io') = {Load} /\ Load.rows = {} /\ Load.op # "save"
      BY <3>1, RangeOne, CallParts DEF IInv
    <3>3. LedgerType'
      BY <2>2, <2>3, <2>5, <3>1, <3>2 DEF IInv, TypeOK, LedgerType
    <3>4. IoShape'
      BY <2>2, <2>5, <3>1 DEF IoShape
    <3>5. \A c \in Range(io') : c.rows \subseteq Known /\ c.for < next
      <4>1. 0 < next /\ Load.for = 0
        BY JobsAssumption, CallParts DEF IInv, TypeOK, WorldType
      <4> QED
        BY <4>1, <3>2
    <3>6. \A j \in Jobs \ S : InLedger(j) => InLedger(j)'
      BY <2>2, <2>5, <3>2 DEF InLedger
    <3>7. ASSUME pump'.pc = pump.pc, pump'.job = pump.job,
                 pump.pc = "persist" => pump.job \notin S
          PROVE  PersistInv'
      BY <2>2, <2>5, <3>7 DEF IInv, PersistInv
    <3> QED
      BY <2>2, <2>5, <3>3, <3>4, <3>5, <3>6, <3>7 DEF LedgerDrops
  <2> QED
    BY <2>4, <2>5
<1> QED
  BY <1>1, <1>2

(* What the pump's step to its next file does.                              *)
LedgerAdds(S) ==
  /\ UNCHANGED <<disk, failed, faults>>
  /\ next \in rows' /\ rows' \subseteq (rows \ S) \cup {next}
  /\ LedgerType' /\ IoShape'
  /\ read' = "yes" <=> read = "yes"
  /\ \A c \in Range(io') : c.rows \subseteq 1 .. next /\ c.for <= next
  /\ \A j \in rows' \ {next} : InLedger(j) => InLedger(j)'
  /\ \A j \in promised' \ S : j \in promised /\ (InLedger(j) => InLedger(j)')
  /\ promised' = promised \ ((rows \ S) \ rows')
  /\ PersistInv'
TakesNext(q, S) ==
  /\ next \in Jobs
  /\ LedgerAdds(S)
  /\ pump' = [pc |-> "persist", job |-> next, live |-> TRUE]
  /\ running' = TRUE
  /\ next' = next + 1

LEMMA BoundedKeepsNewest ==
  ASSUME IInv, next \in Jobs, NEW S, NEW old, NEW n \in Fits
  PROVE  /\ next \in Adding(rows \ S, old, next, n)
         /\ Adding(rows \ S, old, next, n) \subseteq (rows \ S) \cup {next}
<1> DEFINE all == ((rows \ S) \ old) \cup {next}
<1>1. {k \in all : k > next} = {}
  <2>1. \A k \in rows : k \in 1 .. next - 1
    BY DEF IInv, OnlyKnownRuns, Known
  <2>2. \A k \in rows : ~(k > next)
    BY <2>1, JobsAreNumbers
  <2>3. ~(next > next)
    BY JobsAreNumbers
  <2> QED
    BY <2>2, <2>3
<1>2. Cardinality({k \in all : k > next}) < n
  BY <1>1, FS_EmptySet, JobsAssumption DEF Fits
<1> QED
  BY <1>2 DEF Adding, Bounded

LEMMA PumpStep ==
  ASSUME IInv, NEW q, NEW S, PumpGoesOn(q, S), UNCHANGED <<disk, failed, faults>>,
         next \in Jobs \/ Queued(q) = {}
  PROVE  \/ /\ Queued(q) = {} /\ LedgerDrops(S)
            /\ pump' = Idle /\ running' = FALSE /\ UNCHANGED <<next, promised>>
         \/ TakesNext(q, S)
<1>1. CASE Queued(q) = {}
  BY <1>1, ForgetDrops DEF PumpGoesOn, Forget
<1>2. CASE Queued(q) # {}
  <2>1. PICK p \in Queued(q), old \in SUBSET (rows \ S), n \in Fits :
         /\ Writes(Forgetting(S) \o <<Adding(rows \ S, old, next, n)>>, next)
         /\ promised' = promised \ ((rows \ S) \ Adding(rows \ S, old, next, n))
    BY <1>2 DEF PumpGoesOn
  <2> DEFINE now == Adding(rows \ S, old, next, n)
  <2>2. /\ pump' = [pc |-> "persist", job |-> next, live |-> TRUE]
        /\ running' = TRUE /\ next' = next + 1
    BY <1>2 DEF PumpGoesOn
  <2>3. next \in now /\ now \subseteq (rows \ S) \cup {next}
    BY <1>2, BoundedKeepsNewest
  <2> HIDE DEF now
  <2>4. LedgerAdds(S)
    <3> DEFINE last == Save(now, next)
               calls == IF rows \cap S = {} THEN <<last>> ELSE <<Save(rows \ S, 0), last>>
    <3>1. /\ rows' = now
          /\ read = "yes" => io' = io \o calls /\ UNCHANGED <<read, owed>>
          /\ read # "yes" => /\ owed' = TRUE /\ read' = "reading"
                             /\ io' = IF read = "no" THEN io \o <<Load>> ELSE io
      <4>1. CASE rows \cap S = {}
        <5>1. Writes(<<now>>, next)
          BY <2>1, <4>1 DEF Forgetting, now
        <5> QED
          BY <4>1, <5>1, OneWrite
      <4>2. CASE rows \cap S # {}
        <5>1. Writes(<<rows \ S>> \o <<now>>, next)
          BY <2>1, <4>2 DEF Forgetting, now
        <5>2. Writes(<<rows \ S, now>>, next)
          BY <5>1, TwoSteps
        <5> QED
          BY <4>2, <5>2, TwoWrites
      <4> QED
        BY <4>1, <4>2
    <3>2. promised' = promised \ ((rows \ S) \ now)
      BY <2>1 DEF now
    <3>3. /\ now \in SUBSET Jobs /\ rows \ S \in SUBSET Jobs
          /\ now \subseteq 1 .. next /\ rows \ S \subseteq 1 .. next
          /\ next \in Nat /\ next # 0
      <4>1. next \in Nat /\ next # 0 /\ next \in 1 .. next
        BY <1>2, JobsAreNumbers
      <4>2. rows \subseteq 1 .. next
        BY <4>1 DEF IInv, OnlyKnownRuns, Known
      <4>3. rows \subseteq Jobs
        BY DEF IInv, TypeOK, LedgerType
      <4> QED
        BY <1>2, <2>3, <4>1, <4>2, <4>3
    <3> HIDE DEF last, calls
    <3>4. CASE read = "yes"
      <4>1. /\ last \in Call /\ last.op = "save" /\ last.rows = now /\ last.for = next
            /\ next \in 0 .. MaxJobs /\ next \in Jobs
        <5>1. next \in 0 .. MaxJobs /\ next \in Jobs
          BY <1>2, JobsAssumption DEF Jobs
        <5> QED
          BY <3>3, <5>1, CallParts DEF last, IInv
      <4>2. /\ calls \in Seq(Call) /\ last \in Range(calls)
            /\ \A c \in Range(calls) : /\ c.op = "save" /\ now \ {next} \subseteq c.rows
                                       /\ c.rows \subseteq 1 .. next
                                       /\ (c.for = next /\ next \in c.rows) \/ c.for = 0
            /\ calls[Len(calls)] = last /\ Len(calls) \in Nat \ {0}
        <5> DEFINE gone == Save(rows \ S, 0)
        <5>1. gone \in Call /\ gone.op = "save" /\ gone.rows = rows \ S /\ gone.for = 0
          BY <3>3, CallParts DEF IInv
        <5> HIDE DEF gone
        <5>2. CASE rows \cap S = {}
          <6>1. calls = <<last>> /\ Range(calls) = {last}
            BY <5>2, RangeOne DEF calls
          <6>2. calls \in Seq(Call) /\ Len(calls) = 1 /\ calls[1] = last
            BY <6>1, <4>1
          <6>3. now \ {next} \subseteq now
            OBVIOUS
          <6>4. ASSUME NEW c \in Range(calls)
                PROVE  /\ c.op = "save" /\ now \ {next} \subseteq c.rows
                       /\ c.rows \subseteq 1 .. next
                       /\ (c.for = next /\ next \in c.rows) \/ c.for = 0
            <7>1. c = last
              BY <6>1
            <7> QED
              BY <7>1, <6>3, <4>1, <2>3, <3>3
          <6> QED
            BY <6>1, <6>2, <6>4
        <5>3. CASE rows \cap S # {}
          <6>1. calls = <<gone, last>> /\ Range(calls) = {gone, last}
            BY <5>3, RangeTwo DEF calls, gone
          <6>2. calls \in Seq(Call) /\ Len(calls) = 2 /\ calls[2] = last
            BY <6>1, <5>1, <4>1
          <6>3. now \ {next} \subseteq rows \ S /\ now \ {next} \subseteq now
            BY <2>3
          <6>4. ASSUME NEW c \in Range(calls)
                PROVE  /\ c.op = "save" /\ now \ {next} \subseteq c.rows
                       /\ c.rows \subseteq 1 .. next
                       /\ (c.for = next /\ next \in c.rows) \/ c.for = 0
            <7>1. CASE c = last
              BY <7>1, <6>3, <4>1, <2>3, <3>3
            <7>2. CASE c = gone
              BY <7>2, <6>3, <5>1, <3>3
            <7> QED
              BY <7>1, <7>2, <6>1
          <6> QED
            BY <6>1, <6>2, <6>4
        <5> QED
          BY <5>2, <5>3
      <4>3. io \in Seq(Call) /\ io' = io \o calls
        BY <3>1, <3>4 DEF IInv, TypeOK, LedgerType
      <4>4. io' \in Seq(Call) /\ Range(io') = Range(io) \cup Range(calls)
        BY <4>2, <4>3, InTurnKeeps
      <4>5. LedgerType'
        BY <3>1, <3>3, <3>4, <4>4 DEF IInv, TypeOK, LedgerType
      <4>6. IoShape'
        BY <3>1, <3>4, <4>2, <4>4 DEF IInv, IoShape
      <4>7. \A c \in Range(io') : c.rows \subseteq 1 .. next /\ c.for <= next
        <5>1. ASSUME NEW c \in Range(io) PROVE c.rows \subseteq 1 .. next /\ c.for <= next
          <6>1. c.rows \subseteq 1 .. next - 1 /\ c.for < next
            BY DEF IInv, OnlyKnownRuns, Known
          <6>2. c.for \in 0 .. MaxJobs
            BY CallParts DEF IInv, Call, Save, Load
          <6> QED
            BY <3>3, <6>1, <6>2
        <5>2. ASSUME NEW c \in Range(calls) PROVE c.rows \subseteq 1 .. next /\ c.for <= next
          BY <3>3, <4>2
        <5> QED
          BY <4>4, <5>1, <5>2
      <4>8. \A j \in rows' \ {next} : InLedger(j) => InLedger(j)'
        BY <3>1, <3>4, <4>2, <4>4 DEF InLedger
      <4>9. \A j \in promised' \ S : j \in promised /\ (InLedger(j) => InLedger(j)')
        <5> TAKE j \in promised' \ S
        <5>1. j \in promised /\ j \notin (rows \ S) \ now
          BY <3>2
        <5>2. j # next
          BY <3>3, <5>1 DEF IInv, OnlyKnownRuns, Known
        <5>3. InLedger(j) => j \in rows' \ {next}
          BY <3>1, <3>4, <5>1, <5>2 DEF InLedger
        <5> QED
          BY <4>8, <5>1, <5>3
      <4>10. PersistInv'
        <5>1. pump'.job = next /\ read' = "yes" /\ next \in rows'
          BY <2>2, <2>3, <3>1, <3>4
        <5>2. /\ Len(io) \in Nat /\ Len(io') = Len(io) + Len(calls)
              /\ io'[Len(io')] = last /\ Len(io') \in 1 .. Len(io')
          BY <4>2, <4>3
        <5>3. Covering(io', next)
          <6> SUFFICES ASSUME NEW i \in 1 .. Len(io'), next \notin io'[i].rows
                       PROVE  \E k \in (i + 1) .. Len(io') : io'[k].for = next
            BY DEF Covering
          <6>1. i # Len(io')
            BY <2>3, <4>1, <5>2
          <6>2. Len(io') \in (i + 1) .. Len(io')
            BY <5>2, <6>1
          <6> QED
            BY <4>1, <5>2, <6>2
        <5>4. last \in Range(io')
          BY <4>2, <4>4
        <5>5. \A c \in Range(io') : c.for = next => next \in c.rows
          <6>1. ASSUME NEW c \in Range(io) PROVE c.for # next
            <7>1. c.for < next
              BY DEF IInv, OnlyKnownRuns
            <7> QED
              BY <3>3, <7>1
          <6> QED
            BY <3>3, <4>2, <4>4, <6>1
        <5> QED
          BY <4>1, <5>1, <5>3, <5>4, <5>5 DEF PersistInv
      <4> QED
        BY <2>3, <3>1, <3>2, <3>4, <4>5, <4>6, <4>7, <4>8, <4>9, <4>10 DEF LedgerAdds
    <3>5. CASE read # "yes"
      <4>1. io' = <<Load>>
        <5>1. CASE read = "no"
          BY <3>1, <5>1 DEF IInv, IoShape
        <5>2. CASE read = "reading"
          BY <3>1, <5>2 DEF IInv, IoShape
        <5> QED
          BY <3>5, <5>1, <5>2 DEF IInv, TypeOK, LedgerType
      <4>2. /\ <<Load>> \in Seq(Call) /\ Range(io') = {Load}
            /\ Load.rows = {} /\ Load.op # "save" /\ Load.for = 0
        BY <4>1, RangeOne, CallParts DEF IInv
      <4>3. LedgerType'
        BY <3>1, <3>3, <3>5, <4>1, <4>2 DEF IInv, TypeOK, LedgerType
      <4>4. IoShape'
        BY <3>1, <3>5, <4>1 DEF IoShape
      <4>5. \A c \in Range(io') : c.rows \subseteq 1 .. next /\ c.for <= next
        BY <3>3, <4>2
      <4>6. \A j : InLedger(j) => InLedger(j)'
        BY <3>1, <3>5, <4>2 DEF InLedger
      <4>7. PersistInv'
        BY <2>2, <2>3, <3>1, <3>5 DEF PersistInv
      <4> QED
        BY <2>3, <3>1, <3>2, <3>5, <4>3, <4>4, <4>5, <4>6, <4>7 DEF LedgerAdds
    <3> QED
      BY <3>4, <3>5
  <2> QED
    BY <1>2, <2>2, <2>4 DEF TakesNext
<1> QED
  BY <1>1, <1>2

-----------------------------------------------------------------------------
(* What keeps the promises when rows are only forgotten.                    *)

LEMMA PromisesKept ==
  ASSUME IInv, NEW S, LedgerDrops(S), UNCHANGED <<base, promised, taken>>,
         dismissed \subseteq dismissed',
         \A i \in (promised \ Taken) \ dismissed' : i \in S \/ rec[i] # "none" => rec'[i] # "none",
         \A i \in (promised \ Taken) \ dismissed' :
           i \in Attached' \cup (PassRows' \ stopped') =>
             i \notin S /\ (i \in rows \/ i \in Attached \cup (PassRows \ stopped))
  PROVE  PromiseInv'
<1>1. promised \subseteq Jobs /\ rows \subseteq Jobs
  BY DEF IInv, TypeOK, RecordType, LedgerType
<1>2. ASSUME NEW i \in (promised' \ Taken') \ dismissed' PROVE rec'[i] # "none" \/ InLedger(i)'
  <2>1. i \in (promised \ Taken) \ dismissed /\ i \in Jobs
    BY <1>1
  <2> QED
    BY <1>2, <2>1 DEF IInv, PromiseInv, LedgerDrops
<1>3. ASSUME NEW i \in rows' \cap Earlier', read' = "yes" PROVE InLedger(i)'
  BY <1>1, <1>3 DEF IInv, PromiseInv, LedgerDrops, Earlier
<1>4. ASSUME NEW i \in (promised' \ Taken') \ dismissed', i \in Attached' \cup (PassRows' \ stopped')
      PROVE  i \in rows'
  <2>1. i \in (promised \ Taken) \ dismissed /\ i \notin S
    BY <1>4
  <2>2. i \in rows
    BY <1>4, <2>1 DEF IInv, PromiseInv
  <2> QED
    BY <2>1, <2>2 DEF LedgerDrops
<1> QED
  BY <1>2, <1>3, <1>4 DEF PromiseInv

-----------------------------------------------------------------------------
(* The watchers.                                                            *)

LEMMA WatcherWaits ==
  ASSUME IInv, NEW j \in Jobs, NEW s \in {"no"} \cup Talks,
         Waits(j, s), UNCHANGED <<stopped, passes, unwatched>>,
         ask[j] # "listing",
         \/ by[j] # "none" /\ ask[j] # "settling"
         \/ by[j] = "none" /\ ask[j] # "no" /\ s = "no"
  PROVE  IInv'
<1>1. /\ UNCHANGED <<ledger, world, rail, app, by, stopped, passes, records, ghosts>>
      /\ ask' = [ask EXCEPT ![j] = s]
  BY DEF Waits, RecordsNothing, unwatched, ledger, world, rail, app, records, ghosts
<1>2. LedgerDrops({})
  BY <1>1, KeepsLedger
<1>3. TypeOK'
  BY <1>1 DEF IInv, TypeOK, WorldType, LedgerType, RailType, WatchType, PassType, RecordType, ledger, world, rail, app, passes, records, ghosts, Talks
<1>4. OnlyKnownRuns'
  BY <1>1 DEF IInv, OnlyKnownRuns, TypeOK, WatchType, Known, Earlier, ledger, world, app, records, ghosts, Talks
<1>5. PumpIsNewest'
  BY <1>1 DEF IInv, PumpIsNewest, TypeOK, WatchType, ledger, world, app, rail, records, ghosts, Talks
<1>6. Unread'
  BY <1>1 DEF IInv, Unread, TypeOK, WatchType, ledger, app, passes, Earlier, PassRows
<1>7. PassShape'
  BY <1>1 DEF IInv, PassShape, TypeOK, WatchType, app, passes, Earlier, PassRows
<1>8. RailOwner'
  <2>1. Attached' = Attached
    BY <1>1 DEF Attached, IInv, TypeOK, WatchType, Talks
  <2> QED
    BY <1>1, <2>1 DEF IInv, RailOwner, rail
<1>9. DismissedInv'
  BY <1>1 DEF IInv, DismissedInv, TypeOK, WatchType, ghosts, app, passes, ledger, world, GoneRow, At, Earlier, Cur, Talks
<1>10. RowsOwned'
  BY <1>1 DEF IInv, RowsOwned, TypeOK, WatchType, app, passes, ledger, Owned, Earlier, Cur, Talks, PassRows
<1>11. PromiseInv'
  <2>1. Attached' = Attached
    BY <1>1 DEF Attached, IInv, TypeOK, WatchType, Talks
  <2> QED
    BY <1>1, <2>1 DEF IInv, PromiseInv, InLedger, app, passes, ledger, ghosts, records, PassRows, Earlier
<1> QED
  BY <1>1, <1>2, <1>3, <1>4, <1>5, <1>6, <1>7, <1>8, <1>9, <1>10, <1>11
     DEF IInv, LedgerDrops, rail

(* A transcript or a failure recorded under the job's id.                    *)
LEMMA RecordsRail ==
  ASSUME NEW j \in Jobs, NEW s, Records(j, s)
  PROVE  /\ running' = (running /\ by[j] # "att")
         /\ rec' = [rec EXCEPT ![j] = s] /\ \E old \in {rec[j], recDisk[j]} : recDisk' = [recDisk EXCEPT ![j] = old]
BY DEF Records, Keeps, FreesRail

(* A watcher that ends, or records and waits for its row to go, frees the    *)
(* rail it held.                                                            *)
LEMMA RailFreed ==
  ASSUME IInv, NEW j \in Jobs, ask[j] # "settling", by[j] # "none",
         UNCHANGED pump, running' = (running /\ by[j] # "att"),
         Attached' = Attached \ {j}
  PROVE  RailOwner'
<1>1. CASE by[j] = "att"
  <2>1. j \in Attached
    BY <1>1 DEF Attached
  <2>2. Attached' = {} /\ pump.pc = "idle"
    BY <2>1 DEF IInv, RailOwner
  <2>3. running' = FALSE
    BY <1>1
  <2> QED
    BY <2>2, <2>3 DEF RailOwner
<1>2. CASE by[j] # "att"
  <2>1. Attached' = Attached
    BY <1>2 DEF Attached
  <2>2. running' = running
    BY <1>2 DEF IInv, TypeOK, RailType
  <2> QED
    BY <2>1, <2>2 DEF IInv, RailOwner
<1> QED
  BY <1>1, <1>2

LEMMA WatcherGivesUp ==
  ASSUME IInv, NEW j \in Jobs, GivesUp(j), UNCHANGED <<stopped, passes, unwatched>>,
         by[j] # "none", ask[j] \in {"no", "status"}
  PROVE  IInv'
<1>1. /\ UNCHANGED <<world, pump, app, stopped, passes, ghosts>>
      /\ by' = [by EXCEPT ![j] = "none"] /\ ask' = [ask EXCEPT ![j] = "no"]
      /\ running' = (running /\ by[j] # "att")
      /\ rec' = [rec EXCEPT ![j] = "failed"] /\ \E old \in {rec[j], recDisk[j]} : recDisk' = [recDisk EXCEPT ![j] = old]
  BY RecordsRail DEF GivesUp, unwatched, world, app, ghosts
<1>2. LedgerDrops({j})
  BY ForgetDrops DEF GivesUp, unwatched
<1>3. Attached' = Attached \ {j}
  BY <1>1 DEF Attached, IInv, TypeOK, WatchType
<1>4. TypeOK'
  BY <1>1, <1>2, <1>3 DEF IInv, TypeOK, WorldType, LedgerType, RailType, WatchType, PassType,
     RecordType, world, app, passes, ghosts, LedgerDrops
<1>5. OnlyKnownRuns'
  BY <1>1, <1>2, <1>3 DEF IInv, OnlyKnownRuns, TypeOK, WatchType, RecordType, Known, Earlier,
     world, app, passes, ghosts, LedgerDrops
<1>6. PumpIsNewest'
  BY <1>1, <1>2, <1>3 DEF IInv, PumpIsNewest, TypeOK, WatchType, RecordType, world, app, passes,
     ghosts, LedgerDrops
<1>7. Unread'
  BY <1>1, <1>2, <1>3 DEF IInv, Unread, TypeOK, WatchType, Earlier, PassRows, world, app,
     passes, ghosts, LedgerDrops
<1>8. PassShape'
  BY <1>1, <1>2, <1>3 DEF IInv, PassShape, TypeOK, WatchType, Earlier, PassRows, world, app,
     passes, ghosts, LedgerDrops
<1>9. RailOwner'
  BY <1>1, <1>3, RailFreed
<1>10. DismissedInv'
  BY <1>1, <1>2, <1>3 DEF IInv, DismissedInv, TypeOK, WatchType, GoneRow, At, Earlier, Cur,
     Talks, world, app, passes, ghosts, LedgerDrops
<1>11. RowsOwned'
  BY <1>1, <1>2, <1>3 DEF IInv, RowsOwned, TypeOK, WatchType, Owned, Earlier, Cur, Talks,
     PassRows, world, app, passes, ghosts, LedgerDrops
<1>12. PromiseInv'
  <2>1. by[j] # "none" => j \notin PassRows
    BY DEF IInv, PassShape
  <2>2. PassRows' = PassRows
    BY <1>1 DEF passes, PassRows
  <2> QED
    BY <1>1, <1>2, <1>3, <2>1, <2>2, PromisesKept DEF ghosts, app, IInv, TypeOK, RecordType
<1> QED
  BY <1>1, <1>2, <1>3, <1>4, <1>5, <1>6, <1>7, <1>8, <1>9, <1>10, <1>11, <1>12
     DEF IInv, LedgerDrops, PumpIsNewest

LEMMA WatcherSettles ==
  ASSUME IInv, NEW j \in Jobs, NEW s \in {"failed", "done"}, Records(j, s), Forget({j}),
         ask' = [ask EXCEPT ![j] = "settling"],
         UNCHANGED <<by, stopped, passes, dismissed, unwatched>>,
         by[j] # "none", ask[j] \in {"result", "tracks"}
  PROVE  IInv'
<1>1. /\ UNCHANGED <<world, pump, app, by, stopped, passes, ghosts>>
      /\ ask' = [ask EXCEPT ![j] = "settling"]
      /\ running' = (running /\ by[j] # "att")
      /\ rec' = [rec EXCEPT ![j] = s] /\ \E old \in {rec[j], recDisk[j]} : recDisk' = [recDisk EXCEPT ![j] = old]
  BY RecordsRail DEF unwatched, world, app, ghosts
<1>2. LedgerDrops({j})
  BY ForgetDrops DEF GivesUp, unwatched
<1>3. Attached' = Attached \ {j}
  BY <1>1 DEF Attached, IInv, TypeOK, WatchType
<1>4. TypeOK'
  BY <1>1, <1>2, <1>3 DEF IInv, TypeOK, WorldType, LedgerType, RailType, WatchType, PassType,
     RecordType, world, app, passes, ghosts, LedgerDrops
<1>5. OnlyKnownRuns'
  BY <1>1, <1>2, <1>3 DEF IInv, OnlyKnownRuns, TypeOK, WatchType, RecordType, Known, Earlier,
     world, app, passes, ghosts, LedgerDrops
<1>6. PumpIsNewest'
  BY <1>1, <1>2, <1>3 DEF IInv, PumpIsNewest, TypeOK, WatchType, RecordType, world, app, passes,
     ghosts, LedgerDrops
<1>7. Unread'
  BY <1>1, <1>2, <1>3 DEF IInv, Unread, TypeOK, WatchType, Earlier, PassRows, world, app,
     passes, ghosts, LedgerDrops
<1>8. PassShape'
  BY <1>1, <1>2, <1>3 DEF IInv, PassShape, TypeOK, WatchType, Earlier, PassRows, world, app,
     passes, ghosts, LedgerDrops
<1>9. RailOwner'
  BY <1>1, <1>3, RailFreed
<1>10. DismissedInv'
  BY <1>1, <1>2, <1>3 DEF IInv, DismissedInv, TypeOK, WatchType, GoneRow, At, Earlier, Cur,
     Talks, world, app, passes, ghosts, LedgerDrops
<1>11. RowsOwned'
  BY <1>1, <1>2, <1>3 DEF IInv, RowsOwned, TypeOK, WatchType, Owned, Earlier, Cur, Talks,
     PassRows, world, app, passes, ghosts, LedgerDrops
<1>12. PromiseInv'
  <2>1. by[j] # "none" => j \notin PassRows
    BY DEF IInv, PassShape
  <2>2. PassRows' = PassRows
    BY <1>1 DEF passes, PassRows
  <2> QED
    BY <1>1, <1>2, <1>3, <2>1, <2>2, PromisesKept DEF ghosts, app, IInv, TypeOK, RecordType
<1> QED
  BY <1>1, <1>2, <1>3, <1>4, <1>5, <1>6, <1>7, <1>8, <1>9, <1>10, <1>11, <1>12
     DEF IInv, LedgerDrops, PumpIsNewest

(* The backend of a headless watcher is gone: it lists the account.         *)
LEMMA WatcherLists ==
  ASSUME IInv, NEW j \in Jobs, by[j] = "head", ask[j] = "no", ~backend,
         by' = [by EXCEPT ![j] = "none"], ask' = [ask EXCEPT ![j] = "listing"],
         UNCHANGED <<world, ledger, rail, app, stopped, passes, records, ghosts>>
  PROVE  IInv'
<1>1. /\ UNCHANGED <<world, ledger, rail, app, stopped, passes, records, ghosts>>
      /\ by' = [by EXCEPT ![j] = "none"] /\ ask' = [ask EXCEPT ![j] = "listing"]
  OBVIOUS
<1>2. LedgerDrops({})
  BY KeepsLedger
<1>3. j \notin stopped /\ j \notin PassRows
  BY DEF IInv, PassShape
<1>4. TypeOK'
  BY <1>1, <1>2, <1>3 DEF IInv, TypeOK, WorldType, LedgerType, RailType, WatchType, PassType,
     RecordType, world, app, rail, records, passes, ghosts, LedgerDrops
<1>5. OnlyKnownRuns'
  BY <1>1, <1>2, <1>3 DEF IInv, OnlyKnownRuns, TypeOK, WatchType, RecordType, Known, Earlier,
     world, app, rail, records, passes, ghosts, LedgerDrops
<1>6. PumpIsNewest'
  BY <1>1, <1>2, <1>3 DEF IInv, PumpIsNewest, TypeOK, WatchType, RecordType, world, app, rail,
     records, passes, ghosts, LedgerDrops
<1>7. Unread'
  BY <1>1, <1>2, <1>3 DEF IInv, Unread, TypeOK, WatchType, Earlier, PassRows, world, app, rail,
     records, passes, ghosts, LedgerDrops
<1>8. PassShape'
  BY <1>1, <1>2, <1>3 DEF IInv, PassShape, TypeOK, WatchType, Earlier, PassRows, world, app,
     rail, records, passes, ghosts, LedgerDrops
<1>9. RailOwner'
  <2>1. Attached' = Attached
    BY <1>1 DEF Attached, IInv, TypeOK, WatchType
  <2> QED
    BY <1>1, <2>1 DEF IInv, RailOwner, rail
<1>10. DismissedInv'
  <2>1. \A i : (GoneRow(i)' <=> GoneRow(i)) /\ (At(i)' <=> At(i))
    BY <1>1 DEF GoneRow, At, Cur, ledger, world, passes
  <2>2. /\ stopped' \subseteq dismissed' /\ dismissed' = dismissed /\ Earlier' = Earlier
        /\ stopped' = stopped
    BY <1>1 DEF IInv, DismissedInv, ghosts, app, Earlier
  <2>3. ASSUME NEW i \in dismissed
        PROVE  /\ by'[i] = "none" \/ ask'[i] = "settling"
               /\ i \in Earlier => i \in stopped \/ GoneRow(i)
    BY <1>1 DEF IInv, DismissedInv, TypeOK, WatchType, RecordType
  <2>4. ASSUME NEW i \in Jobs, ask'[i] = "listing"
        PROVE  /\ ~backend' /\ by'[i] = "none" /\ i \notin pass'.running /\ ~At(i)
               /\ i \in pass'.todo => ~pass'.backend
    BY <1>1, <1>3, <2>4 DEF IInv, DismissedInv, TypeOK, WatchType, world, passes, PassRows, At
  <2> QED
    BY <2>1, <2>2, <2>3, <2>4 DEF DismissedInv
<1>11. RowsOwned'
  BY <1>1, <1>2, <1>3 DEF IInv, RowsOwned, TypeOK, WatchType, Owned, Earlier, Cur, Talks,
     PassRows, world, app, rail, records, passes, ghosts, LedgerDrops
<1>12. PromiseInv'
  <2>1. Attached' = Attached /\ PassRows' = PassRows
    BY <1>1 DEF Attached, IInv, TypeOK, WatchType, PassRows, passes
  <2> QED
    BY <1>1, <1>2, <2>1, PromisesKept DEF ghosts, app, records
<1> QED
  BY <1>1, <1>2, <1>4, <1>5, <1>6, <1>7, <1>8, <1>9, <1>10, <1>11, <1>12
     DEF IInv, LedgerDrops, rail

LEMMA WatcherStops ==
  ASSUME IInv, NEW j \in Jobs, WatchStops(j)
  PROVE  IInv'
<1>1. /\ UNCHANGED <<world, ledger, rail, app, stopped, passes, records, ghosts>>
      /\ by' = [by EXCEPT ![j] = "none"] /\ ask' = [ask EXCEPT ![j] = "no"]
      /\ ask[j] = "settling"
  BY DEF WatchStops, RecordsNothing, unwatched, world, ledger, rail, app, records, ghosts
<1>2. LedgerDrops({})
  BY <1>1, KeepsLedger
<1>3. TypeOK'
  BY <1>1, <1>2 DEF IInv, TypeOK, WorldType, LedgerType, RailType, WatchType, PassType,
     RecordType, world, app, rail, records, passes, ghosts, LedgerDrops
<1>4. OnlyKnownRuns'
  BY <1>1, <1>2 DEF IInv, OnlyKnownRuns, TypeOK, WatchType, RecordType, Known, Earlier, world,
     app, rail, records, passes, ghosts, LedgerDrops
<1>5. PumpIsNewest'
  BY <1>1, <1>2 DEF IInv, PumpIsNewest, TypeOK, WatchType, RecordType, world, app, rail,
     records, passes, ghosts, LedgerDrops
<1>6. Unread'
  BY <1>1, <1>2 DEF IInv, Unread, TypeOK, WatchType, Earlier, PassRows, world, app, rail,
     records, passes, ghosts, LedgerDrops
<1>7. PassShape'
  BY <1>1, <1>2 DEF IInv, PassShape, TypeOK, WatchType, Earlier, PassRows, world, app, rail,
     records, passes, ghosts, LedgerDrops
<1>8. RailOwner'
  <2>1. Attached' = Attached
    BY <1>1 DEF Attached, IInv, TypeOK, WatchType
  <2> QED
    BY <1>1, <2>1 DEF IInv, RailOwner, rail
<1>9. DismissedInv'
  BY <1>1, <1>2 DEF IInv, DismissedInv, TypeOK, WatchType, GoneRow, At, Earlier, Cur, Talks,
     world, app, rail, records, passes, ghosts, LedgerDrops
<1>10. RowsOwned'
  BY <1>1, <1>2 DEF IInv, RowsOwned, TypeOK, WatchType, Owned, Earlier, Cur, Talks, PassRows,
     world, app, rail, records, passes, ghosts, LedgerDrops
<1>11. PromiseInv'
  <2>1. Attached' = Attached /\ PassRows' = PassRows
    BY <1>1 DEF Attached, IInv, TypeOK, WatchType, PassRows, passes
  <2> QED
    BY <1>1, <1>2, <2>1, PromisesKept DEF ghosts, app, records
<1> QED
  BY <1>1, <1>2, <1>3, <1>4, <1>5, <1>6, <1>7, <1>8, <1>9, <1>10, <1>11
     DEF IInv, LedgerDrops, rail

LEMMA RetryScheduled ==
  ASSUME IInv, ScheduleRetry \/ UNCHANGED <<timer, retries>>
  PROVE  /\ timer' \in BOOLEAN /\ retries' \in 0 .. MaxRetries
         /\ timer => timer'
         /\ retries = MaxRetries => retries' = MaxRetries
         /\ ScheduleRetry => timer' \/ retries' = MaxRetries
<1>1. timer \in BOOLEAN /\ retries \in 0 .. MaxRetries /\ MaxRetries \in Nat
  BY JobsAssumption DEF IInv, TypeOK, PassType
<1>2. timer' \in BOOLEAN /\ (timer => timer')
  BY <1>1 DEF ScheduleRetry
<1>3. retries' \in 0 .. MaxRetries /\ (retries = MaxRetries => retries' = MaxRetries)
  BY <1>1 DEF ScheduleRetry
<1>4. ScheduleRetry => timer' \/ retries' = MaxRetries
  BY <1>1 DEF ScheduleRetry
<1> QED
  BY <1>2, <1>3, <1>4

LEMMA ListingUnknown ==
  ASSUME IInv, NEW j \in Jobs, ask[j] = "listing", ask' = [ask EXCEPT ![j] = "no"],
         UNCHANGED <<world, ledger, rail, app, by, stopped, pass, rerun, records, ghosts>>,
         \/ j \in stopped /\ UNCHANGED <<timer, retries>>
         \/ ScheduleRetry
  PROVE  IInv'
<1>1. /\ UNCHANGED <<world, ledger, rail, app, by, stopped, pass, rerun, records, ghosts>>
      /\ ask' = [ask EXCEPT ![j] = "no"] /\ ask[j] = "listing"
      /\ timer' \in BOOLEAN /\ (timer => timer')
      /\ retries' \in 0 .. MaxRetries /\ (retries = MaxRetries => retries' = MaxRetries)
      /\ j \in stopped \/ timer' \/ retries' = MaxRetries
  BY RetryScheduled
<1>2. LedgerDrops({})
  BY <1>1, KeepsLedger
<1>3. TypeOK'
  BY <1>1, <1>2 DEF IInv, TypeOK, WorldType, LedgerType, RailType, WatchType, PassType,
     RecordType, world, app, rail, records, ghosts, LedgerDrops
<1>4. OnlyKnownRuns'
  BY <1>1, <1>2 DEF IInv, OnlyKnownRuns, TypeOK, WatchType, RecordType, Known, Earlier, world,
     app, rail, records, ghosts, LedgerDrops
<1>5. PumpIsNewest'
  BY <1>1, <1>2 DEF IInv, PumpIsNewest, TypeOK, WatchType, RecordType, world, app, rail,
     records, ghosts, LedgerDrops
<1>6. Unread'
  BY <1>1, <1>2 DEF IInv, Unread, TypeOK, WatchType, Earlier, PassRows, world, app, rail,
     records, ghosts, LedgerDrops
<1>7. PassShape'
  BY <1>1, <1>2 DEF IInv, PassShape, TypeOK, WatchType, Earlier, PassRows, world, app, rail,
     records, ghosts, LedgerDrops
<1>8. RailOwner'
  <2>1. Attached' = Attached
    BY <1>1 DEF Attached, IInv, TypeOK, WatchType
  <2> QED
    BY <1>1, <2>1 DEF IInv, RailOwner, rail
<1>9. DismissedInv'
  BY <1>1, <1>2 DEF IInv, DismissedInv, TypeOK, WatchType, GoneRow, At, Earlier, Cur, Talks,
     world, app, rail, records, ghosts, LedgerDrops
<1>10. RowsOwned'
  BY <1>1, <1>2 DEF IInv, RowsOwned, TypeOK, WatchType, Owned, Earlier, Cur, Talks, PassRows,
     world, app, rail, records, ghosts, LedgerDrops
<1>11. PromiseInv'
  <2>1. Attached' = Attached /\ PassRows' = PassRows
    BY <1>1 DEF Attached, IInv, TypeOK, WatchType, PassRows
  <2> QED
    BY <1>1, <1>2, <2>1, PromisesKept DEF ghosts, app, records
<1> QED
  BY <1>1, <1>2, <1>3, <1>4, <1>5, <1>6, <1>7, <1>8, <1>9, <1>10, <1>11
     DEF IInv, LedgerDrops, rail

LEMMA PumpShape ==
  ASSUME IInv
  PROVE  /\ pump.pc \in {"idle", "persist", "post"}
         /\ pump.pc = "idle" => pump = Idle /\ pump.job = 0 /\ pump.live = FALSE
         /\ pump.pc # "idle" => /\ pump.job \in Jobs /\ pump.live \in BOOLEAN
                               /\ pump.job \notin Earlier
                               /\ pump.job = next - 1
<1>1. pump \in {Idle} \cup [pc : {"persist", "post"}, job : Jobs, live : BOOLEAN]
  BY DEF IInv, TypeOK, RailType, PumpStates
<1>2. CASE pump = Idle
  BY <1>2 DEF Idle
<1>3. CASE pump \in [pc : {"persist", "post"}, job : Jobs, live : BOOLEAN]
  <2>1. pump.pc \in {"persist", "post"} /\ pump.job \in Jobs /\ pump.live \in BOOLEAN
    BY <1>3
  <2>2. pump.pc # "idle"
    BY <2>1
  <2>3. base <= pump.job /\ pump.job = next - 1 /\ base \in Nat /\ pump.job \in Nat
    BY <2>1, <2>2, JobsAreNumbers, JobsAssumption DEF IInv, PumpIsNewest, TypeOK, WorldType
  <2>4. pump.job \notin Earlier
    BY <2>3 DEF Earlier
  <2> QED
    BY <2>1, <2>2, <2>3, <2>4
<1> QED
  BY <1>1, <1>2, <1>3

LEMMA ListingForgets ==
  ASSUME IInv, NEW j \in Jobs, by[j] = "none", j < next, ListingKnown(j), UNCHANGED unwatched
  PROVE  /\ LedgerDrops({j})
         /\ j \notin stopped /\ dismissed' = dismissed \cup {j}
         /\ UNCHANGED <<running, rec>>
         /\ \/ UNCHANGED recDisk
            \/ recDisk' = [recDisk EXCEPT ![j] = "failed"]
<1>1. LedgerDrops({j})
  BY ForgetDrops DEF ListingKnown, unwatched
<1>2. CASE rec[j] = "failed"
  <2>1. Records(j, "failed")
    BY <1>2 DEF ListingKnown
  <2>2. running' = running
    BY <2>1, RecordsRail DEF IInv, TypeOK, RailType
  <2>3. /\ rec' = rec
        /\ recDisk' = recDisk \/ recDisk' = [recDisk EXCEPT ![j] = "failed"]
    <3>1. rec' = [rec EXCEPT ![j] = "failed"]
      BY <2>1, RecordsRail
    <3>2. PICK old \in {rec[j], recDisk[j]} : recDisk' = [recDisk EXCEPT ![j] = old]
      BY <2>1, RecordsRail
    <3>3. old = recDisk[j] => [recDisk EXCEPT ![j] = old] = recDisk
      BY DEF IInv, TypeOK, RecordType
    <3>4. [rec EXCEPT ![j] = "failed"] = rec
      BY <1>2 DEF IInv, TypeOK, RecordType
    <3> QED
      BY <1>2, <3>1, <3>2, <3>3, <3>4
  <2> QED
    BY <1>1, <2>2, <2>3 DEF ListingKnown, Stopped
<1>3. CASE rec[j] # "failed"
  BY <1>1, <1>3 DEF ListingKnown, Stopped, RecordsNothing, records
<1> QED
  BY <1>2, <1>3

LEMMA ListingEnds ==
  ASSUME IInv, NEW j \in Jobs, ask[j] = "listing", ListingKnown(j),
         ask' = [ask EXCEPT ![j] = "no"],
         UNCHANGED <<by, stopped, passes, unwatched>>
  PROVE  IInv'
<1>0. by[j] = "none" /\ j \in Earlier /\ read = "yes" /\ j < next /\ j # pump.job
  <2>1. by[j] = "none" /\ j \in Earlier
    BY DEF IInv, DismissedInv, OnlyKnownRuns
  <2>2. read = "yes"
    BY <2>1 DEF IInv, Unread
  <2>3. j \in 1 .. base - 1 /\ base <= next /\ next \in Nat /\ base \in Nat
    BY <2>1, JobsAssumption DEF IInv, OnlyKnownRuns, Earlier, TypeOK, WorldType
  <2>4. j < next
    BY <2>3
  <2>5. j # pump.job
    BY <2>1, JobsAreNumbers, PumpShape
  <2> QED
    BY <2>1, <2>2, <2>4, <2>5
<1>1. /\ UNCHANGED <<next, path, backend, running, pump, launch, base, by, stopped>>
      /\ UNCHANGED <<pass, rerun, timer, retries, rec, promised, taken>>
      /\ ask' = [ask EXCEPT ![j] = "no"]
      /\ j \notin stopped /\ dismissed' = dismissed \cup {j}
      /\ \/ UNCHANGED recDisk
         \/ recDisk' = [recDisk EXCEPT ![j] = "failed"]
  BY <1>0, ListingForgets DEF unwatched, passes, app
<1>2. LedgerDrops({j})
  BY <1>0, ListingForgets
<1>3. TypeOK'
  BY <1>0, <1>1, <1>2 DEF IInv, TypeOK, WorldType, LedgerType, RailType, WatchType, PassType,
     RecordType, LedgerDrops
<1>4. OnlyKnownRuns'
  BY <1>0, <1>1, <1>2 DEF IInv, OnlyKnownRuns, TypeOK, WatchType, RecordType, Known, Earlier,
     LedgerDrops
<1>5. PumpIsNewest'
  BY <1>0, <1>1, <1>2 DEF IInv, PumpIsNewest, TypeOK, WatchType, RecordType, LedgerDrops
<1>6. Unread'
  BY <1>0, <1>1, <1>2 DEF IInv, Unread, TypeOK, WatchType, Earlier, PassRows, LedgerDrops
<1>7. PassShape'
  BY <1>0, <1>1, <1>2 DEF IInv, PassShape, TypeOK, WatchType, Earlier, PassRows, LedgerDrops
<1>8. RailOwner'
  <2>1. Attached' = Attached
    BY <1>1 DEF Attached, IInv, TypeOK, WatchType
  <2> QED
    BY <1>1, <2>1 DEF IInv, RailOwner
<1>9. DismissedInv'
  BY <1>0, <1>1, <1>2 DEF IInv, DismissedInv, TypeOK, WatchType, GoneRow, At, Earlier, Cur,
     Talks, LedgerDrops
<1>10. RowsOwned'
  BY <1>0, <1>1, <1>2 DEF IInv, RowsOwned, TypeOK, WatchType, Owned, Earlier, Cur, Talks,
     PassRows, LedgerDrops
<1>11. PromiseInv'
  <2>1. Attached' = Attached /\ PassRows' = PassRows
    BY <1>1 DEF Attached, IInv, TypeOK, WatchType, PassRows
  <2>2. \A i \in (promised \ Taken) \ dismissed' : i # j
    BY <1>1
  <2> QED
    BY <1>1, <1>2, <2>1, <2>2, PromisesKept DEF app
<1> QED
  BY <1>0, <1>1, <1>2, <1>3, <1>4, <1>5, <1>6, <1>7, <1>8, <1>9, <1>10, <1>11
     DEF IInv, LedgerDrops, PumpIsNewest

LEMMA WatcherStep ==
  ASSUME IInv, NEW j \in Jobs, Watcher(j)
  PROVE  IInv'
<1>1. CASE Tick(j)
  <2>1. CASE backend /\ Waits(j, "status")
    BY <1>1, <2>1, WatcherWaits DEF Tick, Talks
  <2>2. CASE by[j] # "head" /\ GivesUp(j)
    BY <1>1, <2>2, WatcherGivesUp DEF Tick
  <2>3. CASE /\ ~backend /\ by[j] = "head"
             /\ by' = [by EXCEPT ![j] = "none"] /\ ask' = [ask EXCEPT ![j] = "listing"]
             /\ RecordsNothing /\ UNCHANGED <<rows, read, owed, io, dismissed>>
    <3>1. UNCHANGED <<world, ledger, rail, app, stopped, passes, records, ghosts>>
      BY <1>1, <2>3 DEF Tick, RecordsNothing, unwatched, world, ledger, rail, app, records, ghosts
    <3> QED
      BY <1>1, <2>3, <3>1, WatcherLists DEF Tick
  <2> QED
    BY <1>1, <2>1, <2>2, <2>3 DEF Tick
<1>2. CASE AgesOut(j)
  BY <1>2, WatcherGivesUp DEF AgesOut
<1>3. CASE LateAnswer(j)
  BY <1>3, WatcherWaits DEF LateAnswer
<1>4. CASE StatusSays(j)
  BY <1>4, WatcherWaits, WatcherGivesUp DEF StatusSays, Talks
<1>5. CASE ResultSays(j)
  BY <1>5, WatcherWaits, WatcherSettles DEF ResultSays, Talks
<1>6. CASE Lands(j)
  BY <1>6, WatcherSettles DEF Lands
<1>7. CASE WatchStops(j)
  BY <1>7, WatcherStops
<1>8. CASE ListingSays(j)
  <2>1. CASE ListingKnown(j) /\ UNCHANGED <<timer, retries>>
    BY <1>8, <2>1, ListingEnds DEF ListingSays, passes
  <2>2. CASE /\ \/ Stopped(j) /\ UNCHANGED <<timer, retries>>
                \/ ScheduleRetry
             /\ RecordsNothing /\ UNCHANGED <<rows, read, owed, io, dismissed>>
    <3>1. UNCHANGED <<world, ledger, rail, app, by, stopped, pass, rerun, records, ghosts>>
      BY <1>8, <2>2 DEF ListingSays, RecordsNothing, unwatched, world, ledger, rail, app, records, ghosts
    <3> QED
      BY <1>8, <2>2, <3>1, ListingUnknown DEF ListingSays, Stopped
  <2> QED
    BY <1>8, <2>1, <2>2 DEF ListingSays
<1> QED
  BY <1>1, <1>2, <1>3, <1>4, <1>5, <1>6, <1>7, <1>8 DEF Watcher

-----------------------------------------------------------------------------
(* The reconcile pass.                                                      *)

LEMMA CurIsTaken ==
  ASSUME IInv, pass.todo # {}
  PROVE  /\ Cur \in pass.todo /\ Cur \in PassRows /\ Cur \notin pass.running
         /\ Cur \in Jobs /\ Cur \in Earlier /\ Cur < next /\ Cur # pump.job
         /\ by[Cur] = "none" /\ read = "yes"
<1>1. pass.todo \in SUBSET Jobs
  BY DEF IInv, TypeOK, PassType, PassStates
<1>2. Cur \in pass.todo /\ Cur \in PassRows
  BY <1>1, MinIsMember DEF Cur, PassRows
<1>3. Cur \in Jobs /\ Cur \in Earlier /\ by[Cur] = "none" /\ Cur \notin pass.running
  BY <1>1, <1>2 DEF IInv, PassShape
<1>4. read = "yes"
  BY <1>2 DEF IInv, Unread
<1>5. Cur # pump.job
  BY <1>3, PumpShape, JobsAreNumbers
<1>6. Cur \in 1 .. base - 1 /\ base <= next /\ next \in Nat /\ base \in Nat
  BY <1>3, JobsAssumption DEF IInv, OnlyKnownRuns, Earlier, TypeOK, WorldType
<1> QED
  BY <1>2, <1>3, <1>4, <1>5, <1>6

(* The pass is done with its row: it stays for a retry, or is forgotten.     *)
LEMMA PassHandles ==
  ASSUME IInv, NEW retry \in BOOLEAN, NEW S \in SUBSET {Cur}, Handled(retry), LedgerDrops(S),
         pass.pc \in {"next", "listing"} \cup Talks, pass.todo # {},
         UNCHANGED <<world, rail, app, watches, rerun, timer, retries, records, ghosts>>,
         \/ retry /\ S = {}
         \/ Cur \in stopped /\ (S = {Cur} \/ pass.pc # "next")
  PROVE  IInv'
<1>1. /\ UNCHANGED <<world, rail, app, watches, rerun, timer, retries, records, ghosts>>
      /\ pass' = [pass EXCEPT !.pc = "next", !.todo = pass.todo \ {Cur},
                             !.retry = pass.retry \/ retry]
      /\ \/ retry /\ S = {}
         \/ Cur \in stopped /\ (S = {Cur} \/ pass.pc # "next")
      /\ pass \in PassStates
  BY DEF Handled, IInv, TypeOK, PassType
<1>2. LedgerDrops(S)
  OBVIOUS
<1>3. /\ Cur \in pass.todo /\ Cur \in PassRows /\ Cur \notin pass.running
      /\ Cur \in Jobs /\ Cur \in Earlier /\ Cur # pump.job
      /\ by[Cur] = "none" /\ read = "yes" /\ read' = "yes"
  BY <1>2, CurIsTaken DEF LedgerDrops
<1>4. /\ pass' \in PassStates /\ pass'.pc = "next" /\ pass'.todo = pass.todo \ {Cur}
      /\ pass'.running = pass.running /\ (pass.retry \/ retry => pass'.retry)
  BY <1>1 DEF PassStates
<1>5. TypeOK'
  BY <1>1, <1>2, <1>3, <1>4 DEF IInv, TypeOK, WorldType, LedgerType, RailType, WatchType,
     PassType, RecordType, world, app, rail, records, watches, ghosts, LedgerDrops
<1>6. OnlyKnownRuns'
  BY <1>1, <1>2, <1>3, <1>4 DEF IInv, OnlyKnownRuns, TypeOK, WatchType, RecordType, Known,
     Earlier, world, app, rail, records, watches, ghosts, LedgerDrops
<1>7. PumpIsNewest'
  BY <1>1, <1>2, <1>3, <1>4 DEF IInv, PumpIsNewest, TypeOK, WatchType, RecordType, world, app,
     rail, records, watches, ghosts, LedgerDrops
<1>8. Unread'
  BY <1>1, <1>2, <1>3, <1>4 DEF IInv, Unread, TypeOK, WatchType, Earlier, PassRows, world, app,
     rail, records, watches, ghosts, LedgerDrops
<1>9. PassShape'
  <2>1. PassRows' \subseteq PassRows /\ pass'.todo \cap pass'.running = {}
    BY <1>4 DEF PassRows, IInv, PassShape
  <2>2. pass'.pc \notin {"idle", "load", "collect"} /\ pass'.pc \notin Talks \cup {"listing"}
    BY <1>4 DEF Talks
  <2> QED
    BY <1>1, <2>1, <2>2 DEF IInv, PassShape, watches, app, Earlier
<1>10. RailOwner'
  <2>1. Attached' = Attached
    BY <1>1 DEF Attached, watches
  <2> QED
    BY <1>1, <2>1 DEF IInv, RailOwner, rail
<1>11. DismissedInv'
  BY <1>1, <1>2, <1>3, <1>4 DEF IInv, DismissedInv, TypeOK, WatchType, GoneRow, At, Earlier,
     Cur, Talks, world, app, rail, records, watches, ghosts, LedgerDrops
<1>12. RowsOwned'
  BY <1>1, <1>2, <1>3, <1>4 DEF IInv, RowsOwned, TypeOK, WatchType, Owned, Earlier, Cur, Talks,
     PassRows, world, app, rail, records, watches, ghosts, LedgerDrops
<1>13. PromiseInv'
  <2>1. Attached' = Attached
    BY <1>1 DEF Attached, watches
  <2>2. stopped' = stopped /\ stopped \subseteq dismissed /\ dismissed' = dismissed
    BY <1>1 DEF IInv, DismissedInv, watches, ghosts
  <2> QED
    BY <1>1, <1>2, <1>3, <1>4, <2>1, <2>2, PromisesKept DEF ghosts, app, records, PassRows
<1> QED
  BY <1>1, <1>2, <1>3, <1>4, <1>5, <1>6, <1>7, <1>8, <1>9, <1>10, <1>11, <1>12, <1>13
     DEF IInv, LedgerDrops, rail

(* It asks about the row, or has an answer to go on with.                    *)
LEMMA PassMoves ==
  ASSUME IInv, NEW x \in {"listing"} \cup Talks, pass' = [pass EXCEPT !.pc = x],
         pass.pc \in {"next"} \cup Talks, pass.todo # {}, Cur \notin stopped,
         x \in Talks => pass.backend \/ pass.pc \in Talks,
         UNCHANGED <<world, ledger, rail, app, watches, rerun, timer, retries, records, ghosts>>
  PROVE  IInv'
<1>1. /\ UNCHANGED <<world, ledger, rail, app, watches, rerun, timer, retries, records, ghosts>>
      /\ Cur \notin stopped /\ (x \in Talks => pass.backend \/ pass.pc \in Talks)
      /\ pass.pc \in {"next"} \cup Talks /\ pass \in PassStates
  BY DEF IInv, TypeOK, PassType
<1>2. LedgerDrops({})
  BY KeepsLedger
<1>3. /\ Cur \in pass.todo /\ Cur \in PassRows /\ Cur \notin pass.running
      /\ Cur \in Jobs /\ Cur \in Earlier /\ Cur # pump.job
      /\ by[Cur] = "none" /\ read = "yes" /\ read' = "yes"
  BY <1>2, CurIsTaken DEF LedgerDrops
<1>4. /\ pass' \in PassStates /\ pass'.pc = x /\ pass'.todo = pass.todo
      /\ pass'.running = pass.running /\ pass'.retry = pass.retry /\ Cur' = Cur
      /\ pass'.backend = pass.backend
  BY <1>1 DEF PassStates, Cur, Talks
<1>5. TypeOK'
  BY <1>1, <1>2, <1>3, <1>4 DEF IInv, TypeOK, WorldType, LedgerType, RailType, WatchType,
     PassType, RecordType, world, app, rail, records, watches, ghosts, LedgerDrops
<1>6. OnlyKnownRuns'
  BY <1>1, <1>2, <1>3, <1>4 DEF IInv, OnlyKnownRuns, TypeOK, WatchType, RecordType, Known,
     Earlier, world, app, rail, records, watches, ghosts, LedgerDrops
<1>7. PumpIsNewest'
  BY <1>1, <1>2, <1>3, <1>4 DEF IInv, PumpIsNewest, TypeOK, WatchType, RecordType, world, app,
     rail, records, watches, ghosts, LedgerDrops
<1>8. Unread'
  BY <1>1, <1>2, <1>3, <1>4 DEF IInv, Unread, TypeOK, WatchType, Earlier, PassRows, world, app,
     rail, records, watches, ghosts, LedgerDrops
<1>9. PassShape'
  <2>1. PassRows' \subseteq PassRows /\ pass'.todo \cap pass'.running = {}
    BY <1>3, <1>4 DEF PassRows, IInv, PassShape
  <2>2. pass'.pc \notin {"idle", "load", "collect"} /\ pass'.todo # {}
    BY <1>1, <1>3, <1>4 DEF Talks
  <2> QED
    BY <1>1, <2>1, <2>2 DEF IInv, PassShape, watches, app, Earlier
<1>10. RailOwner'
  <2>1. Attached' = Attached
    BY <1>1 DEF Attached, watches
  <2> QED
    BY <1>1, <2>1 DEF IInv, RailOwner, rail
<1>11. DismissedInv'
  BY <1>1, <1>2, <1>3, <1>4 DEF IInv, DismissedInv, TypeOK, WatchType, GoneRow, At, Earlier,
     Cur, Talks, world, app, rail, records, watches, ghosts, LedgerDrops
<1>12. RowsOwned'
  BY <1>1, <1>2, <1>3, <1>4 DEF IInv, RowsOwned, TypeOK, WatchType, Owned, Earlier, Cur, Talks,
     PassRows, world, app, rail, records, watches, ghosts, LedgerDrops
<1>13. PromiseInv'
  <2>1. Attached' = Attached /\ PassRows' \ stopped' = PassRows \ stopped
    BY <1>1, <1>3, <1>4 DEF Attached, PassRows, watches
  <2> QED
    BY <1>1, <1>2, <2>1, PromisesKept DEF ghosts, app, records
<1> QED
  BY <1>1, <1>2, <1>3, <1>4, <1>5, <1>6, <1>7, <1>8, <1>9, <1>10, <1>11, <1>12, <1>13
     DEF IInv, LedgerDrops, rail

(* The server still works on it.                                            *)
LEMMA PassFindsRunning ==
  ASSUME IInv, pass' = [pass EXCEPT !.pc = "next", !.todo = pass.todo \ {Cur},
                                   !.running = pass.running \cup {Cur}],
         pass.pc \in Talks, pass.todo # {}, Cur \notin stopped,
         UNCHANGED <<world, ledger, rail, app, watches, rerun, timer, retries, records, ghosts>>
  PROVE  IInv'
<1>1. /\ UNCHANGED <<world, ledger, rail, app, watches, rerun, timer, retries, records, ghosts>>
      /\ Cur \notin stopped /\ pass.pc \in Talks /\ pass \in PassStates
  BY DEF IInv, TypeOK, PassType
<1>2. LedgerDrops({})
  BY KeepsLedger
<1>3. /\ Cur \in pass.todo /\ Cur \in PassRows /\ Cur \notin pass.running
      /\ Cur \in Jobs /\ Cur \in Earlier /\ Cur # pump.job
      /\ by[Cur] = "none" /\ read = "yes" /\ read' = "yes" /\ At(Cur)
  BY <1>1, <1>2, CurIsTaken DEF LedgerDrops, At
<1>4. /\ pass' \in PassStates /\ pass'.pc = "next" /\ pass'.todo = pass.todo \ {Cur}
      /\ pass'.running = pass.running \cup {Cur} /\ pass'.retry = pass.retry
  BY <1>1, <1>3 DEF PassStates
<1>5. TypeOK'
  BY <1>1, <1>2, <1>3, <1>4 DEF IInv, TypeOK, WorldType, LedgerType, RailType, WatchType,
     PassType, RecordType, world, app, rail, records, watches, ghosts, LedgerDrops
<1>6. OnlyKnownRuns'
  BY <1>1, <1>2, <1>3, <1>4 DEF IInv, OnlyKnownRuns, TypeOK, WatchType, RecordType, Known,
     Earlier, world, app, rail, records, watches, ghosts, LedgerDrops
<1>7. PumpIsNewest'
  BY <1>1, <1>2, <1>3, <1>4 DEF IInv, PumpIsNewest, TypeOK, WatchType, RecordType, world, app,
     rail, records, watches, ghosts, LedgerDrops
<1>8. Unread'
  BY <1>1, <1>2, <1>3, <1>4 DEF IInv, Unread, TypeOK, WatchType, Earlier, PassRows, world, app,
     rail, records, watches, ghosts, LedgerDrops
<1>9. PassShape'
  <2>1. PassRows' \subseteq PassRows /\ pass'.todo \cap pass'.running = {}
    BY <1>3, <1>4 DEF PassRows, IInv, PassShape
  <2>2. pass'.pc \notin {"idle", "load", "collect"} /\ pass'.pc \notin Talks \cup {"listing"}
    BY <1>1, <1>3, <1>4 DEF Talks
  <2> QED
    BY <1>1, <2>1, <2>2 DEF IInv, PassShape, watches, app, Earlier
<1>10. RailOwner'
  <2>1. Attached' = Attached
    BY <1>1 DEF Attached, watches
  <2> QED
    BY <1>1, <2>1 DEF IInv, RailOwner, rail
<1>11. DismissedInv'
  BY <1>1, <1>2, <1>3, <1>4 DEF IInv, DismissedInv, TypeOK, WatchType, GoneRow, At, Earlier,
     Cur, Talks, world, app, rail, records, watches, ghosts, LedgerDrops
<1>12. RowsOwned'
  BY <1>1, <1>2, <1>3, <1>4 DEF IInv, RowsOwned, TypeOK, WatchType, Owned, Earlier, Cur, Talks,
     PassRows, world, app, rail, records, watches, ghosts, LedgerDrops
<1>13. PromiseInv'
  <2>1. Attached' = Attached /\ PassRows' \ stopped' = PassRows \ stopped
    BY <1>1, <1>3, <1>4 DEF Attached, PassRows, watches
  <2> QED
    BY <1>1, <1>2, <2>1, PromisesKept DEF ghosts, app, records
<1> QED
  BY <1>1, <1>2, <1>3, <1>4, <1>5, <1>6, <1>7, <1>8, <1>9, <1>10, <1>11, <1>12, <1>13
     DEF IInv, LedgerDrops, rail

(* A result or a failure is recorded under its id.                           *)
LEMMA PassRecords ==
  ASSUME IInv, NEW s \in {"failed", "done"}, PassSettles(s), pass.todo # {},
         UNCHANGED <<stopped, by, ask, rerun, timer, retries, dismissed, unwatched>>
  PROVE  IInv'
<1>1. /\ UNCHANGED <<next, path, backend, running, pump, launch, base, by, ask, stopped>>
      /\ UNCHANGED <<rerun, timer, retries, promised, dismissed, taken>>
      /\ rec' = [rec EXCEPT ![Cur] = s] /\ \E old \in {rec[Cur], recDisk[Cur]} : recDisk' = [recDisk EXCEPT ![Cur] = old]
      /\ pass' = [pass EXCEPT !.pc = "next", !.todo = pass.todo \ {Cur},
                             !.retry = pass.retry \/ FALSE]
      /\ pass \in PassStates
  <2>1. Cur \in Jobs /\ by[Cur] = "none"
    BY CurIsTaken
  <2>2. running' = running
    BY <2>1, RecordsRail DEF PassSettles, IInv, TypeOK, RailType
  <2>3. rec' = [rec EXCEPT ![Cur] = s] /\ \E old \in {rec[Cur], recDisk[Cur]} : recDisk' = [recDisk EXCEPT ![Cur] = old]
    BY <2>1, RecordsRail DEF PassSettles
  <2>4. pass \in PassStates
    BY DEF IInv, TypeOK, PassType
  <2> QED
    BY <2>2, <2>3, <2>4 DEF PassSettles, Handled, unwatched, app
<1>2. LedgerDrops({Cur})
  BY ForgetDrops DEF PassSettles, unwatched
<1>3. /\ Cur \in pass.todo /\ Cur \in PassRows /\ Cur \notin pass.running
      /\ Cur \in Jobs /\ Cur \in Earlier /\ Cur # pump.job
      /\ by[Cur] = "none" /\ read = "yes" /\ read' = "yes"
  BY <1>2, CurIsTaken DEF LedgerDrops
<1>4. /\ pass' \in PassStates /\ pass'.pc = "next" /\ pass'.todo = pass.todo \ {Cur}
      /\ pass'.running = pass.running /\ pass'.retry = pass.retry
  BY <1>1, <1>3 DEF PassStates
<1>5. TypeOK'
  BY <1>1, <1>2, <1>3, <1>4 DEF IInv, TypeOK, WorldType, LedgerType, RailType, WatchType,
     PassType, RecordType, LedgerDrops
<1>6. OnlyKnownRuns'
  <2>1. Cur \in Known
    BY <1>3, CurIsTaken, JobsAreNumbers, JobsAssumption DEF Known, IInv, TypeOK, WorldType
  <2>2. Known' = Known /\ Earlier' = Earlier /\ dismissed' \subseteq dismissed \cup {Cur}
    BY <1>1 DEF Known, Earlier
  <2> QED
    BY <1>1, <1>2, <2>1, <2>2 DEF IInv, OnlyKnownRuns, TypeOK, RecordType, LedgerDrops
<1>7. PumpIsNewest'
  BY <1>1, <1>2, <1>3, <1>4 DEF IInv, PumpIsNewest, TypeOK, WatchType, RecordType, LedgerDrops
<1>8. Unread'
  BY <1>1, <1>2, <1>3, <1>4 DEF IInv, Unread, TypeOK, WatchType, Earlier, PassRows, LedgerDrops
<1>9. PassShape'
  <2>1. PassRows' \subseteq PassRows /\ pass'.todo \cap pass'.running = {}
    BY <1>3, <1>4 DEF PassRows, IInv, PassShape
  <2>2. pass'.pc \notin {"idle", "load", "collect"} /\ pass'.pc \notin Talks \cup {"listing"}
    BY <1>1, <1>3, <1>4 DEF Talks
  <2> QED
    BY <1>1, <2>1, <2>2 DEF IInv, PassShape, Earlier
<1>10. RailOwner'
  <2>1. Attached' = Attached
    BY <1>1 DEF Attached
  <2> QED
    BY <1>1, <2>1 DEF IInv, RailOwner
<1>11. DismissedInv'
  BY <1>1, <1>2, <1>3, <1>4 DEF IInv, DismissedInv, TypeOK, WatchType, GoneRow, At, Earlier,
     Cur, Talks, LedgerDrops
<1>12. RowsOwned'
  <2>1. rows' \cap Earlier' \subseteq (rows \cap Earlier) \ {Cur}
    BY <1>1, <1>2 DEF LedgerDrops, Earlier
  <2>2. PassRows' = PassRows \ {Cur}
    BY <1>3, <1>4 DEF PassRows
  <2>3. pass.pc \notin {"load", "collect"} /\ pass'.pc \notin Talks \cup {"listing"}
    BY <1>3, <1>4 DEF IInv, PassShape, Talks, PassRows
  <2>4. ASSUME NEW j \in rows' \cap Earlier' PROVE Owned(j)'
    <3>1. Owned(j)
      BY <1>3, <2>1 DEF IInv, RowsOwned
    <3> QED
      BY <1>1, <1>4, <2>1, <2>2, <2>3, <3>1 DEF Owned
  <2> QED
    BY <1>1, <1>4, <2>1, <2>3, <2>4 DEF IInv, RowsOwned
<1>13. PromiseInv'
  <2>1. Attached' = Attached /\ stopped' = stopped /\ PassRows' = PassRows \ {Cur}
    BY <1>1, <1>3, <1>4 DEF Attached, PassRows
  <2>2. Cur \notin Attached
    BY <1>3 DEF Attached
  <2>3. rec \in [Jobs -> {"none", "own", "failed", "done"}] /\ promised \subseteq Jobs
    BY DEF IInv, TypeOK, RecordType
  <2> QED
    BY <1>1, <1>2, <2>1, <2>2, <2>3, PromisesKept
<1> QED
  BY <1>1, <1>2, <1>3, <1>4, <1>5, <1>6, <1>7, <1>8, <1>9, <1>10, <1>11, <1>12, <1>13
     DEF IInv, LedgerDrops

(* The listing says nobody needs the row any more.                           *)
LEMMA PassForgets ==
  ASSUME IInv, ListingKnown(Cur), Handled(FALSE), pass.pc = "listing",
         UNCHANGED <<stopped, by, ask, rerun, timer, retries, unwatched>>
  PROVE  IInv'
<1>0. pass.todo # {}
  BY DEF IInv, PassShape
<1>1. /\ UNCHANGED <<next, path, backend, running, pump, launch, base, by, ask, stopped>>
      /\ UNCHANGED <<rerun, timer, retries, rec, promised, taken>>
      /\ dismissed' = dismissed \cup {Cur} /\ Cur \notin stopped
      /\ \/ UNCHANGED recDisk
         \/ recDisk' = [recDisk EXCEPT ![Cur] = "failed"]
      /\ pass' = [pass EXCEPT !.pc = "next", !.todo = pass.todo \ {Cur},
                             !.retry = pass.retry \/ FALSE]
      /\ pass \in PassStates
  BY <1>0, CurIsTaken, ListingForgets DEF Handled, unwatched, app, IInv, TypeOK, PassType
<1>2. LedgerDrops({Cur})
  BY <1>0, CurIsTaken, ListingForgets
<1>3. /\ Cur \in pass.todo /\ Cur \in PassRows /\ Cur \notin pass.running
      /\ Cur \in Jobs /\ Cur \in Earlier /\ Cur # pump.job
      /\ by[Cur] = "none" /\ read = "yes" /\ read' = "yes"
  BY <1>0, <1>2, CurIsTaken DEF LedgerDrops
<1>4. /\ pass' \in PassStates /\ pass'.pc = "next" /\ pass'.todo = pass.todo \ {Cur}
      /\ pass'.running = pass.running /\ pass'.retry = pass.retry
  BY <1>1, <1>3 DEF PassStates
<1>5. TypeOK'
  BY <1>1, <1>2, <1>3, <1>4 DEF IInv, TypeOK, WorldType, LedgerType, RailType, WatchType,
     PassType, RecordType, LedgerDrops
<1>6. OnlyKnownRuns'
  <2>1. Cur \in Known
    BY <1>3, CurIsTaken, JobsAreNumbers, JobsAssumption DEF Known, IInv, TypeOK, WorldType
  <2>2. Known' = Known /\ Earlier' = Earlier /\ dismissed' \subseteq dismissed \cup {Cur}
    BY <1>1 DEF Known, Earlier
  <2> QED
    BY <1>1, <1>2, <2>1, <2>2 DEF IInv, OnlyKnownRuns, TypeOK, RecordType, LedgerDrops
<1>7. PumpIsNewest'
  BY <1>1, <1>2, <1>3, <1>4 DEF IInv, PumpIsNewest, TypeOK, WatchType, RecordType, LedgerDrops
<1>8. Unread'
  BY <1>1, <1>2, <1>3, <1>4 DEF IInv, Unread, TypeOK, WatchType, Earlier, PassRows, LedgerDrops
<1>9. PassShape'
  <2>1. PassRows' \subseteq PassRows /\ pass'.todo \cap pass'.running = {}
    BY <1>3, <1>4 DEF PassRows, IInv, PassShape
  <2>2. pass'.pc \notin {"idle", "load", "collect"} /\ pass'.pc \notin Talks \cup {"listing"}
    BY <1>1, <1>3, <1>4 DEF Talks
  <2> QED
    BY <1>1, <2>1, <2>2 DEF IInv, PassShape, Earlier
<1>10. RailOwner'
  <2>1. Attached' = Attached
    BY <1>1 DEF Attached
  <2> QED
    BY <1>1, <2>1 DEF IInv, RailOwner
<1>11. DismissedInv'
  BY <1>1, <1>2, <1>3, <1>4 DEF IInv, DismissedInv, TypeOK, WatchType, GoneRow, At, Earlier,
     Cur, Talks, LedgerDrops
<1>12. RowsOwned'
  <2>1. rows' \cap Earlier' \subseteq (rows \cap Earlier) \ {Cur}
    BY <1>1, <1>2 DEF LedgerDrops, Earlier
  <2>2. PassRows' = PassRows \ {Cur}
    BY <1>3, <1>4 DEF PassRows
  <2>3. pass.pc \notin {"load", "collect"} /\ pass'.pc \notin Talks \cup {"listing"}
    BY <1>3, <1>4 DEF IInv, PassShape, Talks, PassRows
  <2>4. ASSUME NEW j \in rows' \cap Earlier' PROVE Owned(j)'
    <3>1. Owned(j)
      BY <1>3, <2>1 DEF IInv, RowsOwned
    <3> QED
      BY <1>1, <1>4, <2>1, <2>2, <2>3, <3>1 DEF Owned
  <2> QED
    BY <1>1, <1>4, <2>1, <2>3, <2>4 DEF IInv, RowsOwned
<1>13. PromiseInv'
  <2>1. Attached' = Attached /\ stopped' = stopped /\ PassRows' = PassRows \ {Cur}
    BY <1>1, <1>3, <1>4 DEF Attached, PassRows
  <2>2. Cur \notin Attached
    BY <1>3 DEF Attached
  <2>3. rec \in [Jobs -> {"none", "own", "failed", "done"}] /\ promised \subseteq Jobs
    BY DEF IInv, TypeOK, RecordType
  <2> QED
    BY <1>1, <1>2, <2>1, <2>2, <2>3, PromisesKept
<1> QED
  BY <1>1, <1>2, <1>3, <1>4, <1>5, <1>6, <1>7, <1>8, <1>9, <1>10, <1>11, <1>12, <1>13
     DEF IInv, LedgerDrops

LEMMA PassRowsCollected ==
  ASSUME IInv, PassCollects
  PROVE  IInv'
<1>1. /\ UNCHANGED <<world, ledger, rail, app, watches, rerun, timer, retries, records, ghosts>>
      /\ pass.pc = "collect" /\ pass \in PassStates
      /\ pass' = [pass EXCEPT !.pc = "next", !.todo = {j \in rows : Mine(j)},
                              !.backend = backend]
  BY DEF PassCollects, IInv, TypeOK, PassType
<1>2. LedgerDrops({})
  BY <1>1, KeepsLedger
<1>3. pass.todo = {} /\ pass.running = {}
  BY <1>1 DEF IInv, PassShape, PassRows
<1>4. {j \in rows : Mine(j)} = {j \in rows \cap Earlier : by[j] = "none"}
  <2>1. \A j \in rows : j < base <=> j \in Earlier
    BY JobsAreNumbers, JobsAssumption DEF IInv, TypeOK, LedgerType, WorldType, Earlier
  <2> QED
    BY <2>1 DEF Mine
<1>5. /\ pass' \in PassStates /\ pass'.pc = "next" /\ pass'.running = {}
      /\ pass'.todo = {j \in rows \cap Earlier : by[j] = "none"} /\ pass'.retry = pass.retry
      /\ PassRows' = pass'.todo /\ PassRows = {}
  <2>1. {j \in rows \cap Earlier : by[j] = "none"} \subseteq Jobs
    BY DEF IInv, TypeOK, LedgerType
  <2> QED
    BY <1>1, <1>3, <1>4, <2>1 DEF PassStates, PassRows, IInv, TypeOK, WorldType
<1>6. TypeOK'
  BY <1>1, <1>2, <1>5 DEF IInv, TypeOK, WorldType, LedgerType, RailType, WatchType, PassType,
     RecordType, world, app, rail, records, watches, ghosts, LedgerDrops
<1>7. OnlyKnownRuns'
  BY <1>1, <1>2, <1>5 DEF IInv, OnlyKnownRuns, TypeOK, WatchType, RecordType, Known, Earlier,
     world, app, rail, records, watches, ghosts, LedgerDrops
<1>8. PumpIsNewest'
  BY <1>1, <1>2, <1>5 DEF IInv, PumpIsNewest, TypeOK, WatchType, RecordType, world, app, rail,
     records, watches, ghosts, LedgerDrops
<1>9. Unread'
  BY <1>1, <1>2, <1>5 DEF IInv, Unread, TypeOK, WatchType, Earlier, PassRows, world, app, rail,
     records, watches, ghosts, LedgerDrops
<1>10. PassShape'
  <2>1. pass'.pc \notin {"idle", "load", "collect"} /\ pass'.pc \notin Talks \cup {"listing"}
    BY <1>5 DEF Talks
  <2>2. \A j \in PassRows' : by[j] = "none" /\ ask[j] \in {"no", "listing"} /\ j \in Earlier
    BY <1>5 DEF IInv, RowsOwned
  <2> QED
    BY <1>1, <1>5, <2>1, <2>2 DEF IInv, PassShape, watches, app, Earlier
<1>11. RailOwner'
  <2>1. Attached' = Attached
    BY <1>1 DEF Attached, watches
  <2> QED
    BY <1>1, <2>1 DEF IInv, RailOwner, rail
<1>12. DismissedInv'
  <2>1. pass'.pc \notin Talks
    BY <1>5 DEF Talks
  <2>2. ASSUME NEW i \in dismissed, i \in Earlier, i \notin stopped PROVE GoneRow(i)'
    <3>1. GoneRow(i)
      BY <2>2 DEF IInv, DismissedInv
    <3>2. i \notin rows \cap Earlier
      BY <3>1 DEF GoneRow, IInv, Unread
    <3> QED
      BY <1>1, <1>2, <1>5, <3>1, <3>2 DEF GoneRow, LedgerDrops
  <2> QED
    BY <1>1, <1>5, <2>1, <2>2 DEF IInv, DismissedInv, At, watches, ghosts, app, world, Earlier
<1>13. RowsOwned'
  BY <1>1, <1>2, <1>5 DEF IInv, RowsOwned, TypeOK, WatchType, Owned, Earlier, Cur, Talks,
     PassRows, world, app, rail, records, watches, ghosts, LedgerDrops
<1>14. PromiseInv'
  <2>1. Attached' = Attached /\ promised \subseteq Jobs
    BY <1>1 DEF Attached, watches, IInv, TypeOK, RecordType
  <2> QED
    BY <1>1, <1>2, <1>5, <2>1, PromisesKept DEF ghosts, app, records
<1> QED
  BY <1>1, <1>2, <1>5, <1>6, <1>7, <1>8, <1>9, <1>10, <1>11, <1>12, <1>13, <1>14
     DEF IInv, LedgerDrops, rail

(* A pass that begins leaves the ledger alone but for the read.              *)
LEMMA PassBegins ==
  ASSUME IInv, NEW r, PassFrom(r), UNCHANGED <<rows, disk, failed, faults, owed>>
  PROVE  /\ LedgerDrops({})
         /\ pass' \in PassStates /\ PassRows' = {} /\ pass'.todo = {} /\ pass'.running = {}
         /\ pass'.pc \in {"load", "collect"} /\ (read' # "yes" => pass'.pc = "load")
         /\ rerun' = r
<1>1. /\ pass' \in PassStates /\ PassRows' = {} /\ pass'.todo = {} /\ pass'.running = {}
      /\ pass'.pc \in {"load", "collect"} /\ (read' # "yes" => pass'.pc = "load")
      /\ rerun' = r
  BY DEF PassFrom, PassStates, PassRows, IInv, TypeOK, WorldType
<1>2. CASE read = "no"
  <2>1. io' = <<Load>> /\ read' = "reading"
    BY <1>2 DEF PassFrom, InTurn, IInv, IoShape
  <2>2. <<Load>> \in Seq(Call) /\ Range(io') = {Load} /\ Load.rows = {} /\ Load.op # "save"
    BY <2>1, RangeOne, CallParts DEF IInv
  <2>3. LedgerType' /\ IoShape'
    BY <2>1, <2>2 DEF IInv, TypeOK, LedgerType, IoShape
  <2>4. 0 < next /\ Load.for = 0
    BY JobsAssumption, CallParts DEF IInv, TypeOK, WorldType
  <2>5. \A j : InLedger(j) => InLedger(j)'
    BY <2>1, <2>2 DEF InLedger
  <2>6. pump'.pc = pump.pc /\ pump'.job = pump.job => PersistInv'
    BY <1>2, <2>1 DEF IInv, PersistInv
  <2> QED
    BY <1>1, <1>2, <2>1, <2>2, <2>3, <2>4, <2>5, <2>6 DEF LedgerDrops
<1>3. CASE read # "no"
  BY <1>1, <1>3, KeepsLedger DEF PassFrom, ledger
<1> QED
  BY <1>2, <1>3

LEMMA TimerWakes ==
  ASSUME IInv, TimerFires
  PROVE  IInv'
<1>1. /\ UNCHANGED <<world, rail, app, watches, retries, records, ghosts>>
      /\ timer' = FALSE /\ rerun' \in BOOLEAN
      /\ LedgerDrops({}) /\ pass' \in PassStates
      /\ \/ UNCHANGED pass /\ rerun' = TRUE
         \/ /\ pass'.pc \in {"load", "collect"} /\ (read' # "yes" => pass'.pc = "load")
            /\ PassRows' = {} /\ pass'.todo = {} /\ pass'.running = {}
            /\ PassRows = {}
  <2>1. CASE pass.pc = "idle"
    BY <2>1, PassBegins DEF TimerFires, IInv, PassShape, TypeOK, PassType
  <2>2. CASE pass.pc # "idle"
    BY <2>2, KeepsLedger DEF TimerFires, ledger, IInv, TypeOK, PassType
  <2> QED
    BY <2>1, <2>2 DEF TimerFires
<1>2. LedgerDrops({})
  BY <1>1
<1>3. TypeOK'
  BY <1>1, <1>2 DEF IInv, TypeOK, WorldType, LedgerType, RailType, WatchType, PassType,
     RecordType, world, app, rail, records, watches, ghosts, LedgerDrops
<1>4. OnlyKnownRuns'
  BY <1>1, <1>2 DEF IInv, OnlyKnownRuns, TypeOK, WatchType, RecordType, Known, Earlier, world,
     app, rail, records, watches, ghosts, LedgerDrops
<1>5. PumpIsNewest'
  BY <1>1, <1>2 DEF IInv, PumpIsNewest, TypeOK, WatchType, RecordType, world, app, rail,
     records, watches, ghosts, LedgerDrops
<1>6. Unread'
  BY <1>1, <1>2 DEF IInv, Unread, TypeOK, WatchType, Earlier, PassRows, world, app, rail,
     records, watches, ghosts, LedgerDrops
<1>7. PassShape'
  <2>1. CASE UNCHANGED pass
    BY <1>1, <2>1 DEF IInv, PassShape, watches, app, Earlier, PassRows
  <2>2. CASE /\ pass'.pc \in {"load", "collect"}
             /\ PassRows' = {} /\ pass'.todo = {} /\ pass'.running = {}
    BY <1>1, <2>2 DEF IInv, PassShape, watches, Talks
  <2> QED
    BY <1>1, <2>1, <2>2
<1>8. RailOwner'
  <2>1. Attached' = Attached
    BY <1>1 DEF Attached, watches
  <2> QED
    BY <1>1, <2>1 DEF IInv, RailOwner, rail
<1>9. DismissedInv'
  BY <1>1, <1>2 DEF IInv, DismissedInv, TypeOK, WatchType, GoneRow, At, Earlier, Cur, Talks,
     world, app, rail, records, watches, ghosts, LedgerDrops
<1>10. RowsOwned'
  BY <1>1, <1>2 DEF IInv, RowsOwned, TypeOK, WatchType, Owned, Earlier, Cur, Talks, PassRows,
     world, app, rail, records, watches, ghosts, LedgerDrops
<1>11. PromiseInv'
  <2>1. Attached' = Attached /\ PassRows' \subseteq PassRows
    BY <1>1 DEF Attached, watches, PassRows
  <2> QED
    BY <1>1, <1>2, <2>1, PromisesKept DEF ghosts, app, records, watches
<1> QED
  BY <1>1, <1>2, <1>3, <1>4, <1>5, <1>6, <1>7, <1>8, <1>9, <1>10, <1>11
     DEF IInv, LedgerDrops, rail

(* The pass hands over what still runs: one to the rail, the others to       *)
(* headless watchers, except what was stopped meanwhile.                    *)
LEMMA PassHandsOver ==
  ASSUME IInv, PassEnds
  PROVE  IInv'
<1>0. /\ UNCHANGED <<world, pump, app, ask, stopped, records, ghosts>>
      /\ pass.pc = "next" /\ pass.todo = {} /\ PassRows = pass.running
  BY DEF PassEnds, world, app, records, ghosts, PassRows
<1> DEFINE live == pass.running \ stopped
<1>1. PICK untouched \in BOOLEAN :
        /\ untouched => ~running
        /\ by' = [j \in Jobs |-> IF j \notin live THEN by[j]
                 ELSE IF (untouched /\ live # {}) /\ j = Max(live) THEN "att" ELSE "head"]
        /\ running' = (running \/ (untouched /\ live # {}))
  BY DEF PassEnds
<1> DEFINE rails == untouched /\ live # {}
<1>2. live \in SUBSET Jobs /\ live \subseteq Earlier /\ pass.running \in SUBSET Jobs
  BY DEF IInv, PassShape, PassRows, TypeOK, PassType, PassStates
<1>3. \A j \in live : by[j] = "none" /\ ask[j] \in {"no", "listing"} /\ ask[j] # "settling"
  BY DEF IInv, PassShape, PassRows
<1>4. \A j \in live : j \notin dismissed /\ ask[j] # "listing"
  <2>1. ASSUME NEW j \in live, j \in dismissed PROVE FALSE
    BY <1>2, <2>1 DEF IInv, DismissedInv, GoneRow
  <2> QED
    BY <1>2, <2>1 DEF IInv, DismissedInv
<1>5. /\ by' \in [Jobs -> {"none", "head", "lost", "att"}]
      /\ \A j \in Jobs : j \notin live => by'[j] = by[j]
      /\ \A j \in live : by'[j] # "none" /\ by'[j] \in {"att", "head"}
  BY <1>1, <1>2 DEF IInv, TypeOK, WatchType
<1>6. Attached' = IF rails THEN {Max(live)} ELSE Attached
  <2>1. CASE rails
    <3>1. Attached = {}
      BY <1>1, <2>1 DEF IInv, RailOwner
    <3>2. Max(live) \in live
      BY <1>2, <2>1, MaxIsMember
    <3>3. by'[Max(live)] = "att" /\ ask'[Max(live)] # "settling"
      BY <1>0, <1>1, <1>2, <1>3, <2>1, <3>2
    <3>4. ASSUME NEW j \in Jobs, j # Max(live) PROVE j \notin Attached'
      BY <1>0, <1>1, <2>1, <3>1, <3>4 DEF Attached
    <3> QED
      BY <1>2, <2>1, <3>2, <3>3, <3>4 DEF Attached
  <2>2. CASE ~rails
    <3>1. ASSUME NEW j \in Jobs PROVE by'[j] = "att" <=> by[j] = "att"
      BY <1>1, <1>3, <2>2
    <3> QED
      BY <1>0, <2>2, <3>1 DEF Attached
  <2> QED
    BY <2>1, <2>2
<1> HIDE DEF live, rails
<1>7. /\ LedgerDrops({}) /\ pass' \in PassStates /\ PassRows' = {}
      /\ pass'.todo = {} /\ pass'.running = {} /\ rerun' \in BOOLEAN
      /\ pass'.pc \in {"idle", "load", "collect"}
      /\ read' # "yes" /\ pass'.pc = "idle" => read = read'
      /\ pass'.pc = "collect" => read' = "yes"
      /\ \/ pass'.pc \in {"load", "collect"}
         \/ pass'.pc = "idle" /\ ~rerun
  <2>1. CASE rerun
    <3>1. PassFrom(FALSE) /\ UNCHANGED <<rows, disk, failed, faults, owed>>
      BY <2>1 DEF PassEnds
    <3> QED
      BY <3>1, PassBegins
  <2>2. CASE ~rerun
    <3>1. /\ pass' = [pass EXCEPT !.pc = "idle", !.running = {}, !.retry = FALSE]
          /\ UNCHANGED <<ledger, rerun>>
      BY <2>2 DEF PassEnds, ledger
    <3>2. /\ pass' \in PassStates /\ pass'.pc = "idle"
          /\ pass'.todo = {} /\ pass'.running = {} /\ PassRows' = {}
      BY <1>0, <3>1 DEF PassStates, PassRows, IInv, TypeOK, PassType
    <3> QED
      BY <2>2, <3>1, <3>2, KeepsLedger DEF ledger, IInv, TypeOK, PassType
  <2> QED
    BY <2>1, <2>2
<1>8. /\ timer' \in BOOLEAN /\ retries' \in 0 .. MaxRetries
      /\ timer => timer'
      /\ retries = MaxRetries => retries' = MaxRetries
      /\ ~rerun /\ pass.retry => timer' \/ retries' = MaxRetries
  <2>1. ScheduleRetry \/ UNCHANGED <<timer, retries>>
    BY DEF PassEnds
  <2>2. ~rerun /\ pass.retry => ScheduleRetry
    BY DEF PassEnds
  <2> QED
    BY <2>1, <2>2, RetryScheduled
<1>9. /\ rows' = rows /\ disk' = disk /\ UNCHANGED <<failed, faults>>
      /\ (read' = "yes" <=> read = "yes") /\ LedgerType' /\ IoShape'
      /\ \A c \in Range(io') : c.rows \subseteq Known /\ c.for < next
  BY <1>7 DEF LedgerDrops
<1>10. TypeOK'
  <2>1. WorldType' /\ RecordType'
    BY <1>0 DEF IInv, TypeOK, WorldType, RecordType, world, app, records, ghosts
  <2>2. RailType'
    BY <1>0, <1>1 DEF IInv, TypeOK, RailType
  <2>3. WatchType'
    BY <1>0, <1>5 DEF IInv, TypeOK, WatchType
  <2>4. PassType'
    BY <1>7, <1>8 DEF PassType
  <2> QED
    BY <1>9, <2>1, <2>2, <2>3, <2>4 DEF TypeOK
<1>11. OnlyKnownRuns'
  <2>1. Known' = Known /\ Earlier' = Earlier /\ next' = next
    BY <1>0 DEF Known, Earlier, world, app
  <2>2. Earlier \subseteq Known
    BY JobsAssumption DEF Earlier, Known, IInv, OnlyKnownRuns, TypeOK, WorldType
  <2>3. ASSUME NEW j \in Jobs \ Known
        PROVE by'[j] = "none" /\ ask'[j] = "no" /\ rec'[j] = "none" /\ recDisk'[j] = "none"
    BY <1>0, <1>2, <1>5, <2>2 DEF IInv, OnlyKnownRuns, records
  <2>4. ASSUME NEW j \in Jobs \ Earlier PROVE by'[j] \notin {"head", "att"} /\ ask'[j] # "listing"
    BY <1>0, <1>2, <1>5 DEF IInv, OnlyKnownRuns
  <2> QED
    BY <1>0, <1>9, <2>1, <2>3, <2>4 DEF IInv, OnlyKnownRuns, app, ghosts
<1>12. PumpIsNewest'
  <2>1. pump.pc # "idle" => pump.job \in Jobs /\ pump.job \notin live
    BY <1>2, PumpShape
  <2> QED
    BY <1>0, <1>5, <2>1 DEF IInv, PumpIsNewest, world, app, records, ghosts
<1>13. Unread'
  <2>1. read # "yes" => pass.running = {} /\ live = {}
    BY <1>0 DEF IInv, Unread, live
  <2>2. ASSUME read' # "yes", NEW j \in Earlier PROVE by'[j] = "none" /\ ask'[j] = "no"
    <3>1. j \in Jobs
      BY JobsAssumption DEF Earlier, Jobs, IInv, TypeOK, WorldType
    <3> QED
      BY <1>0, <1>5, <1>9, <2>1, <2>2, <3>1 DEF IInv, Unread
  <2>3. read' # "yes" => failed' \/ pass'.pc = "load"
    BY <1>0, <1>7, <1>9 DEF IInv, Unread
  <2> QED
    BY <1>0, <1>7, <1>9, <2>2, <2>3 DEF IInv, Unread, app, Earlier
<1>14. PassShape'
  <2>1. pass'.pc \notin Talks \cup {"listing"}
    BY <1>7 DEF Talks
  <2>2. \A j \in Jobs : by'[j] # "none" => j \notin stopped
    BY <1>5 DEF IInv, PassShape, live
  <2> QED
    BY <1>0, <1>7, <2>1, <2>2 DEF PassShape
<1>15. RailOwner'
  <2>1. CASE rails
    <3>1. running' = TRUE /\ pump.pc = "idle" /\ Attached' = {Max(live)}
      BY <1>1, <1>6, <2>1 DEF rails, live, IInv, RailOwner
    <3> QED
      BY <1>0, <3>1 DEF RailOwner
  <2>2. CASE ~rails
    <3>1. running' = running /\ Attached' = Attached
      BY <1>1, <1>6, <2>2 DEF rails, live, IInv, TypeOK, RailType
    <3> QED
      BY <1>0, <3>1 DEF IInv, RailOwner
  <2> QED
    BY <2>1, <2>2
<1>16. DismissedInv'
  <2>1. pass'.pc \notin Talks /\ Earlier' = Earlier
    BY <1>0, <1>7 DEF Talks, app, Earlier
  <2>2. dismissed \subseteq Jobs
    BY DEF IInv, TypeOK, RecordType
  <2>3. ASSUME NEW i \in dismissed
        PROVE  /\ by'[i] = "none" \/ ask'[i] = "settling"
               /\ i \in Earlier => i \in stopped \/ GoneRow(i)'
    <3>1. by'[i] = by[i] /\ ask'[i] = ask[i]
      BY <1>0, <1>4, <1>5, <2>2
    <3>2. GoneRow(i) => GoneRow(i)'
      BY <1>7, <1>9 DEF GoneRow
    <3> QED
      BY <3>1, <3>2 DEF IInv, DismissedInv
  <2>4. ASSUME NEW i \in Jobs, ask[i] = "listing"
        PROVE  /\ ~backend /\ by'[i] = "none" /\ i \notin pass'.running
               /\ i \in pass'.todo => ~pass'.backend
    BY <1>4, <1>5, <1>7, <2>4 DEF IInv, DismissedInv
  <2> QED
    BY <1>0, <2>1, <2>3, <2>4 DEF IInv, DismissedInv, At, ghosts, world
<1>17. RowsOwned'
  <2>1. rows' \cap Earlier' = rows \cap Earlier
    BY <1>0, <1>9 DEF app, Earlier
  <2>2. pass'.pc \notin Talks \cup {"listing"}
    BY <1>7 DEF Talks
  <2>3. ASSUME NEW j \in rows \cap Earlier, read' = "yes" PROVE Owned(j)'
    <3>1. Owned(j) /\ (j \in stopped => j \notin pass.running) /\ j \in Jobs
      BY <1>9, <2>3 DEF IInv, RowsOwned, TypeOK, LedgerType
    <3>2. CASE j \in live
      BY <1>5, <3>2 DEF Owned
    <3>3. CASE j \notin live
      <4>1. j \notin PassRows /\ by'[j] = by[j] /\ ask' = ask
        BY <1>0, <1>5, <3>1, <3>3 DEF live
      <4> QED
        BY <1>0, <1>7, <1>8, <3>1, <4>1 DEF Owned
    <3> QED
      BY <3>2, <3>3
  <2>4. ASSUME NEW j \in rows \cap Earlier
        PROVE  /\ ask'[j] # "settling"
               /\ by'[j] = "none" => ask'[j] \in {"no", "listing"}
               /\ j \in stopped' => ask'[j] # "listing" /\ j \notin pass'.running
    <3>1. j \in Jobs
      BY DEF IInv, TypeOK, LedgerType
    <3> QED
      BY <1>0, <1>3, <1>5, <1>7, <3>1 DEF IInv, RowsOwned
  <2> QED
    BY <2>1, <2>2, <2>3, <2>4 DEF RowsOwned
<1>18. PromiseInv'
  <2>1. Attached' \subseteq Attached \cup (PassRows \ stopped)
    BY <1>0, <1>2, <1>6, MaxIsMember DEF rails, live
  <2> QED
    BY <1>0, <1>7, <2>1, PromisesKept DEF ghosts, app, records
<1> QED
  BY <1>0, <1>7, <1>9, <1>10, <1>11, <1>12, <1>13, <1>14, <1>15, <1>16, <1>17, <1>18
     DEF IInv, LedgerDrops

LEMMA ReconcileStep ==
  ASSUME IInv, Reconcile
  PROVE  IInv'
<1>1. CASE TimerFires
  BY <1>1, TimerWakes
<1>2. CASE PassCollects
  BY <1>2, PassRowsCollected
<1>3. CASE PassEnds
  BY <1>3, PassHandsOver
<1>4. CASE PassTakes
  <2>1. UNCHANGED <<world, rail, app, watches, rerun, timer, retries, records, ghosts>>
    BY <1>4 DEF PassTakes, world
  <2>2. pass.pc = "next" /\ pass.todo # {} /\ UNCHANGED <<disk, failed, faults>>
    BY <1>4 DEF PassTakes
  <2>3. CASE Stopped(Cur) /\ Handled(FALSE) /\ Forget({Cur})
    <3>1. LedgerDrops({Cur})
      BY <2>2, <2>3, ForgetDrops
    <3> QED
      BY <2>1, <2>2, <2>3, <3>1, PassHandles DEF Stopped
  <2>4. CASE Handled(TRUE) /\ UNCHANGED <<rows, read, owed, io>>
    <3>1. LedgerDrops({})
      BY <2>2, <2>4, KeepsLedger DEF ledger
    <3> QED
      BY <2>1, <2>2, <2>4, <3>1, PassHandles
  <2>5. CASE /\ ~Stopped(Cur)
             /\ pass' = [pass EXCEPT !.pc = IF pass.backend THEN "status" ELSE "listing"]
             /\ UNCHANGED <<rows, read, owed, io>>
    <3>1. UNCHANGED ledger
      BY <2>2, <2>5 DEF ledger
    <3>2. CASE pass.backend
      BY <2>1, <2>2, <2>5, <3>1, <3>2, PassMoves DEF Stopped, Talks
    <3>3. CASE ~pass.backend
      <4>1. "listing" \notin Talks
        BY DEF Talks
      <4> QED
        BY <2>1, <2>2, <2>5, <3>1, <3>3, <4>1, PassMoves DEF Stopped
    <3> QED
      BY <3>2, <3>3
  <2> QED
    BY <1>4, <2>3, <2>4, <2>5 DEF PassTakes
<1>5. CASE PassHears
  <2>1. /\ pass.pc \in Talks /\ pass.todo # {}
        /\ UNCHANGED <<stopped, by, ask, rerun, timer, retries, dismissed, unwatched>>
    BY <1>5 DEF PassHears, Talks, IInv, PassShape
  <2>2. ASSUME NEW retry \in BOOLEAN, PassLeaves(retry), retry \/ Stopped(Cur)
        PROVE  IInv'
    <3>1. /\ UNCHANGED <<world, ledger, rail, app, watches, rerun, timer, retries, records, ghosts>>
          /\ Handled(retry)
      BY <2>1, <2>2 DEF PassLeaves, RecordsNothing, unwatched, world, ledger, rail, app, watches, records, ghosts
    <3>2. LedgerDrops({}) /\ pass.pc # "next"
      BY <2>1, <3>1, KeepsLedger DEF Talks
    <3> QED
      BY <2>1, <2>2, <3>1, <3>2, PassHandles DEF Stopped
  <2>3. ASSUME NEW p, PassGoes(p)
        PROVE  /\ UNCHANGED <<world, ledger, rail, app, watches, rerun, timer, retries, records, ghosts>>
               /\ pass' = p
    BY <2>1, <2>3 DEF PassGoes, RecordsNothing, unwatched, world, ledger, rail, app, watches, records, ghosts
  <2>4. CASE Stopped(Cur) /\ PassLeaves(FALSE)
    BY <2>2, <2>4
  <2>5. CASE PassLeaves(TRUE)
    BY <2>2, <2>5
  <2>6. CASE PassSettles("failed") \/ PassSettles("done")
    BY <2>1, <2>6, PassRecords
  <2>7. CASE ~Stopped(Cur) /\ PassGoes([pass EXCEPT !.pc = "next", !.todo = @ \ {Cur},
                                                 !.running = @ \cup {Cur}])
    BY <2>1, <2>3, <2>7, PassFindsRunning DEF Stopped
  <2>8. CASE ~Stopped(Cur) /\ PassGoes([pass EXCEPT !.pc = "result"])
    BY <2>1, <2>3, <2>8, PassMoves DEF Stopped, Talks
  <2>9. CASE ~Stopped(Cur) /\ PassGoes([pass EXCEPT !.pc = "tracks"])
    BY <2>1, <2>3, <2>9, PassMoves DEF Stopped, Talks
  <2> QED
    BY <1>5, <2>4, <2>5, <2>6, <2>7, <2>8, <2>9 DEF PassHears
<1>6. CASE PassLists
  <2>1. /\ pass.pc = "listing" /\ pass.todo # {}
        /\ UNCHANGED <<stopped, by, ask, rerun, timer, retries, unwatched>>
    BY <1>6 DEF PassLists, IInv, PassShape
  <2>2. ASSUME NEW retry \in BOOLEAN, PassLeaves(retry), retry \/ Stopped(Cur),
               UNCHANGED dismissed
        PROVE  IInv'
    <3>1. /\ UNCHANGED <<world, ledger, rail, app, watches, rerun, timer, retries, records, ghosts>>
          /\ Handled(retry)
      BY <2>1, <2>2 DEF PassLeaves, RecordsNothing, unwatched, world, ledger, rail, app, watches, records, ghosts
    <3>2. LedgerDrops({})
      BY <3>1, KeepsLedger
    <3> QED
      BY <2>1, <2>2, <3>1, <3>2, PassHandles DEF Stopped
  <2>3. CASE ListingKnown(Cur) /\ Handled(FALSE)
    BY <2>1, <2>3, PassForgets
  <2> QED
    BY <1>6, <2>2, <2>3 DEF PassLists
<1> QED
  BY <1>1, <1>2, <1>3, <1>4, <1>5, <1>6 DEF Reconcile

-----------------------------------------------------------------------------
(* The pump.                                                                *)

LEMMA PumpIsAlone ==
  ASSUME IInv, pump.pc # "idle"
  PROVE  /\ Attached = {} /\ pump.job \in Jobs /\ pump.job \in Known
         /\ pump.job \notin Earlier /\ pump.job \notin PassRows
         /\ by[pump.job] = "none" /\ ask[pump.job] = "no"
         /\ pump.job \notin stopped
         /\ pump.live <=> pump.job \notin dismissed
<1>1. pump.job \in Jobs /\ pump.job \notin Earlier /\ pump.job = next - 1
  BY PumpShape
<1>2. pump.job \in Known
  BY <1>1, JobsAreNumbers, JobsAssumption DEF Known, IInv, TypeOK, WorldType
<1>3. pump.job \notin PassRows
  BY <1>1 DEF IInv, PassShape
<1> QED
  BY <1>1, <1>2, <1>3 DEF IInv, RailOwner, PumpIsNewest

(* A cancel came during the write, or aborted the request.                  *)
LEMMA PumpGivesUp ==
  ASSUME IInv, pump.pc # "idle", ~pump.live, Forget({pump.job}), pump' = Idle, running' = FALSE,
         UNCHANGED <<world, disk, failed, faults, app, watches, passes, records, ghosts>>
  PROVE  IInv'
<1>1. /\ UNCHANGED <<world, app, watches, passes, records, ghosts>>
      /\ pump' = Idle /\ running' = FALSE /\ pump'.pc = "idle"
  BY DEF Idle
<1>2. LedgerDrops({pump.job})
  BY ForgetDrops
<1>3. /\ Attached = {} /\ pump.job \in Jobs /\ pump.job \notin Earlier
      /\ pump.job \notin PassRows /\ pump.job \in dismissed
      /\ Attached' = {} /\ PassRows' = PassRows
  BY <1>1, PumpIsAlone DEF Attached, watches, passes, PassRows
<1>4. TypeOK'
  <2>1. Idle \in PumpStates
    BY DEF PumpStates
  <2> QED
    BY <1>1, <1>2, <2>1 DEF IInv, TypeOK, WorldType, RailType, WatchType, PassType, RecordType,
       world, app, watches, passes, records, ghosts, LedgerDrops
<1>5. OnlyKnownRuns'
  BY <1>1, <1>2, <1>3 DEF IInv, OnlyKnownRuns, TypeOK, WatchType, RecordType, Known, Earlier,
     world, app, records, watches, passes, ghosts, LedgerDrops
<1>6. PumpIsNewest'
  BY <1>1 DEF PumpIsNewest
<1>7. Unread'
  BY <1>1, <1>2, <1>3 DEF IInv, Unread, TypeOK, WatchType, Earlier, PassRows, world, app,
     records, watches, passes, ghosts, LedgerDrops
<1>8. PassShape'
  BY <1>1, <1>2, <1>3 DEF IInv, PassShape, TypeOK, WatchType, Earlier, PassRows, world, app,
     records, watches, passes, ghosts, LedgerDrops
<1>9. RailOwner'
  BY <1>1, <1>3 DEF RailOwner
<1>10. DismissedInv'
  BY <1>1, <1>2, <1>3 DEF IInv, DismissedInv, TypeOK, WatchType, GoneRow, At, Earlier, Cur,
     Talks, world, app, records, watches, passes, ghosts, LedgerDrops
<1>11. RowsOwned'
  BY <1>1, <1>2, <1>3 DEF IInv, RowsOwned, TypeOK, WatchType, Owned, Earlier, Cur, Talks,
     PassRows, world, app, records, watches, passes, ghosts, LedgerDrops
<1>12. PromiseInv'
  BY <1>1, <1>2, <1>3, PromisesKept DEF ghosts, app, records, watches
<1>13. PersistInv'
  BY <1>1 DEF PersistInv
<1> QED
  BY <1>2, <1>4, <1>5, <1>6, <1>7, <1>8, <1>9, <1>10, <1>11, <1>12, <1>13
     DEF IInv, LedgerDrops

(* The row is on disk, and not to be overwritten, when the request leaves;    *)
(* or a store call failed.                                                  *)
LEMMA PumpSends ==
  ASSUME IInv, pump.pc = "persist", ~Awaited(pump.job), pump.live,
         pump' = [pump EXCEPT !.pc = "post"],
         promised' = IF pump.job \in disk \/ faults = 0
                     THEN promised \cup {pump.job} ELSE promised,
         UNCHANGED <<world, ledger, running, app, watches, passes, records, dismissed, taken>>
  PROVE  IInv'
<1>1. /\ UNCHANGED <<world, ledger, running, app, watches, passes, records, dismissed, taken>>
      /\ pump' \in PumpStates /\ pump'.pc = "post" /\ pump'.job = pump.job
      /\ pump'.live = pump.live
      /\ promised' \subseteq promised \cup {pump.job}
  <2>1. pump \in [pc : {"persist", "post"}, job : Jobs, live : BOOLEAN]
    BY DEF IInv, TypeOK, RailType, PumpStates, Idle
  <2>2. /\ pump' \in [pc : {"persist", "post"}, job : Jobs, live : BOOLEAN]
        /\ pump'.pc = "post" /\ pump'.job = pump.job /\ pump'.live = pump.live
    BY <2>1
  <2> QED
    BY <2>2 DEF PumpStates
<1>2. LedgerDrops({})
  BY <1>1, KeepsLedger
<1>3. /\ Attached = {} /\ pump.job \in Jobs /\ pump.job \in Known
      /\ pump.job \notin Earlier /\ pump.job \notin PassRows
      /\ Attached' = {} /\ PassRows' = PassRows
  BY <1>1, PumpIsAlone DEF Attached, watches, passes, PassRows
<1>4. pump.job \in promised' => pump.job \in promised \/ InLedger(pump.job)
  <2> SUFFICES ASSUME pump.job \in disk \/ faults = 0 PROVE InLedger(pump.job)
    OBVIOUS
  <2>1. ~owed /\ \A c \in Range(io) : c.for # pump.job
    BY DEF Awaited, Range
  <2>2. CASE read = "yes"
    <3>1. pump.job \in rows /\ pump.job \in disk /\ Covering(io, pump.job)
      BY <2>1, <2>2 DEF IInv, PersistInv
    <3>2. ASSUME NEW c \in Range(io), c.op = "save" PROVE pump.job \in c.rows
      <4>1. io \in Seq(Call)
        BY DEF IInv, TypeOK, LedgerType
      <4>2. PICK i \in 1 .. Len(io) : c = io[i]
        BY <4>1 DEF Range
      <4>3. \A k \in (i + 1) .. Len(io) : io[k] \in Range(io)
        BY <4>1, <4>2 DEF Range
      <4> QED
        BY <2>1, <3>1, <3>2, <4>2, <4>3 DEF Covering
    <3> QED
      BY <3>1, <3>2 DEF InLedger
  <2>3. CASE read # "yes"
    <3>1. faults > 0
      BY <2>1, <2>3 DEF IInv, PersistInv
    <3>2. faults # 0
      BY <3>1
    <3>3. \A c \in Range(io) : c.op # "save"
      <4>1. io = <<>> \/ io = <<Load>>
        BY <2>3 DEF IInv, IoShape, TypeOK, LedgerType
      <4>2. Load.op = "load"
        BY DEF Load
      <4> QED
        BY <4>1, <4>2, RangeOne DEF Range
    <3> QED
      BY <2>3, <3>2, <3>3 DEF InLedger
  <2> QED
    BY <2>2, <2>3
<1>5. TypeOK'
  BY <1>1, <1>2, <1>3 DEF IInv, TypeOK, WorldType, LedgerType, RailType, WatchType, PassType,
     RecordType, world, app, records, watches, passes, ledger, LedgerDrops
<1>6. OnlyKnownRuns'
  BY <1>1, <1>2, <1>3 DEF IInv, OnlyKnownRuns, TypeOK, WatchType, RecordType, Known, Earlier,
     world, app, records, watches, passes, ledger, LedgerDrops
<1>7. PumpIsNewest'
  BY <1>1, <1>2, <1>3 DEF IInv, PumpIsNewest, TypeOK, WatchType, RecordType, world, app,
     records, watches, passes, ledger, LedgerDrops
<1>8. Unread'
  BY <1>1, <1>2, <1>3 DEF IInv, Unread, TypeOK, WatchType, Earlier, PassRows, world, app,
     records, watches, passes, ledger, LedgerDrops
<1>9. PassShape'
  BY <1>1, <1>2, <1>3 DEF IInv, PassShape, TypeOK, WatchType, Earlier, PassRows, world, app,
     records, watches, passes, ledger, LedgerDrops
<1>10. RailOwner'
  BY <1>1, <1>3 DEF IInv, RailOwner
<1>11. DismissedInv'
  BY <1>1, <1>2, <1>3 DEF IInv, DismissedInv, TypeOK, WatchType, GoneRow, At, Earlier, Cur,
     Talks, world, app, records, watches, passes, ledger, LedgerDrops
<1>12. RowsOwned'
  BY <1>1, <1>2, <1>3 DEF IInv, RowsOwned, TypeOK, WatchType, Owned, Earlier, Cur, Talks,
     PassRows, world, app, records, watches, passes, ledger, LedgerDrops
<1>13. PromiseInv'
  <2>1. ASSUME NEW i \in (promised' \ Taken') \ dismissed' PROVE rec'[i] # "none" \/ InLedger(i)'
    <3>1. rec[i] # "none" \/ InLedger(i)
      BY <1>1, <1>4 DEF IInv, PromiseInv
    <3> QED
      BY <1>1, <3>1 DEF InLedger, ledger, records
  <2>2. ASSUME NEW i \in rows' \cap Earlier', read' = "yes" PROVE InLedger(i)'
    BY <1>1, <2>2 DEF IInv, PromiseInv, InLedger, ledger, app, Earlier
  <2>3. ASSUME NEW i \in (promised' \ Taken') \ dismissed', i \in Attached' \cup (PassRows' \ stopped')
        PROVE  i \in rows'
    BY <1>1, <1>3, <2>3 DEF IInv, PromiseInv, ledger, watches
  <2> QED
    BY <2>1, <2>2, <2>3 DEF PromiseInv
<1>14. PersistInv'
  BY <1>1 DEF PersistInv
<1> QED
  BY <1>2, <1>5, <1>6, <1>7, <1>8, <1>9, <1>10, <1>11, <1>12, <1>13, <1>14
     DEF IInv, LedgerDrops

(* The pump's next file gets an id nothing is known of.                     *)
LEMMA NextIsNew ==
  ASSUME IInv, NEW q, NEW S, TakesNext(q, S), UNCHANGED base
  PROVE  /\ next \in Jobs /\ next \notin Known /\ next \notin Earlier
         /\ next' \in 1 .. MaxJobs + 1 /\ next' - 1 = next /\ base <= next
         /\ base' <= next' /\ base' \in 1 .. MaxJobs + 1
         /\ Known' = Known \cup {next} /\ Earlier' = Earlier
         /\ \A c \in Range(io') : c.rows \subseteq Known' /\ c.for < next'
         /\ pump' \in PumpStates /\ pump'.pc = "persist" /\ pump'.job = next
         /\ pump'.live = TRUE
         /\ by[next] = "none" /\ ask[next] = "no" /\ rec[next] = "none"
         /\ next \notin rows \cup disk \cup stopped \cup promised \cup dismissed
<1>1. next \in Jobs /\ next \in Nat /\ base \in Nat /\ MaxJobs \in Nat /\ next' = next + 1
  BY JobsAreNumbers, JobsAssumption DEF TakesNext, IInv, TypeOK, WorldType
<1>2. /\ next \notin Known /\ next' \in 1 .. MaxJobs + 1 /\ next' - 1 = next
      /\ base <= next
  BY <1>1 DEF Known, Jobs, IInv, OnlyKnownRuns
<1>3. base' <= next' /\ base' \in 1 .. MaxJobs + 1
  BY <1>1, <1>2 DEF IInv, TypeOK, WorldType
<1>4. next \notin Earlier /\ Known' = Known \cup {next} /\ Earlier' = Earlier
  <2>1. next \notin 1 .. base - 1 /\ next # 0
    BY <1>1, <1>2, JobsAreNumbers
  <2>2. 1 .. next' - 1 = (1 .. next - 1) \cup {next}
    BY <1>1, <2>1
  <2> QED
    BY <2>1, <2>2 DEF Known, Earlier
<1>5. 1 .. next = Known'
  BY <1>1 DEF Known
<1>6. \A c \in Range(io') : c.rows \subseteq Known' /\ c.for < next'
  <2>1. \A c \in Range(io') : c.rows \subseteq Known' /\ c.for <= next
    BY <1>5 DEF TakesNext, LedgerAdds
  <2>2. \A c \in Range(io') : c.for \in 0 .. MaxJobs
    <3>1. \A c \in Range(io') : c \in Call
      BY DEF TakesNext, LedgerAdds, LedgerType, Range
    <3>2. \A c \in Call : c.for \in 0 .. MaxJobs
      BY JobsAssumption DEF Call, Save, Load
    <3> QED
      BY <3>1, <3>2
  <2> QED
    BY <1>1, <2>1, <2>2
<1>7. pump' \in PumpStates /\ pump'.pc = "persist" /\ pump'.job = next /\ pump'.live = TRUE
  <2>1. pump' = [pc |-> "persist", job |-> next, live |-> TRUE]
    BY DEF TakesNext
  <2>2. pump' \in [pc : {"persist", "post"}, job : Jobs, live : BOOLEAN]
    BY <1>1, <2>1
  <2> QED
    BY <2>1, <2>2 DEF PumpStates
<1>8. by[next] = "none" /\ ask[next] = "no" /\ rec[next] = "none"
  BY <1>1, <1>2 DEF IInv, OnlyKnownRuns
<1>9. next \notin rows \cup disk \cup stopped \cup promised \cup dismissed
  BY <1>2 DEF IInv, OnlyKnownRuns
<1> QED
  BY <1>1, <1>2, <1>3, <1>4, <1>6, <1>7, <1>8, <1>9

(* A run started or a file retried: the files' lost requests are stopped and *)
(* given up before the first request.                                       *)
LEMMA UserStarts ==
  ASSUME IInv, NEW F, NEW q, ~running, StopOrphans(OrphansOf(F)), GiveUpFiles(F),
         TakesNext(q, OrphansOf(F)),
         UNCHANGED <<backend, app, ask, passes, records, taken>>
  PROVE  IInv'
<1> DEFINE S == OrphansOf(F)
<1> DEFINE G == GivenUp(F)
<1>1. /\ UNCHANGED <<backend, app, ask, passes, records, taken>>
      /\ stopped' = stopped \cup S /\ dismissed' = dismissed \cup G
      /\ by' = [j \in Jobs |-> IF j \in S THEN "none" ELSE by[j]]
      /\ running' = TRUE /\ base' = base
  BY DEF StopOrphans, GiveUpFiles, TakesNext, app
<1>2. Attached = {} /\ pump.pc = "idle"
  BY DEF IInv, RailOwner
<1>3. LedgerAdds(S)
  BY DEF TakesNext
<1>4. /\ next \in Jobs /\ next \notin Known /\ next \notin Earlier
      /\ next' \in 1 .. MaxJobs + 1 /\ next' - 1 = next /\ base <= next
      /\ base' <= next' /\ base' \in 1 .. MaxJobs + 1
      /\ Known' = Known \cup {next} /\ Earlier' = Earlier
  BY <1>1, NextIsNew
<1>5. /\ \A c \in Range(io') : c.rows \subseteq Known' /\ c.for < next'
      /\ pump' \in PumpStates /\ pump'.pc = "persist" /\ pump'.job = next
      /\ pump'.live = TRUE
  BY <1>1, NextIsNew
<1>6. /\ by[next] = "none" /\ ask[next] = "no" /\ rec[next] = "none"
      /\ next \notin rows \cup disk \cup stopped \cup promised \cup dismissed
  BY <1>1, NextIsNew
<1>7. /\ S \subseteq G /\ G \subseteq Known /\ S \in SUBSET Jobs /\ G \in SUBSET Jobs
      /\ next \notin S /\ next \notin G
  <2>1. Known \subseteq Jobs
    BY <1>4, JobsAssumption, JobsAreNumbers DEF Known, Jobs
  <2>2. S \subseteq EarlierOf(F) /\ EarlierOf(F) \subseteq Known
    BY DEF OrphansOf, EarlierOf, Known
  <2> QED
    BY <1>4, <2>1, <2>2 DEF GivenUp
<1>8. \A j \in Jobs : j \in S => by'[j] = "none"
  BY <1>1
<1>9. \A j \in Jobs : j \notin S => by'[j] = by[j]
  BY <1>1
<1>10. ASSUME NEW j \in G, j \notin S
       PROVE  /\ by[j] = "none" \/ ask[j] = "settling"
              /\ j \in Earlier => GoneRow(j)'
  <2>1. read = "yes" /\ j \in 1 .. next - 1 /\ path[j] \in F
    BY <1>10 DEF GivenUp, EarlierOf
  <2>2. by[j] \notin {"head", "lost"} /\ j \notin PassRows
        /\ (j \in rows /\ j < base => by[j] # "none")
    BY <1>10, <2>1 DEF OrphansOf
  <2>3. by[j] = "none" \/ ask[j] = "settling"
    BY <1>2, <1>7, <2>2 DEF Attached, IInv, TypeOK, WatchType
  <2>4. ASSUME j \in Earlier PROVE j \notin rows
    <3>1. j < base
      BY <1>7, <2>4, JobsAreNumbers, JobsAssumption DEF Earlier, IInv, TypeOK, WorldType
    <3>2. j \in rows \cap Earlier => ask[j] # "settling"
      BY DEF IInv, RowsOwned
    <3> QED
      BY <2>2, <2>3, <2>4, <3>1, <3>2
  <2>5. j # next
    BY <1>7, <1>10
  <2> QED
    BY <1>1, <1>3, <2>1, <2>2, <2>3, <2>4, <2>5 DEF GoneRow, LedgerAdds, PassRows, passes
<1> HIDE DEF S, G
<1>11. Attached' = {} /\ PassRows' = PassRows
  <2>1. \A j \in Jobs : by'[j] = "att" => by[j] = "att"
    BY <1>8, <1>9
  <2> QED
    BY <1>1, <1>2, <2>1 DEF Attached, passes, PassRows
<1>12. TypeOK'
  <2>1. WorldType' /\ RailType'
    BY <1>1, <1>4, <1>5 DEF IInv, TypeOK, WorldType, RailType, app
  <2>2. WatchType'
    BY <1>1, <1>7 DEF IInv, TypeOK, WatchType
  <2>3. PassType' /\ LedgerType'
    BY <1>1, <1>3 DEF IInv, TypeOK, PassType, passes, LedgerAdds
  <2>4. RecordType'
    <3>1. promised' \subseteq promised
      BY <1>3 DEF LedgerAdds
    <3> QED
      BY <1>1, <1>7, <3>1 DEF IInv, TypeOK, RecordType, records
  <2> QED
    BY <2>1, <2>2, <2>3, <2>4 DEF TypeOK
<1>13. OnlyKnownRuns'
  <2>1. rows' \cup disk' \cup stopped' \cup promised' \cup dismissed' \subseteq Known'
    BY <1>1, <1>3, <1>4, <1>7 DEF IInv, OnlyKnownRuns, LedgerAdds
  <2>2. ASSUME NEW j \in Jobs \ Known' PROVE by'[j] = "none" /\ ask'[j] = "no" /\ rec'[j] = "none" /\ recDisk'[j] = "none"
    BY <1>1, <1>4, <1>8, <1>9 DEF IInv, OnlyKnownRuns, records
  <2>3. ASSUME NEW j \in Jobs \ Earlier' PROVE by'[j] \notin {"head", "att"} /\ ask'[j] # "listing"
    BY <1>1, <1>4, <1>8, <1>9 DEF IInv, OnlyKnownRuns
  <2> QED
    BY <1>4, <1>5, <2>1, <2>2, <2>3 DEF OnlyKnownRuns
<1>14. PumpIsNewest'
  BY <1>1, <1>4, <1>5, <1>6, <1>7, <1>9 DEF PumpIsNewest, records
<1>15. Unread'
  <2>1. read' # "yes" => read # "yes"
    BY <1>3 DEF LedgerAdds
  <2>2. rows' \cap Earlier' \subseteq rows \cap Earlier /\ failed' = failed
    BY <1>3, <1>4 DEF LedgerAdds
  <2>3. ASSUME NEW j \in Earlier, read # "yes" PROVE by'[j] = "none"
    <3>1. j \in Jobs
      BY JobsAssumption DEF Earlier, Jobs, IInv, TypeOK, WorldType
    <3> QED
      BY <1>8, <1>9, <2>3, <3>1 DEF IInv, Unread
  <2> QED
    BY <1>1, <1>4, <1>11, <2>1, <2>2, <2>3 DEF IInv, Unread, passes
<1>16. PassShape'
  <2>1. \A j \in Jobs : by'[j] # "none" => j \notin stopped'
    BY <1>1, <1>8, <1>9 DEF IInv, PassShape
  <2>2. \A j \in PassRows : by'[j] = "none"
    <3>1. PassRows \subseteq Jobs
      BY DEF IInv, TypeOK, PassType, PassStates, PassRows
    <3> QED
      BY <1>8, <1>9, <3>1 DEF IInv, PassShape
  <2> QED
    BY <1>1, <1>4, <1>11, <2>1, <2>2 DEF IInv, PassShape, passes
<1>17. RailOwner'
  BY <1>1, <1>5, <1>11 DEF RailOwner
<1>18. DismissedInv'
  <2>2. ASSUME NEW j \in dismissed, j \notin S
        PROVE  /\ by[j] = "none" \/ ask[j] = "settling"
               /\ j \in Earlier => j \in stopped \/ GoneRow(j)'
    <3>1. j # next
      BY <1>6
    <3>2. GoneRow(j) => GoneRow(j)'
      BY <1>1, <1>3, <3>1 DEF GoneRow, LedgerAdds, At, Cur, passes
    <3> QED
      BY <3>2 DEF IInv, DismissedInv
  <2>3. stopped' \subseteq dismissed'
    BY <1>1, <1>7 DEF IInv, DismissedInv
  <2>4. ASSUME NEW j \in dismissed'
        PROVE  /\ by'[j] = "none" \/ ask'[j] = "settling"
               /\ j \in Earlier => j \in stopped' \/ GoneRow(j)'
    <3>1. j \in Jobs
      BY <1>1, <1>7 DEF IInv, TypeOK, RecordType
    <3> QED
      BY <1>1, <1>8, <1>9, <1>10, <2>2, <3>1
  <2>5. ASSUME NEW j \in Jobs, ask'[j] = "listing"
        PROVE  /\ ~backend' /\ by'[j] = "none" /\ j \notin pass'.running /\ ~At(j)'
               /\ j \in pass'.todo => ~pass'.backend
    BY <1>1, <1>8, <1>9, <2>5 DEF IInv, DismissedInv, At, Cur, passes
  <2> QED
    BY <1>4, <2>3, <2>4, <2>5 DEF DismissedInv
<1>19. RowsOwned'
  <2>1. rows' \cap Earlier' \subseteq (rows \cap Earlier) \ S /\ (read' = "yes" <=> read = "yes")
    BY <1>3, <1>4 DEF LedgerAdds
  <2>2. ASSUME NEW j \in (rows \cap Earlier) \ S
        PROVE  by'[j] = by[j] /\ (j \in stopped' => j \in stopped)
    BY <1>1, <1>9 DEF IInv, TypeOK, LedgerType
  <2>3. ASSUME NEW j \in (rows \cap Earlier) \ S, read = "yes" PROVE Owned(j)'
    <3>1. Owned(j)
      BY <2>3 DEF IInv, RowsOwned
    <3> QED
      BY <1>1, <1>11, <2>2, <3>1 DEF Owned, passes
  <2> QED
    BY <1>1, <2>1, <2>2, <2>3 DEF IInv, RowsOwned, Cur, passes
<1>20. PromiseInv'
  <2>1. ASSUME NEW j \in (promised' \ Taken') \ dismissed'
        PROVE  j \in (promised \ Taken) \ dismissed /\ j \notin S /\ (InLedger(j) => InLedger(j)')
               /\ (j \in rows => j \in rows')
    BY <1>1, <1>3, <1>7 DEF LedgerAdds
  <2>2. ASSUME NEW j \in rows' \cap Earlier', read' = "yes" PROVE InLedger(j)'
    <3>1. j \in rows /\ j # next /\ j \in Earlier /\ read = "yes"
      BY <1>3, <1>4, <2>2 DEF LedgerAdds
    <3> QED
      BY <1>3, <2>2, <3>1 DEF IInv, PromiseInv, LedgerAdds
  <2>3. ASSUME NEW j \in (promised' \ Taken') \ dismissed', j \in Attached' \cup (PassRows' \ stopped')
        PROVE  j \in rows'
    BY <1>1, <1>11, <2>1, <2>3 DEF IInv, PromiseInv
  <2>4. ASSUME NEW j \in (promised' \ Taken') \ dismissed' PROVE rec'[j] # "none" \/ InLedger(j)'
    BY <1>1, <2>1 DEF IInv, PromiseInv, records
  <2> QED
    BY <2>2, <2>3, <2>4 DEF PromiseInv
<1> QED
  BY <1>3, <1>12, <1>13, <1>14, <1>15, <1>16, <1>17, <1>18, <1>19, <1>20 DEF IInv, LedgerAdds

(* The request settled, or lost contact: a record, and the next file.        *)
LEMMA PumpRecords ==
  ASSUME IInv, NEW q, NEW S, NEW r \in {"own", "failed"}, pump.pc = "post", pump.live,
         rec' = [rec EXCEPT ![pump.job] = r],
         \E old \in {rec[pump.job], recDisk[pump.job]} : recDisk' = [recDisk EXCEPT ![pump.job] = old],
         \/ S = {pump.job} /\ by' = by
         \/ S = {} /\ (by' = by \/ by' = [by EXCEPT ![pump.job] = "lost"]),
         PumpGoesOn(q, S), next \in Jobs \/ Queued(q) = {},
         UNCHANGED <<backend, disk, failed, faults, app, ask, stopped, passes, dismissed, taken>>
  PROVE  IInv'
<1> DEFINE job == pump.job
<1>1. /\ UNCHANGED <<backend, disk, failed, faults, app, ask, stopped, passes, dismissed, taken>>
      /\ base' = base /\ Earlier' = Earlier
  BY DEF app, Earlier
<1>2. /\ Attached = {} /\ job \in Jobs /\ job \in Known /\ job \notin Earlier
      /\ job \notin PassRows /\ by[job] = "none" /\ ask[job] = "no"
      /\ job \notin stopped /\ job \notin dismissed
  BY PumpIsAlone
<1>3. /\ by' \in [Jobs -> {"none", "head", "lost", "att"}]
      /\ \A j \in Jobs : j # job => by'[j] = by[j]
      /\ by'[job] \in {"none", "lost"}
      /\ S \subseteq {job}
  BY <1>2 DEF IInv, TypeOK, WatchType
<1>4. /\ rec'[job] # "none" /\ \A j \in Jobs : j # job => rec'[j] = rec[j] /\ recDisk'[j] = recDisk[j]
      /\ rec' \in [Jobs -> {"none", "own", "failed", "done"}]
      /\ recDisk' \in [Jobs -> {"none", "own", "failed", "done"}]
  BY <1>2 DEF IInv, TypeOK, RecordType
<1>5. \/ /\ LedgerDrops(S) /\ pump' = Idle /\ running' = FALSE /\ UNCHANGED <<next, promised, taken>>
      \/ TakesNext(q, S)
  BY PumpStep
<1>6. /\ LedgerType' /\ IoShape' /\ PersistInv' /\ PumpIsNewest'
      /\ read' = "yes" <=> read = "yes"
      /\ rows' \cap Earlier \subseteq rows \cap Earlier /\ rows' \subseteq Known'
      /\ Known \subseteq Known' /\ next' \in 1 .. MaxJobs + 1 /\ base <= next'
      /\ \A c \in Range(io') : c.rows \subseteq Known' /\ c.for < next'
      /\ pump' \in PumpStates /\ running' \in BOOLEAN
      /\ running' <=> pump'.pc # "idle"
      /\ promised' \subseteq promised
      /\ \A j \in promised' \ S : (InLedger(j) => InLedger(j)') /\ (j \in rows => j \in rows')
      /\ \A j \in rows' \cap Earlier : InLedger(j) => InLedger(j)'
  <2>1. CASE /\ LedgerDrops(S) /\ pump' = Idle /\ running' = FALSE
             /\ UNCHANGED <<next, promised, taken>>
    <3>1. pump' \in PumpStates /\ pump'.pc = "idle"
      BY <2>1 DEF PumpStates, Idle
    <3>2. PersistInv' /\ PumpIsNewest'
      BY <3>1 DEF PersistInv, PumpIsNewest
    <3>3. Known' = Known
      BY <2>1 DEF Known
    <3>4. rows' \subseteq Known' /\ rows' = rows \ S
      BY <2>1, <3>3 DEF IInv, OnlyKnownRuns, LedgerDrops
    <3>5. next' \in 1 .. MaxJobs + 1 /\ base <= next'
      BY <2>1 DEF IInv, OnlyKnownRuns, TypeOK, WorldType
    <3>6. /\ promised \subseteq Jobs /\ rows \subseteq Jobs
      BY DEF IInv, TypeOK, RecordType, LedgerType
    <3> QED
      BY <2>1, <3>1, <3>2, <3>3, <3>4, <3>5, <3>6 DEF LedgerDrops
  <2>2. CASE TakesNext(q, S)
    <3>1. /\ next \in Jobs /\ next \notin Known /\ next \notin Earlier
          /\ next' \in 1 .. MaxJobs + 1 /\ next' - 1 = next /\ base <= next
          /\ base' <= next' /\ Known' = Known \cup {next}
      BY <1>1, <2>2, NextIsNew
    <3>2. /\ \A c \in Range(io') : c.rows \subseteq Known' /\ c.for < next'
          /\ pump' \in PumpStates /\ pump'.pc = "persist" /\ pump'.job = next
          /\ pump'.live = TRUE
      BY <1>1, <2>2, NextIsNew
    <3>3. /\ by[next] = "none" /\ ask[next] = "no" /\ rec[next] = "none"
          /\ next \notin rows \cup disk \cup stopped \cup promised \cup dismissed
      BY <1>1, <2>2, NextIsNew
    <3>4. PumpIsNewest'
      BY <1>1, <1>2, <1>3, <1>4, <3>1, <3>2, <3>3 DEF PumpIsNewest
    <3>5. rows' \subseteq Known' /\ rows' \cap Earlier \subseteq rows \cap Earlier
      BY <2>2, <3>1 DEF TakesNext, LedgerAdds, IInv, OnlyKnownRuns
    <3>6. \A j \in promised' \ S : (InLedger(j) => InLedger(j)') /\ (j \in rows => j \in rows')
      BY <2>2 DEF TakesNext, LedgerAdds
    <3>7. \A j \in rows' \cap Earlier : InLedger(j) => InLedger(j)'
      BY <2>2, <3>1 DEF TakesNext, LedgerAdds
    <3> QED
      BY <1>1, <2>2, <3>1, <3>2, <3>4, <3>5, <3>6, <3>7 DEF TakesNext, LedgerAdds
  <2> QED
    BY <1>5, <2>1, <2>2
<1> HIDE DEF job
<1>7. Attached' = {} /\ PassRows' = PassRows
  <2>1. \A j \in Jobs : by'[j] = "att" => by[j] = "att"
    BY <1>3
  <2> QED
    BY <1>1, <1>2, <2>1 DEF Attached, passes, PassRows
<1>8. TypeOK'
  <2>1. WorldType' /\ RailType'
    BY <1>1, <1>6 DEF IInv, TypeOK, WorldType, RailType, app
  <2>2. WatchType' /\ PassType'
    BY <1>1, <1>3 DEF IInv, TypeOK, WatchType, PassType, passes
  <2>3. RecordType'
    BY <1>1, <1>4, <1>6 DEF IInv, TypeOK, RecordType
  <2> QED
    BY <1>6, <2>1, <2>2, <2>3 DEF TypeOK
<1>9. OnlyKnownRuns'
  <2>1. rows' \cup disk' \cup stopped' \cup promised' \cup dismissed' \subseteq Known'
    BY <1>1, <1>6 DEF IInv, OnlyKnownRuns
  <2>2. ASSUME NEW j \in Jobs \ Known' PROVE by'[j] = "none" /\ ask'[j] = "no" /\ rec'[j] = "none" /\ recDisk'[j] = "none"
    BY <1>1, <1>2, <1>3, <1>4, <1>6 DEF IInv, OnlyKnownRuns
  <2>3. ASSUME NEW j \in Jobs \ Earlier' PROVE by'[j] \notin {"head", "att"} /\ ask'[j] # "listing"
    BY <1>1, <1>3 DEF IInv, OnlyKnownRuns
  <2> QED
    BY <1>1, <1>6, <2>1, <2>2, <2>3 DEF OnlyKnownRuns
<1>10. Unread'
  <2>1. ASSUME NEW j \in Earlier, read # "yes" PROVE by'[j] = "none"
    <3>1. j \in Jobs
      BY JobsAssumption DEF Earlier, Jobs, IInv, TypeOK, WorldType
    <3> QED
      BY <1>2, <1>3, <2>1, <3>1 DEF IInv, Unread
  <2> QED
    BY <1>1, <1>6, <1>7, <2>1 DEF IInv, Unread, passes
<1>11. PassShape'
  <2>1. \A j \in Jobs : by'[j] # "none" => j \notin stopped'
    BY <1>1, <1>2, <1>3 DEF IInv, PassShape
  <2>2. \A j \in PassRows : by'[j] = "none"
    <3>1. PassRows \subseteq Jobs
      BY DEF IInv, TypeOK, PassType, PassStates, PassRows
    <3> QED
      BY <1>2, <1>3, <3>1 DEF IInv, PassShape
  <2> QED
    BY <1>1, <1>7, <2>1, <2>2 DEF IInv, PassShape, passes
<1>12. RailOwner'
  BY <1>6, <1>7 DEF RailOwner
<1>13. DismissedInv'
  <2>1. ASSUME NEW j \in dismissed
        PROVE  /\ by'[j] = "none" \/ ask[j] = "settling"
               /\ j \in Earlier => j \in stopped \/ GoneRow(j)'
    <3>1. j \in Jobs /\ j # job
      BY <1>2 DEF IInv, TypeOK, RecordType
    <3>2. GoneRow(j) /\ j \in Earlier => GoneRow(j)'
      BY <1>1, <1>6 DEF GoneRow, At, Cur, passes
    <3> QED
      BY <1>3, <3>1, <3>2 DEF IInv, DismissedInv
  <2>2. ASSUME NEW j \in Jobs, ask'[j] = "listing"
        PROVE  /\ ~backend' /\ by'[j] = "none" /\ j \notin pass'.running /\ ~At(j)'
               /\ j \in pass'.todo => ~pass'.backend
    BY <1>1, <1>2, <1>3, <2>2 DEF IInv, DismissedInv, At, Cur, passes
  <2> QED
    BY <1>1, <2>1, <2>2 DEF IInv, DismissedInv
<1>14. RowsOwned'
  <2>1. ASSUME NEW j \in rows' \cap Earlier
        PROVE  j \in rows \cap Earlier /\ by'[j] = by[j]
    BY <1>2, <1>3, <1>6 DEF IInv, TypeOK, LedgerType
  <2>2. ASSUME NEW j \in rows' \cap Earlier, read = "yes" PROVE Owned(j)'
    <3>1. Owned(j)
      BY <2>1, <2>2 DEF IInv, RowsOwned
    <3> QED
      BY <1>1, <1>7, <2>1, <3>1 DEF Owned, passes
  <2> QED
    BY <1>1, <1>6, <2>1, <2>2 DEF IInv, RowsOwned, Cur, passes
<1>15. PromiseInv'
  <2>1. ASSUME NEW j \in (promised' \ Taken') \ dismissed' PROVE rec'[j] # "none" \/ InLedger(j)'
    <3>1. j \in (promised \ Taken) \ dismissed /\ j \in Jobs
      BY <1>1, <1>6 DEF IInv, TypeOK, RecordType
    <3>2. CASE j = job
      BY <1>4, <3>2
    <3>3. CASE j # job
      BY <1>3, <1>4, <1>6, <3>1, <3>3 DEF IInv, PromiseInv
    <3> QED
      BY <3>2, <3>3
  <2>2. ASSUME NEW j \in rows' \cap Earlier', read' = "yes" PROVE InLedger(j)'
    BY <1>1, <1>6, <2>2 DEF IInv, PromiseInv
  <2>3. ASSUME NEW j \in (promised' \ Taken') \ dismissed', j \in Attached' \cup (PassRows' \ stopped')
        PROVE  j \in rows'
    <3>1. j \in PassRows \ stopped /\ j \in (promised \ Taken) \ dismissed /\ j \notin S
      BY <1>1, <1>2, <1>3, <1>6, <1>7, <2>3
    <3> QED
      BY <1>6, <3>1 DEF IInv, PromiseInv
  <2> QED
    BY <2>1, <2>2, <2>3 DEF PromiseInv
<1> QED
  BY <1>6, <1>8, <1>9, <1>10, <1>11, <1>12, <1>13, <1>14, <1>15 DEF IInv

-----------------------------------------------------------------------------
(* What the user does besides starting runs.                                *)

LEMMA CancelStep ==
  ASSUME IInv, CancelRun
  PROVE  IInv'
<1>1. /\ UNCHANGED <<world, app, ask, stopped, passes, records, promised, taken>>
      /\ dismissed' = dismissed \cup Attached \cup ({pump.job} \ {0})
      /\ by' = [j \in Jobs |-> IF j \in Attached THEN "none" ELSE by[j]]
      /\ running /\ running' = (running /\ Attached = {})
      /\ pump' = [pump EXCEPT !.live = FALSE]
  BY DEF CancelRun, world, app, passes, records
<1>2. LedgerDrops(Attached)
  BY ForgetDrops DEF CancelRun
<1>3. /\ pump'.pc = pump.pc /\ pump'.job = pump.job /\ pump'.live = FALSE
      /\ pump' \in PumpStates
  <2>1. CASE pump = Idle
    BY <1>1, <2>1 DEF Idle, PumpStates
  <2>2. CASE pump \in [pc : {"persist", "post"}, job : Jobs, live : BOOLEAN]
    <3>1. pump' \in [pc : {"persist", "post"}, job : Jobs, live : BOOLEAN]
      BY <1>1, <2>2
    <3> QED
      BY <1>1, <2>2, <3>1 DEF PumpStates
  <2> QED
    BY <2>1, <2>2 DEF IInv, TypeOK, RailType, PumpStates
<1>4. /\ Attached \subseteq Jobs /\ Attached \subseteq Earlier /\ Attached \cap PassRows = {}
      /\ (Attached # {} => pump.pc = "idle" /\ read = "yes")
      /\ \A j \in Attached : by[j] = "att" /\ by'[j] = "none"
  <2>1. \A j \in Attached : j \in Jobs /\ by[j] = "att" /\ by[j] # "none"
    BY DEF Attached
  <2>2. \A j \in Attached : j \in Earlier /\ j \notin PassRows
    BY <2>1 DEF IInv, OnlyKnownRuns, PassShape
  <2>3. Attached # {} => read = "yes"
    BY <2>1, <2>2 DEF IInv, Unread
  <2> QED
    BY <1>1, <2>1, <2>2, <2>3 DEF IInv, RailOwner
<1>5. /\ by' \in [Jobs -> {"none", "head", "lost", "att"}]
      /\ \A j \in Jobs : j \notin Attached => by'[j] = by[j]
      /\ Attached' = {} /\ PassRows' = PassRows
  <2>1. by' \in [Jobs -> {"none", "head", "lost", "att"}]
    BY <1>1 DEF IInv, TypeOK, WatchType
  <2>2. \A j \in Jobs : j \notin Attached => by'[j] = by[j]
    BY <1>1
  <2>3. \A j \in Jobs : j \notin Attached'
    BY <1>1, <1>4, <2>2 DEF Attached
  <2> QED
    BY <1>1, <2>1, <2>2, <2>3 DEF Attached, passes, PassRows
<1>6. {pump.job} \ {0} = IF pump.pc = "idle" THEN {} ELSE {pump.job}
  BY PumpShape, JobsAreNumbers
<1>7. pump.pc # "idle" => /\ pump.job \in Jobs /\ pump.job \notin Earlier /\ pump.job \in Known
                        /\ by[pump.job] = "none" /\ pump.job \notin PassRows
  BY PumpIsAlone
<1>8. TypeOK'
  <2>1. WorldType' /\ RailType' /\ PassType'
    BY <1>1, <1>3 DEF IInv, TypeOK, WorldType, RailType, PassType, world, app, passes
  <2>2. WatchType' /\ LedgerType'
    BY <1>1, <1>2, <1>5 DEF IInv, TypeOK, WatchType, LedgerDrops
  <2>3. RecordType'
    BY <1>1, <1>4, <1>6, <1>7 DEF IInv, TypeOK, RecordType, records
  <2> QED
    BY <2>1, <2>2, <2>3 DEF TypeOK
<1>9. OnlyKnownRuns'
  <2>1. Known' = Known /\ Earlier' = Earlier /\ Earlier \subseteq Known
    BY <1>1, JobsAssumption DEF Known, Earlier, world, app, IInv, OnlyKnownRuns, TypeOK, WorldType
  <2>2. dismissed' \subseteq Known
    BY <1>1, <1>4, <1>6, <1>7, <2>1 DEF IInv, OnlyKnownRuns
  <2>3. ASSUME NEW j \in Jobs \ Known PROVE by'[j] = "none"
    BY <1>4, <1>5, <2>1 DEF IInv, OnlyKnownRuns
  <2>4. ASSUME NEW j \in Jobs \ Earlier PROVE by'[j] \notin {"head", "att"}
    BY <1>4, <1>5 DEF IInv, OnlyKnownRuns
  <2> QED
    BY <1>1, <1>2, <2>1, <2>2, <2>3, <2>4 DEF IInv, OnlyKnownRuns, LedgerDrops, world, app, records
<1>10. PumpIsNewest'
  BY <1>1, <1>3, <1>4, <1>5, <1>6, <1>7 DEF IInv, PumpIsNewest, world, app, records
<1>11. Unread'
  <2>1. read # "yes" => by' = by
    <3>1. read # "yes" => \A j \in Jobs : by'[j] = by[j]
      BY <1>4, <1>5
    <3> QED
      BY <1>5, <3>1 DEF IInv, TypeOK, WatchType
  <2> QED
    BY <1>1, <1>2, <1>5, <2>1 DEF IInv, Unread, LedgerDrops, app, passes, Earlier
<1>12. PassShape'
  <2>1. \A j \in Jobs : by'[j] # "none" => by[j] # "none"
    BY <1>4, <1>5
  <2>2. PassRows \subseteq Jobs
    BY DEF IInv, TypeOK, PassType, PassStates, PassRows
  <2>3. \A j \in PassRows : by'[j] = "none" /\ ask[j] \in {"no", "listing"}
    BY <2>1, <2>2 DEF IInv, PassShape
  <2>4. \A j \in Jobs : by'[j] # "none" => j \notin stopped
    BY <2>1 DEF IInv, PassShape
  <2>5. Earlier' = Earlier /\ pass' = pass /\ stopped' = stopped /\ ask' = ask
    BY <1>1 DEF app, Earlier, passes
  <2> QED
    BY <1>5, <2>3, <2>4, <2>5 DEF IInv, PassShape
<1>13. RailOwner'
  BY <1>1, <1>3, <1>5 DEF IInv, RailOwner
<1>14. DismissedInv'
  <2>1. ASSUME NEW j \in dismissed'
        PROVE  /\ by'[j] = "none" \/ ask[j] = "settling"
               /\ j \in Earlier => j \in stopped \/ GoneRow(j)'
    <3>1. CASE j \in Attached
      BY <1>1, <1>2, <1>4, <3>1 DEF GoneRow, LedgerDrops, PassRows, passes
    <3>2. CASE pump.pc # "idle" /\ j = pump.job
      <4>1. j \notin Attached
        BY <1>7, <3>2, <1>4
      <4> QED
        BY <1>5, <1>7, <3>2, <4>1
    <3>3. CASE j \in dismissed /\ j \notin Attached
      <4>1. by'[j] = by[j]
        BY <1>5, <3>3 DEF IInv, TypeOK, RecordType
      <4>2. GoneRow(j) => GoneRow(j)'
        BY <1>1, <1>2 DEF GoneRow, LedgerDrops, At, Cur, passes, world
      <4> QED
        BY <3>3, <4>1, <4>2 DEF IInv, DismissedInv
    <3> QED
      BY <1>1, <1>6, <3>1, <3>2, <3>3
  <2>2. ASSUME NEW j \in Jobs, ask[j] = "listing"
        PROVE  /\ ~backend' /\ by'[j] = "none" /\ j \notin pass'.running /\ ~At(j)'
               /\ j \in pass'.todo => ~pass'.backend
    BY <1>1, <1>4, <1>5, <2>2 DEF IInv, DismissedInv, At, Cur, passes, world
  <2>3. Earlier' = Earlier /\ stopped' \subseteq dismissed' /\ stopped' = stopped /\ ask' = ask
    BY <1>1 DEF IInv, DismissedInv, app, Earlier
  <2> QED
    BY <2>1, <2>2, <2>3 DEF DismissedInv
<1>15. RowsOwned'
  <2>1. /\ rows' \cap Earlier' = (rows \cap Earlier) \ Attached /\ Earlier' = Earlier
        /\ (read' = "yes" <=> read = "yes") /\ stopped' = stopped /\ ask' = ask
    BY <1>1, <1>2 DEF LedgerDrops, app, Earlier
  <2>2. ASSUME NEW j \in (rows \cap Earlier) \ Attached PROVE by'[j] = by[j]
    BY <1>5 DEF IInv, TypeOK, LedgerType
  <2>3. ASSUME NEW j \in (rows \cap Earlier) \ Attached, read = "yes" PROVE Owned(j)'
    <3>1. Owned(j)
      BY <2>3 DEF IInv, RowsOwned
    <3> QED
      BY <1>1, <1>5, <2>2, <3>1 DEF Owned, passes
  <2> QED
    BY <1>1, <2>1, <2>2, <2>3 DEF IInv, RowsOwned, Cur, passes
<1>16. PromiseInv'
  <2>1. promised \subseteq Jobs /\ rec' = rec /\ stopped' = stopped /\ UNCHANGED <<base, promised, taken>>
    BY <1>1 DEF IInv, TypeOK, RecordType, records, app
  <2> QED
    BY <1>1, <1>2, <1>4, <1>5, <2>1, PromisesKept
<1>17. PersistInv'
  BY <1>2, <1>3, <1>4 DEF LedgerDrops
<1> QED
  BY <1>2, <1>8, <1>9, <1>10, <1>11, <1>12, <1>13, <1>14, <1>15, <1>16, <1>17
     DEF IInv, LedgerDrops

LEMMA DeleteStep ==
  ASSUME IInv, NEW j \in Jobs, DeleteRecord(j)
  PROVE  IInv'
<1>1. /\ UNCHANGED <<world, rail, app, ask, passes, promised, taken>>
      /\ rec[j] \in {"failed", "done"} /\ rec' = [rec EXCEPT ![j] = "none"]
      /\ \E old \in {rec[j], recDisk[j]} : recDisk' = [recDisk EXCEPT ![j] = old]
      /\ dismissed' = dismissed \cup ({j} \ Attached)
      /\ UNCHANGED <<disk, failed, faults>>
  BY DEF DeleteRecord, Keeps, world, rail, app, passes
<1>2. j # pump.job \/ pump.pc = "idle"
  BY <1>1 DEF IInv, OnlyKnownRuns, PumpIsNewest
<1>3. j \in Known
  BY <1>1 DEF IInv, OnlyKnownRuns
<1>4. CASE by[j] = "att"
  <2>1. UNCHANGED <<rows, read, owed, io, by, stopped>>
    BY <1>4 DEF DeleteRecord
  <2>2. j \in Earlier /\ read = "yes" /\ j \notin PassRows
    BY <1>4 DEF IInv, OnlyKnownRuns, Unread, PassShape
  <2>3. \/ j \in Attached /\ dismissed' = dismissed
        \/ ask[j] = "settling" /\ j \notin Attached /\ j \notin rows /\ dismissed' = dismissed \cup {j}
    BY <1>1, <1>4, <2>2 DEF Attached, IInv, RowsOwned
  <2>4. LedgerDrops({}) /\ Attached' = Attached /\ PassRows' = PassRows
    BY <1>1, <2>1, KeepsLedger DEF ledger, Attached, PassRows, passes
  <2>5. \A i \in (promised \ Taken) \ dismissed' : i = j => InLedger(i)
    <3> SUFFICES ASSUME j \in promised \ Taken, j \notin dismissed' PROVE InLedger(j)
      OBVIOUS
    <3>1. j \in Attached /\ j \notin dismissed
      BY <2>3
    <3>2. j \in rows \cap Earlier
      BY <2>2, <3>1 DEF IInv, PromiseInv
    <3> QED
      BY <2>2, <3>2 DEF IInv, PromiseInv
  <2>6. TypeOK'
    BY <1>1, <1>3, <2>1, <2>2, <2>3, <2>4 DEF IInv, TypeOK, WorldType, LedgerType, RailType,
       WatchType, PassType, RecordType, world, app, rail, passes, LedgerDrops
  <2>7. OnlyKnownRuns'
    BY <1>1, <1>3, <2>1, <2>2, <2>3, <2>4 DEF IInv, OnlyKnownRuns, TypeOK, WatchType, RecordType,
       Known, Earlier, world, app, rail, passes, LedgerDrops
  <2>8. PumpIsNewest'
    BY <1>1, <1>3, <2>1, <2>2, <2>3, <2>4 DEF IInv, PumpIsNewest, TypeOK, WatchType, RecordType,
       world, app, rail, passes, LedgerDrops
  <2>9. Unread'
    BY <1>1, <1>3, <2>1, <2>2, <2>3, <2>4 DEF IInv, Unread, TypeOK, WatchType, Earlier, PassRows,
       world, app, rail, passes, LedgerDrops
  <2>10. PassShape'
    BY <1>1, <1>3, <2>1, <2>2, <2>3, <2>4 DEF IInv, PassShape, TypeOK, WatchType, Earlier,
       PassRows, world, app, rail, passes, LedgerDrops
  <2>11. RailOwner'
    BY <1>1, <2>4 DEF IInv, RailOwner, rail
  <2>12. DismissedInv'
    <3>1. ASSUME NEW i \in dismissed'
          PROVE  /\ by[i] = "none" \/ ask[i] = "settling"
                 /\ i \in Earlier => i \in stopped \/ GoneRow(i)
      <4>1. CASE i \in dismissed
        BY <4>1 DEF IInv, DismissedInv
      <4>2. CASE i = j /\ ask[j] = "settling" /\ j \notin rows
        BY <2>2, <4>2 DEF GoneRow, PassRows
      <4> QED
        BY <2>3, <4>1, <4>2
    <3>2. /\ dismissed \subseteq dismissed' /\ UNCHANGED <<pass, backend, rows, read, disk, by, ask, stopped>>
          /\ Earlier' = Earlier
      BY <1>1, <2>1 DEF world, app, passes, Earlier
    <3>3. \A i : (GoneRow(i)' <=> GoneRow(i)) /\ (At(i)' <=> At(i))
      BY <3>2 DEF GoneRow, At, Cur
    <3> QED
      BY <3>1, <3>2, <3>3 DEF IInv, DismissedInv
  <2>13. RowsOwned'
    BY <1>1, <1>3, <2>1, <2>2, <2>3, <2>4 DEF IInv, RowsOwned, TypeOK, WatchType, Owned, Earlier,
       Cur, Talks, PassRows, world, app, rail, passes, LedgerDrops
  <2>14. PromiseInv'
    <3>1. ASSUME NEW i \in (promised' \ Taken') \ dismissed' PROVE rec'[i] # "none" \/ InLedger(i)'
      <4>1. i \in (promised \ Taken) \ dismissed /\ i \in Jobs
        BY <1>1 DEF IInv, TypeOK, RecordType
      <4>2. InLedger(i) => InLedger(i)'
        BY <2>4, <4>1 DEF LedgerDrops
      <4>3. rec[i] # "none" \/ InLedger(i)
        BY <4>1 DEF IInv, PromiseInv
      <4>4. i # j => rec'[i] = rec[i]
        BY <1>1, <4>1 DEF IInv, TypeOK, RecordType
      <4> QED
        BY <1>1, <2>5, <4>2, <4>3, <4>4
    <3>2. ASSUME NEW i \in rows' \cap Earlier', read' = "yes" PROVE InLedger(i)'
      BY <1>1, <2>1, <3>2 DEF IInv, PromiseInv, InLedger, app, Earlier
    <3>3. ASSUME NEW i \in (promised' \ Taken') \ dismissed', i \in Attached' \cup (PassRows' \ stopped')
          PROVE  i \in rows'
      BY <1>1, <2>1, <2>4, <3>3 DEF IInv, PromiseInv
    <3> QED
      BY <3>1, <3>2, <3>3 DEF PromiseInv
  <2> QED
    BY <1>1, <2>4, <2>6, <2>7, <2>8, <2>9, <2>10, <2>11, <2>12, <2>13, <2>14 DEF IInv, LedgerDrops, rail
<1>5. CASE by[j] # "att"
  <2>1. /\ stopped' = stopped \cup {j} /\ by' = [i \in Jobs |-> IF i = j THEN "none" ELSE by[i]]
        /\ dismissed' = dismissed \cup {j} /\ j \notin Attached /\ Forget({j})
    BY <1>1, <1>5 DEF DeleteRecord, StopOrphans, Attached
  <2>2. LedgerDrops({j})
    BY <1>1, <2>1, ForgetDrops
  <2>3. /\ by'[j] = "none" /\ \A i \in Jobs : i # j => by'[i] = by[i]
        /\ by' \in [Jobs -> {"none", "head", "lost", "att"}]
    BY <2>1 DEF IInv, TypeOK, WatchType
  <2>4. Attached' = Attached /\ PassRows' = PassRows
    BY <1>1, <1>5, <2>3 DEF Attached, PassRows, passes
  <2>5. pump.pc # "idle" => j # pump.job
    BY <1>1, <1>2
  <2>6. /\ stopped' = stopped \cup {j} /\ dismissed' = dismissed \cup {j} /\ rows' = rows \ {j}
        /\ (read' = "yes" <=> read = "yes") /\ disk' = disk /\ failed' = failed
        /\ ask' = ask /\ pass' = pass /\ Cur' = Cur /\ pump' = pump /\ backend' = backend
        /\ Earlier' = Earlier /\ Known' = Known /\ UNCHANGED <<next, base>>
        /\ UNCHANGED <<rerun, timer, retries>>
    BY <1>1, <2>1, <2>2 DEF LedgerDrops, passes, rail, world, app, Earlier, Known, Cur
  <2>7. TypeOK'
    <3>1. RecordType'
      <4>1. rec' \in [Jobs -> {"none", "own", "failed", "done"}]
        BY <1>1 DEF IInv, TypeOK, RecordType
      <4>2. recDisk' \in [Jobs -> {"none", "own", "failed", "done"}]
        BY <1>1 DEF IInv, TypeOK, RecordType
      <4> QED
        BY <1>1, <2>6, <4>1, <4>2 DEF IInv, TypeOK, RecordType
    <3> QED
      BY <1>1, <2>2, <2>3, <2>6, <3>1 DEF IInv, TypeOK, WorldType, RailType, WatchType, PassType,
         world, app, rail, passes, LedgerDrops
  <2>8. OnlyKnownRuns'
    <3>1. ASSUME NEW i \in Jobs \ Known PROVE by'[i] = "none" /\ rec'[i] = "none" /\ recDisk'[i] = "none"
      BY <1>1, <1>3, <2>3 DEF IInv, OnlyKnownRuns, TypeOK, RecordType
    <3>2. ASSUME NEW i \in Jobs \ Earlier PROVE by'[i] \notin {"head", "att"}
      BY <2>3 DEF IInv, OnlyKnownRuns
    <3>3. \A c \in Range(io') : c.rows \subseteq Known /\ c.for < next
      BY <2>2 DEF LedgerDrops
    <3> QED
      BY <1>1, <1>3, <2>6, <3>1, <3>2, <3>3 DEF IInv, OnlyKnownRuns
  <2>9. PumpIsNewest'
    <3> SUFFICES ASSUME pump.pc # "idle" PROVE PumpIsNewest'
      BY <2>6 DEF PumpIsNewest
    <3>1. pump.job \in Jobs /\ pump.job # j
      BY <2>5, PumpShape
    <3> QED
      BY <1>1, <2>3, <2>6, <3>1 DEF IInv, PumpIsNewest, TypeOK, RecordType
  <2>10. Unread'
    <3>1. ASSUME read # "yes", NEW i \in Earlier PROVE by'[i] = "none"
      <4>1. i \in Jobs
        BY JobsAssumption DEF Earlier, Jobs, IInv, TypeOK, WorldType
      <4> QED
        BY <2>3, <3>1, <4>1 DEF IInv, Unread
    <3> QED
      BY <2>4, <2>6, <3>1 DEF IInv, Unread
  <2>11. PassShape'
    <3>1. PassRows \subseteq Jobs
      BY DEF IInv, TypeOK, PassType, PassStates, PassRows
    <3>2. \A i \in PassRows : by'[i] = "none" /\ ask[i] \in {"no", "listing"}
      BY <2>3, <3>1 DEF IInv, PassShape
    <3>3. \A i \in Jobs : by'[i] # "none" => i \notin stopped'
      BY <2>3, <2>6 DEF IInv, PassShape
    <3> QED
      BY <2>4, <2>6, <3>2, <3>3 DEF IInv, PassShape
  <2>12. RailOwner'
    BY <1>1, <2>4 DEF IInv, RailOwner, rail
  <2>13. DismissedInv'
    <3>1. ASSUME NEW i \in dismissed'
          PROVE  /\ by'[i] = "none" \/ ask[i] = "settling"
                 /\ i \in Earlier => i \in stopped' \/ GoneRow(i)'
      <4>1. CASE i = j
        BY <2>3, <2>6, <4>1
      <4>2. CASE i # j
        <5>1. i \in dismissed /\ i \in Jobs
          BY <2>6, <4>2 DEF IInv, TypeOK, RecordType
        <5>2. GoneRow(i) => GoneRow(i)'
          BY <2>6 DEF GoneRow, At
        <5> QED
          BY <2>3, <2>6, <4>2, <5>1, <5>2 DEF IInv, DismissedInv
      <4> QED
        BY <4>1, <4>2
    <3>2. ASSUME NEW i \in Jobs, ask[i] = "listing"
          PROVE  /\ ~backend /\ by'[i] = "none" /\ i \notin pass.running /\ ~At(i)'
                 /\ i \in pass.todo => ~pass.backend
      BY <2>3, <2>6, <3>2 DEF IInv, DismissedInv, At
    <3> QED
      BY <2>6, <3>1, <3>2 DEF IInv, DismissedInv
  <2>14. RowsOwned'
    <3>1. ASSUME NEW i \in rows' \cap Earlier
          PROVE  i \in rows \cap Earlier /\ i # j /\ by'[i] = by[i] /\ (i \in stopped' => i \in stopped)
      BY <2>3, <2>6 DEF IInv, TypeOK, LedgerType
    <3>2. ASSUME NEW i \in rows' \cap Earlier, read = "yes" PROVE Owned(i)'
      <4>1. Owned(i)
        BY <3>1, <3>2 DEF IInv, RowsOwned
      <4> QED
        BY <2>4, <2>6, <3>1, <4>1 DEF Owned
    <3> QED
      BY <2>6, <3>1, <3>2 DEF IInv, RowsOwned
  <2>15. PromiseInv'
    BY <1>1, <2>1, <2>2, <2>4, PromisesKept DEF app, IInv, TypeOK, RecordType
  <2>16. PersistInv'
    BY <2>2, <2>5, <2>6 DEF LedgerDrops
  <2> QED
    BY <2>2, <2>7, <2>8, <2>9, <2>10, <2>11, <2>12, <2>13, <2>14, <2>15, <2>16 DEF IInv, LedgerDrops
<1> QED
  BY <1>4, <1>5

(* A record opened or closed shows other rows; a backend removed is asked    *)
(* no more.                                                                 *)
LEMMA ViewStep ==
  ASSUME IInv, UNCHANGED <<world, ledger, running, pump, app, watches, passes, records, ghosts>>
  PROVE  IInv'
<1>1. /\ UNCHANGED <<next, backend, rows, disk, read, failed, owed, io, faults, running, pump>>
      /\ UNCHANGED <<launch, base, by, ask, stopped, pass, rerun, timer, retries>>
      /\ UNCHANGED <<rec, recDisk, promised, dismissed, taken>>
  BY DEF world, ledger, app, watches, passes, records, ghosts
<1>2. /\ Known' = Known /\ Earlier' = Earlier /\ PassRows' = PassRows /\ Attached' = Attached
      /\ Cur' = Cur /\ \A j : /\ (At(j)' <=> At(j)) /\ (InLedger(j)' <=> InLedger(j))
                             /\ (Covering(io, j)' <=> Covering(io, j))
  BY <1>1 DEF Known, Earlier, PassRows, Attached, Cur, At, InLedger, Covering
<1>3. \A j : (GoneRow(j)' <=> GoneRow(j)) /\ (Owned(j)' <=> Owned(j))
  BY <1>1, <1>2 DEF GoneRow, Owned
<1>4. TypeOK' /\ OnlyKnownRuns' /\ PumpIsNewest' /\ IoShape' /\ Unread'
  <2>1. TypeOK'
    BY <1>1 DEF IInv, TypeOK, WorldType, LedgerType, RailType, WatchType, PassType, RecordType
  <2>2. OnlyKnownRuns'
    BY <1>1, <1>2 DEF IInv, OnlyKnownRuns
  <2>3. PumpIsNewest'
    BY <1>1 DEF IInv, PumpIsNewest
  <2>4. IoShape' /\ Unread'
    BY <1>1, <1>2 DEF IInv, IoShape, Unread
  <2> QED
    BY <2>1, <2>2, <2>3, <2>4
<1>5. PassShape' /\ RailOwner' /\ DismissedInv'
  BY <1>1, <1>2, <1>3 DEF IInv, PassShape, RailOwner, DismissedInv
<1>6. RowsOwned' /\ PromiseInv'
  BY <1>1, <1>2, <1>3 DEF IInv, RowsOwned, PromiseInv
<1>7. PersistInv'
  BY <1>1, KeepsLedger DEF LedgerDrops, ledger
<1> QED
  BY <1>4, <1>5, <1>6, <1>7 DEF IInv

LEMMA BackendStep ==
  ASSUME IInv, RemoveBackend
  PROVE  IInv'
<1>1. /\ UNCHANGED <<next, rows, disk, read, failed, owed, io, faults, running, pump>>
      /\ UNCHANGED <<launch, base, by, ask, stopped, pass, rerun, timer, retries>>
      /\ UNCHANGED <<rec, recDisk, promised, dismissed, taken>>
      /\ backend' = FALSE
  BY DEF RemoveBackend, ledger, rail, app, watches, passes, records, ghosts
<1>2. /\ Known' = Known /\ Earlier' = Earlier /\ PassRows' = PassRows /\ Attached' = Attached
      /\ Cur' = Cur /\ \A j : (At(j)' <=> At(j)) /\ (InLedger(j)' <=> InLedger(j))
  BY <1>1 DEF Known, Earlier, PassRows, Attached, Cur, At, InLedger
<1>3. \A j : (GoneRow(j) => GoneRow(j)') /\ (Owned(j)' <=> Owned(j))
  BY <1>1, <1>2 DEF GoneRow, Owned
<1>4. TypeOK' /\ OnlyKnownRuns' /\ PumpIsNewest' /\ IoShape' /\ Unread'
  <2>1. TypeOK'
    BY <1>1 DEF IInv, TypeOK, WorldType, LedgerType, RailType, WatchType, PassType, RecordType
  <2>2. OnlyKnownRuns'
    BY <1>1, <1>2 DEF IInv, OnlyKnownRuns
  <2>3. PumpIsNewest'
    BY <1>1 DEF IInv, PumpIsNewest
  <2>4. IoShape' /\ Unread'
    BY <1>1, <1>2 DEF IInv, IoShape, Unread
  <2> QED
    BY <2>1, <2>2, <2>3, <2>4
<1>5. PassShape' /\ RailOwner' /\ DismissedInv'
  BY <1>1, <1>2, <1>3 DEF IInv, PassShape, RailOwner, DismissedInv
<1>6. RowsOwned' /\ PromiseInv'
  BY <1>1, <1>2, <1>3 DEF IInv, RowsOwned, PromiseInv
<1>7. PersistInv'
  BY <1>1, KeepsLedger DEF LedgerDrops, ledger
<1> QED
  BY <1>4, <1>5, <1>6, <1>7 DEF IInv

-----------------------------------------------------------------------------
(* The app starts again: nothing is in the ledger, and every run so far is   *)
(* an earlier launch's.                                                     *)

LEMMA BootedType == Booted \in PassStates /\ Idle \in PumpStates /\ <<Load>> \in Seq(Call)
BY DEF Booted, PassStates, PumpStates, Call

LEMMA RelaunchStep ==
  ASSUME IInv, Relaunch
  PROVE  IInv'
<1>1. /\ rows' = {} /\ read' = "reading" /\ failed' = FALSE /\ owed' = FALSE /\ io' = <<Load>>
      /\ running' = FALSE /\ pump' = Idle /\ pump'.pc = "idle"
      /\ base' = next /\ next' = next /\ launch' = launch + 1
      /\ UNCHANGED <<backend, disk, faults>>
  BY DEF Relaunch, world, Idle
<1>2. /\ by' = [j \in Jobs |-> "none"] /\ ask' = [j \in Jobs |-> "no"] /\ stopped' = {}
      /\ pass' = Booted /\ rerun' = FALSE /\ timer' = FALSE /\ retries' = 0
      /\ pass'.todo = {} /\ pass'.running = {} /\ pass'.pc = "load" /\ PassRows' = {}
      /\ Attached' = {}
  BY DEF Relaunch, NoJobs, Booted, PassRows, Attached
<1>3. /\ rec' \in [Jobs -> {"none", "own", "failed", "done"}] /\ recDisk' = rec'
      /\ \A j \in Jobs : rec'[j] \in {rec[j], recDisk[j]}
      /\ promised' = promised /\ dismissed' = dismissed \ disk
      /\ taken' = [j \in Jobs |-> IF j \notin disk /\ rec'[j] = "none" /\ rec[j] # "none"
                                 THEN rec[j] ELSE taken[j]]
  <2>1. rec' \in [Jobs -> {rec[j] : j \in Jobs} \cup {recDisk[j] : j \in Jobs}]
    BY DEF Relaunch
  <2>2. {rec[j] : j \in Jobs} \cup {recDisk[j] : j \in Jobs} \subseteq {"none", "own", "failed", "done"}
    BY DEF IInv, TypeOK, RecordType
  <2>3. rec' \in [Jobs -> {"none", "own", "failed", "done"}]
    BY <2>1, <2>2
  <2> QED
    BY <2>3 DEF Relaunch
<1>4. Range(io') = {Load} /\ Load.rows = {} /\ Load.op # "save" /\ Load.for = 0
  BY <1>1, RangeOne, CallParts DEF IInv
<1>5. Known' = Known /\ Earlier' = Known
  BY <1>1 DEF Known, Earlier
<1>6. TypeOK'
  <2>1. WorldType'
    BY <1>1 DEF IInv, TypeOK, WorldType
  <2>2. LedgerType'
    BY <1>1, BootedType DEF IInv, TypeOK, LedgerType
  <2>3. RailType'
    BY <1>1, BootedType DEF RailType
  <2>4. WatchType'
    BY <1>2 DEF WatchType
  <2>5. PassType'
    <3>1. 0 \in 0 .. MaxRetries
      BY JobsAssumption
    <3> QED
      BY <1>2, <3>1, BootedType DEF PassType
  <2>6. RecordType'
    BY <1>3 DEF IInv, TypeOK, RecordType
  <2> QED
    BY <2>1, <2>2, <2>3, <2>4, <2>5, <2>6 DEF TypeOK
<1>7. OnlyKnownRuns'
  <2>1. 0 < next /\ next <= next
    BY JobsAssumption DEF IInv, TypeOK, WorldType
  <2>2. ASSUME NEW j \in Jobs \ Known PROVE rec'[j] = "none" /\ recDisk'[j] = "none"
    BY <1>3 DEF IInv, OnlyKnownRuns
  <2> QED
    BY <1>1, <1>2, <1>3, <1>4, <1>5, <2>1, <2>2 DEF IInv, OnlyKnownRuns
<1>8. PumpIsNewest' /\ PersistInv' /\ RailOwner'
  BY <1>1, <1>2 DEF PumpIsNewest, PersistInv, RailOwner
<1>9. IoShape' /\ Unread'
  BY <1>1, <1>2, <1>5, JobsAssumption DEF IoShape, Unread, Known, Jobs, IInv, TypeOK, WorldType
<1>10. PassShape'
  BY <1>2 DEF PassShape, Talks
<1>11. DismissedInv'
  <2>1. dismissed \subseteq Jobs
    BY DEF IInv, TypeOK, RecordType
  <2>2. ASSUME NEW j \in dismissed' PROVE by'[j] = "none" /\ GoneRow(j)'
    BY <1>1, <1>2, <1>3, <2>1 DEF GoneRow
  <2> QED
    BY <1>2, <2>2 DEF DismissedInv
<1>12. RowsOwned'
  BY <1>1 DEF RowsOwned
<1>13. PromiseInv'
  <2>1. ASSUME NEW j \in (promised' \ Taken') \ dismissed' PROVE rec'[j] # "none" \/ InLedger(j)'
    <3>1. CASE j \in disk
      BY <1>1, <1>4, <3>1 DEF InLedger
    <3>2. CASE j \notin disk
      <4>1. /\ j \in Jobs /\ j \in promised \ dismissed
            /\ taken'[j] = "none"
        BY <1>3, <2>1, <3>2 DEF IInv, TypeOK, RecordType
      <4>2. /\ rec'[j] # "none" \/ rec[j] = "none"
            /\ taken[j] = "none" \/ rec'[j] # "none"
        BY <1>3, <3>2, <4>1 DEF IInv, TypeOK, RecordType
      <4> QED
        BY <3>2, <4>1, <4>2 DEF IInv, PromiseInv, InLedger
    <3> QED
      BY <3>1, <3>2
  <2> QED
    BY <1>1, <1>2, <2>1 DEF PromiseInv
<1> QED
  BY <1>6, <1>7, <1>8, <1>9, <1>10, <1>11, <1>12, <1>13 DEF IInv

LEMMA InitIInv == Init => IInv
<1> SUFFICES ASSUME Init PROVE IInv
  OBVIOUS
<1>1. /\ next = 1 /\ backend = TRUE /\ launch = 1 /\ base = 1
      /\ rows = {} /\ disk = {} /\ read = "reading" /\ failed = FALSE
      /\ owed = FALSE /\ io = <<Load>> /\ faults = 0
      /\ running = FALSE /\ pump = Idle /\ pump.pc = "idle"
  BY DEF Init, Idle
<1>2. /\ by = [j \in Jobs |-> "none"] /\ ask = [j \in Jobs |-> "no"] /\ stopped = {}
      /\ pass = Booted /\ rerun = FALSE /\ timer = FALSE /\ retries = 0
      /\ pass.todo = {} /\ pass.running = {} /\ pass.pc = "load" /\ PassRows = {}
      /\ Attached = {}
      /\ rec = [j \in Jobs |-> "none"] /\ recDisk = [j \in Jobs |-> "none"]
      /\ promised = {} /\ dismissed = {} /\ taken = [j \in Jobs |-> "none"]
  BY DEF Init, NoJobs, Booted, PassRows, Attached
<1>3. Known = {} /\ Earlier = {}
  BY <1>1 DEF Known, Earlier
<1>4. Range(io) = {Load} /\ Load.rows = {} /\ Load.for = 0
  BY <1>1, RangeOne DEF Load
<1>5. TypeOK
  <2>1. 0 \in 0 .. MaxRetries /\ 1 \in 1 .. MaxJobs + 1 /\ 0 \in Nat /\ 1 \in Nat
    BY JobsAssumption
  <2>2. WorldType /\ LedgerType /\ RailType
    BY <1>1, <2>1, BootedType DEF WorldType, LedgerType, RailType
  <2>3. WatchType /\ PassType /\ RecordType
    BY <1>2, <2>1, BootedType DEF WatchType, PassType, RecordType
  <2> QED
    BY <2>2, <2>3 DEF TypeOK
<1>6. OnlyKnownRuns
  <2>1. 0 < next /\ base <= next
    BY <1>1
  <2> QED
    BY <1>1, <1>2, <1>4, <2>1 DEF OnlyKnownRuns
<1>7. PumpIsNewest /\ PersistInv /\ RailOwner /\ IoShape /\ Unread
  BY <1>1, <1>2, <1>3 DEF PumpIsNewest, PersistInv, RailOwner, IoShape, Unread
<1>8. PassShape /\ DismissedInv /\ RowsOwned /\ PromiseInv
  BY <1>1, <1>2, <1>3 DEF PassShape, DismissedInv, RowsOwned, PromiseInv, Talks
<1> QED
  BY <1>5, <1>6, <1>7, <1>8 DEF IInv

-----------------------------------------------------------------------------
(* The ledger's calls.                                                      *)

LEMMA HeadSettles ==
  ASSUME IInv, io # <<>>
  PROVE  /\ Tail(io) \in Seq(Call) /\ Head(io) \in Range(io)
         /\ Range(Tail(io)) \subseteq Range(io)
         /\ \A c \in Range(io) : c = Head(io) \/ c \in Range(Tail(io))
         /\ Head(io).op = "load" => read = "reading" /\ io = <<Load>> /\ Tail(io) = <<>>
         /\ Head(io).op = "save" => read = "yes"
<1>1. io \in Seq(Call) /\ Len(io) \in Nat /\ Len(io) # 0
  BY DEF IInv, TypeOK, LedgerType
<1>2. /\ Tail(io) \in Seq(Call) /\ Len(Tail(io)) = Len(io) - 1 /\ Head(io) = io[1]
      /\ \A i \in 1 .. Len(io) - 1 : Tail(io)[i] = io[i + 1]
  BY <1>1
<1>3. Head(io) \in Range(io)
  BY <1>1, <1>2 DEF Range
<1>4. ASSUME NEW c \in Range(Tail(io)) PROVE c \in Range(io)
  <2>1. PICK i \in 1 .. Len(io) - 1 : c = Tail(io)[i]
    BY <1>2 DEF Range
  <2>2. c = io[i + 1] /\ i + 1 \in 1 .. Len(io)
    BY <1>1, <1>2, <2>1
  <2> QED
    BY <1>1, <2>2 DEF Range
<1>5. ASSUME NEW c \in Range(io), c # Head(io) PROVE c \in Range(Tail(io))
  <2>1. PICK i \in 1 .. Len(io) : c = io[i]
    BY <1>1 DEF Range
  <2>2. i # 1 /\ i - 1 \in 1 .. Len(Tail(io))
    BY <1>1, <1>2, <1>5, <2>1
  <2>3. Tail(io)[i - 1] = io[i] /\ i - 1 \in DOMAIN Tail(io)
    BY <1>1, <1>2, <2>2
  <2> QED
    BY <2>1, <2>3 DEF Range
<1>6. ASSUME Head(io).op = "load" PROVE read = "reading" /\ io = <<Load>> /\ Tail(io) = <<>>
  <2>1. read # "yes" /\ read # "no"
    BY <1>3, <1>6 DEF IInv, IoShape
  <2>2. read = "reading" /\ io = <<Load>>
    BY <2>1 DEF IInv, IoShape, TypeOK, LedgerType
  <2> QED
    BY <2>2
<1>7. ASSUME Head(io).op = "save" PROVE read = "yes"
  <2>1. read = "reading" => Head(io) = Load
    BY DEF IInv, IoShape
  <2> QED
    BY <1>7, <2>1 DEF Load, IInv, IoShape, TypeOK, LedgerType
<1> QED
  BY <1>2, <1>3, <1>4, <1>5, <1>6, <1>7

LEMMA SaveStep ==
  ASSUME IInv, SaveLands
  PROVE  IInv'
<1>1. /\ UNCHANGED <<world, rail, app, watches, passes, records, ghosts>>
      /\ UNCHANGED <<rows, read, failed, owed>>
      /\ io # <<>> /\ Head(io).op = "save" /\ io' = Tail(io)
      /\ \/ disk' = Head(io).rows /\ faults' = faults
         \/ disk' = disk /\ faults' = faults + 1
  BY DEF SaveLands
<1>2. /\ io' \in Seq(Call) /\ Head(io) \in Range(io) /\ read = "yes" /\ read' = "yes"
      /\ Range(io') \subseteq Range(io)
      /\ \A c \in Range(io) : c = Head(io) \/ c \in Range(io')
  BY <1>1, HeadSettles
<1>3. /\ Known' = Known /\ Earlier' = Earlier /\ PassRows' = PassRows /\ Attached' = Attached
      /\ Cur' = Cur /\ \A j : At(j)' <=> At(j)
  BY <1>1 DEF Known, Earlier, PassRows, Attached, Cur, At, world, rail, app, watches, passes
<1>4. \A j : InLedger(j) => InLedger(j)'
  BY <1>1, <1>2 DEF InLedger
<1>5. disk' \subseteq Jobs /\ disk' \subseteq Known /\ faults' \in Nat
  <2>1. Head(io) \in Call /\ Head(io).rows \subseteq Known
    BY <1>2 DEF IInv, OnlyKnownRuns, TypeOK, LedgerType, Range
  <2>2. Head(io).rows \subseteq Jobs
    BY <2>1 DEF Call, Save, Load
  <2>3. disk \subseteq Jobs /\ disk \subseteq Known /\ faults \in Nat
    BY DEF IInv, OnlyKnownRuns, TypeOK, LedgerType
  <2> QED
    BY <1>1, <2>1, <2>2, <2>3
<1>6. \A j : (GoneRow(j)' <=> GoneRow(j)) /\ (Owned(j)' <=> Owned(j))
  BY <1>1, <1>2, <1>3 DEF GoneRow, Owned, world, app, watches, passes
<1>7. TypeOK'
  BY <1>1, <1>2, <1>5 DEF IInv, TypeOK, WorldType, LedgerType, RailType, WatchType, PassType, RecordType,
     world, rail, app, watches, passes, records, ghosts
<1>8. OnlyKnownRuns'
  BY <1>1, <1>2, <1>3, <1>5 DEF IInv, OnlyKnownRuns, world, app, watches, records, ghosts
<1>9. PumpIsNewest' /\ IoShape' /\ Unread'
  BY <1>1, <1>2, <1>3 DEF IInv, PumpIsNewest, IoShape, Unread, world, rail, app, watches, records, ghosts
<1>10. PassShape' /\ RailOwner' /\ DismissedInv'
  BY <1>1, <1>3, <1>6 DEF IInv, PassShape, RailOwner, DismissedInv, world, rail, watches, passes, ghosts
<1>11. RowsOwned' /\ PromiseInv'
  BY <1>1, <1>3, <1>4, <1>6 DEF IInv, RowsOwned, PromiseInv, watches, passes, records, ghosts
<1>12. PersistInv'
  <2> SUFFICES ASSUME pump.pc = "persist" PROVE PersistInv'
    BY <1>1 DEF PersistInv, rail
  <2>1. /\ pump.job \in rows /\ Covering(io, pump.job)
        /\ \A c \in Range(io) : c.for = pump.job => pump.job \in c.rows
        /\ faults = 0 /\ pump.job \notin disk => \E c \in Range(io) : c.for = pump.job
    BY <1>2 DEF IInv, PersistInv
  <2>2. /\ Len(io) \in Nat /\ Len(io) # 0 /\ Len(io') = Len(io) - 1
        /\ Head(io) = io[1] /\ \A i \in 1 .. Len(io) - 1 : io'[i] = io[i + 1]
    BY <1>1 DEF IInv, TypeOK, LedgerType
  <2>3. Covering(io', pump.job)
    <3> SUFFICES ASSUME NEW i \in 1 .. Len(io'), io'[i].op = "save", pump.job \notin io'[i].rows
                 PROVE  \E k \in (i + 1) .. Len(io') : io'[k].for = pump.job
      BY DEF Covering
    <3>1. i + 1 \in 1 .. Len(io) /\ io'[i] = io[i + 1]
      BY <2>2
    <3>2. PICK k \in (i + 2) .. Len(io) : io[k].for = pump.job
      BY <2>1, <3>1 DEF Covering
    <3>3. k - 1 \in (i + 1) .. Len(io') /\ k - 1 \in 1 .. Len(io) - 1 /\ (k - 1) + 1 = k
      BY <2>2, <3>2
    <3> QED
      BY <2>2, <3>2, <3>3
  <2>4. ASSUME faults' = 0, pump.job \notin disk' PROVE \E c \in Range(io') : c.for = pump.job
    <3>1. disk' = Head(io).rows
      <4>1. faults \in Nat
        BY DEF IInv, TypeOK, LedgerType
      <4> QED
        BY <1>1, <2>4, <4>1
    <3>2. 1 \in 1 .. Len(io) /\ io[1].op = "save" /\ pump.job \notin io[1].rows
      BY <1>1, <2>2, <2>4, <3>1
    <3>3. PICK k \in 2 .. Len(io) : io[k].for = pump.job
      BY <2>1, <3>2 DEF Covering
    <3>4. k - 1 \in 1 .. Len(io') /\ io'[k - 1] = io[k]
      BY <2>2, <3>3
    <3>5. io'[k - 1] \in Range(io')
      BY <1>2, <3>4 DEF Range
    <3> QED
      BY <3>3, <3>4, <3>5
  <2>5. \A c \in Range(io') : c.for = pump.job => pump.job \in c.rows
    BY <1>2, <2>1
  <2> QED
    BY <1>1, <1>2, <2>1, <2>3, <2>4, <2>5 DEF PersistInv, rail
<1> QED
  BY <1>7, <1>8, <1>9, <1>10, <1>11, <1>12 DEF IInv

(* A ledger not read yet: nobody works on an earlier launch's run.           *)
LEMMA UnreadPass ==
  ASSUME IInv, read # "yes"
  PROVE  /\ pass.todo = {} /\ pass.running = {} /\ pass.pc \in {"idle", "load", "collect", "next"}
         /\ Attached = {} /\ PassRows = {}
         /\ \A j \in Jobs : by[j] \notin {"head", "att"} /\ ask[j] # "listing"
<1>1. PassRows = {} /\ pass.todo = {} /\ pass.running = {}
  BY DEF IInv, Unread, PassRows
<1>2. \A j \in Jobs : by[j] \notin {"head", "att"} /\ ask[j] # "listing"
  BY DEF IInv, Unread, OnlyKnownRuns
<1>3. Attached = {}
  BY <1>2 DEF Attached
<1>4. pass.pc \in {"idle", "load", "collect", "next"}
  <2>1. pass.pc \in {"idle", "load", "collect", "next", "listing"} \cup Talks
    BY DEF IInv, TypeOK, PassType, PassStates
  <2> QED
    BY <1>1, <2>1 DEF IInv, PassShape
<1> QED
  BY <1>1, <1>2, <1>3, <1>4

LEMMA LoadFailStep ==
  ASSUME IInv, LoadFails
  PROVE  IInv'
<1>1. /\ UNCHANGED <<world, rail, app, watches, rerun, timer, retries, records, ghosts>>
      /\ UNCHANGED <<rows, disk>> /\ faults' = faults + 1
      /\ io # <<>> /\ Head(io).op = "load" /\ io' = Tail(io)
      /\ read' = "no" /\ failed' = TRUE /\ owed' = FALSE
      /\ pass' = IF pass.pc = "load" THEN [pass EXCEPT !.pc = "collect", !.retry = TRUE] ELSE pass
  BY DEF LoadFails
<1>2. io' = <<>> /\ read = "reading" /\ read # "yes"
  BY <1>1, HeadSettles
<1>3. /\ pass.todo = {} /\ pass.running = {} /\ pass.pc \in {"idle", "load", "collect", "next"}
      /\ Attached = {} /\ PassRows = {}
      /\ \A j \in Jobs : by[j] \notin {"head", "att"} /\ ask[j] # "listing"
  BY <1>2, UnreadPass
<1>4. /\ pass' \in PassStates /\ pass'.todo = {} /\ pass'.running = {} /\ PassRows' = {}
      /\ pass'.pc \in {"idle", "collect", "next"}
  <2>1. pass \in PassStates
    BY DEF IInv, TypeOK, PassType
  <2> QED
    BY <1>1, <1>3, <2>1 DEF PassStates, PassRows
<1>5. Known' = Known /\ Earlier' = Earlier /\ Attached' = Attached /\ Range(io') = {}
  BY <1>1, <1>2 DEF Known, Earlier, Attached, world, rail, app, watches, Range
<1>6. TypeOK'
  <2>1. LedgerType'
    <3>1. faults' \in Nat /\ io' \in Seq(Call)
      BY <1>1, <1>2 DEF IInv, TypeOK, LedgerType
    <3> QED
      BY <1>1, <3>1 DEF IInv, TypeOK, LedgerType
  <2> QED
    BY <1>1, <1>4, <2>1 DEF IInv, TypeOK, WorldType, RailType, WatchType, PassType, RecordType,
       world, rail, app, watches, records, ghosts
<1>7. OnlyKnownRuns' /\ PumpIsNewest' /\ IoShape'
  BY <1>1, <1>2, <1>5 DEF IInv, OnlyKnownRuns, PumpIsNewest, IoShape, world, rail, app, watches, records, ghosts
<1>8. Unread'
  BY <1>1, <1>2, <1>4, <1>5 DEF IInv, Unread, watches
<1>9. PassShape'
  BY <1>1, <1>4, <1>5 DEF IInv, PassShape, watches, Talks
<1>10. RailOwner'
  BY <1>1, <1>5 DEF IInv, RailOwner, rail
<1>11. DismissedInv'
  <2>1. \A j \in dismissed : GoneRow(j) => GoneRow(j)'
    BY <1>1, <1>2, <1>4 DEF GoneRow
  <2> QED
    BY <1>1, <1>3, <1>5, <2>1 DEF IInv, DismissedInv, watches, ghosts
<1>12. RowsOwned'
  <2>1. pass'.pc \notin Talks \cup {"listing"}
    BY <1>4 DEF Talks
  <2> QED
    BY <1>1, <1>4, <1>5, <2>1 DEF IInv, RowsOwned, watches
<1>13. PromiseInv'
  <2>1. \A j : InLedger(j) => InLedger(j)'
    BY <1>1, <1>5 DEF InLedger
  <2> QED
    BY <1>1, <1>3, <1>4, <1>5, <2>1 DEF IInv, PromiseInv, records, ghosts
<1>14. PersistInv'
  <2>1. faults' > 0
    BY <1>1 DEF IInv, TypeOK, LedgerType
  <2> QED
    BY <1>1, <2>1 DEF IInv, PersistInv, rail
<1> QED
  BY <1>6, <1>7, <1>8, <1>9, <1>10, <1>11, <1>12, <1>13, <1>14 DEF IInv

LEMMA LoadStep ==
  ASSUME IInv, LoadLands
  PROVE  IInv'
<1>1. /\ UNCHANGED <<world, disk, failed, faults, rail, app, watches, timer, retries, records, dismissed, taken>>
      /\ io # <<>> /\ Head(io).op = "load" /\ read' = "yes" /\ owed' = FALSE /\ LateLoad
  BY DEF LoadLands
<1>2. PICK old \in SUBSET disk, n \in Fits :
        /\ rows' = Bounded((disk \ old) \cup rows, n)
        /\ promised' = promised \ ((disk \cup rows) \ rows')
        /\ io' = Tail(io) \o IF owed THEN <<Save(rows', pump.job)>> ELSE <<>>
  BY DEF LoadLands
<1>3. read = "reading" /\ read # "yes" /\ Tail(io) = <<>>
  BY <1>1, HeadSettles
<1>4. /\ pass.todo = {} /\ pass.running = {} /\ pass.pc \in {"idle", "load", "collect", "next"}
      /\ Attached = {} /\ PassRows = {}
      /\ \A j \in Jobs : by[j] \notin {"head", "att"} /\ ask[j] # "listing"
  BY <1>3, UnreadPass
<1>5. rows' \subseteq disk \cup rows /\ rows' \in SUBSET Jobs /\ rows' \subseteq Known
  <2>1. rows' \subseteq disk \cup rows
    BY <1>2 DEF Bounded
  <2> QED
    BY <2>1 DEF IInv, OnlyKnownRuns, TypeOK, LedgerType
<1>6. pump.pc = "persist" => pump.job \in rows'
  <2> SUFFICES ASSUME pump.pc = "persist" PROVE pump.job \in rows'
    OBVIOUS
  <2>1. pump.job \in rows /\ pump.job = next - 1 /\ pump.job \in Nat
    BY PumpShape, JobsAreNumbers DEF IInv, PersistInv
  <2> DEFINE all == (disk \ old) \cup rows
  <2>2. \A k \in all : ~(k > pump.job)
    <3>1. \A k \in all : k \in 1 .. next - 1
      BY DEF IInv, OnlyKnownRuns, Known
    <3> QED
      BY <2>1, <3>1
  <2>3. {k \in all : k > pump.job} = {}
    BY <2>2
  <2>4. Cardinality({k \in all : k > pump.job}) < n
    BY <2>3, FS_EmptySet, JobsAssumption DEF Fits
  <2> QED
    BY <1>2, <2>1, <2>4 DEF Bounded
<1> DEFINE call == Save(rows', pump.job)
<1>7. /\ call \in Call /\ call.op = "save" /\ call.rows = rows' /\ call.for = pump.job
      /\ pump.job \in 0 .. MaxJobs /\ pump.job < next
  <2>1. pump.job \in 0 .. MaxJobs /\ pump.job < next
    <3>1. next \in Nat /\ next # 0
      BY JobsAssumption DEF IInv, TypeOK, WorldType
    <3>2. CASE pump.pc = "idle"
      BY <3>1, <3>2, PumpShape, JobsAssumption
    <3>3. CASE pump.pc # "idle"
      BY <3>1, <3>3, PumpShape, JobsAssumption DEF Jobs
    <3> QED
      BY <3>2, <3>3
  <2> QED
    BY <1>5, <2>1, CallParts DEF IInv
<1> HIDE DEF call
<1>8. /\ io' \in Seq(Call)
      /\ \A c \in Range(io') : c = call
      /\ owed => io' = <<call>> /\ call \in Range(io')
  <2>1. CASE owed
    <3>1. <<>> \o <<call>> = <<call>>
      <4>1. <<call>> \in Seq(Call)
        BY <1>7
      <4> QED
        BY <4>1, ConcatEmptySeq
    <3>2. io' = <<call>>
      BY <1>2, <1>3, <2>1, <3>1 DEF call
    <3> QED
      BY <1>7, <3>2, RangeOne
  <2>2. CASE ~owed
    <3>1. io' = <<>>
      BY <1>2, <1>3, <2>2
    <3> QED
      BY <2>2, <3>1 DEF Range
  <2> QED
    BY <2>1, <2>2
<1>9. /\ pass' \in PassStates /\ pass'.todo = {} /\ pass'.running = {} /\ PassRows' = {}
      /\ rerun' \in BOOLEAN /\ pass'.pc \notin Talks \cup {"listing"}
      /\ pass'.pc = "collect" \/ rerun'
  <2>1. pass \in PassStates /\ rerun \in BOOLEAN
    BY DEF IInv, TypeOK, PassType
  <2>2. failed \/ pass.pc = "load"
    BY <1>3 DEF IInv, Unread
  <2>3. ASSUME pass' = [pass EXCEPT !.pc = "collect"], rerun' = rerun
        PROVE  /\ pass' \in PassStates /\ pass'.todo = {} /\ pass'.running = {} /\ PassRows' = {}
               /\ rerun' \in BOOLEAN /\ pass'.pc \notin Talks \cup {"listing"}
               /\ pass'.pc = "collect" \/ rerun'
    BY <1>4, <2>1, <2>3 DEF PassStates, PassRows, Talks
  <2>4. CASE pass.pc \notin {"idle", "load"}
    <3>1. pass' = pass /\ rerun' = TRUE
      BY <1>1, <2>2, <2>4 DEF LateLoad
    <3> QED
      BY <1>4, <2>1, <3>1 DEF PassRows, Talks
  <2> QED
    <3>1. CASE pass.pc = "load"
      <4>1. pass' = [pass EXCEPT !.pc = "collect"] /\ rerun' = rerun
        BY <1>1, <3>1 DEF LateLoad
      <4> QED
        BY <2>3, <4>1
    <3>2. CASE pass.pc = "idle"
      <4>1. pass.pc # "load"
        BY <3>2
      <4>2. failed
        BY <2>2, <4>1
      <4>3. pass' = [pass EXCEPT !.pc = "collect"] /\ rerun' = rerun
        BY <1>1, <3>2, <4>1, <4>2 DEF LateLoad
      <4> QED
        BY <2>3, <4>3
    <3>3. CASE pass.pc \notin {"idle", "load"}
      BY <2>4, <3>3
    <3> QED
      BY <3>1, <3>2, <3>3
<1>10. /\ Known' = Known /\ Earlier' = Earlier /\ Attached' = Attached
       /\ \A j \in Earlier : by[j] = "none" /\ ask[j] = "no" /\ j \notin rows
  BY <1>1, <1>3 DEF Known, Earlier, Attached, world, app, rail, watches, IInv, Unread
<1>11. \A j \in rows' : j \in disk => InLedger(j)'
  BY <1>1, <1>7, <1>8 DEF InLedger
<1>12. TypeOK'
  <2>1. LedgerType'
    BY <1>1, <1>5, <1>8 DEF IInv, TypeOK, LedgerType
  <2>2. promised' \subseteq promised
    BY <1>2
  <2> QED
    BY <1>1, <1>9, <2>1, <2>2 DEF IInv, TypeOK, WorldType, RailType, WatchType, PassType, RecordType,
       world, rail, app, watches, records
<1>13. OnlyKnownRuns'
  <2>1. \A c \in Range(io') : c.rows \subseteq Known /\ c.for < next
    BY <1>5, <1>7, <1>8
  <2>2. promised' \subseteq promised /\ next' = next
    BY <1>1, <1>2 DEF world
  <2> QED
    BY <1>1, <1>5, <1>10, <2>1, <2>2 DEF IInv, OnlyKnownRuns, app, watches, records
<1>14. PumpIsNewest'
  BY <1>1 DEF IInv, PumpIsNewest, world, rail, app, watches, records
<1>15. IoShape' /\ Unread'
  BY <1>1, <1>7, <1>8 DEF IoShape, Unread
<1>16. PassShape'
  BY <1>1, <1>9, <1>10 DEF IInv, PassShape, watches
<1>17. RailOwner'
  BY <1>1, <1>10 DEF IInv, RailOwner, rail
<1>18. DismissedInv'
  <2>1. pass'.pc \notin Talks
    BY <1>9
  <2>2. ASSUME NEW j \in dismissed, j \in Earlier PROVE j \in stopped \/ GoneRow(j)'
    <3>1. GoneRow(j) => j \notin disk \cup rows
      BY <1>3, <1>10, <2>2 DEF GoneRow
    <3>2. GoneRow(j) => GoneRow(j)'
      BY <1>1, <1>5, <1>9, <3>1 DEF GoneRow
    <3> QED
      BY <2>2, <3>2 DEF IInv, DismissedInv
  <2> QED
    BY <1>1, <1>4, <1>10, <2>1, <2>2 DEF IInv, DismissedInv, watches
<1>19. RowsOwned'
  <2>1. \A j : Owned(j)'
    BY <1>9 DEF Owned
  <2> QED
    BY <1>1, <1>9, <1>10, <2>1 DEF RowsOwned, watches
<1>20. PromiseInv'
  <2>1. ASSUME NEW j \in (promised' \ Taken') \ dismissed' PROVE rec'[j] # "none" \/ InLedger(j)'
    <3>1. j \in (promised \ Taken) \ dismissed /\ (j \in disk => j \in rows') /\ rec' = rec
      BY <1>1, <1>2 DEF records
    <3>2. rec[j] # "none" \/ j \in disk
      BY <3>1 DEF IInv, PromiseInv, InLedger
    <3> QED
      BY <1>11, <3>1, <3>2
  <2>2. ASSUME NEW j \in rows' \cap Earlier' PROVE InLedger(j)'
    BY <1>5, <1>10, <1>11
  <2>3. Attached' \cup (PassRows' \ stopped') = {}
    BY <1>4, <1>9, <1>10
  <2> QED
    BY <2>1, <2>2, <2>3 DEF PromiseInv
<1>21. PersistInv'
  <2> SUFFICES ASSUME pump.pc = "persist" PROVE PersistInv'
    BY <1>1 DEF PersistInv, rail
  <2>1. pump.job \in rows' /\ call.rows = rows'
    BY <1>6, <1>7
  <2>2. Covering(io', pump.job)
    <3>1. \A i \in 1 .. Len(io') : io'[i] \in Range(io')
      BY <1>8 DEF Range
    <3> QED
      BY <1>8, <2>1, <3>1 DEF Covering
  <2>3. faults' = 0 => \E c \in Range(io') : c.for = pump.job
    <3>1. faults = 0 => owed
      BY <1>3 DEF IInv, PersistInv
    <3> QED
      BY <1>1, <1>7, <1>8, <3>1
  <2>4. \A c \in Range(io') : c.for = pump.job => pump.job \in c.rows
    BY <1>8, <2>1
  <2> QED
    BY <1>1, <2>1, <2>2, <2>3, <2>4 DEF PersistInv, rail
<1> QED
  BY <1>12, <1>13, <1>14, <1>15, <1>16, <1>17, <1>18, <1>19, <1>20, <1>21 DEF IInv


-----------------------------------------------------------------------------
(* There is an id for every queued file: a batch starts only when it fits,   *)
(* and nothing is queued once the pump that was to run it has ended.         *)
Statuses == {"none", "queued", "running", "failed", "done", "cancelled"}
Room ==
  /\ queue \in [Paths -> Statuses]
  /\ ~pump.live => Queued(queue) = {}
  /\ Cardinality(Queued(queue)) + next - 1 <= MaxJobs

LEMMA QueuedIsFinite ==
  ASSUME NEW q
  PROVE  /\ IsFiniteSet(Queued(q)) /\ Cardinality(Queued(q)) \in Nat
         /\ Cardinality(Queued(q)) = 0 <=> Queued(q) = {}
<1>1. Queued(q) \in SUBSET Paths /\ IsFiniteSet(Paths)
  BY JobsAssumption DEF Queued
<1>2. IsFiniteSet(Queued(q))
  BY <1>1, FS_Subset
<1> QED
  BY <1>2, FS_CardinalityType, FS_EmptySet

LEMMA RoomShrinks ==
  ASSUME IInv, Room, queue' \in [Paths -> Statuses], Queued(queue') \subseteq Queued(queue),
         next' = next, pump'.live = pump.live \/ Queued(queue') = {}
  PROVE  Room'
<1>1. IsFiniteSet(Queued(queue)) /\ Queued(queue') \in SUBSET Queued(queue)
  BY QueuedIsFinite
<1>2. Cardinality(Queued(queue')) <= Cardinality(Queued(queue))
  BY <1>1, FS_Subset
<1>3. /\ Cardinality(Queued(queue')) \in Nat /\ Cardinality(Queued(queue)) \in Nat
      /\ next \in Nat /\ MaxJobs \in Nat
  BY QueuedIsFinite, JobsAssumption DEF IInv, TypeOK, WorldType
<1>4. Cardinality(Queued(queue')) + next' - 1 <= MaxJobs
  BY <1>2, <1>3 DEF Room
<1>5. ~pump'.live => Queued(queue') = {}
  BY DEF Room
<1> QED
  BY <1>4, <1>5 DEF Room, Queued

(* The pump takes a queued file and an id at the same time.                 *)
LEMMA RoomGoesOn ==
  ASSUME IInv, NEW q \in [Paths -> Statuses], NEW S, PumpGoesOn(q, S),
         Cardinality(Queued(q)) + next - 1 <= MaxJobs
  PROVE  Room' /\ (next \in Jobs \/ Queued(q) = {})
<1>1. next \in Nat /\ next # 0 /\ MaxJobs \in Nat
  BY JobsAssumption DEF IInv, TypeOK, WorldType
<1>2. IsFiniteSet(Queued(q)) /\ Cardinality(Queued(q)) \in Nat
  BY QueuedIsFinite
<1>3. CASE Queued(q) = {}
  <2>1. queue' = q /\ next' = next
    BY <1>3 DEF PumpGoesOn
  <2> QED
    BY <1>3, <2>1 DEF Room, Queued
<1>4. CASE Queued(q) # {}
  <2>1. PICK p \in Queued(q) : queue' = [q EXCEPT ![p] = "running"]
    BY <1>4 DEF PumpGoesOn
  <2>2. next' = next + 1 /\ pump'.live
    <3>1. next' = next + 1 /\ pump' = [pc |-> "persist", job |-> next, live |-> TRUE]
      BY <1>4 DEF PumpGoesOn
    <3> QED
      BY <3>1, Zenon
  <2>3. queue' \in [Paths -> Statuses] /\ Queued(queue') = Queued(q) \ {p}
    BY <2>1 DEF Queued, Statuses
  <2>4. Cardinality(Queued(q)) # 0
    BY <1>4, QueuedIsFinite
  <2>5. Cardinality(Queued(q) \ {p}) = Cardinality(Queued(q)) - 1
    BY <1>2, <2>1, FS_RemoveElement
  <2>6. Cardinality(Queued(queue')) + next' - 1 <= MaxJobs
    BY <1>1, <1>2, <2>2, <2>3, <2>5
  <2>7. next \in Jobs
    BY <1>1, <1>2, <2>4 DEF Jobs
  <2>8. Cardinality(Queued(queue)') + next' - 1 <= MaxJobs
    BY <2>6 DEF Queued
  <2> QED
    BY <2>2, <2>3, <2>7, <2>8 DEF Room
<1> QED
  BY <1>3, <1>4


LEMMA QueuedFiles ==
  ASSUME NEW F \in SUBSET Paths, NEW q,
         q = [p \in Paths |-> IF p \in F THEN "queued" ELSE "none"]
  PROVE  q \in [Paths -> Statuses] /\ Queued(q) = F
BY DEF Queued, Statuses

LEMMA StartStep ==
  ASSUME IInv, Room, NEW F \in SUBSET Paths, StartRun(F)
  PROVE  IInv' /\ Room'
<1> DEFINE q == [p \in Paths |-> IF p \in F THEN "queued" ELSE "none"]
<1>1. /\ ~running /\ StopOrphans(OrphansOf(F)) /\ GiveUpFiles(F)
      /\ PumpGoesOn(q, OrphansOf(F)) /\ F # {} /\ next + Cardinality(F) - 1 <= MaxJobs
      /\ UNCHANGED <<backend, disk, failed, faults, app, ask, passes, records, taken>>
  BY DEF StartRun
<1>2. q \in [Paths -> Statuses] /\ Queued(q) = F
  BY QueuedFiles
<1> HIDE DEF q
<1>3. Cardinality(Queued(q)) + next - 1 <= MaxJobs
  <2>1. Cardinality(F) \in Nat
    BY <1>2, QueuedIsFinite
  <2>2. next \in Nat /\ MaxJobs \in Nat
    BY JobsAssumption DEF IInv, TypeOK, WorldType
  <2> QED
    BY <1>1, <1>2, <2>1, <2>2
<1>4. Room' /\ (next \in Jobs \/ Queued(q) = {})
  BY <1>1, <1>2, <1>3, RoomGoesOn
<1>5. TakesNext(q, OrphansOf(F))
  BY <1>1, <1>2, <1>4, PumpStep
<1>6. IInv'
  BY <1>1, <1>5, UserStarts
<1> QED
  BY <1>4, <1>6

LEMMA RetryStep ==
  ASSUME IInv, Room, NEW p \in Paths, RetryFile(p)
  PROVE  IInv' /\ Room'
<1> DEFINE q == [queue EXCEPT ![p] = "queued"]
<1>1. /\ ~running /\ StopOrphans(OrphansOf({p})) /\ GiveUpFiles({p})
      /\ PumpGoesOn(q, OrphansOf({p})) /\ next <= MaxJobs
      /\ UNCHANGED <<backend, disk, failed, faults, app, ask, passes, records, taken>>
  BY DEF RetryFile
<1>2. Queued(queue) = {}
  <2>1. pump.pc = "idle"
    BY <1>1 DEF IInv, RailOwner
  <2>2. ~pump.live
    <3>1. pump = Idle
      BY <2>1 DEF IInv, TypeOK, RailType, PumpStates
    <3> QED
      BY <3>1 DEF Idle
  <2> QED
    BY <2>2 DEF Room
<1>3. q \in [Paths -> Statuses] /\ Queued(q) = {p}
  BY <1>2 DEF Room, Queued, Statuses
<1> HIDE DEF q
<1>4. Cardinality(Queued(q)) + next - 1 <= MaxJobs
  <2>1. Cardinality({p}) = 1
    BY FS_Singleton
  <2>2. next \in Nat /\ MaxJobs \in Nat
    BY JobsAssumption DEF IInv, TypeOK, WorldType
  <2> QED
    BY <1>1, <1>3, <2>1, <2>2
<1>5. Room' /\ (next \in Jobs \/ Queued(q) = {})
  BY <1>1, <1>3, <1>4, RoomGoesOn
<1>6. TakesNext(q, OrphansOf({p}))
  BY <1>1, <1>3, <1>5, PumpStep
<1>7. IInv'
  BY <1>1, <1>6, UserStarts
<1> QED
  BY <1>5, <1>7

(* The pump's steps.                                                        *)
LEMMA ShowsResult ==
  ASSUME IInv, Room, NEW x, NEW s \in {"done", "failed"}
  PROVE  /\ [queue EXCEPT ![x] = s] \in [Paths -> Statuses]
         /\ Queued([queue EXCEPT ![x] = s]) \subseteq Queued(queue)
         /\ Cardinality(Queued([queue EXCEPT ![x] = s])) + next - 1 <= MaxJobs
<1> DEFINE q == [queue EXCEPT ![x] = s]
<1>1. q \in [Paths -> Statuses] /\ Queued(q) \subseteq Queued(queue)
  BY DEF Room, Queued, Statuses
<1> HIDE DEF q
<1>2. Cardinality(Queued(q)) <= Cardinality(Queued(queue))
  BY <1>1, QueuedIsFinite, FS_Subset
<1>3. /\ Cardinality(Queued(q)) \in Nat /\ Cardinality(Queued(queue)) \in Nat
      /\ next \in Nat /\ MaxJobs \in Nat
  BY QueuedIsFinite, JobsAssumption DEF IInv, TypeOK, WorldType
<1>4. Cardinality(Queued(q)) + next - 1 <= MaxJobs
  BY <1>2, <1>3 DEF Room
<1> QED
  BY <1>1, <1>4 DEF q

LEMMA PumpRuns ==
  ASSUME IInv, Room, Pump
  PROVE  IInv' /\ Room'
<1>1. CASE PumpPosts
  <2>1. UNCHANGED <<next, queue>> /\ pump.pc = "persist" /\ ~Awaited(pump.job)
    BY <1>1 DEF PumpPosts, world
  <2>2. UNCHANGED <<world, disk, failed, faults, app, watches, passes, records, dismissed, taken>>
    BY <1>1 DEF PumpPosts
  <2>3. CASE pump.live
    <3>1. /\ pump' = [pump EXCEPT !.pc = "post"]
          /\ promised' = IF pump.job \in disk \/ faults = 0
                         THEN promised \cup {pump.job} ELSE promised
          /\ UNCHANGED <<ledger, running>>
      BY <1>1, <2>3 DEF PumpPosts, ledger
    <3>2. IInv'
      BY <2>1, <2>2, <2>3, <3>1, PumpSends
    <3>3. pump'.live = pump.live
      BY <3>1 DEF IInv, TypeOK, RailType, PumpStates, Idle
    <3> QED
      BY <2>1, <3>2, <3>3, RoomShrinks DEF Room
  <2>4. CASE ~pump.live
    <3>1. Forget({pump.job}) /\ pump' = Idle /\ running' = FALSE /\ UNCHANGED <<promised, taken>>
      BY <1>1, <2>4 DEF PumpPosts
    <3>2. IInv'
      BY <2>1, <2>2, <2>4, <3>1, PumpGivesUp DEF ghosts
    <3>3. Queued(queue') = {}
      BY <2>1, <2>4 DEF Room
    <3> QED
      BY <2>1, <3>2, <3>3, RoomShrinks DEF Room
  <2> QED
    BY <2>3, <2>4
<1>2. CASE PumpUnwinds
  <2>1. /\ pump.pc # "idle" /\ ~pump.live /\ Forget({pump.job}) /\ pump' = Idle
        /\ running' = FALSE /\ queue' = queue
        /\ UNCHANGED <<world, disk, failed, faults, app, watches, passes, records, ghosts>>
    BY <1>2 DEF PumpUnwinds
  <2>2. IInv'
    BY <2>1, PumpGivesUp
  <2>3. Queued(queue') = {} /\ next' = next
    BY <2>1 DEF Room, world
  <2> QED
    BY <2>1, <2>2, <2>3, RoomShrinks DEF Room
<1>3. CASE PumpSettles
  <2>1. PICK s \in {"done", "failed"} :
          PumpGoesOn([queue EXCEPT ![path[pump.job]] = s], {pump.job})
    BY <1>3 DEF PumpSettles
  <2> DEFINE q == [queue EXCEPT ![path[pump.job]] = s]
  <2>2. q \in [Paths -> Statuses] /\ Cardinality(Queued(q)) + next - 1 <= MaxJobs
    BY ShowsResult
  <2>3. PumpGoesOn(q, {pump.job})
    BY <2>1
  <2> HIDE DEF q
  <2>4. Room' /\ (next \in Jobs \/ Queued(q) = {})
    BY <2>2, <2>3, RoomGoesOn
  <2>5. /\ pump.pc = "post" /\ pump.live
        /\ rec' = [rec EXCEPT ![pump.job] = "own"]
        /\ \E old \in {rec[pump.job], recDisk[pump.job]} : recDisk' = [recDisk EXCEPT ![pump.job] = old]
        /\ UNCHANGED <<backend, disk, failed, faults, app, watches, passes, dismissed, taken>>
    BY <1>3 DEF PumpSettles, Keeps
  <2>6. by' = by /\ UNCHANGED <<ask, stopped>>
    BY <2>5 DEF watches
  <2>7. IInv'
    BY <2>3, <2>4, <2>5, <2>6, PumpRecords
  <2> QED
    BY <2>4, <2>7
<1>4. CASE PumpLosesContact
  <2> DEFINE q == [queue EXCEPT ![path[pump.job]] = "failed"]
  <2>2. q \in [Paths -> Statuses] /\ Cardinality(Queued(q)) + next - 1 <= MaxJobs
    BY ShowsResult
  <2>3. PumpGoesOn(q, {})
    BY <1>4 DEF PumpLosesContact
  <2> HIDE DEF q
  <2>4. Room' /\ (next \in Jobs \/ Queued(q) = {})
    BY <2>2, <2>3, RoomGoesOn
  <2>5. /\ pump.pc = "post" /\ pump.live
        /\ rec' = [rec EXCEPT ![pump.job] = "failed"]
        /\ \E old \in {rec[pump.job], recDisk[pump.job]} : recDisk' = [recDisk EXCEPT ![pump.job] = old]
        /\ by' = by \/ by' = [by EXCEPT ![pump.job] = "lost"]
        /\ UNCHANGED <<backend, disk, failed, faults, app, ask, stopped, passes, dismissed, taken>>
    BY <1>4 DEF PumpLosesContact, Keeps
  <2>6. IInv'
    BY <2>3, <2>4, <2>5, PumpRecords
  <2> QED
    BY <2>4, <2>6
<1> QED
  BY <1>1, <1>2, <1>3, <1>4 DEF Pump


(* A record changes rows to what they show at their end; the other steps     *)
(* leave the queue, or empty it.                                            *)
QueueOnlyShrinks ==
  /\ queue' \in [Paths -> Statuses] /\ Queued(queue') \subseteq Queued(queue)
  /\ UNCHANGED <<next, pump>>

LEMMA QueueStays ==
  ASSUME IInv, Room, UNCHANGED <<next, pump, queue>>
  PROVE  QueueOnlyShrinks
BY DEF QueueOnlyShrinks, Room

LEMMA RecordsShow ==
  ASSUME IInv, Room, NEW j, NEW s \in {"done", "failed"}, Records(j, s), UNCHANGED <<next, pump>>
  PROVE  QueueOnlyShrinks
<1> DEFINE q == [queue EXCEPT ![path[j]] = s]
<1>1. q \in [Paths -> Statuses] /\ Queued(q) \subseteq Queued(queue)
  BY ShowsResult
<1>2. queue' = queue \/ queue' = q
  BY DEF Records
<1> HIDE DEF q
<1>3. CASE queue' = q
  BY <1>1, <1>3 DEF QueueOnlyShrinks
<1> QED
  BY <1>2, <1>3, QueueStays

LEMMA WatcherShrinks ==
  ASSUME IInv, Room, NEW j \in Jobs, Watcher(j)
  PROVE  QueueOnlyShrinks
<1>1. CASE Tick(j)
  <2>1. UNCHANGED <<next, pump>> /\ (RecordsNothing \/ Records(j, "failed"))
    BY <1>1 DEF Tick, unwatched, Waits, GivesUp
  <2> QED
    BY <2>1, QueueStays, RecordsShow DEF RecordsNothing
<1>2. CASE AgesOut(j)
  <2>1. UNCHANGED <<next, pump>> /\ Records(j, "failed")
    BY <1>2 DEF AgesOut, unwatched, GivesUp
  <2> QED
    BY <2>1, RecordsShow
<1>3. CASE LateAnswer(j)
  <2>1. UNCHANGED <<next, pump, queue>>
    BY <1>3 DEF LateAnswer, unwatched, Waits, RecordsNothing
  <2> QED
    BY <2>1, QueueStays
<1>4. CASE StatusSays(j)
  <2>1. UNCHANGED <<next, pump>> /\ (RecordsNothing \/ Records(j, "failed"))
    BY <1>4 DEF StatusSays, unwatched, Waits, GivesUp
  <2> QED
    BY <2>1, QueueStays, RecordsShow DEF RecordsNothing
<1>5. CASE ResultSays(j)
  <2>1. UNCHANGED <<next, pump>> /\ (RecordsNothing \/ Records(j, "failed"))
    BY <1>5 DEF ResultSays, unwatched, Waits
  <2> QED
    BY <2>1, QueueStays, RecordsShow DEF RecordsNothing
<1>6. CASE Lands(j)
  <2>1. UNCHANGED <<next, pump>> /\ Records(j, "done")
    BY <1>6 DEF Lands, unwatched
  <2> QED
    BY <2>1, RecordsShow
<1>7. CASE WatchStops(j)
  <2>1. UNCHANGED <<next, pump, queue>>
    BY <1>7 DEF WatchStops, unwatched, RecordsNothing
  <2> QED
    BY <2>1, QueueStays
<1>8. CASE ListingSays(j)
  <2>1. UNCHANGED <<next, pump>> /\ (RecordsNothing \/ Records(j, "failed"))
    BY <1>8 DEF ListingSays, ListingKnown, unwatched
  <2> QED
    BY <2>1, QueueStays, RecordsShow DEF RecordsNothing
<1> QED
  BY <1>1, <1>2, <1>3, <1>4, <1>5, <1>6, <1>7, <1>8 DEF Watcher

LEMMA ReconcileShrinks ==
  ASSUME IInv, Room, Reconcile
  PROVE  QueueOnlyShrinks
<1>1. CASE TimerFires
  <2>1. UNCHANGED <<next, pump, queue>>
    BY <1>1 DEF TimerFires, world, rail
  <2> QED
    BY <2>1, QueueStays
<1>2. CASE PassCollects
  <2>1. UNCHANGED <<next, pump, queue>>
    BY <1>2 DEF PassCollects, world, rail
  <2> QED
    BY <2>1, QueueStays
<1>3. CASE PassTakes
  <2>1. UNCHANGED <<next, pump, queue>>
    BY <1>3 DEF PassTakes, rail
  <2> QED
    BY <2>1, QueueStays
<1>4. CASE PassHears
  <2>1. /\ UNCHANGED <<next, pump>>
        /\ RecordsNothing \/ Records(Cur, "failed") \/ Records(Cur, "done")
    BY <1>4 DEF PassHears, unwatched, PassSettles, PassGoes, PassLeaves
  <2> QED
    BY <2>1, QueueStays, RecordsShow DEF RecordsNothing
<1>5. CASE PassLists
  <2>1. UNCHANGED <<next, pump>> /\ (RecordsNothing \/ Records(Cur, "failed"))
    BY <1>5 DEF PassLists, ListingKnown, unwatched, PassLeaves
  <2> QED
    BY <2>1, QueueStays, RecordsShow DEF RecordsNothing
<1>6. CASE PassEnds
  <2>1. UNCHANGED <<next, pump>>
    BY <1>6 DEF PassEnds, world
  <2>2. queue' = queue \/ \E x : queue' = [queue EXCEPT ![x] = "running"]
    BY <1>6 DEF PassEnds
  <2> QED
    BY <2>1, <2>2 DEF QueueOnlyShrinks, Room, Queued, Statuses
<1> QED
  BY <1>1, <1>2, <1>3, <1>4, <1>5, <1>6 DEF Reconcile

LEMMA LedgerShrinks ==
  ASSUME IInv, Room, LedgerIO
  PROVE  QueueOnlyShrinks
<1>1. UNCHANGED <<next, pump, queue>>
  BY DEF LedgerIO, SaveLands, LoadLands, LoadFails, world, rail
<1> QED
  BY <1>1, QueueStays

LEMMA RoomKept ==
  ASSUME IInv, Room, QueueOnlyShrinks
  PROVE  Room'
BY RoomShrinks DEF QueueOnlyShrinks

LEMMA CancelEmpties ==
  ASSUME IInv, Room, CancelRun
  PROVE  Room'
<1>1. /\ next' = next
      /\ queue' = [p \in Paths |-> IF queue[p] \in {"queued", "running"}
                                   THEN "cancelled" ELSE queue[p]]
  BY DEF CancelRun
<1>2. queue' \in [Paths -> Statuses] /\ Queued(queue') = {}
  BY <1>1 DEF Room, Statuses, Queued
<1> QED
  BY <1>1, <1>2, RoomShrinks

LEMMA RelaunchEmpties ==
  ASSUME IInv, Room, Relaunch
  PROVE  Room'
<1>1. next' = next /\ queue' = [p \in Paths |-> "none"]
  BY DEF Relaunch, world
<1>2. queue' \in [Paths -> Statuses] /\ Queued(queue') = {}
  BY <1>1 DEF Statuses, Queued
<1> QED
  BY <1>1, <1>2, RoomShrinks

LEMMA RecordView ==
  ASSUME IInv, Room, NEW j \in Jobs, OpenRecord(j) \/ CloseRecord
  PROVE  IInv' /\ Room'
<1>1. UNCHANGED <<world, ledger, running, pump, app, watches, passes, records, ghosts>>
  BY DEF OpenRecord, CloseRecord
<1>2. IInv'
  BY <1>1, ViewStep
<1>3. queue' \in [Paths -> Statuses] /\ Queued(queue') = {}
  BY DEF OpenRecord, CloseRecord, Statuses, Queued
<1> QED
  BY <1>1, <1>2, <1>3, RoomShrinks DEF world

LEMMA UserStep ==
  ASSUME IInv, Room, User
  PROVE  IInv' /\ Room'
<1>1. CASE \E F \in SUBSET Paths : StartRun(F)
  BY <1>1, StartStep
<1>2. CASE \E p \in Paths : RetryFile(p)
  BY <1>2, RetryStep
<1>3. CASE \E j \in Jobs : OpenRecord(j)
  BY <1>3, RecordView
<1>4. CASE \E j \in Jobs : DeleteRecord(j)
  <2>1. PICK j \in Jobs : DeleteRecord(j)
    BY <1>4
  <2>2. UNCHANGED <<next, pump, queue>>
    BY <2>1 DEF DeleteRecord, rail
  <2> QED
    BY <2>1, <2>2, DeleteStep, QueueStays, RoomKept
<1>5. CASE CancelRun
  BY <1>5, CancelStep, CancelEmpties
<1>6. CASE CloseRecord
  <2>1. UNCHANGED <<world, ledger, running, pump, app, watches, passes, records, ghosts>>
    BY <1>6 DEF CloseRecord
  <2>2. queue' \in [Paths -> Statuses] /\ Queued(queue') = {}
    BY <1>6 DEF CloseRecord, Statuses, Queued
  <2> QED
    BY <2>1, <2>2, ViewStep, RoomShrinks DEF world
<1>7. CASE RemoveBackend
  <2>1. UNCHANGED <<next, pump, queue>>
    BY <1>7 DEF RemoveBackend, rail
  <2> QED
    BY <1>7, <2>1, BackendStep, QueueStays, RoomKept
<1> QED
  BY <1>1, <1>2, <1>3, <1>4, <1>5, <1>6, <1>7 DEF User

-----------------------------------------------------------------------------
(* The invariant holds in every state.                                      *)

LEMMA NextStep ==
  ASSUME IInv, Room, [Next]_vars
  PROVE  IInv' /\ Room'
<1>1. CASE LedgerIO
  <2>1. IInv'
    BY <1>1, SaveStep, LoadStep, LoadFailStep DEF LedgerIO
  <2> QED
    BY <1>1, <2>1, LedgerShrinks, RoomKept
<1>2. CASE Pump
  BY <1>2, PumpRuns
<1>3. CASE Reconcile
  BY <1>3, ReconcileStep, ReconcileShrinks, RoomKept
<1>4. CASE User
  BY <1>4, UserStep
<1>5. CASE Relaunch
  BY <1>5, RelaunchStep, RelaunchEmpties
<1>6. CASE \E j \in Jobs : Watcher(j)
  BY <1>6, WatcherStep, WatcherShrinks, RoomKept
<1>7. CASE UNCHANGED vars
  <2>1. /\ UNCHANGED <<world, ledger, running, pump, app, watches, passes, records, ghosts>>
        /\ UNCHANGED <<next, pump, queue>>
    BY <1>7 DEF vars, rail, world
  <2> QED
    BY <2>1, ViewStep, QueueStays, RoomKept
<1> QED
  BY <1>1, <1>2, <1>3, <1>4, <1>5, <1>6, <1>7 DEF Next

LEMMA InitRoom == Init => Room
<1> SUFFICES ASSUME Init PROVE Room
  OBVIOUS
<1>1. queue = [p \in Paths |-> "none"] /\ next = 1
  BY DEF Init
<1>2. queue \in [Paths -> Statuses] /\ Queued(queue) = {}
  BY <1>1 DEF Statuses, Queued
<1>3. Cardinality(Queued(queue)) = 0
  BY <1>2, FS_EmptySet
<1> QED
  BY <1>1, <1>2, <1>3, JobsAssumption DEF Room

LEMMA Invariance == Spec => [](IInv /\ Room)
<1>1. Init => IInv /\ Room
  BY InitIInv, InitRoom
<1>2. IInv /\ Room /\ [Next]_vars => (IInv /\ Room)'
  BY NextStep
<1> QED
  BY <1>1, <1>2, PTL DEF Spec


-----------------------------------------------------------------------------
(* What the invariant promises the user.                                    *)

(* Every variable of the ledger, the rail, the watchers and the pass keeps   *)
(* its type, whatever settles, fails, is cancelled or restarted.            *)
THEOREM TypeCorrect == Spec => []TypeOK
<1>1. IInv /\ Room => TypeOK
  BY DEF IInv
<1> QED
  BY <1>1, Invariance, PTL

(* A run whose row reached the disk stays in the ledger's file or in History *)
(* through refused reads, failed saves, evictions and crashes, until the user *)
(* gives it up or its row is dropped for its age or the cap; all but a run    *)
(* whose record a crash took unsaved, its row forgotten already.             *)
THEOREM NeverForgotten == Spec => []NoRunForgotten
<1>1. IInv => NoRunForgotten
  <2> SUFFICES ASSUME IInv, NEW j \in (promised \ Taken) \ dismissed
               PROVE  j \in disk \/ rec[j] # "none" \/ recDisk[j] # "none"
    BY DEF NoRunForgotten, Recorded
  <2>1. rec[j] # "none" \/ InLedger(j)
    BY DEF IInv, PromiseInv
  <2> QED
    BY <2>1 DEF InLedger
<1>2. IInv /\ Room => NoRunForgotten
  BY <1>1
<1> QED
  BY <1>2, Invariance, PTL

(* An earlier launch's row always has a watcher, a place in a pass or a pass *)
(* to come, until the retries are spent; nobody polls what the pass holds;   *)
(* and the rail is taken exactly while a pump or an attached run owns it.    *)
THEOREM AlwaysOwned == Spec => []WorkIsOwned
<1>1. IInv => WorkIsOwned
  <2> SUFFICES ASSUME IInv PROVE WorkIsOwned
    OBVIOUS
  <2>1. ASSUME read = "yes", NEW j \in rows, j < base
        PROVE  \/ by[j] # "none" \/ ask[j] # "no" \/ j \in PassRows
               \/ pass.pc \in {"load", "collect"} \/ pass.retry \/ rerun \/ timer
               \/ retries = MaxRetries
    <3>1. j \in Nat /\ j # 0 /\ base \in Nat
      BY JobsAreNumbers, JobsAssumption DEF IInv, TypeOK, LedgerType, WorldType
    <3>2. j \in Earlier
      BY <2>1, <3>1 DEF Earlier
    <3> QED
      BY <2>1, <3>2 DEF IInv, RowsOwned, Owned
  <2>2. \A j \in PassRows : by[j] = "none"
    BY DEF IInv, PassShape
  <2>3. running <=> pump.pc # "idle" \/ Attached # {}
    BY DEF IInv, RailOwner
  <2> QED
    BY <2>1, <2>2, <2>3 DEF WorkIsOwned
<1>2. IInv /\ Room => WorkIsOwned
  BY <1>1
<1> QED
  BY <1>2, Invariance, PTL

(* What a step may write over the record of a run that was given up.         *)
Stays == \A j \in dismissed : rec'[j] \in {rec[j], recDisk[j], "none"}

LEMMA KeepsOthers ==
  ASSUME IInv, NEW j \in Jobs, NEW s, Keeps(j, s), j \notin dismissed \/ s \in {rec[j], "none"}
  PROVE  Stays
<1>1. rec' = [rec EXCEPT ![j] = s] /\ dismissed \subseteq Jobs /\ DOMAIN rec = Jobs
  BY DEF Keeps, IInv, TypeOK, RecordType
<1> QED
  BY <1>1 DEF Stays

LEMMA WatcherRespects ==
  ASSUME IInv, NEW j \in Jobs, Watcher(j)
  PROVE  Stays
<1>1. CASE rec' = rec
  BY <1>1 DEF Stays
<1>2. CASE rec' # rec
  <2>1. \/ by[j] # "none" /\ ask[j] # "settling" /\ \E s : Keeps(j, s)
        \/ rec[j] = "failed" /\ Keeps(j, "failed")
    BY <1>2 DEF Watcher, Tick, AgesOut, LateAnswer, StatusSays, ResultSays, Lands, WatchStops,
       ListingSays, ListingKnown, GivesUp, Waits, Records, RecordsNothing, records
  <2>2. CASE by[j] # "none" /\ ask[j] # "settling"
    <3>1. j \notin dismissed
      BY <2>2 DEF IInv, DismissedInv
    <3>2. \E s : Keeps(j, s)
      BY <2>1
    <3> QED
      BY <3>1, <3>2, KeepsOthers
  <2>3. CASE rec[j] = "failed" /\ Keeps(j, "failed")
    BY <2>3, KeepsOthers
  <2> QED
    BY <2>1, <2>2, <2>3
<1> QED
  BY <1>1, <1>2

LEMMA PassRespects ==
  ASSUME IInv, Reconcile
  PROVE  Stays
<1>1. CASE rec' = rec
  BY <1>1 DEF Stays
<1>2. CASE PassHears
  <2>1. CASE ~Stopped(Cur) /\ \E s : Keeps(Cur, s)
    <3>1. pass.pc \in Talks
      BY <1>2 DEF PassHears, Talks
    <3>2. Cur \in pass.todo /\ Cur \in Jobs /\ Cur \in Earlier
      <4>1. pass.todo # {} /\ pass.todo \in SUBSET Jobs
        BY <3>1 DEF IInv, PassShape, TypeOK, PassType, PassStates
      <4>2. Cur \in pass.todo
        BY <4>1, MinIsMember DEF Cur
      <4> QED
        BY <4>1, <4>2 DEF IInv, PassShape, PassRows
    <3>3. At(Cur)
      BY <3>1, <3>2 DEF At
    <3>4. Cur \notin dismissed
      BY <2>1, <3>2, <3>3 DEF IInv, DismissedInv, GoneRow, Stopped
    <3> QED
      BY <2>1, <3>2, <3>4, KeepsOthers
  <2>2. rec' = rec \/ (~Stopped(Cur) /\ \E s : Keeps(Cur, s))
    BY <1>2 DEF PassHears, PassSettles, PassGoes, PassLeaves, Records, RecordsNothing, records
  <2> QED
    BY <1>1, <2>1, <2>2
<1>3. CASE PassLists
  <2>1. rec' = rec \/ (rec[Cur] = "failed" /\ Keeps(Cur, "failed"))
    BY <1>3 DEF PassLists, ListingKnown, PassLeaves, Records, RecordsNothing, records
  <2>2. CASE rec[Cur] = "failed" /\ Keeps(Cur, "failed")
    <3>1. rec' = rec
      BY <2>2 DEF Keeps, IInv, TypeOK, RecordType
    <3> QED
      BY <1>1, <3>1
  <2> QED
    BY <1>1, <2>1, <2>2
<1>4. CASE TimerFires \/ PassCollects \/ PassTakes \/ PassEnds
  <2>1. rec' = rec
    BY <1>4 DEF TimerFires, PassCollects, PassTakes, PassEnds, records
  <2> QED
    BY <1>1, <2>1
<1> QED
  BY <1>2, <1>3, <1>4 DEF Reconcile

LEMMA StepRespects ==
  ASSUME IInv, [Next]_vars
  PROVE  Stays
<1>1. CASE rec' = rec
  BY <1>1 DEF Stays
<1>2. CASE LedgerIO
  <2>1. rec' = rec
    BY <1>2 DEF LedgerIO, SaveLands, LoadLands, LoadFails, records
  <2> QED
    BY <1>1, <2>1
<1>3. CASE Pump
  <2>1. rec' = rec \/ (pump.pc = "post" /\ pump.live /\ \E s : Keeps(pump.job, s))
    BY <1>3 DEF Pump, PumpPosts, PumpSettles, PumpLosesContact, PumpUnwinds, records
  <2>2. CASE pump.pc = "post" /\ pump.live /\ \E s : Keeps(pump.job, s)
    <3>1. pump.job \notin dismissed /\ pump.job \in Jobs
      BY <2>2, PumpIsAlone
    <3> QED
      BY <2>2, <3>1, KeepsOthers
  <2> QED
    BY <1>1, <2>1, <2>2
<1>4. CASE Reconcile
  BY <1>4, PassRespects
<1>5. CASE User
  <2>1. CASE \E j \in Jobs : DeleteRecord(j)
    BY <2>1, KeepsOthers DEF DeleteRecord
  <2>2. CASE ~\E j \in Jobs : DeleteRecord(j)
    <3>1. rec' = rec
      BY <1>5, <2>2 DEF User, StartRun, RetryFile, OpenRecord, CancelRun, CloseRecord,
         RemoveBackend, records, passes
    <3> QED
      BY <1>1, <3>1
  <2> QED
    BY <2>1, <2>2
<1>6. CASE Relaunch
  <2>1. \A j \in Jobs : rec'[j] \in {rec[j], recDisk[j]}
    BY <1>6 DEF Relaunch
  <2> QED
    BY <2>1 DEF Stays, IInv, TypeOK, RecordType
<1>7. CASE \E j \in Jobs : Watcher(j)
  BY <1>7, WatcherRespects
<1>8. CASE UNCHANGED vars
  <2>1. rec' = rec
    BY <1>8 DEF vars, records
  <2> QED
    BY <1>1, <2>1
<1> QED
  BY <1>2, <1>3, <1>4, <1>5, <1>6, <1>7, <1>8 DEF Next

(* A run the user retried, cancelled or deleted never lands a transcript or  *)
(* a failed record again, wherever its watcher or the pass was waiting.      *)
THEOREM GivenUpStaysGivenUp == Spec => DismissedNeverLands
<1>1. IInv /\ Room /\ [Next]_vars =>
        [\A j \in dismissed : rec'[j] \in {rec[j], recDisk[j], "none"}]_vars
  BY StepRespects DEF Stays
<1> QED
  BY <1>1, Invariance, PTL DEF Spec, DismissedNeverLands

(***************************************************************************)
(* Batch dictation.                                                        *)
(***************************************************************************)

-----------------------------------------------------------------------------
(* The cancelled list.                                                      *)

(* Remembering an epoch keeps the list well formed and within its cap.     *)
LEMMA RememberType ==
  ASSUME NEW q \in Seq(Epochs), Len(q) <= CancelCap, NEW e \in 0..MaxEpoch
  PROVE  Remember(q, e) \in Seq(Epochs) /\ Len(Remember(q, e)) <= CancelCap
<1> USE CapAssumption, BoundsAssumption
<1>1. CASE e = 0 \/ e \in Range(q)
  BY <1>1 DEF Remember
<1>2. CASE ~(e = 0 \/ e \in Range(q))
  <2>1. e \in Epochs
    BY <1>2 DEF Epochs
  <2>2. Append(q, e) \in Seq(Epochs) /\ Len(Append(q, e)) = Len(q) + 1
    BY <2>1, AppendProperties
  <2>3. Append(q, e) # <<>>
    BY <2>1, AppendProperties
  <2>4. Tail(Append(q, e)) \in Seq(Epochs) /\ Len(Tail(Append(q, e))) = Len(q)
    BY <2>2, <2>3, HeadTailProperties
  <2>5. QED
    BY <1>2, <2>2, <2>4, LenProperties DEF Remember
<1>3. QED
  BY <1>1, <1>2

(* What a cancel's mark leaves of the types.                               *)
LEMMA MarkType ==
  ASSUME SharedType, HistType, NEW e \in 0..MaxEpoch, Mark(e)
  PROVE  /\ cancelled' \in Seq(Epochs) /\ Len(cancelled') <= CancelCap
         /\ marked' \subseteq Epochs /\ disowned' \subseteq Epochs
<1>1. {e} \ {0} \subseteq Epochs
  BY BoundsAssumption DEF Epochs
<1>2. cancelled \in Seq(Epochs) /\ Len(cancelled) <= CancelCap
  BY DEF SharedType
<1>3. cancelled' \in Seq(Epochs) /\ Len(cancelled') <= CancelCap
  BY <1>2, RememberType DEF Mark
<1>4. QED
  BY <1>1, <1>3 DEF Mark, HistType

-----------------------------------------------------------------------------
(* Types.                                                                   *)

LEMMA TypeInit == RecordInit => RecordTypeOK
<1> SUFFICES ASSUME RecordInit PROVE RecordTypeOK
  OBVIOUS
<1> USE DEF RecordInit
<1>1. SharedType
  <2>1. <<>> \in Seq(Epochs) /\ Len(<<>>) = 0
    BY EmptySeq
  <2>2. cancelled \in Seq(Epochs) /\ Len(cancelled) <= CancelCap
    BY <2>1, CapAssumption
  <2>3. 0 \in 0..MaxEpoch /\ FALSE \in BOOLEAN
    BY BoundsAssumption
  <2>4. QED
    BY <2>2, <2>3 DEF SharedType
<1>2. ThreadType
  BY DEF ThreadType, Phases
<1>3. TaskType
  BY DEF TaskType
<1>4. EventType
  BY DEF EventType
<1>5. HistType
  BY BoundsAssumption DEF HistType
<1>6. QED
  BY <1>1, <1>2, <1>3, <1>4, <1>5 DEF RecordTypeOK

(* Spawning a transcription changes the task, the clip and their history.  *)
LEMMA SpawnType ==
  ASSUME RecordTypeOK, NEW e \in Epochs, Spawn(e) \/ SpawnNothing, UNCHANGED <<wav, txt>>
  PROVE  TaskType' /\ buffered' \subseteq Epochs /\ spawns' \in [Epochs -> Nat]
BY DEF RecordTypeOK, TaskType, ThreadType, HistType, Spawn, SpawnNothing

(* The steps of start_record, and the retire of an epoch.                  *)
LEMMA TypeStart ==
  ASSUME RecordTypeOK,
         StartBegin \/ StartReturns \/ RetireEpoch
  PROVE  RecordTypeOK'
<1> USE BoundsAssumption DEF RecordTypeOK, sharedVars, threadVars, taskVars, eventVars,
        histVars
<1>1. CASE StartBegin
  BY <1>1 DEF StartBegin, SharedType, ThreadType, TaskType, EventType, HistType, Phases
<1>2. ASSUME NEW save \in BOOLEAN, StartOpens(save)
      PROVE  RecordTypeOK'
  <2>1. activeEpoch + 1 \in Epochs
    BY <1>2 DEF StartOpens, SharedType, Epochs
  <2>2. SharedType'
    <3>1. activeEpoch' \in 0..MaxEpoch /\ slot' \in 0..MaxEpoch
      BY <1>2, <2>1 DEF StartOpens, Epochs
    <3>2. QED
      BY <1>2, <3>1 DEF StartOpens, SharedType
  <2>3. ThreadType'
    BY <1>2, <2>1 DEF StartOpens, ThreadType, Phases
  <2>4. QED
    BY <1>2, <2>2, <2>3 DEF StartOpens, TaskType, EventType, HistType
<1>3. CASE StartFails
  BY <1>3 DEF StartFails, SharedType, ThreadType, TaskType, EventType, HistType
<1>4. CASE RetireEpoch
  BY <1>4 DEF RetireEpoch, SharedType, ThreadType, TaskType, EventType, HistType
<1>5. QED
  BY <1>1, <1>2, <1>3, <1>4 DEF StartReturns

(* The parts of stop_record and cancel_record under the lock.              *)
LEMMA TypeCommand ==
  ASSUME RecordTypeOK,
         Stop \/ UserCancel \/ RecoveryCancel \/ ReleaseCancel
  PROVE  RecordTypeOK'
<1> USE BoundsAssumption DEF RecordTypeOK, sharedVars, threadVars, taskVars, eventVars,
        histVars
<1>1. CASE Stop
  <2>1. slot \in Epochs /\ Newest(slot) \in 0..MaxEpoch
    BY <1>1 DEF Stop, SharedType, HistType, Epochs, Newest
  <2>2. ThreadType'
    BY <1>1, <2>1 DEF Stop, ThreadType, Phases
  <2>3. HistType'
    BY <1>1, <2>1 DEF Stop, HistType
  <2>4. QED
    BY <1>1, <2>2, <2>3 DEF Stop, SharedType, TaskType, EventType
<1>2. ASSUME NEW user \in BOOLEAN, NEW discard \in BOOLEAN, Cancel(user, discard)
      PROVE  RecordTypeOK'
  <2>1. /\ cancelled' \in Seq(Epochs) /\ Len(cancelled') <= CancelCap
        /\ marked' \subseteq Epochs /\ disowned' \subseteq Epochs
        /\ detached' \in 0..MaxEpoch
    <3>1. CASE Mark(detached) /\ detached' = detached
      BY <3>1, MarkType DEF SharedType
    <3>2. CASE MarkNothing /\ detached' \in {0, detached}
      BY <3>2 DEF MarkNothing, SharedType, HistType
    <3>3. QED
      BY <1>2, <3>1, <3>2 DEF Cancel, Settle
  <2>2. SharedType'
    <3>1. activeEpoch' \in 0..MaxEpoch /\ slot' \in 0..MaxEpoch
      BY <1>2 DEF Cancel, SharedType
    <3>2. QED
      BY <1>2, <2>1, <3>1 DEF Cancel, SharedType
  <2>3. ThreadType'
    BY <1>2 DEF Cancel, ThreadType, Phases
  <2>4. kept' \subseteq Epochs /\ newestTaken' \in 0..MaxEpoch
    <3>1. {e \in {slot} : Finishes(e, user, discard)} \subseteq Epochs
      BY DEF Finishes, ThreadType
    <3>2. {e \in {detached} \ ({0} \cup disowned) : phase[e] # "discarding"} \subseteq Epochs
      BY DEF SharedType, Epochs
    <3>3. kept' \subseteq Epochs
      BY <1>2, <3>1, <3>2 DEF Cancel, HistType
    <3>4. newestTaken' \in 0..MaxEpoch
      BY <1>2 DEF Cancel, Newest, SharedType, HistType
    <3>5. QED
      BY <3>3, <3>4
  <2>5. HistType'
    BY <1>2, <2>1, <2>4 DEF Cancel, HistType
  <2>6. QED
    BY <1>2, <2>2, <2>3, <2>5 DEF Cancel, TaskType, EventType
<1>3. QED
  BY <1>1, <1>2 DEF UserCancel, RecoveryCancel, ReleaseCancel

(* The capture thread, and what waits for it.                              *)
LEMMA TypeThread ==
  ASSUME RecordTypeOK, NEW e \in Epochs,
         \/ World(e)
         \/ Discard(e) \/ Finish(e) \/ Drop(e)
         \/ CaptureFailed(e) \/ CaptureEnds(e) \/ Salvage(e)
  PROVE  RecordTypeOK'
<1> USE BoundsAssumption DEF RecordTypeOK, sharedVars, threadVars, taskVars, eventVars,
        histVars
<1>1. CASE CaptureAudio(e) \/ DeviceLost(e)
  BY <1>1 DEF CaptureAudio, DeviceLost, SharedType, ThreadType, TaskType,
              EventType, HistType
<1>2. CASE CaptureFails(e)
  BY <1>2 DEF CaptureFails, SharedType, ThreadType, TaskType, EventType, HistType
<1>3. CASE Discard(e)
  <2>1. e \in 0..MaxEpoch
    BY DEF Epochs
  <2>2. /\ cancelled' \in Seq(Epochs) /\ Len(cancelled') <= CancelCap
        /\ marked' \subseteq Epochs /\ disowned' \subseteq Epochs
    BY <1>3, <2>1, MarkType DEF Discard
  <2>3. SharedType' /\ HistType'
    BY <1>3, <2>2 DEF Discard, SharedType, HistType
  <2>4. QED
    BY <1>3, <2>3 DEF Discard, ThreadType, TaskType, EventType, Phases
<1>4. CASE Finish(e)
  <2>1. TaskType' /\ buffered' \subseteq Epochs /\ spawns' \in [Epochs -> Nat]
    BY <1>4, SpawnType DEF Finish
  <2>2. ThreadType'
    BY <1>4, <2>1 DEF Finish, ThreadType, Phases
  <2>3. QED
    BY <1>4, <2>1, <2>2 DEF Finish, SharedType, EventType, HistType
<1>5. CASE Drop(e)
  BY <1>5 DEF Drop, SharedType, ThreadType, TaskType, EventType, HistType, Phases
<1>6. CASE CaptureFailed(e) \/ CaptureEnds(e)
  BY <1>6 DEF CaptureFailed, CaptureEnds, SharedType, ThreadType, TaskType,
              EventType, HistType
<1>7. CASE Salvage(e)
  <2>1. TaskType' /\ buffered' \subseteq Epochs /\ spawns' \in [Epochs -> Nat]
    BY <1>7, SpawnType DEF Salvage
  <2>2. detached' \in 0..MaxEpoch
    BY <1>7 DEF Salvage, Publish, SharedType, Epochs
  <2>3. SharedType' /\ HistType'
    BY <1>7, <2>1, <2>2 DEF Salvage, SharedType, HistType
  <2>4. QED
    BY <1>7, <2>1, <2>3 DEF Salvage, ThreadType, EventType
<1>8. QED
  BY <1>1, <1>2, <1>3, <1>4, <1>5, <1>6, <1>7 DEF World

(* The transcription task and the emission of its events.                  *)
LEMMA TypeTask ==
  ASSUME RecordTypeOK, NEW e \in Epochs,
         \/ TaskBegins(e) \/ SavePanics(e) \/ Uploads(e)
         \/ \E ok \in BOOLEAN : Saves(e, ok) \/ Answers(e, ok) \/ Labels(e, ok)
         \/ Arms(e) \/ Delivers(e)
  PROVE  RecordTypeOK'
<1> USE BoundsAssumption DEF RecordTypeOK, sharedVars, threadVars, taskVars, eventVars,
        histVars
<1> DEFINE TaskPart == clip' \subseteq Epochs /\ wav' \subseteq Epochs /\ txt' \subseteq Epochs
<1>1. ASSUME NEW goal \in {"saving", "saved", "posting", "labelling", "emitting"},
             NEW closes \in BOOLEAN, TaskGoes(e, goal, closes), TaskPart
      PROVE  RecordTypeOK'
  BY <1>1 DEF TaskGoes, SharedType, ThreadType, TaskType, EventType, HistType
<1>3. CASE TaskBegins(e)
  BY <1>1, <1>3 DEF TaskBegins, TaskType
<1>4. ASSUME NEW ok \in BOOLEAN, Saves(e, ok)
      PROVE  RecordTypeOK'
  BY <1>1, <1>4 DEF Saves, TaskType, TaskGoes
<1>5. CASE SavePanics(e)
  BY <1>1, <1>5 DEF SavePanics, TaskType
<1>6. CASE Uploads(e)
  BY <1>1, <1>6 DEF Uploads, TaskType
<1>7. ASSUME NEW ok \in BOOLEAN, Answers(e, ok)
      PROVE  RecordTypeOK'
  BY <1>1, <1>7 DEF Answers, TaskType
<1>8. ASSUME NEW wrote \in BOOLEAN, Labels(e, wrote)
      PROVE  RecordTypeOK'
  BY <1>1, <1>8 DEF Labels, TaskType
<1>9. CASE Arms(e) \/ Delivers(e)
  BY <1>9 DEF Arms, Delivers, SharedType, ThreadType, TaskType, EventType, HistType
<1>10. QED
  BY <1>3, <1>4, <1>5, <1>6, <1>7, <1>8, <1>9

LEMMA TypeStep == RecordTypeOK /\ [RecordNext]_recordVars => RecordTypeOK'
<1> SUFFICES ASSUME RecordTypeOK, [RecordNext]_recordVars PROVE RecordTypeOK'
  OBVIOUS
<1>1. CASE Commands \/ StartReturns
  BY <1>1, TypeStart, TypeCommand DEF Commands
<1>2. ASSUME NEW e \in Epochs, World(e) \/ Threads(e)
      PROVE  RecordTypeOK'
  BY <1>2, TypeThread, TypeTask DEF Threads
<1>3. CASE UNCHANGED recordVars
  BY <1>3 DEF recordVars, sharedVars, threadVars, taskVars, eventVars, histVars,
              RecordTypeOK, SharedType, ThreadType, TaskType, EventType, HistType
<1>4. QED
  BY <1>1, <1>2, <1>3 DEF RecordNext

(* The slot and the list of cancelled epochs hold claimed epochs, the list  *)
(* within its cap, whatever the interleaving of commands and threads.      *)
THEOREM RecordTypeCorrect == RecordSpec => []RecordTypeOK
BY TypeInit, TypeStep, PTL DEF RecordSpec

-----------------------------------------------------------------------------
(* The inductive invariant.                                                 *)

(* A session's epoch was claimed; the slot holds the newest session.       *)
Claims ==
  /\ \A e \in Epochs : phase[e] # "none" => e <= activeEpoch
  /\ \A e \in Epochs : phase[e] = "live" <=> e = slot
  /\ slot # 0 => \A e \in Epochs : phase[e] # "none" => e <= slot
  /\ slot # 0 => newestTaken < slot /\ ~starting
  /\ newestTaken <= activeEpoch
  /\ detached # 0 => phase[detached] # "none"

(* The capture thread and the buffer, along a session's phases.            *)
Buffers ==
  \A e \in Epochs :
    /\ phase[e] = "none" => capture[e] = "off" /\ e \notin lost \cup buffered
    /\ capture[e] = "failing" => e \notin buffered
    /\ capture[e] = "salvaging" => e \in lost /\ spawns[e] = 0
    /\ phase[e] \in {"finished", "gone"} => capture[e] = "exited" /\ e \notin buffered
    /\ capture[e] = "exited" /\ e \in lost /\ phase[e] # "dropping" => e \notin buffered

(* Who has spawned a transcription: the salvage of a lost device, or finish. *)
Spawners ==
  \A e \in Epochs :
    /\ spawns[e] <= 1
    /\ spawns[e] = 0 <=> task[e] = "none"
    /\ spawns[e] = 1 => /\ capture[e] = "exited"
                        /\ phase[e] \in {"finished", "gone"} \/ e \in lost

(* A list that has not overflowed is the set of all marks.                 *)
ListInv ==
  /\ Range(cancelled) \subseteq marked
  /\ disowned \subseteq marked
  /\ Cardinality(marked) <= CancelCap =>
       marked \subseteq Range(cancelled) /\ Len(cancelled) <= Cardinality(marked)

(* Where the recording is, along the task.                                 *)
Files ==
  \A e \in Epochs :
    /\ e \in wav => task[e] \in {"saved", "posting", "labelling", "emitting"}
    /\ e \in wav /\ task[e] = "saved" => e \in clip
    /\ e \in txt => task[e] = "emitting"

(* What a decided task leaves of a disowned session.                       *)
DisownedInv ==
  Cardinality(marked) <= CancelCap =>
    \A e \in disowned : Decided(e) => e \notin wav \cup txt

(* Nothing still points at what a recovery cancel kept.                    *)
KeptInv ==
  /\ \A e \in kept : e # detached /\ phase[e] \notin {"none", "live", "discarding"}
  /\ \A e \in disowned : phase[e] \notin {"none", "live"} /\ e \notin kept

(* The slot names the newest session taken, or a late salvage.             *)
SlotInv == detached # 0 => detached >= newestTaken \/ detached \in late

RecordIInv == /\ RecordTypeOK /\ Claims /\ Buffers /\ Spawners /\ ListInv /\ Files
        /\ DisownedInv /\ KeptInv /\ SlotInv

-----------------------------------------------------------------------------
(* The inductive step, one lemma per part.                                  *)

TaskStep(e) ==
  \/ TaskBegins(e) \/ SavePanics(e) \/ Uploads(e)
  \/ \E ok \in BOOLEAN : Saves(e, ok) \/ Answers(e, ok) \/ Labels(e, ok)
  \/ Arms(e) \/ Delivers(e)

(* The transcription task and its emissions touch no shared slot, no        *)
(* capture thread and none of the history.                                 *)
LEMMA TaskFrame ==
  ASSUME NEW e \in Epochs, TaskStep(e)
  PROVE  UNCHANGED <<activeEpoch, starting, slot, detached, cancelled, phase,
                     capture, lost, keeps, buffered, spawns, marked, disowned,
                     kept, newestTaken, late>>
BY DEF TaskStep, TaskBegins, SavePanics, Uploads, Saves, Answers, Labels, Arms,
       Delivers, TaskGoes, sharedVars, threadVars, histVars

(* The two things a cancel does to the list.                               *)
LEMMA Cancels ==
  ASSUME NEW user \in BOOLEAN, NEW discard \in BOOLEAN, Cancel(user, discard)
  PROVE  \/ slot = 0 /\ user /\ discard /\ detached' = detached /\ Mark(detached)
         \/ detached' \in {0, detached} /\ MarkNothing
BY DEF Cancel, Settle

LEMMA ClaimsStep == RecordIInv /\ [RecordNext]_recordVars => Claims'
<1> SUFFICES ASSUME RecordIInv, [RecordNext]_recordVars PROVE Claims'
  OBVIOUS
<1> USE DEF Claims
<1>1. SharedType /\ phase \in [Epochs -> Phases] /\ newestTaken \in 0..MaxEpoch /\ Claims
  BY DEF RecordIInv, RecordTypeOK, ThreadType, HistType
<1>2. CASE StartBegin
  BY <1>1, <1>2 DEF StartBegin, SharedType, Epochs, histVars
<1>3. ASSUME NEW save \in BOOLEAN, StartOpens(save)
      PROVE  Claims'
  BY <1>1, <1>3 DEF StartOpens, SharedType, Epochs, StartUnlocked, histVars
<1>4. CASE StartFails \/ RetireEpoch
  <2>1. activeEpoch' >= activeEpoch /\ activeEpoch' \in Nat
    BY <1>1, <1>4 DEF StartFails, RetireEpoch, SharedType
  <2>2. UNCHANGED <<phase, slot, detached, newestTaken>> /\ (starting' => starting)
    BY <1>4 DEF StartFails, RetireEpoch, threadVars, histVars
  <2>3. QED
    BY <1>1, <2>1, <2>2 DEF SharedType, Epochs
<1>5. CASE Stop
  BY <1>1, <1>5 DEF Stop, SharedType, Epochs, Newest
<1>6. ASSUME NEW user \in BOOLEAN, NEW discard \in BOOLEAN, Cancel(user, discard)
      PROVE  Claims'
  <2>1. detached' \in {0, detached}
    BY <1>6, Cancels
  <2>2. QED
    BY <1>1, <1>6, <2>1 DEF Cancel, SharedType, Epochs, Newest
<1>7. ASSUME NEW e \in Epochs, World(e)
      PROVE  Claims'
  BY <1>1, <1>7 DEF World, CaptureAudio, DeviceLost, CaptureFails, sharedVars, histVars
<1>8. ASSUME NEW e \in Epochs, Discard(e) \/ Finish(e) \/ Drop(e)
      PROVE  Claims'
  <2>1. UNCHANGED <<activeEpoch, slot, starting, detached, newestTaken>>
    BY <1>8 DEF Discard, Finish, Drop, sharedVars, histVars
  <2>2. \E p \in {"dropping", "finished", "gone"} : phase' = [phase EXCEPT ![e] = p]
    BY <1>8 DEF Discard, Finish, Drop
  <2>3. phase[e] \notin {"none", "live"}
    BY <1>8 DEF Discard, Finish, Drop
  <2>4. QED
    BY <1>1, <2>1, <2>2, <2>3
<1>9. ASSUME NEW e \in Epochs, CaptureFailed(e) \/ CaptureEnds(e)
      PROVE  Claims'
  BY <1>1, <1>9 DEF CaptureFailed, CaptureEnds, sharedVars, histVars
<1>10. ASSUME NEW e \in Epochs, Salvage(e)
       PROVE  Claims'
  <2>1. phase[e] # "none"
    BY <1>10 DEF Salvage, RecordIInv, Buffers
  <2>2. QED
    BY <1>1, <1>10, <2>1 DEF Salvage, Publish
<1>11. ASSUME NEW e \in Epochs, TaskStep(e)
       PROVE  Claims'
  BY <1>1, <1>11, TaskFrame
<1>12. CASE UNCHANGED recordVars
  BY <1>1, <1>12 DEF recordVars, sharedVars, threadVars, histVars
<1>13. QED
  BY <1>2, <1>3, <1>4, <1>5, <1>6, <1>7, <1>8, <1>9, <1>10, <1>11, <1>12
  DEF RecordNext, Commands, StartReturns, UserCancel, RecoveryCancel, ReleaseCancel,
      Threads, TaskStep

(* Which spawns are possible: one only where nothing was spawned yet.      *)
LEMMA BuffersStep == RecordIInv /\ [RecordNext]_recordVars => Buffers' /\ Spawners'
<1> SUFFICES ASSUME RecordIInv, [RecordNext]_recordVars PROVE Buffers' /\ Spawners'
  OBVIOUS
<1>0. /\ phase \in [Epochs -> Phases]
      /\ activeEpoch \in 0..MaxEpoch /\ slot \in 0..MaxEpoch
      /\ \A e \in Epochs : phase[e] = "live" <=> e = slot
      /\ \A e \in Epochs : phase[e] # "none" => e <= activeEpoch
  BY BoundsAssumption DEF RecordIInv, RecordTypeOK, SharedType, ThreadType, Claims
<1> USE DEF Buffers, Spawners
<1>1. /\ SharedType /\ ThreadType /\ Claims /\ Buffers /\ Spawners
      /\ spawns \in [Epochs -> Nat] /\ task \in [Epochs -> {"none", "spawned",
           "saving", "saved", "posting", "labelling", "emitting"}]
  BY DEF RecordIInv, RecordTypeOK, HistType, TaskType
<1>2. CASE StartBegin
  <2>1. phase' = [e \in Epochs |-> IF e = slot THEN "replaced" ELSE phase[e]]
    BY <1>2 DEF StartBegin
  <2>2. UNCHANGED <<capture, lost, buffered, spawns, task>>
    BY <1>2 DEF StartBegin, histVars, taskVars
  <2>3. \A e \in Epochs : phase'[e] # phase[e] =>
                            phase[e] = "live" /\ phase'[e] = "replaced"
    <3> TAKE e \in Epochs
    <3>1. phase'[e] = IF e = slot THEN "replaced" ELSE phase[e]
      BY <2>1
    <3>2. QED
      BY <1>0, <3>1
  <2>4. QED
    BY <1>1, <2>2, <2>3
<1>3. ASSUME NEW save \in BOOLEAN, StartOpens(save)
      PROVE  Buffers' /\ Spawners'
  <2> DEFINE n == activeEpoch + 1
  <2>1. n \in Epochs /\ phase[n] = "none"
    BY <1>0, <1>3, BoundsAssumption DEF StartOpens, Epochs
  <2>2. /\ phase' = [phase EXCEPT ![n] = "live"]
        /\ capture' = [capture EXCEPT ![n] = "running"]
        /\ UNCHANGED <<lost, buffered, spawns, task>>
    BY <1>3 DEF StartOpens, histVars, taskVars
  <2>3. QED
    BY <1>1, <2>1, <2>2 DEF ThreadType
<1>4. CASE StartFails \/ RetireEpoch
  BY <1>1, <1>4 DEF StartFails, RetireEpoch, threadVars, taskVars, histVars
<1>5. CASE Stop
  <2>1. slot \in Epochs /\ phase[slot] = "live"
    BY <1>0, <1>5 DEF Stop, Epochs
  <2>2. QED
    BY <1>1, <1>5, <2>1 DEF Stop, ThreadType, taskVars
<1>6. ASSUME NEW user \in BOOLEAN, NEW discard \in BOOLEAN, Cancel(user, discard)
      PROVE  Buffers' /\ Spawners'
  <2>1. slot # 0 => slot \in Epochs /\ phase[slot] = "live"
    BY <1>0 DEF Epochs
  <2>2. UNCHANGED <<capture, lost, buffered, spawns, task>>
    BY <1>6 DEF Cancel, taskVars
  <2>3. \A e \in Epochs : phase'[e] # phase[e] =>
                            phase[e] = "live" /\ phase'[e] \in {"joining", "discarding"}
    <3> TAKE e \in Epochs
    <3>1. CASE slot = 0
      BY <1>6, <3>1 DEF Cancel
    <3>2. CASE slot # 0
      BY <1>0, <1>6, <2>1, <3>2 DEF Cancel
    <3>3. QED
      BY <3>1, <3>2
  <2>4. QED
    BY <1>1, <2>2, <2>3
<1>7. ASSUME NEW e \in Epochs, World(e)
      PROVE  Buffers' /\ Spawners'
  <2>1. UNCHANGED <<phase, spawns, task>>
    BY <1>7 DEF World, CaptureAudio, DeviceLost, CaptureFails, histVars, taskVars
  <2>2. CASE CaptureAudio(e)
    BY <1>1, <2>1, <2>2 DEF CaptureAudio, Stopping
  <2>3. CASE DeviceLost(e)
    BY <1>1, <2>1, <2>3 DEF DeviceLost
  <2>4. CASE CaptureFails(e)
    BY <1>1, <2>1, <2>4 DEF CaptureFails, ThreadType
  <2>5. QED
    BY <1>7, <2>2, <2>3, <2>4 DEF World
<1>8. ASSUME NEW e \in Epochs, Discard(e)
      PROVE  Buffers' /\ Spawners'
  BY <1>1, <1>8 DEF Discard, ThreadType, taskVars
<1>9. ASSUME NEW e \in Epochs, Finish(e)
      PROVE  Buffers' /\ Spawners'
  <2>1. CASE e \in lost
    BY <1>1, <1>9, <2>1 DEF Finish, SpawnNothing, ThreadType
  <2>2. CASE e \notin lost
    <3>1. spawns[e] = 0
      BY <1>1, <1>9, <2>2 DEF Finish
    <3>2. QED
      BY <1>1, <1>9, <2>2, <3>1 DEF Finish, Spawn, ThreadType
  <2>3. QED
    BY <2>1, <2>2
<1>10. ASSUME NEW e \in Epochs, Drop(e)
       PROVE  Buffers' /\ Spawners'
  BY <1>1, <1>10 DEF Drop, ThreadType, taskVars, histVars
<1>11. ASSUME NEW e \in Epochs, CaptureFailed(e) \/ CaptureEnds(e)
       PROVE  Buffers' /\ Spawners'
  <2>1. UNCHANGED <<phase, lost, buffered, spawns, task>>
    BY <1>11 DEF CaptureFailed, CaptureEnds, histVars, taskVars
  <2>2. CASE CaptureFailed(e)
    BY <1>1, <2>1, <2>2 DEF CaptureFailed, ThreadType
  <2>3. CASE CaptureEnds(e)
    BY <1>1, <2>1, <2>3 DEF CaptureEnds, DiscardFlag, ThreadType
  <2>4. QED
    BY <1>11, <2>2, <2>3
<1>12. ASSUME NEW e \in Epochs, Salvage(e)
       PROVE  Buffers' /\ Spawners'
  BY <1>1, <1>12 DEF Salvage, Spawn, ThreadType
<1>13. ASSUME NEW e \in Epochs, TaskStep(e)
       PROVE  Buffers' /\ Spawners'
  <2>1. UNCHANGED <<phase, capture, lost, buffered, spawns>>
    BY <1>13, TaskFrame
  <2>2. \A d \in Epochs : task'[d] = "none" <=> task[d] = "none"
    BY <1>1, <1>13 DEF TaskStep, TaskBegins, SavePanics, Uploads, Saves, Answers,
       Labels, Arms, Delivers, TaskGoes, taskVars
  <2>3. QED
    BY <1>1, <2>1, <2>2
<1>14. CASE UNCHANGED recordVars
  BY <1>1, <1>14 DEF recordVars, threadVars, taskVars, histVars
<1>15. QED
  BY <1>2, <1>3, <1>4, <1>5, <1>6, <1>7, <1>8, <1>9, <1>10, <1>11, <1>12, <1>13,
     <1>14
  DEF RecordNext, Commands, StartReturns, UserCancel, RecoveryCancel, ReleaseCancel,
      Threads, TaskStep

(* What remembering an epoch does to the set of remembered epochs.         *)
LEMMA RememberRange ==
  ASSUME NEW q \in Seq(Epochs), NEW e \in 0..MaxEpoch
  PROVE  /\ Range(Remember(q, e)) \subseteq Range(q) \cup ({e} \ {0})
         /\ e = 0 \/ e \in Range(q) => Remember(q, e) = q
         /\ e # 0 /\ e \notin Range(q) /\ Len(q) < CancelCap =>
              /\ Range(Remember(q, e)) = Range(q) \cup {e}
              /\ Len(Remember(q, e)) = Len(q) + 1
<1>1. CASE e = 0 \/ e \in Range(q)
  BY <1>1 DEF Remember
<1>2. CASE e # 0 /\ e \notin Range(q)
  <2> DEFINE a == Append(q, e)
  <2>1. e \in Epochs
    BY <1>2, BoundsAssumption DEF Epochs
  <2>2. /\ a \in Seq(Epochs) /\ a # <<>> /\ Len(a) = Len(q) + 1
        /\ \A i \in 1..Len(q) : a[i] = q[i]
        /\ a[Len(q) + 1] = e
    BY <2>1, AppendProperties
  <2>3. Len(q) \in Nat /\ DOMAIN q = 1..Len(q) /\ DOMAIN a = 1..Len(a)
    BY <2>2, LenProperties
  <2>4. Range(a) = Range(q) \cup {e}
    BY <2>2, <2>3 DEF Range
  <2>5. Range(Tail(a)) \subseteq Range(a)
    <3>1. /\ Tail(a) \in Seq(Epochs) /\ Len(Tail(a)) = Len(a) - 1
          /\ \A i \in 1..Len(Tail(a)) : Tail(a)[i] = a[i + 1]
      BY <2>2, HeadTailProperties
    <3>2. DOMAIN Tail(a) = 1..Len(Tail(a))
      BY <3>1, LenProperties
    <3>3. \A i \in 1..Len(Tail(a)) : i + 1 \in 1..Len(a)
      BY <2>2, <2>3, <3>1
    <3>4. QED
      BY <2>3, <3>1, <3>2, <3>3 DEF Range
  <2>6. Remember(q, e) = IF Len(q) >= CancelCap THEN Tail(a) ELSE a
    BY <1>2 DEF Remember
  <2> HIDE DEF a
  <2>7. CASE Len(q) >= CancelCap
    <3>1. Range(Remember(q, e)) \subseteq Range(q) \cup {e}
      BY <2>4, <2>5, <2>6, <2>7
    <3>2. {e} = {e} \ {0}
      BY <1>2
    <3>3. ~(Len(q) < CancelCap)
      BY <2>3, <2>7, CapAssumption
    <3>4. QED
      BY <1>2, <3>1, <3>2, <3>3
  <2>8. CASE ~(Len(q) >= CancelCap)
    BY <1>2, <2>2, <2>3, <2>4, <2>6, <2>8, CapAssumption
  <2>9. QED
    BY <2>7, <2>8
<1>3. QED
  BY <1>1, <1>2

(* Marking an epoch keeps a list that has not overflowed complete.         *)
LEMMA MarkList ==
  ASSUME RecordTypeOK, ListInv, NEW e \in 0..MaxEpoch, Mark(e)
  PROVE  ListInv'
<1>1. cancelled \in Seq(Epochs) /\ Len(cancelled) \in Nat
  BY LenProperties DEF RecordTypeOK, SharedType
<1>2. IsFiniteSet(marked) /\ Cardinality(marked) \in Nat
  <2>1. IsFiniteSet(Epochs)
    BY FS_Interval, BoundsAssumption DEF Epochs
  <2>2. QED
    BY <2>1, FS_Subset, FS_CardinalityType DEF RecordTypeOK, HistType
<1>3. cancelled' = Remember(cancelled, e) /\ marked' = marked \cup ({e} \ {0})
  BY DEF Mark
<1>4. Range(cancelled') \subseteq marked' /\ disowned' \subseteq marked'
  BY <1>1, <1>3, RememberRange DEF ListInv, Mark
<1>5. ASSUME Cardinality(marked') <= CancelCap
      PROVE  marked' \subseteq Range(cancelled') /\ Len(cancelled') <= Cardinality(marked')
  <2>1. CASE e = 0 \/ e \in Range(cancelled)
    <3>1. cancelled' = cancelled /\ marked' = marked
      BY <1>1, <1>3, <2>1, RememberRange DEF ListInv
    <3>2. QED
      BY <1>5, <3>1 DEF ListInv
  <2>2. CASE e # 0 /\ e \notin Range(cancelled) /\ e \in marked
    <3>1. marked' = marked
      BY <1>3, <2>2
    <3>2. QED
      BY <1>5, <2>2, <3>1 DEF ListInv
  <2>3. CASE e # 0 /\ e \notin marked
    <3>1. Cardinality(marked') = Cardinality(marked) + 1
      BY <1>2, <1>3, <2>3, FS_AddElement
    <3>2. marked \subseteq Range(cancelled) /\ Len(cancelled) <= Cardinality(marked)
      BY <1>2, <1>5, <3>1, CapAssumption DEF ListInv
    <3>3. e \notin Range(cancelled) /\ Len(cancelled) < CancelCap
      BY <1>1, <1>2, <1>5, <2>3, <3>1, <3>2, CapAssumption DEF ListInv
    <3>4. Range(cancelled') = Range(cancelled) \cup {e} /\ Len(cancelled') = Len(cancelled) + 1
      BY <1>1, <1>3, <2>3, <3>3, RememberRange
    <3>5. QED
      BY <1>1, <1>2, <1>3, <3>1, <3>2, <3>4
  <2>4. QED
    BY <2>1, <2>2, <2>3
<1>6. QED
  BY <1>4, <1>5 DEF ListInv

(* The steps that mark nothing.                                            *)
LEMMA MarkFrame ==
  ASSUME [RecordNext]_recordVars
  PROVE  \/ UNCHANGED <<cancelled, marked, disowned>>
         \/ /\ slot = 0 /\ detached' = detached /\ Mark(detached)
            /\ UNCHANGED <<phase, task, wav, txt>>
            /\ UserCancel
         \/ \E e \in Epochs : Discard(e)
<1> DEFINE Goal == \/ UNCHANGED <<cancelled, marked, disowned>>
                   \/ /\ slot = 0 /\ detached' = detached /\ Mark(detached)
                      /\ UNCHANGED <<phase, task, wav, txt>>
                      /\ UserCancel
                   \/ \E e \in Epochs : Discard(e)
<1>1. ASSUME StartBegin \/ StartReturns \/ RetireEpoch \/ Stop PROVE Goal
  BY <1>1 DEF StartBegin, StartReturns, StartOpens, StartFails, RetireEpoch, Stop, histVars
<1>2. CASE UserCancel
  BY <1>2 DEF UserCancel, Cancel, Settle, MarkNothing, taskVars
<1>3. CASE RecoveryCancel \/ ReleaseCancel
  BY <1>3 DEF RecoveryCancel, ReleaseCancel, Cancel, Settle, MarkNothing
<1>4. ASSUME NEW e \in Epochs, World(e) PROVE Goal
  BY <1>4 DEF World, CaptureAudio, DeviceLost, CaptureFails, sharedVars, histVars
<1>5. ASSUME NEW e \in Epochs, Finish(e) \/ Drop(e) \/ CaptureFailed(e)
                               \/ CaptureEnds(e) \/ Salvage(e) PROVE Goal
  BY <1>5 DEF Finish, Drop, CaptureFailed, CaptureEnds, Salvage, sharedVars, histVars
<1>6. ASSUME NEW e \in Epochs, TaskStep(e) PROVE Goal
  BY <1>6, TaskFrame
<1>7. CASE UNCHANGED recordVars
  BY <1>7 DEF recordVars, sharedVars, histVars
<1>8. QED
  BY <1>1, <1>2, <1>3, <1>4, <1>5, <1>6, <1>7 DEF RecordNext, Commands, Threads, TaskStep

LEMMA ListStep == RecordIInv /\ [RecordNext]_recordVars => ListInv'
<1> SUFFICES ASSUME RecordIInv, [RecordNext]_recordVars PROVE ListInv'
  OBVIOUS
<1>1. RecordTypeOK /\ ListInv /\ detached \in 0..MaxEpoch
  BY DEF RecordIInv, RecordTypeOK, SharedType
<1>2. CASE UNCHANGED <<cancelled, marked, disowned>>
  BY <1>1, <1>2 DEF ListInv
<1>3. CASE Mark(detached)
  BY <1>1, <1>3, MarkList
<1>4. ASSUME NEW e \in Epochs, Discard(e) PROVE ListInv'
  <2>1. e \in 0..MaxEpoch
    BY BoundsAssumption DEF Epochs
  <2>2. QED
    BY <1>1, <1>4, <2>1, MarkList DEF Discard
<1>5. QED
  BY <1>2, <1>3, <1>4, MarkFrame

(* A disowned session is on the list that its task reads.                  *)
LEMMA DisownedIsCancelled ==
  ASSUME RecordIInv, Cardinality(marked) <= CancelCap, NEW e \in disowned
  PROVE  IsCancelled(e)
BY DEF RecordIInv, ListInv, IsCancelled

(* Each step of a task, as the files and the decision see it.              *)
LEMMA TaskFiles ==
  ASSUME RecordIInv, NEW e \in Epochs, TaskStep(e)
  PROVE  /\ Files'
         /\ \A d \in Epochs : d # e => /\ task'[d] = task[d]
                                       /\ d \in wav' <=> d \in wav
                                       /\ d \in txt' <=> d \in txt
         /\ IsCancelled(e) /\ task'[e] = "emitting" /\ task[e] # "emitting"
              => e \notin wav' \cup txt'
         /\ task[e] = "emitting" => UNCHANGED <<task, wav, txt>>
<1>1. Files /\ task \in [Epochs -> {"none", "spawned",
           "saving", "saved", "posting", "labelling", "emitting"}]
  BY DEF RecordIInv, RecordTypeOK, TaskType
<1> USE DEF Files
<1>2. CASE TaskBegins(e)
  BY <1>1, <1>2 DEF TaskBegins, TaskGoes
<1>3. ASSUME NEW ok \in BOOLEAN, Saves(e, ok)
      PROVE  /\ task[e] = "saving" /\ task' = [task EXCEPT ![e] = "saved"]
             /\ UNCHANGED <<clip, txt>>
             /\ wav' = wav \/ (e \in clip /\ wav' = wav \cup {e})
  BY <1>3 DEF Saves, TaskGoes
<1>4. CASE SavePanics(e)
  BY <1>1, <1>4 DEF SavePanics, TaskGoes
<1>5. CASE Uploads(e)
  BY <1>1, <1>5 DEF Uploads, TaskGoes
<1>6. ASSUME NEW ok \in BOOLEAN, Answers(e, ok)
      PROVE  /\ task[e] = "posting" /\ UNCHANGED <<clip, txt>>
             /\ task' \in {[task EXCEPT ![e] = "labelling"], [task EXCEPT ![e] = "emitting"]}
             /\ wav' \in {wav, wav \ {e}}
             /\ IsCancelled(e) => e \notin wav'
  BY <1>6 DEF Answers, TaskGoes
<1>7. ASSUME NEW wrote \in BOOLEAN, Labels(e, wrote)
      PROVE  /\ task[e] = "labelling" /\ UNCHANGED clip
             /\ task' = [task EXCEPT ![e] = "emitting"]
             /\ wav' \in {wav, wav \ {e}} /\ txt' \in {txt, txt \cup {e}}
             /\ IsCancelled(e) => e \notin wav' /\ txt' = txt
  BY <1>7 DEF Labels, TaskGoes
<1>8. CASE Arms(e) \/ Delivers(e)
  BY <1>1, <1>8 DEF Arms, Delivers, taskVars
<1>9. CASE \E ok \in BOOLEAN : Saves(e, ok)
  BY <1>1, <1>3, <1>9
<1>10. CASE \E ok \in BOOLEAN : Answers(e, ok)
  BY <1>1, <1>6, <1>10
<1>11. CASE \E ok \in BOOLEAN : Labels(e, ok)
  BY <1>1, <1>7, <1>11
<1>12. QED
  BY <1>2, <1>4, <1>5, <1>8, <1>9, <1>10, <1>11 DEF TaskStep

(* The other steps write no file and decide nothing; two of them spawn.    *)
LEMMA FilesFrame ==
  ASSUME RecordIInv, [RecordNext]_recordVars, ~\E e \in Epochs : TaskStep(e)
  PROVE  /\ UNCHANGED <<wav, txt>> /\ clip \subseteq clip'
         /\ \/ UNCHANGED task
            \/ \E e \in Epochs : /\ task' = [task EXCEPT ![e] = "spawned"]
                                 /\ task[e] = "none"
<1> DEFINE Goal == /\ UNCHANGED <<wav, txt>> /\ clip \subseteq clip'
                   /\ \/ UNCHANGED task
                      \/ \E e \in Epochs : /\ task' = [task EXCEPT ![e] = "spawned"]
                                           /\ task[e] = "none"
<1>1. ASSUME StartBegin \/ StartReturns \/ RetireEpoch \/ Stop PROVE Goal
  BY <1>1 DEF StartBegin, StartReturns, StartOpens, StartFails, RetireEpoch, Stop, taskVars
<1>2. CASE UserCancel \/ RecoveryCancel \/ ReleaseCancel
  BY <1>2 DEF UserCancel, RecoveryCancel, ReleaseCancel, Cancel, taskVars
<1>3. ASSUME NEW e \in Epochs, World(e) PROVE Goal
  BY <1>3 DEF World, CaptureAudio, DeviceLost, CaptureFails, taskVars
<1>4. ASSUME NEW e \in Epochs, Discard(e) \/ Drop(e) \/ CaptureFailed(e) \/ CaptureEnds(e)
      PROVE Goal
  BY <1>4 DEF Discard, Drop, CaptureFailed, CaptureEnds, taskVars
<1>5. ASSUME NEW e \in Epochs, Finish(e) \/ Salvage(e) PROVE Goal
  <2>1. ASSUME e \notin lost \/ Salvage(e) PROVE task[e] = "none"
    BY <1>5, <2>1 DEF Finish, Salvage, RecordIInv, RecordTypeOK, HistType, Buffers, Spawners
  <2>2. CASE Salvage(e)
    BY <2>1, <2>2 DEF Salvage, Spawn
  <2>3. CASE Finish(e)
    BY <2>1, <2>3 DEF Finish, Spawn, SpawnNothing
  <2>4. QED
    BY <1>5, <2>2, <2>3
<1>6. CASE UNCHANGED recordVars
  BY <1>6 DEF recordVars, taskVars
<1>7. QED
  BY <1>1, <1>2, <1>3, <1>4, <1>5, <1>6 DEF RecordNext, Commands, Threads, TaskStep

LEMMA FilesStep == RecordIInv /\ [RecordNext]_recordVars => Files'
<1> SUFFICES ASSUME RecordIInv, [RecordNext]_recordVars PROVE Files'
  OBVIOUS
<1>1. CASE \E e \in Epochs : TaskStep(e)
  BY <1>1, TaskFiles
<1>2. CASE ~\E e \in Epochs : TaskStep(e)
  <2>1. Files /\ task \in [Epochs -> {"none", "spawned",
           "saving", "saved", "posting", "labelling", "emitting"}]
    BY DEF RecordIInv, RecordTypeOK, TaskType
  <2>2. QED
    BY <1>2, <2>1, FilesFrame DEF Files
<1>3. QED
  BY <1>1, <1>2

LEMMA DisownedStep == RecordIInv /\ [RecordNext]_recordVars => DisownedInv'
<1> SUFFICES ASSUME RecordIInv, [RecordNext]_recordVars PROVE DisownedInv'
  OBVIOUS
<1>0. RecordTypeOK'
  BY TypeStep DEF RecordIInv
<1> SUFFICES ASSUME Cardinality(marked') <= CancelCap, NEW e \in disowned', Decided(e)'
             PROVE  e \notin wav' \cup txt'
  BY DEF DisownedInv
<1>e. e \in Epochs
  BY <1>0 DEF RecordTypeOK, HistType
<1>1. DisownedInv
  BY DEF RecordIInv
<1>2. ASSUME NEW d \in Epochs, TaskStep(d) PROVE e \notin wav' \cup txt'
  <2>1. e \in disowned /\ Cardinality(marked) <= CancelCap
    BY <1>2, TaskFrame
  <2>2. CASE Decided(e)
    BY <1>1, <1>2, <1>e, <2>1, <2>2, TaskFiles DEF DisownedInv, Decided
  <2>3. CASE ~Decided(e)
    BY <1>2, <1>e, <2>1, <2>3, TaskFiles, DisownedIsCancelled DEF Decided
  <2>4. QED
    BY <2>2, <2>3
<1>3. CASE ~\E d \in Epochs : TaskStep(d)
  <2>1. task[e] = "emitting" /\ UNCHANGED <<wav, txt>>
    BY <1>3, <1>e, FilesFrame DEF Decided, RecordIInv, RecordTypeOK, TaskType
  <2>2. e \in disowned /\ marked \subseteq marked'
    BY <1>e, <2>1, MarkFrame DEF Mark, Decided, Discard
  <2>3. Cardinality(marked) <= CancelCap
    <3>1. IsFiniteSet(Epochs)
      BY FS_Interval, BoundsAssumption DEF Epochs
    <3>2. marked' \subseteq Epochs
      BY <1>0 DEF RecordTypeOK, HistType
    <3>3. /\ Cardinality(marked) <= Cardinality(marked')
          /\ Cardinality(marked) \in Nat /\ Cardinality(marked') \in Nat
      <4>1. IsFiniteSet(marked')
        BY <3>1, <3>2, FS_Subset
      <4>2. QED
        BY <2>2, <4>1, FS_Subset, FS_CardinalityType
    <3>4. QED
      BY <3>3, CapAssumption
  <2>4. QED
    BY <1>1, <2>1, <2>2, <2>3 DEF DisownedInv, Decided
<1>4. QED
  BY <1>2, <1>3

LEMMA KeptStep == RecordIInv /\ [RecordNext]_recordVars => KeptInv'
<1> SUFFICES ASSUME RecordIInv, [RecordNext]_recordVars PROVE KeptInv'
  OBVIOUS
<1>1. /\ phase \in [Epochs -> Phases] /\ slot \in 0..MaxEpoch /\ detached \in 0..MaxEpoch
      /\ kept \subseteq Epochs /\ disowned \subseteq Epochs
      /\ activeEpoch \in 0..MaxEpoch /\ MaxEpoch \in Nat
      /\ \A e \in Epochs : phase[e] = "live" <=> e = slot
      /\ \A e \in Epochs : phase[e] # "none" => e <= activeEpoch
      /\ detached # 0 => phase[detached] # "none"
      /\ slot # 0 => slot \in Epochs
      /\ detached # 0 => detached \in Epochs
      /\ 0 \notin Epochs
  BY BoundsAssumption DEF RecordIInv, RecordTypeOK, SharedType, ThreadType, HistType, Claims, Epochs
<1>2. /\ \A e \in kept : e # detached /\ phase[e] \notin {"none", "live", "discarding"}
      /\ \A e \in disowned : phase[e] \notin {"none", "live"} /\ e \notin kept
  BY DEF RecordIInv, KeptInv
<1> USE DEF KeptInv
<1>3. CASE StartBegin
  BY <1>1, <1>2, <1>3 DEF StartBegin, histVars
<1>4. ASSUME NEW save \in BOOLEAN, StartOpens(save)
      PROVE  KeptInv'
  <2>1. activeEpoch + 1 \in Epochs /\ phase[activeEpoch + 1] = "none"
    BY <1>1, <1>4 DEF StartOpens, Epochs
  <2>2. QED
    BY <1>1, <1>2, <1>4, <2>1 DEF StartOpens, histVars
<1>5. CASE StartFails \/ RetireEpoch
  BY <1>2, <1>5 DEF StartFails, RetireEpoch, threadVars, histVars
<1>6. CASE Stop
  BY <1>1, <1>2, <1>6 DEF Stop
<1>7. ASSUME NEW user \in BOOLEAN, NEW discard \in BOOLEAN, Cancel(user, discard)
      PROVE  KeptInv'
  <2>1. CASE slot = 0
    <3>1. phase' = phase
      BY <1>7, <2>1 DEF Cancel
    <3>2. kept' \subseteq kept \cup {e \in {detached} \ ({0} \cup disowned) :
                                       ~discard /\ phase[e] # "discarding"}
      BY <1>7, <2>1 DEF Cancel
    <3>3. /\ discard \/ detached' = 0
          /\ detached' \in {0, detached}
      BY <1>7, <2>1 DEF Cancel, Settle
    <3>4. disowned' \subseteq disowned \cup {d \in {detached} \ {0} : discard}
      BY <1>7, <2>1 DEF Cancel, Settle, Mark, MarkNothing
    <3>5. QED
      BY <1>1, <1>2, <2>1, <3>1, <3>2, <3>3, <3>4
  <2>2. CASE slot # 0
    <3>1. /\ detached' = 0 /\ disowned' = disowned
          /\ phase' = [phase EXCEPT ![slot] = IF Finishes(slot, user, discard)
                                              THEN "joining" ELSE "discarding"]
      BY <1>7, <2>2 DEF Cancel, Settle, MarkNothing
    <3>2. /\ phase[slot] = "live" /\ slot \in Epochs
          /\ slot \notin disowned /\ slot \notin kept
      BY <1>1, <1>2, <2>2
    <3>3. CASE Finishes(slot, user, discard)
      <4>1. kept' \subseteq kept \cup {slot}
        BY <1>7, <2>2, <3>3 DEF Cancel
      <4>2. phase' = [phase EXCEPT ![slot] = "joining"]
        BY <3>1, <3>3
      <4>3. QED
        BY <1>1, <1>2, <3>1, <3>2, <4>1, <4>2
    <3>4. CASE ~Finishes(slot, user, discard)
      <4>1. kept' = kept
        BY <1>7, <2>2, <3>4 DEF Cancel
      <4>2. phase' = [phase EXCEPT ![slot] = "discarding"]
        BY <3>1, <3>4
      <4>3. QED
        BY <1>1, <1>2, <3>1, <3>2, <4>1, <4>2
    <3>5. QED
      BY <3>3, <3>4
  <2>3. QED
    BY <2>1, <2>2
<1>8. ASSUME NEW e \in Epochs, World(e)
      PROVE  KeptInv'
  BY <1>2, <1>8 DEF World, CaptureAudio, DeviceLost, CaptureFails, sharedVars, histVars
<1>9. ASSUME NEW e \in Epochs, Discard(e)
      PROVE  KeptInv'
  BY <1>1, <1>2, <1>9 DEF Discard, Mark
<1>10. ASSUME NEW e \in Epochs, Finish(e) \/ Drop(e)
       PROVE  KeptInv'
  BY <1>1, <1>2, <1>10 DEF Finish, Drop, sharedVars, histVars
<1>11. ASSUME NEW e \in Epochs, CaptureFailed(e) \/ CaptureEnds(e)
       PROVE  KeptInv'
  BY <1>2, <1>11 DEF CaptureFailed, CaptureEnds, sharedVars, histVars
<1>12. ASSUME NEW e \in Epochs, Salvage(e)
       PROVE  KeptInv'
  BY <1>1, <1>2, <1>12 DEF Salvage, Publish
<1>13. ASSUME NEW e \in Epochs, TaskStep(e)
       PROVE  KeptInv'
  BY <1>2, <1>13, TaskFrame
<1>14. CASE UNCHANGED recordVars
  BY <1>2, <1>14 DEF recordVars, sharedVars, threadVars, histVars
<1>15. QED
  BY <1>3, <1>4, <1>5, <1>6, <1>7, <1>8, <1>9, <1>10, <1>11, <1>12, <1>13, <1>14
  DEF RecordNext, Commands, StartReturns, UserCancel, RecoveryCancel, ReleaseCancel,
      Threads, TaskStep

(* Who moves the slot of the detached batch.                               *)
LEMMA SlotMoves ==
  ASSUME RecordIInv, [RecordNext]_recordVars
  PROVE  \/ UNCHANGED <<detached, newestTaken, late>>
         \/ detached' = 0
         \/ /\ slot # 0 /\ detached' = slot /\ newestTaken' = Newest(slot)
            /\ late' = late
         \/ \E e \in Epochs : Salvage(e)
<1> DEFINE Goal == \/ UNCHANGED <<detached, newestTaken, late>>
                   \/ detached' = 0
                   \/ /\ slot # 0 /\ detached' = slot /\ newestTaken' = Newest(slot)
                      /\ late' = late
                   \/ \E e \in Epochs : Salvage(e)
<1>1. ASSUME StartBegin \/ StartReturns \/ RetireEpoch \/ Stop PROVE Goal
  BY <1>1 DEF StartBegin, StartReturns, StartOpens, StartFails, RetireEpoch, Stop, histVars
<1>2. ASSUME NEW user \in BOOLEAN, NEW discard \in BOOLEAN, Cancel(user, discard)
      PROVE  Goal
  <2>1. slot = 0 => newestTaken' = newestTaken
    BY <1>2 DEF Cancel, Newest, RecordIInv, RecordTypeOK, HistType
  <2>2. QED
    BY <1>2, <2>1 DEF Cancel, Settle
<1>3. ASSUME NEW e \in Epochs, World(e) PROVE Goal
  BY <1>3 DEF World, CaptureAudio, DeviceLost, CaptureFails, sharedVars, histVars
<1>4. ASSUME NEW e \in Epochs, \/ Discard(e) \/ Finish(e) \/ Drop(e) \/ CaptureFailed(e)
                               \/ CaptureEnds(e) \/ Salvage(e) PROVE Goal
  BY <1>4 DEF Discard, Finish, Drop, CaptureFailed, CaptureEnds, sharedVars, histVars
<1>5. ASSUME NEW e \in Epochs, TaskStep(e) PROVE Goal
  BY <1>5, TaskFrame
<1>6. CASE UNCHANGED recordVars
  BY <1>6 DEF recordVars, sharedVars, histVars
<1>7. QED
  BY <1>1, <1>2, <1>3, <1>4, <1>5, <1>6
  DEF RecordNext, Commands, UserCancel, RecoveryCancel, ReleaseCancel, Threads, TaskStep

LEMMA SlotStep == RecordIInv /\ [RecordNext]_recordVars => SlotInv'
<1> SUFFICES ASSUME RecordIInv, [RecordNext]_recordVars PROVE SlotInv'
  OBVIOUS
<1>1. /\ SlotInv /\ detached \in Int /\ slot \in Int /\ newestTaken \in Int
      /\ slot # 0 => newestTaken < slot
  BY DEF RecordIInv, RecordTypeOK, SharedType, HistType, Claims
<1>2. ASSUME NEW e \in Epochs, Salvage(e) PROVE SlotInv'
  <2>1. e \in Int
    BY DEF Epochs
  <2>2. QED
    BY <1>1, <1>2, <2>1 DEF Salvage, Publish, SlotInv
<1>3. QED
  BY <1>1, <1>2, SlotMoves DEF SlotInv, Newest

-----------------------------------------------------------------------------
(* The theorems.                                                            *)

LEMMA InvInit == RecordInit => RecordIInv
<1> SUFFICES ASSUME RecordInit PROVE RecordIInv
  OBVIOUS
<1> USE DEF RecordInit
<1>1. RecordTypeOK
  BY TypeInit
<1>2. Claims /\ KeptInv /\ SlotInv
  BY BoundsAssumption DEF Claims, KeptInv, SlotInv, Epochs
<1>3. Buffers /\ Spawners
  BY DEF Buffers, Spawners
<1>4. Files /\ DisownedInv
  BY DEF Files, DisownedInv
<1>5. ListInv
  <2>1. Range(cancelled) = {}
    BY DEF Range
  <2>2. Cardinality({}) = 0 /\ Len(cancelled) = 0
    BY FS_EmptySet, EmptySeq
  <2>3. QED
    BY <2>1, <2>2 DEF ListInv
<1>6. QED
  BY <1>1, <1>2, <1>3, <1>4, <1>5 DEF RecordIInv

LEMMA InvStep == RecordIInv /\ [RecordNext]_recordVars => RecordIInv'
BY TypeStep, ClaimsStep, BuffersStep, ListStep, FilesStep, DisownedStep, KeptStep,
   SlotStep DEF RecordIInv

LEMMA InvHolds == RecordSpec => []RecordIInv
BY InvInit, InvStep, PTL DEF RecordSpec

(* A stopped session's clip is handed to one transcription and no more,     *)
(* whatever the order of its stop, a cancel and the loss of its device.    *)
THEOREM OneTranscription == RecordSpec => []TranscribedExactlyOnce
<1>1. RecordIInv => TranscribedExactlyOnce
  BY DEF RecordIInv, Buffers, Spawners, TranscribedExactlyOnce
<1>2. QED
  BY <1>1, InvHolds, PTL

(* While the list has not overflowed, a session disowned before its task's *)
(* last look leaves no file, at any number of sessions and epochs.         *)
THEOREM NothingLeft == RecordSpec => []DisownedLeavesNothing
<1>1. RecordIInv => DisownedLeavesNothing
  BY DEF RecordIInv, DisownedInv, DisownedLeavesNothing, Done
<1>2. QED
  BY <1>1, InvHolds, PTL

(* A recovery cancel's keep is final.                                       *)
THEOREM KeepIsFinal == RecordSpec => []KeptNeverDisowned
<1>1. RecordIInv => KeptNeverDisowned
  BY DEF RecordIInv, KeptInv, KeptNeverDisowned
<1>2. QED
  BY <1>1, InvHolds, PTL

(* The detached slot never returns to an older session.                    *)
THEOREM SlotForward == RecordSpec => SlotNeverMovesBack
<1>1. RecordIInv /\ [RecordNext]_recordVars => [detached' >= detached \/ detached' = 0]_recordVars
  <2> SUFFICES ASSUME RecordIInv, [RecordNext]_recordVars PROVE detached' >= detached \/ detached' = 0
    OBVIOUS
  <2>1. /\ detached \in Int /\ slot \in Int
        /\ detached # 0 => detached \in Epochs /\ phase[detached] # "none"
        /\ slot # 0 => \A e \in Epochs : phase[e] # "none" => e <= slot
    BY DEF RecordIInv, RecordTypeOK, SharedType, Claims, Epochs
  <2>2. slot >= detached \/ slot = 0 \/ detached = 0
    BY <2>1
  <2>3. ASSUME NEW e \in Epochs, Salvage(e) PROVE detached' >= detached
    BY <2>1, <2>3 DEF Salvage, Publish, Epochs
  <2>4. slot # 0 /\ detached = 0 => slot >= detached
    BY DEF RecordIInv, RecordTypeOK, SharedType
  <2>5. QED
    BY <2>1, <2>2, <2>3, <2>4, SlotMoves
<1>2. QED
  BY <1>1, InvHolds, PTL DEF RecordSpec, SlotNeverMovesBack

(* A Cancel that finds no live session disowns only the newest batch taken, *)
(* or a salvage that ran late.                                             *)
THEOREM NoReachBack == RecordSpec => CancelNeverReachesBack
<1> DEFINE Step == \A e \in disowned' \ disowned :
                      phase[e] = "discarding" \/ e >= newestTaken \/ e \in late
<1>1. RecordIInv /\ [RecordNext]_recordVars => [Step]_recordVars
  <2> SUFFICES ASSUME RecordIInv, [RecordNext]_recordVars, NEW e \in disowned' \ disowned
               PROVE  phase[e] = "discarding" \/ e >= newestTaken \/ e \in late
    OBVIOUS
  <2>1. CASE Mark(detached)
    <3>1. e = detached /\ detached # 0
      BY <2>1 DEF Mark
    <3>2. QED
      BY <3>1 DEF RecordIInv, SlotInv
  <2>2. ASSUME NEW d \in Epochs, Discard(d)
        PROVE  phase[e] = "discarding"
    BY <2>2 DEF Discard, Mark
  <2>3. QED
    BY <2>1, <2>2, MarkFrame
<1>2. QED
  BY <1>1, InvHolds, PTL DEF RecordSpec, CancelNeverReachesBack

(* No clip is uploaded once its session is disowned, while the list has not *)
(* overflowed.                                                             *)
THEOREM NoLateUpload == RecordSpec => DisownedNeverUploaded
<1> DEFINE Step == Cardinality(marked) <= CancelCap =>
       \A e \in disowned : task'[e] = "posting" => task[e] = "posting"
<1>1. RecordIInv /\ [RecordNext]_recordVars => [Step]_recordVars
  <2> SUFFICES ASSUME RecordIInv, [RecordNext]_recordVars, Cardinality(marked) <= CancelCap,
                      NEW e \in disowned, task'[e] = "posting"
               PROVE  task[e] = "posting"
    OBVIOUS
  <2>1. e \in Epochs /\ IsCancelled(e) /\ task \in [Epochs -> {"none", "spawned",
           "saving", "saved", "posting", "labelling", "emitting"}]
    BY DisownedIsCancelled DEF RecordIInv, RecordTypeOK, HistType, TaskType
  <2>2. ASSUME NEW d \in Epochs, TaskStep(d) PROVE task[e] = "posting"
    <3>1. CASE d # e
      BY <2>1, <2>2, <3>1, TaskFiles
    <3>2. CASE d = e
      BY <2>1, <2>2, <3>2 DEF TaskStep, TaskBegins, SavePanics, Uploads, Saves,
         Answers, Labels, Arms, Delivers, TaskGoes, taskVars
    <3>3. QED
      BY <3>1, <3>2
  <2>3. CASE ~\E d \in Epochs : TaskStep(d)
    BY <2>1, <2>3, FilesFrame
  <2>4. QED
    BY <2>2, <2>3
<1>2. QED
  BY <1>1, InvHolds, PTL DEF RecordSpec, DisownedNeverUploaded
-----------------------------------------------------------------------------
(* The last word of a session.                                              *)

(* A session whose thread is about to end, or whose task will say no more,   *)
(* and that nobody else is to close.                                        *)
Waiting(e) ==
  \/ capture[e] = "failing"
  \/ /\ capture[e] = "exited" /\ task[e] \in {"none", "emitting"}
     /\ phase[e] \in {"live", "finished"} \/ (phase[e] = "joining" /\ e \in lost)

(* Every cancel moves the active epoch past what it gives up, so a task that *)
(* finds itself cancelled has nothing to say to the window.                 *)
ClosingInv ==
  /\ \A e \in marked : e < activeEpoch
  /\ \A e \in Epochs : phase[e] = "discarding" => e < activeEpoch
  /\ \A e \in Epochs : Waiting(e) => e \in seen \cup closing \/ activeEpoch # e

LEMMA MarkedBehind ==
  ASSUME RecordIInv, ClosingInv, [RecordNext]_recordVars
  PROVE  /\ \A e \in marked' : e < activeEpoch'
         /\ \A e \in Epochs : phase'[e] = "discarding" => e < activeEpoch'
<1>1. /\ \A e \in Epochs : e \in Int
      /\ phase \in [Epochs -> Phases] /\ activeEpoch \in Int /\ marked \subseteq Epochs
      /\ detached # 0 => detached \in Epochs /\ detached <= activeEpoch
      /\ slot # 0 => slot \in Epochs /\ slot <= activeEpoch
      /\ \A e \in Epochs : phase[e] # "none" => e <= activeEpoch
      /\ \A e \in marked : e < activeEpoch
      /\ \A e \in Epochs : phase[e] = "discarding" => e < activeEpoch
  <2>1. /\ \A e \in Epochs : e \in Int
        /\ activeEpoch \in Int /\ slot \in 0 .. MaxEpoch /\ detached \in 0 .. MaxEpoch
    BY BoundsAssumption DEF RecordIInv, RecordTypeOK, SharedType, Epochs
  <2>2. \A e \in 0 .. MaxEpoch : e # 0 => e \in Epochs
    BY DEF Epochs
  <2>3. \A e \in Epochs : phase[e] # "none" => e <= activeEpoch
    BY DEF RecordIInv, Claims
  <2>4. detached # 0 => phase[detached] # "none"
    BY DEF RecordIInv, Claims
  <2>5. slot # 0 => phase[slot] # "none"
    BY <2>1, <2>2 DEF RecordIInv, Claims
  <2>6. phase \in [Epochs -> Phases] /\ marked \subseteq Epochs
    BY DEF RecordIInv, RecordTypeOK, ThreadType, HistType
  <2> QED
    BY <2>1, <2>2, <2>3, <2>4, <2>5, <2>6 DEF ClosingInv
<1> DEFINE Goal == /\ \A e \in marked' : e < activeEpoch'
                   /\ \A e \in Epochs : phase'[e] = "discarding" => e < activeEpoch'
<1>2. ASSUME activeEpoch' >= activeEpoch, activeEpoch' \in Int, marked' = marked,
             \A e \in Epochs : phase'[e] = "discarding" => phase[e] = "discarding"
      PROVE  Goal
  BY <1>1, <1>2
<1>3. CASE StartBegin \/ StartReturns \/ RetireEpoch \/ Stop
  <2>1. activeEpoch' >= activeEpoch /\ activeEpoch' \in Int /\ marked' = marked
    BY <1>1, <1>3
    DEF StartBegin, StartReturns, StartOpens, StartFails, RetireEpoch, Stop, histVars
  <2>2. \A e \in Epochs : phase'[e] = "discarding" => phase[e] = "discarding"
    BY <1>1, <1>3
    DEF StartBegin, StartReturns, StartOpens, StartFails, RetireEpoch, Stop, threadVars
  <2> QED
    BY <1>2, <2>1, <2>2
<1>4. ASSUME NEW user \in BOOLEAN, NEW discard \in BOOLEAN, Cancel(user, discard)
      PROVE  Goal
  <2>1. activeEpoch' = activeEpoch + 1
    BY <1>4 DEF Cancel
  <2>2. marked' \subseteq marked \cup ({detached} \ {0})
    BY <1>4, Cancels DEF Mark, MarkNothing
  <2>3. \A e \in Epochs : phase'[e] = "discarding" => phase[e] = "discarding" \/ (e = slot /\ slot # 0)
    BY <1>1, <1>4 DEF Cancel
  <2> QED
    BY <1>1, <2>1, <2>2, <2>3
<1>5. ASSUME NEW d \in Epochs, Discard(d) PROVE Goal
  <2>1. activeEpoch' = activeEpoch /\ marked' \subseteq marked \cup {d}
        /\ phase[d] = "discarding" /\ phase' = [phase EXCEPT ![d] = "dropping"]
    BY <1>5 DEF Discard, Mark
  <2> QED
    BY <1>1, <2>1
<1>6. ASSUME NEW d \in Epochs, \/ World(d) \/ Finish(d) \/ Drop(d)
                               \/ CaptureFailed(d) \/ CaptureEnds(d) \/ Salvage(d)
      PROVE  Goal
  <2>1. activeEpoch' = activeEpoch /\ marked' = marked
    BY <1>6 DEF World, CaptureAudio, DeviceLost, CaptureFails, Finish, Drop, CaptureFailed,
       CaptureEnds, Salvage, sharedVars, histVars
  <2>2. \A e \in Epochs : phase'[e] = "discarding" => phase[e] = "discarding"
    BY <1>1, <1>6 DEF World, CaptureAudio, DeviceLost, CaptureFails, Finish, Drop, CaptureFailed,
       CaptureEnds, Salvage
  <2> QED
    BY <1>1, <1>2, <2>1, <2>2
<1>7. ASSUME NEW d \in Epochs, TaskStep(d) PROVE Goal
  BY <1>1, <1>2, <1>7, TaskFrame
<1>8. CASE UNCHANGED recordVars
  BY <1>1, <1>2, <1>8 DEF recordVars, sharedVars, threadVars, histVars
<1> QED
  BY <1>3, <1>4, <1>5, <1>6, <1>7, <1>8
  DEF RecordNext, Commands, UserCancel, RecoveryCancel, ReleaseCancel, Threads, TaskStep

LEMMA WaitingIsOwed ==
  ASSUME RecordIInv, ClosingInv, [RecordNext]_recordVars, NEW e \in Epochs, Waiting(e)', activeEpoch' = e
  PROVE  e \in seen' \cup closing'
<1>1. /\ phase \in [Epochs -> Phases] /\ activeEpoch \in 0 .. MaxEpoch /\ e \in Int
      /\ capture \in [Epochs -> {"off", "running", "failing", "salvaging", "exited"}]
      /\ task \in [Epochs -> {"none", "spawned", "saving", "saved", "posting",
                              "labelling", "emitting"}]
  BY BoundsAssumption DEF RecordIInv, RecordTypeOK, SharedType, ThreadType, TaskType, Epochs
<1>2. Waiting(e) /\ activeEpoch = e => e \in seen \cup closing
  BY DEF ClosingInv
<1>3. ASSUME activeEpoch = e, Waiting(e), seen \cup closing \subseteq seen' \cup closing'
      PROVE  e \in seen' \cup closing'
  BY <1>2, <1>3
<1>4. ASSUME activeEpoch + 1 = e PROVE phase[e] = "none" /\ capture[e] = "off" /\ e # slot
  <2>1. ~(e <= activeEpoch)
    BY <1>1, <1>4
  <2>2. phase[e] = "none"
    BY <2>1 DEF RecordIInv, Claims
  <2> QED
    BY <2>2 DEF RecordIInv, Buffers, Claims
<1>5. CASE StartBegin
  <2>1. UNCHANGED <<activeEpoch, capture, task, lost, closing, seen>>
    BY <1>5 DEF StartBegin, taskVars, eventVars
  <2>2. phase'[e] \in {"live", "finished", "joining"} => phase'[e] = phase[e]
    BY <1>5 DEF StartBegin
  <2> QED
    BY <1>3, <2>1, <2>2 DEF Waiting
<1>6. ASSUME NEW save \in BOOLEAN, StartOpens(save) PROVE FALSE
  BY <1>1, <1>6 DEF StartOpens, Waiting
<1>7. CASE StartFails \/ RetireEpoch
  <2>1. UNCHANGED <<capture, task, lost, closing, seen, phase>>
    BY <1>7 DEF StartFails, RetireEpoch, threadVars, taskVars, eventVars
  <2>2. activeEpoch' = activeEpoch \/ activeEpoch' = activeEpoch + 1
    BY <1>7 DEF StartFails, RetireEpoch
  <2>3. CASE activeEpoch' = activeEpoch
    BY <1>3, <2>1, <2>3 DEF Waiting
  <2>4. CASE activeEpoch' = activeEpoch + 1
    BY <1>4, <2>1, <2>4 DEF Waiting
  <2> QED
    BY <2>2, <2>3, <2>4
<1>8. CASE Stop
  <2>1. UNCHANGED <<activeEpoch, capture, task, lost, closing, seen>>
    BY <1>8 DEF Stop, taskVars, eventVars
  <2>2. phase[slot] = "live" /\ slot \in Epochs /\ phase' = [phase EXCEPT ![slot] = "joining"]
    BY <1>8 DEF Stop, RecordIInv, Claims, RecordTypeOK, SharedType, Epochs
  <2> QED
    BY <1>1, <1>3, <2>1, <2>2 DEF Waiting
<1>9. ASSUME NEW user \in BOOLEAN, NEW discard \in BOOLEAN, Cancel(user, discard)
      PROVE  FALSE
  <2>1. activeEpoch + 1 = e /\ UNCHANGED <<capture, task>>
    BY <1>9 DEF Cancel, taskVars
  <2> QED
    BY <1>4, <2>1 DEF Waiting
<1>10. ASSUME NEW d \in Epochs, World(d) PROVE e \in seen' \cup closing'
  <2>1. activeEpoch' = activeEpoch /\ UNCHANGED <<phase, task, seen>> /\ closing \subseteq closing'
    BY <1>10 DEF World, CaptureAudio, DeviceLost, CaptureFails, sharedVars, eventVars, taskVars
  <2>2. CASE d # e
    <3>1. capture'[e] = capture[e] /\ (e \in lost' <=> e \in lost)
      BY <1>1, <1>10, <2>2 DEF World, CaptureAudio, DeviceLost, CaptureFails
    <3> QED
      BY <1>3, <2>1, <3>1 DEF Waiting
  <2>3. CASE d = e
    BY <1>1, <1>10, <2>3 DEF World, CaptureAudio, DeviceLost, CaptureFails, Waiting
  <2> QED
    BY <2>2, <2>3
<1>11. ASSUME NEW d \in Epochs, Discard(d) \/ Drop(d) PROVE e \in seen' \cup closing'
  <2>1. UNCHANGED <<activeEpoch, capture, task, seen, closing>> /\ lost' \subseteq lost
    BY <1>11 DEF Discard, Drop, sharedVars, eventVars, taskVars
  <2>2. phase'[e] \in {"live", "finished", "joining"} => phase'[e] = phase[e]
    BY <1>1, <1>11 DEF Discard, Drop
  <2> QED
    BY <1>3, <2>1, <2>2 DEF Waiting
<1>12. ASSUME NEW d \in Epochs, Finish(d) PROVE e \in seen' \cup closing'
  <2>1. UNCHANGED <<activeEpoch, capture, seen, closing>> /\ lost' = lost \ {d}
    BY <1>12 DEF Finish, sharedVars, eventVars
  <2>2. /\ phase[d] = "joining" /\ capture[d] = "exited"
        /\ phase' = [phase EXCEPT ![d] = "finished"]
        /\ task' = IF d \in lost THEN task ELSE [task EXCEPT ![d] = "spawned"]
    BY <1>12 DEF Finish, Spawn, SpawnNothing
  <2>3. CASE d # e
    BY <1>1, <1>3, <2>1, <2>2, <2>3 DEF Waiting
  <2>4. CASE d = e /\ d \in lost
    BY <1>1, <1>3, <2>1, <2>2, <2>4 DEF Waiting
  <2>5. CASE d = e /\ d \notin lost
    BY <1>1, <2>1, <2>2, <2>5 DEF Waiting
  <2> QED
    BY <2>3, <2>4, <2>5
<1>13. ASSUME NEW d \in Epochs, CaptureFailed(d) \/ CaptureEnds(d)
       PROVE  e \in seen' \cup closing'
  <2>1. UNCHANGED <<activeEpoch, phase, task, seen, closing, lost>>
    BY <1>13 DEF CaptureFailed, CaptureEnds, sharedVars, eventVars, taskVars
  <2>2. CASE d # e
    BY <1>1, <1>3, <1>13, <2>1, <2>2 DEF Waiting, CaptureFailed, CaptureEnds
  <2>3. CASE d = e /\ CaptureFailed(d)
    BY <1>1, <1>3, <2>1, <2>3 DEF Waiting, CaptureFailed
  <2>4. CASE d = e /\ CaptureEnds(d)
    BY <1>1, <2>1, <2>4 DEF Waiting, CaptureEnds, Stopping, DiscardFlag
  <2> QED
    BY <1>13, <2>2, <2>3, <2>4
<1>14. ASSUME NEW d \in Epochs, Salvage(d) PROVE e \in seen' \cup closing'
  <2>1. UNCHANGED <<activeEpoch, phase, seen, closing, lost>>
    BY <1>14 DEF Salvage, eventVars
  <2>2. CASE d # e
    BY <1>1, <1>3, <1>14, <2>1, <2>2 DEF Waiting, Salvage, Spawn
  <2>3. CASE d = e
    BY <1>1, <1>14, <2>3 DEF Waiting, Salvage, Spawn
  <2> QED
    BY <2>2, <2>3
<1>15. ASSUME NEW d \in Epochs, TaskStep(d) PROVE e \in seen' \cup closing'
  <2>1. UNCHANGED <<activeEpoch, phase, capture, lost, cancelled>>
    BY <1>15, TaskFrame
  <2>2. ~IsCancelled(e)
    <3>1. Range(cancelled) \subseteq marked /\ ~(e < activeEpoch)
      BY <1>1, <2>1 DEF RecordIInv, ListInv
    <3> QED
      BY <3>1 DEF IsCancelled, ClosingInv
  <2>3. CASE Arms(d) \/ Delivers(d)
    <3>1. task' = task /\ (e \in seen \cup closing => e \in seen' \cup closing')
      BY <2>1, <2>3 DEF Arms, Delivers, taskVars
    <3> QED
      BY <1>2, <2>1, <3>1 DEF Waiting
  <2>4. CASE d # e
    <3>1. task'[e] = task[e] /\ (e \in seen \cup closing => e \in seen' \cup closing')
      BY <1>1, <1>15, <2>4 DEF TaskStep, TaskBegins, SavePanics, Uploads, Saves, Answers, Labels,
         Arms, Delivers, TaskGoes, taskVars
    <3> QED
      BY <1>2, <2>1, <3>1 DEF Waiting
  <2>5. CASE d = e /\ ~Arms(d) /\ ~Delivers(d)
    <3>1. seen' = seen /\ closing \subseteq closing'
      BY <1>15, <2>5 DEF TaskStep, TaskBegins, SavePanics, Uploads, Saves, Answers, Labels, TaskGoes
    <3>2. task'[e] \in {"saving", "saved", "posting", "labelling"} \/ e \in closing'
      BY <1>1, <1>15, <2>2, <2>5 DEF TaskStep, TaskBegins, SavePanics, Uploads, Saves, Answers,
         Labels, TaskGoes
    <3>3. capture'[e] # "failing" \/ e \in seen' \cup closing'
      BY <1>2, <2>1, <3>1 DEF Waiting
    <3> QED
      BY <3>2, <3>3 DEF Waiting
  <2> QED
    BY <2>3, <2>4, <2>5
<1>16. CASE UNCHANGED recordVars
  <2>1. UNCHANGED <<activeEpoch, phase, capture, lost, task, seen, closing>>
    BY <1>16 DEF recordVars, sharedVars, threadVars, taskVars, eventVars
  <2> QED
    BY <1>3, <2>1 DEF Waiting
<1> QED
  BY <1>5, <1>6, <1>7, <1>8, <1>9, <1>10, <1>11, <1>12, <1>13, <1>14, <1>15, <1>16
  DEF RecordNext, Commands, StartReturns, UserCancel, RecoveryCancel, ReleaseCancel, Threads, TaskStep

(* Whichever of the five paths ends a session, it ends with `closed` in the   *)
(* window, or another session has taken the window over.                    *)
THEOREM LastWordIsClosed == RecordSpec => []ClosedWhenSilent
<1>1. RecordInit => ClosingInv
  BY DEF RecordInit, ClosingInv, Waiting
<1>2. RecordIInv /\ ClosingInv /\ [RecordNext]_recordVars => ClosingInv'
  <2> SUFFICES ASSUME RecordIInv, ClosingInv, [RecordNext]_recordVars PROVE ClosingInv'
    OBVIOUS
  <2>1. \A e \in Epochs : Waiting(e)' => e \in seen' \cup closing' \/ activeEpoch' # e
    BY WaitingIsOwed
  <2> QED
    BY <2>1, MarkedBehind DEF ClosingInv
<1>3. ClosingInv => ClosedWhenSilent
  BY DEF ClosingInv, ClosedWhenSilent, Silent, Waiting
<1> QED
  BY <1>1, <1>2, <1>3, InvHolds, PTL DEF RecordSpec
-----------------------------------------------------------------------------
(* RecordSession implements BatchClip: every step of the commands, the     *)
(* capture threads and the transcription tasks is one step of one clip's   *)
(* life, or none.  The steps are matched under the invariant above and one *)
(* fact more: the cancelled list names no session twice, so a full list is *)
(* a full memory.                                                          *)

(* mark_batch_cancelled never lists an epoch it already lists.             *)
Distinct == \A i, j \in 1..Len(cancelled) : i # j => cancelled[i] # cancelled[j]

LEMMA RememberDistinct ==
  ASSUME NEW q \in Seq(Epochs), NEW e \in 0..MaxEpoch,
         \A i, j \in 1..Len(q) : i # j => q[i] # q[j]
  PROVE  \A i, j \in 1..Len(Remember(q, e)) : i # j => Remember(q, e)[i] # Remember(q, e)[j]
<1>1. CASE e = 0 \/ e \in Range(q)
  BY <1>1 DEF Remember
<1>2. CASE ~(e = 0 \/ e \in Range(q))
  <2>1. e \in Epochs /\ \A i \in 1..Len(q) : q[i] # e
    BY <1>2 DEF Epochs, Range
  <2>2. /\ Append(q, e) \in Seq(Epochs) /\ Len(Append(q, e)) = Len(q) + 1
        /\ \A i \in 1..(Len(q) + 1) : Append(q, e)[i] = IF i = Len(q) + 1 THEN e ELSE q[i]
    BY <2>1, AppendProperties
  <2>3. \A i, j \in 1..(Len(q) + 1) : i # j => Append(q, e)[i] # Append(q, e)[j]
    BY <2>1, <2>2, LenProperties
  <2>4. CASE Len(q) < CancelCap
    BY <1>2, <2>2, <2>3, <2>4, CapAssumption, LenProperties DEF Remember
  <2>5. CASE ~(Len(q) < CancelCap)
    <3>1. Remember(q, e) = Tail(Append(q, e))
      BY <1>2, <2>5, CapAssumption, LenProperties DEF Remember
    <3>2. /\ Len(Tail(Append(q, e))) = Len(q)
          /\ \A i \in 1..Len(q) : Tail(Append(q, e))[i] = Append(q, e)[i + 1]
      BY <2>2, HeadTailProperties, LenProperties
    <3>3. ASSUME NEW i \in 1..Len(q), NEW j \in 1..Len(q), i # j
          PROVE  Tail(Append(q, e))[i] # Tail(Append(q, e))[j]
      <4>1. Len(q) \in Nat
        BY LenProperties
      <4>2. i + 1 \in 1..(Len(q) + 1) /\ j + 1 \in 1..(Len(q) + 1) /\ i + 1 # j + 1
        BY <3>3, <4>1
      <4>3. QED
        BY <2>3, <3>2, <4>2
    <3>4. QED
      BY <3>1, <3>2, <3>3
  <2>6. QED
    BY <2>4, <2>5
<1>3. QED
  BY <1>1, <1>2

(* Every step leaves the list alone or marks one session.                   *)
LEMMA DistinctStep == RecordIInv /\ Distinct /\ [RecordNext]_recordVars => Distinct'
<1> SUFFICES ASSUME RecordIInv, Distinct, [RecordNext]_recordVars PROVE Distinct'
  OBVIOUS
<1>1. cancelled \in Seq(Epochs) /\ detached \in 0..MaxEpoch
  BY DEF RecordIInv, RecordTypeOK, SharedType
<1>2. ASSUME NEW e \in 0..MaxEpoch, Mark(e) PROVE Distinct'
  BY <1>1, <1>2, RememberDistinct DEF Mark, Distinct
<1>3. CASE UNCHANGED <<cancelled, marked, disowned>>
  BY <1>3 DEF Distinct
<1>4. ASSUME NEW e \in Epochs, Discard(e) PROVE Distinct'
  BY <1>2, <1>4 DEF Discard, Epochs
<1>5. QED
  BY <1>1, <1>2, <1>3, <1>4, MarkFrame

(* As many sessions are remembered as the list is long.                     *)
LEMMA ListIsMemory ==
  ASSUME RecordIInv, Distinct
  PROVE  Cardinality(Range(cancelled)) = Len(cancelled)
<1>1. cancelled \in Seq(Epochs) /\ Len(cancelled) \in Nat
  BY LenProperties DEF RecordIInv, RecordTypeOK, SharedType
<1>2. DOMAIN cancelled = 1..Len(cancelled)
  BY <1>1, LenProperties
<1>3. cancelled \in [1..Len(cancelled) -> Range(cancelled)]
  BY <1>1, <1>2, LenProperties DEF Range
<1>4. cancelled \in Injection(1..Len(cancelled), Range(cancelled))
  BY <1>2, <1>3 DEF Injection, IsInjective, Distinct
<1>5. cancelled \in Surjection(1..Len(cancelled), Range(cancelled))
  BY <1>2, <1>3 DEF Surjection, Range
<1>6. ExistsBijection(1..Len(cancelled), Range(cancelled))
  BY <1>4, <1>5 DEF ExistsBijection, Bijection
<1>7. IsFiniteSet(1..Len(cancelled)) /\ Cardinality(1..Len(cancelled)) = Len(cancelled)
  <2>1. 1 \in Int /\ Len(cancelled) \in Int
    BY <1>1
  <2>2. /\ IsFiniteSet(1..Len(cancelled))
        /\ Cardinality(1..Len(cancelled)) =
             IF 1 > Len(cancelled) THEN 0 ELSE Len(cancelled) - 1 + 1
    BY <2>1, FS_Interval
  <2>3. QED
    BY <1>1, <2>2
<1>8. QED
  BY <1>6, <1>7, FS_Bijection

(* A full list that takes a new name in forgets its oldest, and only that.  *)
LEMMA FullListForgets ==
  ASSUME NEW q \in Seq(Epochs), NEW e \in Epochs \ Range(q), Len(q) >= CancelCap,
         \A i, j \in 1..Len(q) : i # j => q[i] # q[j]
  PROVE  q[1] \in Range(q) /\ Range(Remember(q, e)) = (Range(q) \ {q[1]}) \cup {e}
<1>1. Len(q) \in Nat /\ Len(q) >= 1
  BY CapAssumption, LenProperties
<1>2. Len(q) \in Nat /\ Len(q) >= 1 /\ DOMAIN q = 1..Len(q)
  BY <1>1, LenProperties
<1> DEFINE n == Len(q)
<1> HIDE DEF n
<1>3. \A i \in 1..n : /\ i + 1 \in 1..(n + 1) /\ (i + 1 = n + 1 <=> i = n)
                       /\ i # n => i + 1 \in 1..n /\ i + 1 # 1
  <2>1. n \in Nat /\ n >= 1
    BY <1>1 DEF n
  <2>2. QED
    BY <2>1
<1>4. e # 0 /\ e \in Nat
  BY BoundsAssumption DEF Epochs
<1>5. /\ Append(q, e) \in Seq(Epochs) /\ Len(Append(q, e)) = Len(q) + 1
      /\ \A i \in 1..(Len(q) + 1) : Append(q, e)[i] = IF i = Len(q) + 1 THEN e ELSE q[i]
  BY AppendProperties
<1> DEFINE r == Tail(Append(q, e))
<1>6. Remember(q, e) = r
  BY <1>2, <1>4, CapAssumption DEF Remember
<1>7. /\ DOMAIN r = 1..Len(q)
      /\ \A i \in 1..Len(q) : r[i] = Append(q, e)[i + 1]
  BY <1>2, <1>5, HeadTailProperties, LenProperties
<1> DEFINE a == Append(q, e)
<1> HIDE DEF r, a
<1>8. \A i \in 1..Len(q) : r[i] = IF i = Len(q) THEN e ELSE q[i + 1]
  <2>1. ASSUME NEW i \in 1..Len(q) PROVE r[i] = IF i = Len(q) THEN e ELSE q[i + 1]
    <3>1. i + 1 \in 1..(Len(q) + 1) /\ (i + 1 = Len(q) + 1 <=> i = Len(q))
      BY <1>3 DEF n
    <3>2. a[i + 1] = IF i + 1 = Len(q) + 1 THEN e ELSE q[i + 1]
      BY <1>5, <3>1 DEF a
    <3>3. r[i] = a[i + 1]
      BY <1>7 DEF a
    <3>4. QED
      BY <3>1, <3>2, <3>3
  <2>2. QED
    BY <2>1
<1>9. ASSUME NEW x \in Range(r) PROVE x \in (Range(q) \ {q[1]}) \cup {e}
  <2>1. PICK i \in 1..Len(q) : x = r[i]
    BY <1>7, <1>9 DEF Range
  <2>2. CASE i = Len(q)
    BY <1>8, <2>1, <2>2
  <2>3. CASE i # Len(q)
    <3>1. i + 1 \in 1..Len(q) /\ i + 1 # 1 /\ 1 \in 1..Len(q)
      BY <1>1, <1>3, <2>3 DEF n
    <3>2. x = q[i + 1]
      BY <1>8, <2>1, <2>3
    <3>3. QED
      BY <1>2, <3>1, <3>2 DEF Range
  <2>4. QED
    BY <2>2, <2>3
<1>10. ASSUME NEW x \in Range(q) \ {q[1]} PROVE x \in Range(r)
  <2>1. PICK i \in 1..Len(q) : x = q[i]
    BY <1>2 DEF Range
  <2>2. i - 1 \in 1..Len(q) /\ i - 1 # Len(q) /\ (i - 1) + 1 = i
    BY <1>2, <1>10, <2>1
  <2>3. r[i - 1] = x
    BY <1>8, <2>1, <2>2
  <2>4. QED
    BY <1>7, <2>2, <2>3 DEF Range
<1>11. e \in Range(r)
  <2>1. Len(q) \in 1..Len(q)
    BY <1>2
  <2>2. r[Len(q)] = e
    BY <1>8, <2>1
  <2>3. QED
    BY <1>7, <2>1, <2>2 DEF Range
<1>12. q[1] \in Range(q)
  BY <1>2 DEF Range
<1>13. QED
  BY <1>6, <1>9, <1>10, <1>11, <1>12

-----------------------------------------------------------------------------
(* The refinement mapping.                                                  *)

(* A step that changes no session's fate, list or file is a stutter.        *)
LEMMA Stutters ==
  ASSUME \A e \in Epochs : Fate(e)' = Fate(e), UNCHANGED <<cancelled, wav, txt>>
  PROVE  UNCHANGED Promise!vars
BY DEF Promise!vars

(* Recording that a session was cancelled is a withdrawal, or nothing.      *)
LEMMA MarkWithdraws ==
  ASSUME RecordIInv, Distinct, NEW e \in 0..MaxEpoch, Mark(e),
         \A d \in Epochs : Fate(d)' = Fate(d), UNCHANGED <<wav, txt>>
  PROVE  [Promise!Next]_(Promise!vars)
<1>1. cancelled \in Seq(Epochs) /\ cancelled' = Remember(cancelled, e)
  BY DEF RecordIInv, RecordTypeOK, SharedType, Mark
<1>2. CASE e = 0 \/ e \in Range(cancelled)
  BY <1>1, <1>2, Stutters DEF Remember
<1>3. CASE e # 0 /\ e \notin Range(cancelled)
  <2>1. e \in Epochs
    BY <1>3 DEF Epochs
  <2>2. CASE Len(cancelled) < CancelCap
    <3>1. Range(cancelled)' = Range(cancelled) \cup {e}
      BY <1>1, <1>3, <2>2, RememberRange
    <3>2. Promise!Withdraw(e)
      BY <1>3, <2>2, <3>1, ListIsMemory DEF Promise!Withdraw, Promise!Cardinality, Cardinality
    <3>3. QED
      BY <2>1, <3>2 DEF Promise!Next
  <2>3. CASE ~(Len(cancelled) < CancelCap)
    <3>1. Len(cancelled) >= CancelCap
      BY <1>1, <2>3, CapAssumption, LenProperties
    <3>2. /\ cancelled[1] \in Range(cancelled)
          /\ Range(cancelled)' = (Range(cancelled) \ {cancelled[1]}) \cup {e}
      BY <1>1, <1>3, <2>1, <3>1, FullListForgets DEF Distinct
    <3>3. Promise!Withdraw(e)
      BY <1>3, <2>3, <3>2, ListIsMemory DEF Promise!Withdraw, Promise!Cardinality, Cardinality
    <3>4. QED
      BY <2>1, <3>3 DEF Promise!Next
  <2>4. QED
    BY <2>2, <2>3
<1>4. QED
  BY <1>2, <1>3

(* One session's fate moves: what BatchClip says of the others is kept.     *)
LEMMA FateMoves ==
  ASSUME NEW e \in Epochs, NEW from, NEW to,
         \A d \in Epochs \ {e} : Fate(d)' = Fate(d),
         Fate(e) \in from, Fate(e)' = to
  PROVE  Promise!Becomes(e, from, to)
BY DEF Promise!Becomes

(* Fate depends on the session's own task and phase alone.                  *)
LEMMA FateKept ==
  ASSUME NEW d \in Epochs, UNCHANGED <<task[d], phase[d]>>
  PROVE  Fate(d)' = Fate(d)
BY DEF Fate

(* A session without a task is as far as its thread has brought it.         *)
LEMMA FateBefore ==
  ASSUME NEW e \in Epochs, task[e] = "none"
  PROVE  Fate(e) = IF phase[e] \in {"finished", "gone"} THEN "over"
                   ELSE IF phase[e] = "none" THEN "none" ELSE "recording"
BY DEF Fate

(* Whoever holds the session moves on, short of its end: nothing is visible. *)
LEMMA PhaseHidden ==
  ASSUME RecordTypeOK, NEW e \in Epochs, UNCHANGED task, \A d \in Epochs \ {e} : phase'[d] = phase[d],
         phase[e] \notin {"none", "finished", "gone"},
         phase'[e] \notin {"none", "finished", "gone"}
  PROVE  \A d \in Epochs : Fate(d)' = Fate(d)
BY DEF Fate, RecordTypeOK, TaskType

(* The steps of the commands.                                               *)
LEMMA CommandsKeep ==
  ASSUME RecordIInv, Distinct, Commands \/ StartReturns
  PROVE  [Promise!Next]_(Promise!vars)
<1>1. /\ RecordTypeOK /\ phase \in [Epochs -> Phases] /\ 0 \notin Epochs
      /\ slot \in 0..MaxEpoch /\ detached \in 0..MaxEpoch /\ activeEpoch \in 0..MaxEpoch
      /\ \A e \in Epochs : phase[e] = "live" <=> e = slot
      /\ \A e \in Epochs : phase[e] # "none" => e <= activeEpoch
      /\ \A e \in Epochs : phase[e] = "none" => capture[e] = "off"
  BY DEF RecordIInv, RecordTypeOK, SharedType, ThreadType, Claims, Buffers, Epochs
<1>2. CASE StartBegin
  <2>1. /\ UNCHANGED <<cancelled, wav, txt, task>>
        /\ \A e \in Epochs : phase'[e] = IF e = slot THEN "replaced" ELSE phase[e]
    BY <1>2 DEF StartBegin, taskVars
  <2>2. \A e \in Epochs : Fate(e)' = Fate(e)
    BY <1>1, <2>1 DEF Fate, RecordTypeOK, TaskType
  <2>3. QED
    BY <2>1, <2>2, Stutters
<1>3. CASE StartFails \/ RetireEpoch
  <2>1. UNCHANGED <<cancelled, wav, txt, task, phase>>
    BY <1>3 DEF StartFails, RetireEpoch, threadVars, taskVars
  <2>2. QED
    BY <2>1, FateKept, Stutters
<1>4. ASSUME NEW save \in BOOLEAN, StartOpens(save)
      PROVE  [Promise!Next]_(Promise!vars)
  <2>1. PICK e \in Epochs : e = activeEpoch + 1
    BY <1>1, <1>4, BoundsAssumption DEF StartOpens, Epochs
  <2>2. /\ phase[e] = "none" /\ phase'[e] = "live"
        /\ \A d \in Epochs \ {e} : phase'[d] = phase[d]
        /\ UNCHANGED <<cancelled, wav, txt, task>>
    BY <1>1, <1>4, <2>1 DEF StartOpens, taskVars
  <2>3. task[e] = "none"
    BY <1>1, <2>2 DEF RecordIInv, Spawners, RecordTypeOK, HistType
  <2>4. Fate(e) = "none" /\ Fate(e)' = "recording"
    BY <2>2, <2>3 DEF Fate
  <2>5. \A d \in Epochs \ {e} : Fate(d)' = Fate(d)
    BY <2>2, FateKept
  <2>6. Promise!Record(e)
    BY <2>2, <2>4, <2>5, FateMoves DEF Promise!Record
  <2>7. QED
    BY <2>6 DEF Promise!Next
<1>5. CASE Stop
  <2>1. /\ slot \in Epochs /\ UNCHANGED <<cancelled, wav, txt, task>>
        /\ phase[slot] = "live" /\ phase'[slot] = "joining"
        /\ \A d \in Epochs \ {slot} : phase'[d] = phase[d]
    BY <1>1, <1>5 DEF Stop, Epochs, taskVars
  <2>2. QED
    BY <1>1, <2>1, PhaseHidden, Stutters
<1>6. ASSUME NEW user \in BOOLEAN, NEW discard \in BOOLEAN, Cancel(user, discard)
      PROVE  [Promise!Next]_(Promise!vars)
  <2>1. UNCHANGED <<wav, txt, task>>
    BY <1>6 DEF Cancel, taskVars
  <2>2. \A d \in Epochs : Fate(d)' = Fate(d)
    <3>1. CASE slot = 0
      BY <1>6, <2>1, <3>1, FateKept DEF Cancel
    <3>2. CASE slot # 0
      <4>1. /\ slot \in Epochs /\ phase[slot] = "live"
            /\ phase'[slot] \in {"joining", "discarding"}
            /\ \A d \in Epochs \ {slot} : phase'[d] = phase[d]
        BY <1>1, <1>6, <3>2 DEF Cancel, Epochs
      <4>2. QED
        BY <1>1, <2>1, <4>1, PhaseHidden
    <3>3. QED
      BY <3>1, <3>2
  <2>3. CASE Mark(detached)
    BY <1>1, <2>1, <2>2, <2>3, MarkWithdraws
  <2>4. CASE MarkNothing
    BY <2>1, <2>2, <2>4, Stutters DEF MarkNothing
  <2>5. QED
    BY <1>6, <2>3, <2>4, Cancels
<1>7. QED
  BY <1>2, <1>3, <1>4, <1>5, <1>6
     DEF Commands, StartReturns, UserCancel, RecoveryCancel, ReleaseCancel

(* The steps of the capture threads and of whoever joins them.              *)
LEMMA ThreadsKeep ==
  ASSUME RecordIInv, Distinct, NEW e \in Epochs,
         \/ World(e)
         \/ Discard(e) \/ Finish(e) \/ Drop(e)
         \/ CaptureFailed(e) \/ CaptureEnds(e) \/ Salvage(e)
  PROVE  [Promise!Next]_(Promise!vars)
<1>1. /\ RecordTypeOK /\ phase \in [Epochs -> Phases] /\ spawns \in [Epochs -> Nat]
      /\ task \in [Epochs -> {"none", "spawned", "saving", "saved", "posting",
                              "labelling", "emitting"}]
  BY DEF RecordIInv, RecordTypeOK, ThreadType, TaskType, HistType
<1>2. /\ spawns[e] <= 1 /\ (spawns[e] = 0 <=> task[e] = "none")
      /\ spawns[e] = 1 => phase[e] \in {"finished", "gone"} \/ e \in lost
      /\ capture[e] = "salvaging" => spawns[e] = 0
      /\ phase[e] = "none" => capture[e] = "off"
      /\ phase[e] \in {"finished", "gone"} => capture[e] = "exited"
  BY DEF RecordIInv, Buffers, Spawners
<1>3. CASE World(e) \/ CaptureFailed(e) \/ CaptureEnds(e)
  <2>1. UNCHANGED <<cancelled, wav, txt, task, phase>>
    BY <1>3 DEF World, CaptureAudio, DeviceLost, CaptureFails, CaptureFailed,
                CaptureEnds, sharedVars, taskVars
  <2>2. QED
    BY <2>1, FateKept, Stutters
<1>4. CASE Discard(e)
  <2>1. /\ UNCHANGED <<wav, txt, task>> /\ Mark(e) /\ e \in 0..MaxEpoch
        /\ phase[e] = "discarding" /\ phase'[e] = "dropping"
        /\ \A d \in Epochs \ {e} : phase'[d] = phase[d]
    BY <1>1, <1>4 DEF Discard, taskVars, Epochs
  <2>2. \A d \in Epochs : Fate(d)' = Fate(d)
    BY <1>1, <2>1, PhaseHidden
  <2>3. QED
    BY <2>1, <2>2, MarkWithdraws
<1>5. ASSUME task[e] = "none", task' = [task EXCEPT ![e] = "spawned"],
             UNCHANGED <<cancelled, wav, txt>>, Fate(e) = "recording",
             \A d \in Epochs \ {e} : phase'[d] = phase[d]
      PROVE  [Promise!Next]_(Promise!vars)
  <2>1. task'[e] = "spawned" /\ \A d \in Epochs \ {e} : task'[d] = task[d]
    BY <1>1, <1>5
  <2>2. Fate(e)' = "taken"
    BY <2>1 DEF Fate
  <2>3. \A d \in Epochs \ {e} : Fate(d)' = Fate(d)
    BY <1>5, <2>1, FateKept
  <2>4. Promise!Take(e)
    BY <1>5, <2>2, <2>3, FateMoves DEF Promise!Take
  <2>5. QED
    BY <2>4 DEF Promise!Next
<1>6. ASSUME UNCHANGED <<cancelled, wav, txt, task>>,
             phase[e] \notin {"none", "finished", "gone"},
             phase'[e] \in {"finished", "gone"},
             \A d \in Epochs \ {e} : phase'[d] = phase[d]
      PROVE  [Promise!Next]_(Promise!vars)
  <2>1. \A d \in Epochs \ {e} : Fate(d)' = Fate(d)
    BY <1>6, FateKept
  <2>2. CASE task[e] = "none"
    <3>1. Fate(e) = "recording" /\ Fate(e)' = "over"
      BY <1>6, <2>2 DEF Fate
    <3>2. Promise!GiveUp(e)
      BY <1>6, <2>1, <3>1, FateMoves DEF Promise!GiveUp
    <3>3. QED
      BY <3>2 DEF Promise!Next
  <2>3. CASE task[e] # "none"
    <3>1. Fate(e)' = Fate(e)
      BY <1>1, <1>6, <2>3 DEF Fate
    <3>2. QED
      BY <1>6, <2>1, <3>1, Stutters
  <2>4. QED
    BY <2>2, <2>3
<1>7. CASE Finish(e)
  <2>1. /\ UNCHANGED <<cancelled, wav, txt>>
        /\ phase[e] = "joining" /\ phase'[e] = "finished"
        /\ \A d \in Epochs \ {e} : phase'[d] = phase[d]
    BY <1>1, <1>7 DEF Finish, sharedVars
  <2>2. CASE e \in lost
    BY <1>6, <1>7, <2>1, <2>2 DEF Finish, SpawnNothing
  <2>3. CASE e \notin lost
    <3>1. task[e] = "none" /\ task' = [task EXCEPT ![e] = "spawned"]
      BY <1>1, <1>2, <1>7, <2>1, <2>3 DEF Finish, Spawn
    <3>2. Fate(e) = "recording"
      BY <2>1, <3>1, FateBefore
    <3>3. QED
      BY <1>5, <2>1, <3>1, <3>2
  <2>4. QED
    BY <2>2, <2>3
<1>8. CASE Drop(e)
  <2>1. /\ UNCHANGED <<cancelled, wav, txt, task>>
        /\ phase[e] \in {"dropping", "replaced"} /\ phase'[e] = "gone"
        /\ \A d \in Epochs \ {e} : phase'[d] = phase[d]
    BY <1>1, <1>8 DEF Drop, sharedVars, taskVars
  <2>2. QED
    BY <1>6, <2>1
<1>9. CASE Salvage(e)
  <2>1. /\ UNCHANGED <<cancelled, wav, txt, phase>>
        /\ task[e] = "none" /\ task' = [task EXCEPT ![e] = "spawned"]
    BY <1>2, <1>9 DEF Salvage, Spawn
  <2>2. Fate(e) = "recording"
    BY <1>2, <1>9, <2>1, FateBefore DEF Salvage
  <2>3. QED
    BY <1>5, <2>1, <2>2
<1>10. QED
  BY <1>3, <1>4, <1>7, <1>8, <1>9

(* The transcription task: between two looks at the list it makes one move. *)
LEMMA TasksKeep ==
  ASSUME RecordIInv, NEW e \in Epochs, TaskStep(e)
  PROVE  [Promise!Next]_(Promise!vars)
<1>1. /\ RecordTypeOK /\ phase \in [Epochs -> Phases]
      /\ task \in [Epochs -> {"none", "spawned", "saving", "saved", "posting",
                              "labelling", "emitting"}]
      /\ e \in wav => task[e] \in {"saved", "posting", "labelling", "emitting"}
      /\ e \in wav /\ task[e] = "saved" => e \in clip
      /\ e \in txt => task[e] = "emitting"
  BY DEF RecordIInv, RecordTypeOK, ThreadType, TaskType, Files
<1>2. UNCHANGED <<cancelled, phase>>
  BY TaskFrame
<1>3. ASSUME NEW goal, task' = [task EXCEPT ![e] = goal]
      PROVE  /\ task'[e] = goal
             /\ \A d \in Epochs \ {e} : Fate(d)' = Fate(d)
  BY <1>1, <1>2, <1>3, FateKept
<1>4. ASSUME NEW goal \in {"spawned", "saving", "saved"},
             task' = [task EXCEPT ![e] = goal],
             task[e] \in {"spawned", "saving", "saved"}, UNCHANGED txt,
             wav' = wav \/ (e \notin wav /\ wav' = wav \cup {e})
      PROVE  [Promise!Next]_(Promise!vars)
  <2>1. task'[e] = goal /\ \A d \in Epochs \ {e} : Fate(d)' = Fate(d)
    BY <1>3, <1>4
  <2>2. Fate(e) = "taken" /\ Fate(e)' = "taken"
    BY <1>4, <2>1 DEF Fate
  <2>3. CASE wav' = wav
    BY <1>2, <1>4, <2>1, <2>2, <2>3, Stutters
  <2>4. CASE e \notin wav /\ wav' = wav \cup {e}
    <3>1. [d \in Epochs |-> Fate(d)]' = [d \in Epochs |-> Fate(d)]
      BY <2>1, <2>2
    <3>2. e \notin wav \cup txt /\ (wav \cup txt)' = (wav \cup txt) \cup {e}
      BY <1>1, <1>4, <2>4
    <3>3. Promise!Keep(e)
      BY <1>2, <2>2, <3>1, <3>2 DEF Promise!Keep
    <3>4. QED
      BY <3>3 DEF Promise!Next
  <2>5. QED
    BY <1>4, <2>3, <2>4
<1>5. ASSUME task' = [task EXCEPT ![e] = "emitting"],
             task[e] \in {"spawned", "saving", "saved", "posting", "labelling"},
             IF IsCancelled(e) THEN (wav \cup txt)' = (wav \cup txt) \ {e}
             ELSE (wav \cup txt)' \in {wav \cup txt, (wav \cup txt) \cup {e}}
      PROVE  [Promise!Next]_(Promise!vars)
  <2>1. task'[e] = "emitting" /\ \A d \in Epochs \ {e} : Fate(d)' = Fate(d)
    BY <1>3, <1>5
  <2>2. Fate(e) \in {"taken", "sent"} /\ Fate(e)' = "over"
    BY <1>5, <2>1 DEF Fate
  <2>3. Promise!Becomes(e, {"taken", "sent"}, "over")
    BY <2>1, <2>2, FateMoves
  <2>4. Promise!Conclude(e)
    BY <1>2, <1>5, <2>3 DEF Promise!Conclude, IsCancelled
  <2>5. QED
    BY <2>4 DEF Promise!Next
<1>6. CASE TaskBegins(e)
  <2>1. e \notin wav \cup txt /\ UNCHANGED <<wav, txt>>
    BY <1>1, <1>6 DEF TaskBegins
  <2>2. CASE IsCancelled(e)
    BY <1>5, <1>6, <2>1, <2>2 DEF TaskBegins, TaskGoes
  <2>3. CASE ~IsCancelled(e)
    BY <1>4, <1>6, <2>1, <2>3 DEF TaskBegins, TaskGoes
  <2>4. QED
    BY <2>2, <2>3
<1>7. ASSUME NEW ok \in BOOLEAN, Saves(e, ok)
      PROVE  [Promise!Next]_(Promise!vars)
  BY <1>1, <1>4, <1>7 DEF Saves, TaskGoes
<1>8. CASE SavePanics(e)
  <2>1. e \notin wav \cup txt /\ UNCHANGED <<wav, txt>>
    BY <1>1, <1>8 DEF SavePanics
  <2>2. QED
    BY <1>5, <1>8, <2>1 DEF SavePanics, TaskGoes
<1>9. CASE Uploads(e)
  <2>1. CASE e \in clip /\ ~IsCancelled(e)
    <3>1. /\ task' = [task EXCEPT ![e] = "posting"] /\ task[e] = "saved"
          /\ UNCHANGED <<wav, txt>>
      BY <1>9, <2>1 DEF Uploads, TaskGoes
    <3>2. task'[e] = "posting" /\ \A d \in Epochs \ {e} : Fate(d)' = Fate(d)
      BY <1>3, <3>1
    <3>3. Fate(e) = "taken" /\ Fate(e)' = "sent"
      BY <3>1, <3>2 DEF Fate
    <3>4. Promise!Send(e)
      BY <1>2, <2>1, <3>1, <3>2, <3>3, FateMoves DEF Promise!Send, IsCancelled
    <3>5. QED
      BY <3>4 DEF Promise!Next
  <2>2. CASE e \notin clip \/ IsCancelled(e)
    <3>1. /\ task' = [task EXCEPT ![e] = "emitting"] /\ task[e] = "saved"
          /\ UNCHANGED txt /\ e \notin txt
          /\ IF e \in clip THEN wav' = wav \ {e} ELSE wav' = wav /\ e \notin wav
      BY <1>1, <1>9, <2>2 DEF Uploads, TaskGoes
    <3>2. IF IsCancelled(e) THEN (wav \cup txt)' = (wav \cup txt) \ {e}
          ELSE (wav \cup txt)' = wav \cup txt
      BY <2>2, <3>1
    <3>3. QED
      BY <1>5, <3>1, <3>2
  <2>3. QED
    BY <2>1, <2>2
<1>10. ASSUME NEW ok \in BOOLEAN, Answers(e, ok)
       PROVE  [Promise!Next]_(Promise!vars)
  <2>1. task[e] = "posting" /\ UNCHANGED txt /\ e \notin txt
    BY <1>1, <1>10 DEF Answers
  <2>2. CASE ~IsCancelled(e) /\ ok /\ e \in wav
    <3>1. task' = [task EXCEPT ![e] = "labelling"] /\ UNCHANGED wav
      BY <1>10, <2>2 DEF Answers, TaskGoes
    <3>2. task'[e] = "labelling" /\ \A d \in Epochs \ {e} : Fate(d)' = Fate(d)
      BY <1>3, <3>1
    <3>3. Fate(e)' = Fate(e)
      BY <2>1, <3>2 DEF Fate
    <3>4. QED
      BY <1>2, <2>1, <3>1, <3>2, <3>3, Stutters
  <2>3. CASE IsCancelled(e) \/ ~(ok /\ e \in wav)
    <3>1. /\ task' = [task EXCEPT ![e] = "emitting"]
          /\ wav' = IF IsCancelled(e) THEN wav \ {e} ELSE wav
      BY <1>10, <2>3 DEF Answers, TaskGoes
    <3>2. IF IsCancelled(e) THEN (wav \cup txt)' = (wav \cup txt) \ {e}
          ELSE (wav \cup txt)' = wav \cup txt
      BY <2>1, <3>1
    <3>3. QED
      BY <1>5, <2>1, <3>1, <3>2
  <2>4. QED
    BY <2>2, <2>3
<1>11. ASSUME NEW wrote \in BOOLEAN, Labels(e, wrote)
       PROVE  [Promise!Next]_(Promise!vars)
  <2>1. /\ task[e] = "labelling" /\ e \notin txt
        /\ task' = [task EXCEPT ![e] = "emitting"]
        /\ IF IsCancelled(e) THEN wav' = wav \ {e} /\ txt' = txt
           ELSE wav' = wav /\ txt' \in {txt, txt \cup {e}}
    BY <1>1, <1>11 DEF Labels, TaskGoes
  <2>2. IF IsCancelled(e) THEN (wav \cup txt)' = (wav \cup txt) \ {e}
        ELSE (wav \cup txt)' \in {wav \cup txt, (wav \cup txt) \cup {e}}
    BY <2>1
  <2>3. QED
    BY <1>5, <2>1, <2>2
<1>12. CASE Arms(e) \/ Delivers(e)
  <2>1. UNCHANGED <<cancelled, wav, txt, task, phase>>
    BY <1>12 DEF Arms, Delivers, sharedVars, threadVars, taskVars
  <2>2. QED
    BY <2>1, FateKept, Stutters
<1>13. QED
  BY <1>6, <1>7, <1>8, <1>9, <1>10, <1>11, <1>12 DEF TaskStep

-----------------------------------------------------------------------------
(* Every interleaving of the commands, the capture threads and the tasks is *)
(* a behaviour of BatchClip, for any number of sessions and any cap of the *)
(* cancelled list.                                                          *)
THEOREM PromiseKept == RecordSpec => KeepsThePromise
<1>1. RecordInit => Promise!Init
  <2> SUFFICES ASSUME RecordInit PROVE Promise!Init
    OBVIOUS
  <2>1. \A e \in Epochs : Fate(e) = "none"
    BY DEF RecordInit, Fate
  <2>2. Range(cancelled) = {} /\ wav \cup txt = {}
    BY DEF RecordInit, Range
  <2>3. QED
    BY <2>1, <2>2 DEF Promise!Init
<1>2. RecordIInv /\ Distinct /\ [RecordNext]_recordVars => [Promise!Next]_(Promise!vars)
  <2> SUFFICES ASSUME RecordIInv, Distinct, [RecordNext]_recordVars PROVE [Promise!Next]_(Promise!vars)
    OBVIOUS
  <2>1. CASE Commands \/ StartReturns
    BY <2>1, CommandsKeep
  <2>2. ASSUME NEW e \in Epochs, World(e) \/ Threads(e)
        PROVE  [Promise!Next]_(Promise!vars)
    BY <2>2, ThreadsKeep, TasksKeep DEF Threads, TaskStep
  <2>3. CASE UNCHANGED recordVars
    <3>1. UNCHANGED <<cancelled, wav, txt, task, phase>>
      BY <2>3 DEF recordVars, sharedVars, threadVars, taskVars
    <3>2. QED
      BY <3>1, FateKept, Stutters
  <2>4. QED
    BY <2>1, <2>2, <2>3 DEF RecordNext
<1>3. RecordInit => Distinct
  BY DEF RecordInit, Distinct
<1>4. QED
  BY <1>1, <1>2, <1>3, InvInit, InvStep, DistinctStep, PTL
     DEF RecordSpec, KeepsThePromise, Promise!Spec
=============================================================================
