-------------------------- MODULE DictationProofs --------------------------
(***************************************************************************)
(* Proofs about the dictation controller, for every number of sessions,    *)
(* gestures and triggers in flight; and, in the last part, about the mute   *)
(* worker that a dictation's session holds a guard of, for every number of  *)
(* guards and every set of outputs.                                        *)
(***************************************************************************)
EXTENDS DictationController, MuteWorker, SequenceTheorems, TLAPS

-----------------------------------------------------------------------------
(* The controller's states.                                                *)

Commands == [cmd : {"stop", "cancel", "release", "retire"},
            next : {"none", "stop", "restart", "recover", "owed"}, of : Nat,
            hits : BOOLEAN]

Statuses == {"idle", "error", "listening", "transcribing", "translating", "injecting"}

Controllers ==
  [via : {"stream", "batch"},
   status : Statuses,
   pc : {"none", "prologue", "invoke", "owed"}, n : Nat,
   stopReq : BOOLEAN, cancelDuring : BOOLEAN, reclass : BOOLEAN, restart : BOOLEAN,
   startAct : {"hold", "handsfree"}, cfg : Nat, act : {"hold", "handsfree"},
   profile : {"none", "H", "F"}, capturing : BOOLEAN,
   endpoint : {"none", "stream", "batch"}, watchdog : BOOLEAN, errTimer : BOOLEAN,
   pending : BOOLEAN, check : {"off", "asked", "up", "held"},
   before : {"none", "listening", "transcribing"}, tail : {"none", "insert", "quiet"},
   ipc : Seq(Commands)]

(* One field of a controller set.                                          *)
WithStatus(s, v) == [s EXCEPT !.status = v]
WithPc(s, v) == [s EXCEPT !.pc = v]
WithN(s, v) == [s EXCEPT !.n = v]
WithStopReq(s, v) == [s EXCEPT !.stopReq = v]
WithCancelDuring(s, v) == [s EXCEPT !.cancelDuring = v]
WithReclass(s, v) == [s EXCEPT !.reclass = v]
WithRestart(s, v) == [s EXCEPT !.restart = v]
WithStartAct(s, v) == [s EXCEPT !.startAct = v]
WithCfg(s, v) == [s EXCEPT !.cfg = v]
WithAct(s, v) == [s EXCEPT !.act = v]
WithProfile(s, v) == [s EXCEPT !.profile = v]
WithCapturing(s, v) == [s EXCEPT !.capturing = v]
WithEndpoint(s, v) == [s EXCEPT !.endpoint = v]
WithWatchdog(s, v) == [s EXCEPT !.watchdog = v]
WithErrTimer(s, v) == [s EXCEPT !.errTimer = v]
WithPending(s, v) == [s EXCEPT !.pending = v]
WithCheck(s, v) == [s EXCEPT !.check = v]
WithBefore(s, v) == [s EXCEPT !.before = v]
WithTail(s, v) == [s EXCEPT !.tail = v]
WithIpc(s, v) == [s EXCEPT !.ipc = v]

LEMMA Setters ==
  ASSUME NEW s \in Controllers
  PROVE  /\ \A v \in Statuses : WithStatus(s, v) \in Controllers
         /\ \A v \in {"none", "prologue", "invoke", "owed"} : WithPc(s, v) \in Controllers
         /\ \A v \in Nat : WithN(s, v) \in Controllers
         /\ \A v \in BOOLEAN : WithStopReq(s, v) \in Controllers
         /\ \A v \in BOOLEAN : WithCancelDuring(s, v) \in Controllers
         /\ \A v \in BOOLEAN : WithReclass(s, v) \in Controllers
         /\ \A v \in BOOLEAN : WithRestart(s, v) \in Controllers
         /\ \A v \in {"hold", "handsfree"} : WithStartAct(s, v) \in Controllers
         /\ \A v \in Nat : WithCfg(s, v) \in Controllers
         /\ \A v \in {"hold", "handsfree"} : WithAct(s, v) \in Controllers
         /\ \A v \in {"none", "H", "F"} : WithProfile(s, v) \in Controllers
         /\ \A v \in BOOLEAN : WithCapturing(s, v) \in Controllers
         /\ \A v \in {"none", "stream", "batch"} : WithEndpoint(s, v) \in Controllers
         /\ \A v \in BOOLEAN : WithWatchdog(s, v) \in Controllers
         /\ \A v \in BOOLEAN : WithErrTimer(s, v) \in Controllers
         /\ \A v \in BOOLEAN : WithPending(s, v) \in Controllers
         /\ \A v \in {"off", "asked", "up", "held"} : WithCheck(s, v) \in Controllers
         /\ \A v \in {"none", "listening", "transcribing"} : WithBefore(s, v) \in Controllers
         /\ \A v \in {"none", "insert", "quiet"} : WithTail(s, v) \in Controllers
         /\ \A v \in Seq(Commands) : WithIpc(s, v) \in Controllers
<1>1. \A v \in Statuses : WithStatus(s, v) \in Controllers
  BY DEF Controllers, WithStatus, Statuses
<1>2. \A v \in {"none", "prologue", "invoke", "owed"} : WithPc(s, v) \in Controllers
  BY DEF Controllers, WithPc
<1>3. \A v \in Nat : WithN(s, v) \in Controllers
  BY DEF Controllers, WithN
<1>4. \A v \in BOOLEAN : WithStopReq(s, v) \in Controllers
  BY DEF Controllers, WithStopReq
<1>5. \A v \in BOOLEAN : WithCancelDuring(s, v) \in Controllers
  BY DEF Controllers, WithCancelDuring
<1>6. \A v \in BOOLEAN : WithReclass(s, v) \in Controllers
  BY DEF Controllers, WithReclass
<1>7. \A v \in BOOLEAN : WithRestart(s, v) \in Controllers
  BY DEF Controllers, WithRestart
<1>8. \A v \in {"hold", "handsfree"} : WithStartAct(s, v) \in Controllers
  BY DEF Controllers, WithStartAct
<1>9. \A v \in Nat : WithCfg(s, v) \in Controllers
  BY DEF Controllers, WithCfg
<1>10. \A v \in {"hold", "handsfree"} : WithAct(s, v) \in Controllers
  BY DEF Controllers, WithAct
<1>11. \A v \in {"none", "H", "F"} : WithProfile(s, v) \in Controllers
  BY DEF Controllers, WithProfile
<1>12. \A v \in BOOLEAN : WithCapturing(s, v) \in Controllers
  BY DEF Controllers, WithCapturing
<1>13. \A v \in {"none", "stream", "batch"} : WithEndpoint(s, v) \in Controllers
  BY DEF Controllers, WithEndpoint
<1>14. \A v \in BOOLEAN : WithWatchdog(s, v) \in Controllers
  BY DEF Controllers, WithWatchdog
<1>15. \A v \in BOOLEAN : WithErrTimer(s, v) \in Controllers
  BY DEF Controllers, WithErrTimer
<1>16. \A v \in BOOLEAN : WithPending(s, v) \in Controllers
  BY DEF Controllers, WithPending
<1>17. \A v \in {"off", "asked", "up", "held"} : WithCheck(s, v) \in Controllers
  BY DEF Controllers, WithCheck
<1>18. \A v \in {"none", "listening", "transcribing"} : WithBefore(s, v) \in Controllers
  BY DEF Controllers, WithBefore
<1>19. \A v \in {"none", "insert", "quiet"} : WithTail(s, v) \in Controllers
  BY DEF Controllers, WithTail
<1>20. \A v \in Seq(Commands) : WithIpc(s, v) \in Controllers
  BY DEF Controllers, WithIpc
<1> QED
  BY <1>1, <1>2, <1>3, <1>4, <1>5, <1>6, <1>7, <1>8, <1>9, <1>10, <1>11, <1>12, <1>13, <1>14, <1>15, <1>16, <1>17, <1>18, <1>19, <1>20

(* What two controllers have in common.                                    *)
SameStart(s, t) ==
  /\ t.via = s.via /\ t.pc = s.pc /\ t.n = s.n /\ t.stopReq = s.stopReq
  /\ t.cancelDuring = s.cancelDuring /\ t.reclass = s.reclass /\ t.restart = s.restart
  /\ t.startAct = s.startAct
SameMic(s, t) ==
  /\ t.status = s.status /\ t.capturing = s.capturing /\ t.act = s.act
  /\ t.cfg = s.cfg /\ t.endpoint = s.endpoint /\ t.before = s.before /\ t.tail = s.tail
SamePress(s, t) == t.pending = s.pending /\ t.check = s.check

-----------------------------------------------------------------------------
(* The pieces every handler is made of.                                    *)

LEMMA VoidPendingIs ==
  ASSUME NEW s \in Controllers
  PROVE  LET t == VoidPending(s) IN
         /\ t \in Controllers /\ SameStart(s, t) /\ SameMic(s, t) /\ t.ipc = s.ipc
         /\ t.pending = FALSE /\ t.check = "off"
<1>1. VoidPending(s) = WithCheck(WithPending(s, FALSE), "off")
  BY DEF VoidPending, WithCheck, WithPending
<1>2. VoidPending(s) \in Controllers
  BY <1>1, Setters
<1> QED
  BY <1>2 DEF VoidPending, Controllers, SameStart, SameMic

LEMMA FlashErrorIs ==
  ASSUME NEW s \in Controllers
  PROVE  LET t == FlashError(s) IN
         /\ t \in Controllers /\ SameStart(s, t) /\ t.ipc = s.ipc
         /\ t.pending = FALSE /\ t.check = "off" /\ t.status = "error"
         /\ t.capturing = s.capturing /\ t.act = s.act /\ t.cfg = s.cfg
         /\ t.endpoint = s.endpoint /\ t.before = s.before /\ t.tail = s.tail
<1> DEFINE v == VoidPending(s)
<1>1. FlashError(s) = WithErrTimer(WithStatus(v, "error"), TRUE)
  BY DEF FlashError, WithErrTimer, WithStatus
<1>2. v \in Controllers /\ FlashError(s) \in Controllers
  BY <1>1, VoidPendingIs, Setters DEF Statuses
<1> QED
  BY <1>2 DEF FlashError, VoidPending, Controllers, SameStart

LEMMA ArmWatchdogIs ==
  ASSUME NEW s \in Controllers
  PROVE  LET t == ArmWatchdog(s) IN
         /\ t \in Controllers /\ SameStart(s, t) /\ SameMic(s, t) /\ SamePress(s, t)
         /\ t.ipc = s.ipc
<1>1. ArmWatchdog(s) = WithWatchdog(s, s.endpoint = "stream")
  BY DEF ArmWatchdog, WithWatchdog
<1>2. (s.endpoint = "stream") \in BOOLEAN
  OBVIOUS
<1>3. ArmWatchdog(s) \in Controllers
  BY <1>1, <1>2, Setters
<1> QED
  BY <1>3 DEF ArmWatchdog, Controllers, SameStart, SameMic, SamePress

LEMMA DisownIs ==
  ASSUME NEW s \in Controllers
  PROVE  LET t == Disown(s) IN
         /\ t \in Controllers /\ SameStart(s, t) /\ SamePress(s, t) /\ t.ipc = s.ipc
         /\ t.status = s.status /\ t.capturing = s.capturing /\ t.act = s.act
         /\ t.endpoint = s.endpoint
         /\ t.cfg = 0 /\ t.tail = "none" /\ t.before = "none"
<1>1. Disown(s) = WithWatchdog(WithBefore(WithTail(WithCfg(s, 0), "none"), "none"), FALSE)
  BY DEF Disown, WithWatchdog, WithBefore, WithTail, WithCfg
<1>2. Disown(s) \in Controllers
  BY <1>1, Setters
<1> QED
  BY <1>2 DEF Disown, Controllers, SameStart, SamePress

LEMMA ConsumePendingIs ==
  ASSUME NEW s \in Controllers
  PROVE  LET t == ConsumePending(s) IN
         /\ t \in Controllers /\ SameStart(s, t) /\ SameMic(s, t) /\ t.ipc = s.ipc
         /\ t.pending = FALSE
         /\ t.check = IF s.pending THEN "asked" ELSE s.check
<1>1. ConsumePending(s) = IF s.pending THEN WithCheck(WithPending(s, FALSE), "asked") ELSE s
  BY DEF ConsumePending, WithCheck, WithPending
<1>2. ConsumePending(s) \in Controllers
  BY <1>1, Setters
<1>3. s.pending \in BOOLEAN
  BY DEF Controllers
<1> QED
  BY <1>2, <1>3 DEF ConsumePending, Controllers, SameStart, SameMic

(* What a session's end leaves: no profile, no tail, the press asked about. *)
Concluded(s, p) ==
  ConsumePending([s EXCEPT !.profile = "none", !.tail = "none", !.pending = p])

LEMMA ConcludedIs ==
  ASSUME NEW s \in Controllers, NEW p \in BOOLEAN
  PROVE  LET t == Concluded(s, p)
         IN /\ t \in Controllers /\ SameStart(s, t) /\ t.ipc = s.ipc /\ t.pending = FALSE
            /\ t.check = IF p THEN "asked" ELSE s.check
            /\ t.status = s.status /\ t.capturing = s.capturing /\ t.act = s.act
            /\ t.cfg = s.cfg /\ t.endpoint = s.endpoint /\ t.before = s.before
            /\ t.tail = "none"
<1> DEFINE u == WithPending(WithTail(WithProfile(s, "none"), "none"), p)
<1>1. u = [s EXCEPT !.profile = "none", !.tail = "none", !.pending = p]
  BY DEF WithPending, WithTail, WithProfile
<1>2. u \in Controllers
  BY Setters
<1> HIDE DEF u
<1>3. /\ SameStart(s, u) /\ u.ipc = s.ipc /\ u.pending = p /\ u.check = s.check
      /\ u.status = s.status /\ u.capturing = s.capturing /\ u.act = s.act
      /\ u.cfg = s.cfg /\ u.endpoint = s.endpoint /\ u.before = s.before
      /\ u.tail = "none"
  BY <1>1 DEF Controllers, SameStart
<1>4. LET t == ConsumePending(u) IN
      /\ t \in Controllers /\ SameStart(u, t) /\ SameMic(u, t) /\ t.ipc = u.ipc
      /\ t.pending = FALSE /\ t.check = IF u.pending THEN "asked" ELSE u.check
  BY <1>2, ConsumePendingIs
<1> QED
  BY <1>1, <1>3, <1>4 DEF SameStart, SameMic, Concluded

LEMMA SettleIs ==
  ASSUME NEW s \in Controllers
  PROVE  LET t == Settle(s) IN
         /\ t \in Controllers /\ SameStart(s, t) /\ t.ipc = s.ipc /\ t.pending = FALSE
         /\ t.check = IF s.pending THEN "asked" ELSE s.check
         /\ t.status = "idle" /\ t.capturing = s.capturing /\ t.act = s.act
         /\ t.cfg = s.cfg /\ t.endpoint = s.endpoint /\ t.before = s.before
         /\ t.tail = "none"
<1> DEFINE u == WithStatus(s, "idle")
<1>1. u \in Controllers
  BY Setters DEF Statuses
<1>2. /\ SameStart(s, u) /\ u.ipc = s.ipc /\ u.pending = s.pending /\ u.check = s.check
      /\ u.status = "idle" /\ u.capturing = s.capturing /\ u.act = s.act
      /\ u.cfg = s.cfg /\ u.endpoint = s.endpoint /\ u.before = s.before
      /\ u.pending \in BOOLEAN
  BY <1>1 DEF WithStatus, Controllers, SameStart
<1>3. [s EXCEPT !.status = "idle", !.profile = "none", !.tail = "none"]
        = [u EXCEPT !.profile = "none", !.tail = "none", !.pending = u.pending]
  BY <1>1 DEF WithStatus, Controllers
<1>4. Settle(s) = Concluded(u, u.pending)
  BY <1>3 DEF Settle, Concluded
<1>5. u.pending \in BOOLEAN
  BY <1>2
<1> HIDE DEF u
<1> DEFINE t == Concluded(u, u.pending)
<1>6. /\ t \in Controllers /\ SameStart(u, t) /\ t.ipc = u.ipc /\ t.pending = FALSE
      /\ t.check = IF u.pending THEN "asked" ELSE u.check
      /\ t.status = u.status /\ t.capturing = u.capturing /\ t.act = u.act
      /\ t.cfg = u.cfg /\ t.endpoint = u.endpoint /\ t.before = u.before
      /\ t.tail = "none"
  BY <1>1, <1>5, ConcludedIs
<1> QED
  BY <1>2, <1>4, <1>6 DEF SameStart

LEMMA SettleKeepingErrorIs ==
  ASSUME NEW s \in Controllers
  PROVE  LET t == SettleKeepingError(s) IN
         /\ t \in Controllers /\ SameStart(s, t) /\ t.ipc = s.ipc /\ t.pending = FALSE
         /\ t.check = IF s.pending THEN "asked" ELSE s.check
         /\ t.status = s.status /\ t.capturing = s.capturing /\ t.act = s.act
         /\ t.cfg = s.cfg /\ t.endpoint = s.endpoint /\ t.before = s.before
         /\ t.tail = "none"
<1>1. [s EXCEPT !.profile = "none", !.tail = "none"]
        = [s EXCEPT !.profile = "none", !.tail = "none", !.pending = s.pending]
  BY DEF Controllers
<1>2. SettleKeepingError(s) = Concluded(s, s.pending)
  BY <1>1 DEF SettleKeepingError, Concluded
<1>3. s.pending \in BOOLEAN
  BY DEF Controllers
<1>4. LET t == Concluded(s, s.pending)
      IN /\ t \in Controllers /\ SameStart(s, t) /\ t.ipc = s.ipc /\ t.pending = FALSE
         /\ t.check = IF s.pending THEN "asked" ELSE s.check
         /\ t.status = s.status /\ t.capturing = s.capturing /\ t.act = s.act
         /\ t.cfg = s.cfg /\ t.endpoint = s.endpoint /\ t.before = s.before
         /\ t.tail = "none"
  BY <1>3, ConcludedIs
<1> QED
  BY <1>2, <1>4

LEMMA SettleShortIs ==
  ASSUME NEW s \in Controllers
  PROVE  LET t == SettleShort(s) IN
         /\ t \in Controllers /\ SameStart(s, t) /\ t.ipc = s.ipc /\ t.pending = FALSE
         /\ t.check = IF s.pending THEN "asked" ELSE "off"
         /\ t.status = "error" /\ t.capturing = s.capturing /\ t.act = s.act
         /\ t.cfg = s.cfg /\ t.endpoint = s.endpoint /\ t.before = s.before
         /\ t.tail = "none"
<1> DEFINE u == FlashError(s)
<1>1. /\ u \in Controllers /\ SameStart(s, u) /\ u.ipc = s.ipc
      /\ u.pending = FALSE /\ u.check = "off" /\ u.status = "error"
      /\ u.capturing = s.capturing /\ u.act = s.act /\ u.cfg = s.cfg
      /\ u.endpoint = s.endpoint /\ u.before = s.before /\ u.tail = s.tail
  BY FlashErrorIs
<1>2. SettleShort(s) = Concluded(u, s.pending)
  BY DEF SettleShort, Concluded
<1>3. s.pending \in BOOLEAN
  BY DEF Controllers
<1> HIDE DEF u
<1>4. LET t == Concluded(u, s.pending)
      IN /\ t \in Controllers /\ SameStart(u, t) /\ t.ipc = u.ipc /\ t.pending = FALSE
         /\ t.check = IF s.pending THEN "asked" ELSE u.check
         /\ t.status = u.status /\ t.capturing = u.capturing /\ t.act = u.act
         /\ t.cfg = u.cfg /\ t.endpoint = u.endpoint /\ t.before = u.before
         /\ t.tail = "none"
  BY <1>1, <1>3, ConcludedIs
<1> QED
  BY <1>1, <1>2, <1>4 DEF SameStart

(* A command as Send words it.                                             *)
Order(s, cmd, next) ==
  [cmd |-> cmd, next |-> next, of |-> s.n,
   hits |-> (IF s.endpoint = "batch" THEN "batch" ELSE "stream") = s.via]

Words == {"stop", "cancel", "release", "retire"}
Continuations == {"none", "stop", "restart", "recover", "owed"}

LEMMA OrderIs ==
  ASSUME NEW s \in Controllers, NEW cmd \in Words, NEW next \in Continuations
  PROVE  /\ Order(s, cmd, next) \in Commands
         /\ Order(s, cmd, next).cmd = cmd /\ Order(s, cmd, next).next = next
         /\ Order(s, cmd, next).of = s.n
         /\ s.endpoint = s.via => Order(s, cmd, next).hits
<1>1. s.n \in Nat /\ s.via \in {"stream", "batch"}
  BY DEF Controllers
<1>2. ((IF s.endpoint = "batch" THEN "batch" ELSE "stream") = s.via) \in BOOLEAN
  OBVIOUS
<1>3. s.endpoint = s.via => (IF s.endpoint = "batch" THEN "batch" ELSE "stream") = s.via
  BY <1>1
<1> QED
  BY <1>1, <1>2, <1>3 DEF Order, Commands, Words, Continuations

LEMMA SendIs ==
  ASSUME NEW s \in Controllers, NEW cmd \in Words, NEW next \in Continuations
  PROVE  LET t == Send(s, cmd, next) IN
         /\ t \in Controllers /\ SameStart(s, t) /\ SameMic(s, t) /\ SamePress(s, t)
         /\ t.ipc = Append(s.ipc, Order(s, cmd, next))
<1>1. Send(s, cmd, next) = WithIpc(s, Append(s.ipc, Order(s, cmd, next)))
  BY DEF Send, WithIpc, Order
<1>2. s.ipc \in Seq(Commands)
  BY DEF Controllers
<1>3. Append(s.ipc, Order(s, cmd, next)) \in Seq(Commands)
  BY <1>2, OrderIs
<1>4. WithIpc(s, Append(s.ipc, Order(s, cmd, next))) \in Controllers
  BY <1>3, Setters
<1> HIDE DEF Order
<1> QED
  BY <1>1, <1>4 DEF WithIpc, Controllers, SameStart, SameMic, SamePress

LEMMA StopLiveIs ==
  ASSUME NEW s \in Controllers, s.pc # "invoke"
  PROVE  LET t == StopLive(s) IN
         /\ t \in Controllers /\ SameStart(s, t) /\ SamePress(s, t)
         /\ t.ipc = Append(s.ipc, Order(s, "stop", "stop"))
         /\ t.capturing = FALSE /\ t.status = "transcribing"
         /\ t.act = s.act /\ t.cfg = s.cfg /\ t.endpoint = s.endpoint
         /\ t.before = s.before /\ t.tail = s.tail
<1> DEFINE u == WithStatus(WithCapturing(s, FALSE), "transcribing")
           v == ArmWatchdog(u)
<1>1. StopLive(s) = Send(v, "stop", "stop")
  BY DEF StopLive, WithStatus, WithCapturing
<1>2. u \in Controllers
  BY Setters DEF Statuses
<1>3. /\ SameStart(s, u) /\ SamePress(s, u) /\ u.ipc = s.ipc
      /\ u.capturing = FALSE /\ u.status = "transcribing"
      /\ u.act = s.act /\ u.cfg = s.cfg /\ u.endpoint = s.endpoint
      /\ u.before = s.before /\ u.tail = s.tail
  BY DEF WithStatus, WithCapturing, Controllers, SameStart, SamePress
<1> HIDE DEF u
<1>4. /\ v \in Controllers /\ SameStart(u, v) /\ SameMic(u, v) /\ SamePress(u, v)
      /\ v.ipc = u.ipc
  BY <1>2, ArmWatchdogIs
<1> HIDE DEF v
<1> DEFINE t == Send(v, "stop", "stop")
<1>5. /\ t \in Controllers /\ SameStart(v, t) /\ SameMic(v, t) /\ SamePress(v, t)
      /\ t.ipc = Append(v.ipc, Order(v, "stop", "stop"))
  BY <1>4, SendIs DEF Words, Continuations
<1>6. Order(v, "stop", "stop") = Order(s, "stop", "stop")
  BY <1>3, <1>4 DEF Order, SameStart, SameMic
<1> HIDE DEF t
<1>7. SameStart(s, t) /\ SamePress(s, t)
  BY <1>3, <1>4, <1>5 DEF SameStart, SamePress
<1> QED
  BY <1>1, <1>3, <1>4, <1>5, <1>6, <1>7 DEF SameMic, t

LEMMA TornDownIs ==
  ASSUME NEW s \in Controllers
  PROVE  LET t == TornDown(s) IN
         /\ t \in Controllers /\ t.ipc = s.ipc
         /\ t.via = s.via /\ t.pc = s.pc /\ t.n = s.n /\ t.stopReq = s.stopReq
         /\ t.cancelDuring = s.cancelDuring /\ t.startAct = s.startAct
         /\ t.reclass = FALSE /\ t.restart = FALSE
         /\ t.status = "idle" /\ t.capturing = FALSE /\ t.act = s.act
         /\ t.cfg = 0 /\ t.endpoint = "none" /\ t.before = "none" /\ t.tail = "none"
         /\ t.pending = FALSE /\ t.check = "off"
<1> DEFINE d == Disown(s)
           v == VoidPending(d)
           t == TornDown(s)
<1>1. t = WithStatus(WithProfile(WithEndpoint(WithCapturing(
             WithReclass(WithRestart(v, FALSE), FALSE), FALSE), "none"), "none"), "idle")
  BY DEF TornDown, WithStatus, WithProfile, WithEndpoint, WithCapturing,
         WithReclass, WithRestart
<1>2. /\ d \in Controllers /\ SameStart(s, d) /\ SamePress(s, d) /\ d.ipc = s.ipc
      /\ d.status = s.status /\ d.capturing = s.capturing /\ d.act = s.act
      /\ d.endpoint = s.endpoint
      /\ d.cfg = 0 /\ d.tail = "none" /\ d.before = "none"
  BY DisownIs
<1> HIDE DEF d
<1>3. /\ v \in Controllers /\ SameStart(d, v) /\ SameMic(d, v) /\ v.ipc = d.ipc
      /\ v.pending = FALSE /\ v.check = "off"
  BY <1>2, VoidPendingIs
<1>4. v = VoidPending(Disown(s))
  BY DEF d
<1> HIDE DEF v
<1>5. t \in Controllers
  <2> DEFINE w == WithCapturing(WithReclass(WithRestart(v, FALSE), FALSE), FALSE)
  <2>1. w \in Controllers
    BY <1>3, Setters
  <2>2. t = WithStatus(WithProfile(WithEndpoint(w, "none"), "none"), "idle")
    BY <1>1
  <2> HIDE DEF w, t
  <2>3. WithProfile(WithEndpoint(w, "none"), "none") \in Controllers
    BY <2>1, Setters
  <2> QED
    BY <2>2, <2>3, Setters DEF Statuses
<1>6. /\ t.via = v.via /\ t.pc = v.pc /\ t.n = v.n /\ t.stopReq = v.stopReq
      /\ t.cancelDuring = v.cancelDuring /\ t.startAct = v.startAct
      /\ t.reclass = FALSE /\ t.restart = FALSE /\ t.ipc = v.ipc
      /\ t.status = "idle" /\ t.capturing = FALSE /\ t.act = v.act
      /\ t.cfg = v.cfg /\ t.endpoint = "none" /\ t.before = v.before /\ t.tail = v.tail
      /\ t.pending = v.pending /\ t.check = v.check
  BY <1>3, <1>4 DEF TornDown, Controllers
<1> QED
  BY <1>2, <1>3, <1>5, <1>6 DEF SameStart, SameMic

(* During the invoke a cancel waits, outside it goes out at once.           *)
LEMMA CancelLiveIs ==
  ASSUME NEW s \in Controllers, NEW next \in Continuations
  PROVE  LET t == CancelLive(s, next) IN
         /\ t \in Controllers
         /\ t.ipc = IF s.pc = "invoke" THEN s.ipc
                    ELSE Append(s.ipc, Order(s, "cancel", next))
         /\ t.via = s.via /\ t.pc = s.pc /\ t.n = s.n /\ t.stopReq = s.stopReq
         /\ t.cancelDuring = IF s.pc = "invoke" THEN TRUE ELSE s.cancelDuring
         /\ t.startAct = s.startAct /\ t.reclass = FALSE /\ t.restart = FALSE
         /\ t.status = "idle" /\ t.capturing = FALSE /\ t.act = s.act
         /\ t.cfg = 0 /\ t.endpoint = "none" /\ t.before = "none" /\ t.tail = "none"
         /\ t.pending = FALSE /\ t.check = "off"
<1> DEFINE t == CancelLive(s, next)
<1>1. CASE s.pc = "invoke"
  <2> DEFINE d == TornDown(s)
  <2>1. t = WithCancelDuring(d, TRUE)
    BY <1>1 DEF CancelLive, WithCancelDuring
  <2>2. /\ d \in Controllers /\ d.ipc = s.ipc
        /\ d.via = s.via /\ d.pc = s.pc /\ d.n = s.n /\ d.stopReq = s.stopReq
        /\ d.cancelDuring = s.cancelDuring /\ d.startAct = s.startAct
        /\ d.reclass = FALSE /\ d.restart = FALSE
        /\ d.status = "idle" /\ d.capturing = FALSE /\ d.act = s.act
        /\ d.cfg = 0 /\ d.endpoint = "none" /\ d.before = "none" /\ d.tail = "none"
        /\ d.pending = FALSE /\ d.check = "off"
    BY TornDownIs
  <2> HIDE DEF d, t
  <2>3. t \in Controllers
    BY <2>1, <2>2, Setters
  <2> QED
    BY <1>1, <2>1, <2>2, <2>3 DEF WithCancelDuring, Controllers, t
<1>2. CASE s.pc # "invoke"
  <2> DEFINE u == Send(s, "cancel", next)
             d == TornDown(u)
  <2>1. t = d
    BY <1>2 DEF CancelLive
  <2>2. /\ u \in Controllers /\ SameStart(s, u) /\ SameMic(s, u) /\ SamePress(s, u)
        /\ u.ipc = Append(s.ipc, Order(s, "cancel", next))
    BY SendIs DEF Words
  <2> HIDE DEF u
  <2>3. /\ d \in Controllers /\ d.ipc = u.ipc
        /\ d.via = u.via /\ d.pc = u.pc /\ d.n = u.n /\ d.stopReq = u.stopReq
        /\ d.cancelDuring = u.cancelDuring /\ d.startAct = u.startAct
        /\ d.reclass = FALSE /\ d.restart = FALSE
        /\ d.status = "idle" /\ d.capturing = FALSE /\ d.act = u.act
        /\ d.cfg = 0 /\ d.endpoint = "none" /\ d.before = "none" /\ d.tail = "none"
        /\ d.pending = FALSE /\ d.check = "off"
    BY <2>2, TornDownIs
  <2> HIDE DEF d, t
  <2> QED
    BY <1>2, <2>1, <2>2, <2>3 DEF SameStart, SameMic, t
<1> QED
  BY <1>1, <1>2

LEMMA AbandonIs ==
  ASSUME NEW s \in Controllers
  PROVE  LET t == Abandon(s) IN
         /\ t \in Controllers /\ SameStart(s, t)
         /\ t.ipc = Append(Append(s.ipc, Order(s, "stop", "none")),
                           Order(s, "retire", "none"))
         /\ t.status = "error" /\ t.capturing = FALSE /\ t.act = s.act
         /\ t.cfg = 0 /\ t.endpoint = "none" /\ t.before = "none" /\ t.tail = "none"
         /\ t.pending = FALSE /\ t.check = "off"
<1> DEFINE d == Disown(s)
           f == FlashError(d)
           a == Send(f, "stop", "none")
           b == Send(a, "retire", "none")
           t == Abandon(s)
<1>1. t = WithEndpoint(WithCapturing(b, FALSE), "none")
  BY DEF Abandon, WithEndpoint, WithCapturing
<1>2. /\ d \in Controllers /\ SameStart(s, d) /\ SamePress(s, d) /\ d.ipc = s.ipc
      /\ d.status = s.status /\ d.capturing = s.capturing /\ d.act = s.act
      /\ d.endpoint = s.endpoint
      /\ d.cfg = 0 /\ d.tail = "none" /\ d.before = "none"
  BY DisownIs
<1> HIDE DEF d
<1>3. /\ f \in Controllers /\ SameStart(d, f) /\ f.ipc = d.ipc
      /\ f.pending = FALSE /\ f.check = "off" /\ f.status = "error"
      /\ f.capturing = d.capturing /\ f.act = d.act /\ f.cfg = d.cfg
      /\ f.endpoint = d.endpoint /\ f.before = d.before /\ f.tail = d.tail
  BY <1>2, FlashErrorIs
<1> HIDE DEF f
<1>4. /\ a \in Controllers /\ SameStart(f, a) /\ SameMic(f, a) /\ SamePress(f, a)
      /\ a.ipc = Append(f.ipc, Order(f, "stop", "none"))
  BY <1>3, SendIs DEF Words, Continuations
<1> HIDE DEF a
<1>5. /\ b \in Controllers /\ SameStart(a, b) /\ SameMic(a, b) /\ SamePress(a, b)
      /\ b.ipc = Append(a.ipc, Order(a, "retire", "none"))
  BY <1>4, SendIs DEF Words, Continuations
<1> HIDE DEF b, t
<1>6. Order(f, "stop", "none") = Order(s, "stop", "none")
  BY <1>2, <1>3 DEF Order, SameStart
<1>7. Order(a, "retire", "none") = Order(s, "retire", "none")
  BY <1>2, <1>3, <1>4 DEF Order, SameStart, SameMic
<1>8. t \in Controllers
  BY <1>1, <1>5, Setters
<1>9. /\ SameStart(b, t) /\ SamePress(b, t) /\ t.ipc = b.ipc
      /\ t.status = b.status /\ t.capturing = FALSE /\ t.act = b.act
      /\ t.cfg = b.cfg /\ t.endpoint = "none" /\ t.before = b.before /\ t.tail = b.tail
  BY <1>1, <1>5 DEF WithEndpoint, WithCapturing, Controllers, SameStart, SamePress
<1>10. SameStart(s, t)
  BY <1>2, <1>3, <1>4, <1>5, <1>9 DEF SameStart
<1> QED
  BY <1>2, <1>3, <1>4, <1>5, <1>6, <1>7, <1>8, <1>9, <1>10 DEF SameMic, SamePress, t

LEMMA StopRejectedIs ==
  ASSUME NEW s \in Controllers
  PROVE  LET t == StopRejected(s) IN
         /\ t \in Controllers /\ SameStart(s, t)
         /\ t.ipc = Append(s.ipc, Order(s, "retire", "none"))
         /\ t.status = "error" /\ t.capturing = FALSE /\ t.act = s.act
         /\ t.cfg = 0 /\ t.endpoint = "none" /\ t.before = "none" /\ t.tail = "none"
         /\ t.pending = FALSE /\ t.check = "off"
<1> DEFINE d == Disown(s)
           a == Send(d, "retire", "none")
           u == WithEndpoint(WithCapturing(a, FALSE), "none")
           t == FlashError(u)
<1>1. StopRejected(s) = t
  <2>1. u = [a EXCEPT !.endpoint = "none", !.capturing = FALSE]
    BY DEF WithEndpoint, WithCapturing
  <2> QED
    BY <2>1 DEF StopRejected
<1>2. /\ d \in Controllers /\ SameStart(s, d) /\ SamePress(s, d) /\ d.ipc = s.ipc
      /\ d.status = s.status /\ d.capturing = s.capturing /\ d.act = s.act
      /\ d.endpoint = s.endpoint
      /\ d.cfg = 0 /\ d.tail = "none" /\ d.before = "none"
  BY DisownIs
<1> HIDE DEF d
<1>3. /\ a \in Controllers /\ SameStart(d, a) /\ SameMic(d, a) /\ SamePress(d, a)
      /\ a.ipc = Append(d.ipc, Order(d, "retire", "none"))
  BY <1>2, SendIs DEF Words, Continuations
<1> HIDE DEF a
<1>4. Order(d, "retire", "none") = Order(s, "retire", "none")
  BY <1>2 DEF Order, SameStart
<1>5. u \in Controllers
  BY <1>3, Setters
<1>6. /\ SameStart(a, u) /\ u.ipc = a.ipc /\ u.capturing = FALSE /\ u.act = a.act
      /\ u.cfg = a.cfg /\ u.endpoint = "none" /\ u.before = a.before /\ u.tail = a.tail
  BY <1>3 DEF WithEndpoint, WithCapturing, Controllers, SameStart
<1> HIDE DEF u
<1>7. /\ t \in Controllers /\ SameStart(u, t) /\ t.ipc = u.ipc
      /\ t.pending = FALSE /\ t.check = "off" /\ t.status = "error"
      /\ t.capturing = u.capturing /\ t.act = u.act /\ t.cfg = u.cfg
      /\ t.endpoint = u.endpoint /\ t.before = u.before /\ t.tail = u.tail
  BY <1>5, FlashErrorIs
<1> HIDE DEF t
<1>8. SameStart(s, t)
  BY <1>2, <1>3, <1>6, <1>7 DEF SameStart
<1> QED
  BY <1>1, <1>2, <1>3, <1>4, <1>6, <1>7, <1>8 DEF SameMic

Activations == {"hold", "handsfree"}
Profiles == {"none", "H", "F"}

LEMMA StartLiveIs ==
  ASSUME NEW s \in Controllers, NEW a \in Activations, NEW p \in Profiles, s.pc = "none"
  PROVE  LET t == StartLive(s, a, p) IN
         /\ t \in Controllers /\ SameMic(s, t) /\ SamePress(s, t) /\ t.ipc = s.ipc
         /\ t.via = s.via /\ t.n = s.n /\ t.cancelDuring = s.cancelDuring
         /\ t.pc = "prologue" /\ t.startAct = a
         /\ t.stopReq = FALSE /\ t.reclass = FALSE /\ t.restart = FALSE
<1> DEFINE t == StartLive(s, a, p)
           w == WithStopReq(WithReclass(WithRestart(s, FALSE), FALSE), FALSE)
<1>1. t = WithErrTimer(WithProfile(WithPc(WithStartAct(w, a), "prologue"), p), FALSE)
  BY DEF StartLive, Starting, WithErrTimer, WithProfile, WithPc, WithStartAct,
         WithStopReq, WithReclass, WithRestart
<1>2. w \in Controllers
  BY Setters
<1>3. /\ t.via = s.via /\ t.n = s.n /\ t.cancelDuring = s.cancelDuring
      /\ t.pc = "prologue" /\ t.startAct = a
      /\ t.stopReq = FALSE /\ t.reclass = FALSE /\ t.restart = FALSE
      /\ SameMic(s, t) /\ SamePress(s, t) /\ t.ipc = s.ipc
  BY DEF StartLive, Starting, Controllers, SameMic, SamePress
<1> HIDE DEF w, t
<1>4. WithPc(WithStartAct(w, a), "prologue") \in Controllers
  BY <1>2, Setters DEF Activations
<1>5. t \in Controllers
  BY <1>1, <1>4, Setters DEF Profiles
<1> QED
  BY <1>3, <1>5 DEF t

LEMMA ApplyReclassifyIs ==
  ASSUME NEW s \in Controllers
  PROVE  LET t == ApplyReclassify(s) IN
         /\ t \in Controllers /\ SameStart(s, t) /\ SamePress(s, t) /\ t.ipc = s.ipc
         /\ t.status = s.status /\ t.capturing = s.capturing /\ t.cfg = s.cfg
         /\ t.endpoint = s.endpoint /\ t.before = s.before /\ t.tail = s.tail
         /\ t.act = "handsfree"
<1>1. ApplyReclassify(s) = WithAct(WithProfile(s, "F"), "handsfree")
  BY DEF ApplyReclassify, WithAct, WithProfile
<1>2. ApplyReclassify(s) \in Controllers
  BY <1>1, Setters
<1> QED
  BY <1>2 DEF ApplyReclassify, Controllers, SameStart, SamePress

LEMMA RequestStopIs ==
  ASSUME NEW s \in Controllers
  PROVE  LET t == RequestStopIfStarting(s) IN
         /\ t \in Controllers /\ SameMic(s, t) /\ SamePress(s, t) /\ t.ipc = s.ipc
         /\ t.via = s.via /\ t.pc = s.pc /\ t.n = s.n
         /\ t.cancelDuring = s.cancelDuring /\ t.reclass = s.reclass
         /\ t.restart = s.restart /\ t.startAct = s.startAct
         /\ t.stopReq = (s.stopReq \/ s.pc # "none")
<1>1. RequestStopIfStarting(s) = WithStopReq(s, s.stopReq \/ s.pc # "none")
  BY DEF RequestStopIfStarting, WithStopReq, Starting
<1>2. (s.stopReq \/ s.pc # "none") \in BOOLEAN
  OBVIOUS
<1>3. WithStopReq(s, s.stopReq \/ s.pc # "none") \in Controllers
  BY <1>2, Setters
<1> QED
  BY <1>1, <1>3 DEF WithStopReq, Controllers, SameMic, SamePress

(* The flags of a start: the stop, the upgrade and the restart it owes.    *)
LEMMA FlagIs ==
  ASSUME NEW s \in Controllers, NEW b \in BOOLEAN
  PROVE  /\ LET t == WithStopReq(s, b) IN
            /\ t \in Controllers /\ SameMic(s, t) /\ SamePress(s, t) /\ t.ipc = s.ipc
            /\ t.via = s.via /\ t.pc = s.pc /\ t.n = s.n /\ t.stopReq = b
            /\ t.cancelDuring = s.cancelDuring /\ t.reclass = s.reclass
            /\ t.restart = s.restart /\ t.startAct = s.startAct
         /\ LET t == WithReclass(s, b) IN
            /\ t \in Controllers /\ SameMic(s, t) /\ SamePress(s, t) /\ t.ipc = s.ipc
            /\ t.via = s.via /\ t.pc = s.pc /\ t.n = s.n /\ t.stopReq = s.stopReq
            /\ t.cancelDuring = s.cancelDuring /\ t.reclass = b
            /\ t.restart = s.restart /\ t.startAct = s.startAct
         /\ LET t == WithRestart(s, b) IN
            /\ t \in Controllers /\ SameMic(s, t) /\ SamePress(s, t) /\ t.ipc = s.ipc
            /\ t.via = s.via /\ t.pc = s.pc /\ t.n = s.n /\ t.stopReq = s.stopReq
            /\ t.cancelDuring = s.cancelDuring /\ t.reclass = s.reclass
            /\ t.restart = b /\ t.startAct = s.startAct
<1>1. /\ WithStopReq(s, b) \in Controllers /\ WithReclass(s, b) \in Controllers
      /\ WithRestart(s, b) \in Controllers
  BY Setters
<1>2. LET t == WithStopReq(s, b) IN
      /\ SameMic(s, t) /\ SamePress(s, t) /\ t.ipc = s.ipc
      /\ t.via = s.via /\ t.pc = s.pc /\ t.n = s.n /\ t.stopReq = b
      /\ t.cancelDuring = s.cancelDuring /\ t.reclass = s.reclass
      /\ t.restart = s.restart /\ t.startAct = s.startAct
  BY DEF WithStopReq, Controllers, SameMic, SamePress
<1>3. LET t == WithReclass(s, b) IN
      /\ SameMic(s, t) /\ SamePress(s, t) /\ t.ipc = s.ipc
      /\ t.via = s.via /\ t.pc = s.pc /\ t.n = s.n /\ t.stopReq = s.stopReq
      /\ t.cancelDuring = s.cancelDuring /\ t.reclass = b
      /\ t.restart = s.restart /\ t.startAct = s.startAct
  BY DEF WithReclass, Controllers, SameMic, SamePress
<1>4. LET t == WithRestart(s, b) IN
      /\ SameMic(s, t) /\ SamePress(s, t) /\ t.ipc = s.ipc
      /\ t.via = s.via /\ t.pc = s.pc /\ t.n = s.n /\ t.stopReq = s.stopReq
      /\ t.cancelDuring = s.cancelDuring /\ t.reclass = s.reclass
      /\ t.restart = b /\ t.startAct = s.startAct
  BY DEF WithRestart, Controllers, SameMic, SamePress
<1> QED
  BY <1>1, <1>2, <1>3, <1>4

-----------------------------------------------------------------------------
(* What a turn of the controller may do.                                   *)

(* The chip and the microphone say the same.                               *)
Chip(s) ==
  /\ s.capturing <=> \/ s.status = "listening"
                     \/ s.status = "translating" /\ s.before = "listening"
  /\ s.status = "translating" => s.before # "none"
  /\ s.capturing => s.cfg = s.n /\ s.n > 0 /\ s.tail = "none" /\ s.endpoint = s.via
  /\ s.pc \in {"prologue", "owed"} => ~Busy(s)
  /\ s.cancelDuring => s.pc = "invoke" /\ ~Busy(s)
  /\ s.cfg \in {0, s.n}
  /\ s.tail # "none" => s.cfg # 0

(* A press waits for a session that ends, its check for one that ended.    *)
Presses(s) ==
  /\ s.pc # "none" /\ Busy(s) => s.capturing
  /\ s.pending => Processing(s) /\ ~s.capturing
  /\ s.check # "off" => ~Busy(s) /\ s.pc \in {"none", "prologue"}

Good(s) == s \in Controllers /\ Chip(s) /\ Presses(s)

(* Commands only join the ones on their way, each of the window's session.   *)
Sends(s, t) ==
  /\ Len(s.ipc) <= Len(t.ipc)
  /\ \A i \in DOMAIN t.ipc :
       \/ i <= Len(s.ipc) /\ t.ipc[i] = s.ipc[i]
       \/ /\ i > Len(s.ipc) /\ t.ipc[i].next # "owed" /\ t.ipc[i].of = s.n
          /\ t.ipc[i].next = "stop" => s.pc # "invoke"

(* A command of session n that frees the slot is on its way.                *)
Hits(n, ipc) ==
  \E i \in DOMAIN ipc :
    ipc[i].of = n /\ ipc[i].hits /\ ipc[i].cmd \in {"stop", "cancel", "release"}

Turns(s, t) ==
  /\ Good(t) /\ Sends(s, t)
  /\ t.via = s.via /\ t.n = s.n
  /\ t.pc = "invoke" <=> s.pc = "invoke"
  /\ t.pc = "owed" <=> s.pc = "owed"
  /\ s.cancelDuring => t.cancelDuring

(* What stops being recorded has its command on the way.                   *)
Delivers(s, t) ==
  /\ t.capturing => s.capturing /\ t.ipc = s.ipc
  /\ s.capturing /\ ~t.capturing => Hits(s.n, t.ipc) \/ t.cancelDuring

(* Nothing goes out while the start command is on its way.                 *)
Calm(s, t) ==
  s.pc = "invoke" =>
    t.ipc = s.ipc /\ (s.capturing \/ s.cancelDuring => t.capturing \/ t.cancelDuring)

Works(s, t) == Turns(s, t) /\ Delivers(s, t) /\ Calm(s, t)

(* A push-to-talk session that nothing asked to end.                       *)
HoldOpen(s) ==
  CASE s.pc = "none" -> s.capturing /\ s.act = "hold"
    [] s.pc = "prologue" -> s.startAct = "hold" /\ ~s.reclass /\ ~s.restart /\ ~s.stopReq
    [] s.pc = "invoke" -> /\ s.capturing /\ s.act = "hold"
                          /\ ~s.reclass /\ ~s.restart /\ ~s.stopReq
    [] OTHER -> FALSE

(* A press asked about, and a start that is not the press's.                *)
Asks(s) == s.check \in {"asked", "held"}
Elsewhere(s) == s.pc = "prologue" /\ (s.reclass \/ s.restart \/ s.startAct = "handsfree")

(* A turn no key of the push-to-talk chord is behind.                      *)
Softer(s, t) ==
  /\ HoldOpen(t) => HoldOpen(s) /\ (t.pc = "prologue" <=> s.pc = "prologue")
  /\ t.pending => s.pending
  /\ Asks(t) => Elsewhere(t) \/ s.pending \/ (Asks(s) /\ ~Elsewhere(s))

(* Nothing is left that the chord would have to end.                       *)
Quenched(t) == ~HoldOpen(t) /\ ~t.pending /\ (Asks(t) => Elsewhere(t))

LEMMA QuenchedSofter ==
  ASSUME NEW s, NEW t, Quenched(t)
  PROVE  Softer(s, t)
BY DEF Quenched, Softer

LEMMA SendsNothing ==
  ASSUME NEW s \in Controllers, NEW t, t.ipc = s.ipc
  PROVE  Sends(s, t)
<1>1. s.ipc \in Seq(Commands)
  BY DEF Controllers
<1> QED
  BY <1>1 DEF Sends

LEMMA SendsOne ==
  ASSUME NEW s \in Controllers, NEW t, NEW cmd \in Words,
         NEW next \in Continuations \ {"owed"}, next = "stop" => s.pc # "invoke",
         t.ipc = Append(s.ipc, Order(s, cmd, next))
  PROVE  /\ Sends(s, t)
         /\ cmd # "retire" /\ s.endpoint = s.via => Hits(s.n, t.ipc)
<1> DEFINE o == Order(s, cmd, next)
<1>1. s.ipc \in Seq(Commands) /\ o \in Commands /\ o.cmd = cmd /\ o.next = next
      /\ o.of = s.n
  BY OrderIs DEF Controllers, Continuations
<1>2. s.endpoint = s.via => o.hits
  BY OrderIs DEF Continuations
<1> HIDE DEF o
<1>3. Len(t.ipc) = Len(s.ipc) + 1 /\ Len(s.ipc) \in Nat
  BY <1>1 DEF o
<1>4. DOMAIN t.ipc = 1..(Len(s.ipc) + 1) /\ t.ipc[Len(s.ipc) + 1] = o
  BY <1>1, <1>3 DEF o
<1>5. \A i \in 1..Len(s.ipc) : t.ipc[i] = s.ipc[i]
  BY <1>1 DEF o
<1>6. Sends(s, t)
  <2> SUFFICES ASSUME NEW i \in DOMAIN t.ipc
               PROVE  \/ i <= Len(s.ipc) /\ t.ipc[i] = s.ipc[i]
                      \/ /\ i > Len(s.ipc) /\ t.ipc[i].next # "owed"
                         /\ t.ipc[i].of = s.n
                         /\ t.ipc[i].next = "stop" => s.pc # "invoke"
    BY <1>3 DEF Sends
  <2>1. CASE i <= Len(s.ipc)
    BY <1>3, <1>4, <1>5, <2>1
  <2>2. CASE i > Len(s.ipc)
    <3>1. i = Len(s.ipc) + 1
      BY <1>3, <1>4, <2>2
    <3> QED
      BY <1>1, <1>4, <2>2, <3>1
  <2> QED
    BY <1>3, <1>4, <2>1, <2>2
<1>7. Len(s.ipc) + 1 \in DOMAIN t.ipc
  BY <1>3, <1>4
<1> QED
  BY <1>1, <1>2, <1>4, <1>6, <1>7 DEF Hits, Words

(* Two commands of one turn.                                               *)
LEMMA SendsTwo ==
  ASSUME NEW s \in Controllers, NEW t,
         t.ipc = Append(Append(s.ipc, Order(s, "stop", "none")), Order(s, "retire", "none"))
  PROVE  /\ Sends(s, t)
         /\ s.endpoint = s.via => Hits(s.n, t.ipc)
<1> DEFINE o == Order(s, "stop", "none")
           q == Order(s, "retire", "none")
           k == Len(s.ipc)
<1>1. /\ s.ipc \in Seq(Commands) /\ o \in Commands /\ o.cmd = "stop" /\ o.next = "none"
      /\ o.of = s.n /\ q.of = s.n
      /\ q \in Commands /\ q.cmd = "retire" /\ q.next = "none"
  BY OrderIs DEF Controllers, Continuations, Words
<1>2. s.endpoint = s.via => o.hits
  BY OrderIs DEF Continuations, Words
<1>3. t.ipc = Append(Append(s.ipc, o), q)
  OBVIOUS
<1> HIDE DEF o, q
<1>4. k \in Nat /\ Len(t.ipc) = k + 2 /\ DOMAIN t.ipc = 1..(k + 2)
  BY <1>1, <1>3
<1>5. t.ipc[k + 1] = o /\ t.ipc[k + 2] = q
  BY <1>1, <1>3
<1>6. \A i \in 1..k : t.ipc[i] = s.ipc[i]
  BY <1>1, <1>3
<1>7. Sends(s, t)
  <2> SUFFICES ASSUME NEW i \in DOMAIN t.ipc
               PROVE  \/ i <= Len(s.ipc) /\ t.ipc[i] = s.ipc[i]
                      \/ /\ i > Len(s.ipc) /\ t.ipc[i].next # "owed"
                         /\ t.ipc[i].of = s.n
                         /\ t.ipc[i].next = "stop" => s.pc # "invoke"
    BY <1>4 DEF Sends
  <2>1. CASE i <= k
    BY <1>4, <1>6, <2>1
  <2>2. CASE i > k
    <3>1. i = k + 1 \/ i = k + 2
      BY <1>4, <2>2
    <3>2. t.ipc[i].next = "none" /\ t.ipc[i].of = s.n
      BY <1>1, <1>5, <3>1
    <3> QED
      BY <2>2, <3>2
  <2> QED
    BY <1>4, <2>1, <2>2
<1>8. k + 1 \in DOMAIN t.ipc /\ k + 2 \in DOMAIN t.ipc
  BY <1>4
<1> QED
  BY <1>1, <1>2, <1>5, <1>7, <1>8 DEF Hits

(* A command on its way stays on its way.                                   *)
LEMMA SendsKeep ==
  ASSUME NEW s \in Controllers, NEW t \in Controllers, Sends(s, t)
  PROVE  \A n : Hits(n, s.ipc) => Hits(n, t.ipc)
<1>1. s.ipc \in Seq(Commands) /\ t.ipc \in Seq(Commands)
  BY DEF Controllers
<1>2. ASSUME NEW i \in DOMAIN s.ipc
      PROVE  i \in DOMAIN t.ipc /\ t.ipc[i] = s.ipc[i]
  <2>1. i \in 1..Len(s.ipc) /\ Len(s.ipc) \in Nat /\ Len(t.ipc) \in Nat
    BY <1>1
  <2>2. i \in DOMAIN t.ipc
    BY <1>1, <2>1 DEF Sends
  <2> QED
    BY <2>1, <2>2 DEF Sends
<1> QED
  BY <1>2 DEF Hits

-----------------------------------------------------------------------------
(* Each handler's turn.                                                    *)

(* A turn that leaves the session and the commands alone.                  *)
LEMMA PlainWorks ==
  ASSUME NEW s, NEW t \in Controllers, Good(s),
         SameMic(s, t), t.ipc = s.ipc, t.via = s.via, t.n = s.n,
         t.cancelDuring = s.cancelDuring,
         t.pc = s.pc \/ (s.pc = "none" /\ t.pc = "prologue" /\ ~Busy(s)),
         t.pending => Processing(s) /\ ~s.capturing,
         t.check # "off" => ~Busy(s) /\ t.pc \in {"none", "prologue"}
  PROVE  Works(s, t)
<1>1. s \in Controllers
  BY DEF Good
<1>2. Busy(t) <=> Busy(s)
  BY DEF Busy, SameMic
<1>3. Processing(t) <=> Processing(s)
  BY DEF Processing, SameMic
<1>4. Chip(t)
  BY <1>2 DEF Chip, SameMic, Good
<1>5. Presses(t)
  BY <1>2, <1>3 DEF Presses, SameMic, Good
<1>6. Sends(s, t)
  BY <1>1, SendsNothing
<1>7. Turns(s, t)
  BY <1>4, <1>5, <1>6 DEF Turns, Good
<1>8. Delivers(s, t)
  BY <1>2 DEF Delivers, SameMic
<1>9. Calm(s, t)
  BY DEF Calm, SameMic
<1> QED
  BY <1>7, <1>8, <1>9 DEF Works

LEMMA StopLiveWorks ==
  ASSUME NEW s, Good(s), s.capturing
  PROVE  LET t == StopLive(s) IN Works(s, t) /\ Quenched(t)
<1> DEFINE t == StopLive(s)
<1>1. s \in Controllers /\ Busy(s) /\ ~s.pending /\ s.check = "off"
  BY DEF Good, Chip, Presses, Busy, Processing
<1>2. CASE s.pc = "invoke"
  <2>1. t = WithStopReq(s, TRUE)
    BY <1>2 DEF StopLive, WithStopReq
  <2> HIDE DEF t
  <2>2. /\ t \in Controllers /\ SameMic(s, t) /\ SamePress(s, t) /\ t.ipc = s.ipc
        /\ t.via = s.via /\ t.pc = s.pc /\ t.n = s.n /\ t.stopReq = TRUE
        /\ t.cancelDuring = s.cancelDuring
    BY <1>1, <2>1, FlagIs
  <2>3. Works(s, t)
    BY <1>1, <2>2, PlainWorks DEF SamePress
  <2>4. Quenched(t)
    BY <1>1, <1>2, <2>2 DEF Quenched, HoldOpen, Asks, SamePress
  <2> QED
    BY <2>3, <2>4 DEF t
<1>3. CASE s.pc # "invoke"
  <2>1. s.pc = "none" /\ ~s.cancelDuring /\ s.endpoint = s.via /\ s.tail = "none"
    BY <1>1, <1>3 DEF Good, Chip, Controllers
  <2>2. /\ t \in Controllers /\ SameStart(s, t) /\ SamePress(s, t)
        /\ t.ipc = Append(s.ipc, Order(s, "stop", "stop"))
        /\ t.capturing = FALSE /\ t.status = "transcribing"
        /\ t.act = s.act /\ t.cfg = s.cfg /\ t.endpoint = s.endpoint
        /\ t.before = s.before /\ t.tail = s.tail
    BY <1>1, <1>3, StopLiveIs
  <2> HIDE DEF t
  <2>3. Sends(s, t) /\ Hits(s.n, t.ipc)
    BY <1>1, <1>3, <2>1, <2>2, SendsOne DEF Words, Continuations
  <2>4. Chip(t)
    BY <2>1, <2>2 DEF Chip, SameStart, Good, Busy
  <2>5. Presses(t)
    BY <1>1, <2>1, <2>2 DEF Presses, SameStart, SamePress
  <2>6. Turns(s, t)
    BY <2>2, <2>3, <2>4, <2>5 DEF Turns, Good, SameStart
  <2>7. Delivers(s, t)
    BY <2>1, <2>2, <2>3 DEF Delivers, Busy
  <2>8. Calm(s, t)
    BY <1>3 DEF Calm
  <2>9. Quenched(t)
    BY <1>1, <2>1, <2>2 DEF Quenched, HoldOpen, Asks, SameStart, SamePress
  <2> QED
    BY <2>6, <2>7, <2>8, <2>9 DEF Works, t
<1> QED
  BY <1>2, <1>3

(* The state after a cancel of s.                                          *)
Cancelled(s, next, t) ==
  /\ t \in Controllers
  /\ t.ipc = IF s.pc = "invoke" THEN s.ipc
             ELSE Append(s.ipc, Order(s, "cancel", next))
  /\ t.via = s.via /\ t.pc = s.pc /\ t.n = s.n /\ t.stopReq = s.stopReq
  /\ t.cancelDuring = IF s.pc = "invoke" THEN TRUE ELSE s.cancelDuring
  /\ t.startAct = s.startAct /\ t.reclass = FALSE /\ t.restart = FALSE
  /\ t.status = "idle" /\ t.capturing = FALSE /\ t.act = s.act
  /\ t.cfg = 0 /\ t.endpoint = "none" /\ t.before = "none" /\ t.tail = "none"
  /\ t.pending = FALSE /\ t.check = "off"

LEMMA CancelledWorks ==
  ASSUME NEW s, NEW next \in Continuations \ {"owed", "stop"}, NEW t,
         Good(s), Cancelled(s, next, t)
  PROVE  Works(s, t) /\ (s.pc # "prologue" => Quenched(t))
<1>1. s \in Controllers
  BY DEF Good
<1>2. CASE s.pc = "invoke"
  <2>1. Sends(s, t)
    BY <1>1, <1>2, SendsNothing DEF Cancelled
  <2>2. Chip(t)
    BY <1>2 DEF Cancelled, Chip, Busy
  <2>3. Presses(t)
    BY DEF Cancelled, Presses, Busy
  <2>4. Turns(s, t)
    BY <1>2, <2>1, <2>2, <2>3 DEF Turns, Good, Cancelled
  <2>5. Delivers(s, t) /\ Calm(s, t)
    BY <1>2 DEF Delivers, Calm, Cancelled
  <2>6. Quenched(t)
    BY <1>2 DEF Quenched, HoldOpen, Asks, Cancelled
  <2> QED
    BY <2>4, <2>5, <2>6 DEF Works
<1>3. CASE s.pc # "invoke"
  <2>1. Sends(s, t) /\ (s.endpoint = s.via => Hits(s.n, t.ipc))
    BY <1>1, <1>3, SendsOne DEF Words, Cancelled
  <2>2. Chip(t)
    BY <1>3 DEF Cancelled, Chip, Busy, Good
  <2>3. Presses(t)
    BY DEF Cancelled, Presses, Busy
  <2>4. Turns(s, t)
    BY <1>3, <2>1, <2>2, <2>3 DEF Turns, Good, Cancelled
  <2>5. Delivers(s, t) /\ Calm(s, t)
    BY <1>3, <2>1 DEF Delivers, Calm, Cancelled, Good, Chip
  <2>6. Quenched(t) \/ s.pc = "prologue"
    BY DEF Quenched, HoldOpen, Asks, Cancelled
  <2> QED
    BY <2>4, <2>5, <2>6 DEF Works
<1> QED
  BY <1>2, <1>3

LEMMA CancelLiveWorks ==
  ASSUME NEW s, NEW next \in Continuations \ {"owed", "stop"}, Good(s)
  PROVE  LET t == CancelLive(s, next) IN
         /\ Works(s, t) /\ (s.pc # "prologue" => Quenched(t))
         /\ Cancelled(s, next, t)
<1>1. Cancelled(s, next, CancelLive(s, next))
  BY CancelLiveIs DEF Good, Cancelled
<1> QED
  BY <1>1, CancelledWorks

LEMMA StopOrCancelWorks ==
  ASSUME NEW s, NEW hard \in BOOLEAN, Good(s)
  PROVE  LET t == StopOrCancel(s, hard) IN Works(s, t) /\ Quenched(t)
<1> DEFINE t == StopOrCancel(s, hard)
<1>0. s \in Controllers
  BY DEF Good
<1>1. CASE Graceful(s)
  <2>1. s.capturing
    BY <1>1 DEF Graceful, Good, Chip, Controllers
  <2>2. t = StopLive(s)
    BY <1>1 DEF StopOrCancel
  <2> QED
    BY <2>1, <2>2, StopLiveWorks
<1>2. CASE ~Graceful(s) /\ Processing(s)
  <2>1. ~s.capturing /\ s.pc = "none"
    BY <1>2 DEF Graceful, Good, Presses, Busy, Processing
  <2>2. CASE hard
    <3> DEFINE c == CancelLive(s, "none")
    <3>1. t = VoidPending(c)
      BY <1>2, <2>2 DEF StopOrCancel
    <3>2. Cancelled(s, "none", c)
      BY CancelLiveWorks DEF Continuations
    <3> HIDE DEF c, t
    <3>3. /\ t \in Controllers /\ SameStart(c, t) /\ SameMic(c, t) /\ t.ipc = c.ipc
          /\ t.pending = FALSE /\ t.check = "off"
      BY <3>1, <3>2, VoidPendingIs DEF Cancelled
    <3>4. Cancelled(s, "none", t)
      BY <3>2, <3>3 DEF Cancelled, SameStart, SameMic
    <3> QED
      BY <2>1, <3>4, CancelledWorks DEF Continuations, t
  <2>3. CASE ~hard
    <3>1. t = VoidPending(s)
      BY <1>2, <2>3 DEF StopOrCancel
    <3> HIDE DEF t
    <3>2. /\ t \in Controllers /\ SameStart(s, t) /\ SameMic(s, t) /\ t.ipc = s.ipc
          /\ t.pending = FALSE /\ t.check = "off"
      BY <1>0, <3>1, VoidPendingIs
    <3>3. Works(s, t)
      BY <3>2, PlainWorks DEF SameStart
    <3>4. Quenched(t)
      BY <2>1, <3>2 DEF Quenched, HoldOpen, Asks, SameStart, SameMic
    <3> QED
      BY <3>3, <3>4 DEF t
  <2> QED
    BY <2>2, <2>3
<1>3. CASE ~Graceful(s) /\ ~Processing(s)
  <2> DEFINE r == RequestStopIfStarting(s)
  <2>1. t = VoidPending(r)
    BY <1>3 DEF StopOrCancel
  <2>2. /\ r \in Controllers /\ SameMic(s, r) /\ SamePress(s, r) /\ r.ipc = s.ipc
        /\ r.via = s.via /\ r.pc = s.pc /\ r.n = s.n
        /\ r.cancelDuring = s.cancelDuring /\ r.stopReq = (s.stopReq \/ s.pc # "none")
    BY <1>0, RequestStopIs
  <2> HIDE DEF t, r
  <2>3. /\ t \in Controllers /\ SameStart(r, t) /\ SameMic(r, t) /\ t.ipc = r.ipc
        /\ t.pending = FALSE /\ t.check = "off"
    BY <2>1, <2>2, VoidPendingIs
  <2>4. SameMic(s, t) /\ t.pc = s.pc
    BY <2>2, <2>3 DEF SameStart, SameMic
  <2>5. Works(s, t)
    BY <2>2, <2>3, <2>4, PlainWorks DEF SameStart
  <2>6. ~s.capturing
    BY <1>3 DEF Graceful, Processing, Good, Chip
  <2>7. s.pc # "none" => t.stopReq
    BY <2>2, <2>3 DEF SameStart
  <2>8. Quenched(t)
    BY <2>3, <2>4, <2>6, <2>7 DEF Quenched, HoldOpen, Asks, SameMic
  <2> QED
    BY <2>5, <2>8 DEF t
<1> QED
  BY <1>1, <1>2, <1>3

(* A start where none runs; a hands-free one is not the chord's to end.     *)
LEMMA StartLiveWorks ==
  ASSUME NEW s, NEW a \in Activations, NEW p \in Profiles,
         Good(s), s.pc = "none", ~Busy(s)
  PROVE  LET t == StartLive(s, a, p) IN
         /\ Works(s, t) /\ ~t.pending /\ t.check = s.check
         /\ a = "handsfree" => Quenched(t)
<1> DEFINE t == StartLive(s, a, p)
<1>1. s \in Controllers /\ ~s.pending
  BY DEF Good, Presses, Busy, Processing
<1>2. /\ t \in Controllers /\ SameMic(s, t) /\ SamePress(s, t) /\ t.ipc = s.ipc
      /\ t.via = s.via /\ t.n = s.n /\ t.cancelDuring = s.cancelDuring
      /\ t.pc = "prologue" /\ t.startAct = a
      /\ t.stopReq = FALSE /\ t.reclass = FALSE /\ t.restart = FALSE
  BY <1>1, StartLiveIs
<1> HIDE DEF t
<1>3. Works(s, t)
  BY <1>1, <1>2, PlainWorks DEF SamePress
<1>4. a = "handsfree" => Quenched(t)
  BY <1>1, <1>2 DEF Quenched, HoldOpen, Elsewhere, SamePress
<1> QED
  BY <1>1, <1>2, <1>3, <1>4 DEF SamePress, t

(* A stop asked of a start that is on its way: its press is void too.       *)
LEMMA RequestStopWorks ==
  ASSUME NEW s, Good(s), ~Busy(s)
  PROVE  LET t == RequestStopIfStarting(s) IN
         Works(s, t) /\ Softer(s, t) /\ ~HoldOpen(t)
<1> DEFINE t == RequestStopIfStarting(s)
<1>1. s \in Controllers /\ ~s.pending /\ ~s.capturing
  BY DEF Good, Chip, Presses, Busy, Processing
<1>2. /\ t \in Controllers /\ SameMic(s, t) /\ SamePress(s, t) /\ t.ipc = s.ipc
      /\ t.via = s.via /\ t.pc = s.pc /\ t.n = s.n
      /\ t.cancelDuring = s.cancelDuring /\ t.reclass = s.reclass
      /\ t.restart = s.restart /\ t.startAct = s.startAct
      /\ t.stopReq = (s.stopReq \/ s.pc # "none")
  BY <1>1, RequestStopIs
<1> HIDE DEF t
<1>3. Works(s, t)
  BY <1>1, <1>2, PlainWorks DEF SamePress, Good, Presses
<1>4. ~HoldOpen(t)
  BY <1>1, <1>2 DEF HoldOpen, SameMic
<1>5. Softer(s, t)
  BY <1>2, <1>4 DEF Softer, Asks, Elsewhere, SamePress
<1> QED
  BY <1>3, <1>4, <1>5 DEF t

LEMMA DictateStartWorks ==
  ASSUME NEW s, Good(s)
  PROVE  LET t == DictateStart(s) IN
         /\ Works(s, t) /\ t.check = s.check
         /\ t.pending => s.pending \/ (Processing(s) /\ ~s.capturing)
         /\ Elsewhere(s) => Elsewhere(t) /\ ~HoldOpen(t) /\ ~t.pending
<1> DEFINE t == DictateStart(s)
<1>0. s \in Controllers
  BY DEF Good
<1>1. CASE Starting(s) /\ s.profile = "H"
  <2>1. t = WithStopReq(s, FALSE)
    BY <1>1 DEF DictateStart, WithStopReq
  <2> HIDE DEF t
  <2>2. /\ t \in Controllers /\ SameMic(s, t) /\ SamePress(s, t) /\ t.ipc = s.ipc
        /\ t.via = s.via /\ t.pc = s.pc /\ t.n = s.n
        /\ t.cancelDuring = s.cancelDuring /\ t.reclass = s.reclass
        /\ t.restart = s.restart /\ t.startAct = s.startAct
    BY <1>0, <2>1, FlagIs
  <2>3. Works(s, t)
    BY <2>2, PlainWorks DEF SamePress, Good, Presses
  <2>4. Elsewhere(s) => Elsewhere(t) /\ ~HoldOpen(t) /\ ~t.pending
    BY <2>2 DEF Elsewhere, HoldOpen, SamePress, Good, Presses, Chip, Busy, Processing
  <2> QED
    BY <2>2, <2>3, <2>4 DEF SamePress, t
<1>2. CASE (Busy(s) \/ Starting(s)) /\ ~(Starting(s) /\ s.profile = "H")
  <2> DEFINE b == s.pending \/ (Processing(s) /\ ~s.capturing)
  <2>1. t = WithPending(s, b)
    BY <1>2 DEF DictateStart, WithPending
  <2>2. b \in BOOLEAN
    BY <1>0 DEF Controllers
  <2> HIDE DEF t, b
  <2>3. t \in Controllers
    BY <1>0, <2>1, <2>2, Setters
  <2>4. /\ SameStart(s, t) /\ SameMic(s, t) /\ t.ipc = s.ipc /\ t.check = s.check
        /\ t.pending = b
    BY <1>0, <2>1 DEF WithPending, Controllers, SameStart, SameMic
  <2>5. b => Processing(s) /\ ~s.capturing
    BY DEF b, Good, Presses
  <2>6. Works(s, t)
    BY <2>3, <2>4, <2>5, PlainWorks DEF SameStart, Good, Presses
  <2>7. Elsewhere(s) => Elsewhere(t) /\ ~HoldOpen(t) /\ ~t.pending
    BY <2>4, <2>5 DEF Elsewhere, HoldOpen, SameStart, Good, Chip, Busy, Processing
  <2> QED
    BY <2>4, <2>6, <2>7 DEF b, t
<1>3. CASE ~Busy(s) /\ ~Starting(s)
  <2>1. t = StartLive(s, "hold", "H")
    BY <1>3 DEF DictateStart
  <2>2. ~Elsewhere(s) /\ s.pc = "none"
    BY <1>3 DEF Elsewhere, Starting
  <2> QED
    BY <1>3, <2>1, <2>2, StartLiveWorks DEF Activations, Profiles
<1> QED
  BY <1>1, <1>2, <1>3

LEMMA DictateToggleWorks ==
  ASSUME NEW s, Good(s)
  PROVE  LET t == DictateToggle(s) IN Works(s, t) /\ Softer(s, t) /\ ~HoldOpen(t)
<1> DEFINE t == DictateToggle(s)
<1>1. CASE Busy(s)
  <2>1. t = StopOrCancel(s, TRUE)
    BY <1>1 DEF DictateToggle
  <2> HIDE DEF t
  <2>2. Works(s, t) /\ Quenched(t)
    BY <2>1, StopOrCancelWorks
  <2> QED
    BY <2>2, QuenchedSofter DEF Quenched, t
<1>2. CASE ~Busy(s) /\ Starting(s)
  <2>1. t = RequestStopIfStarting(s)
    BY <1>2 DEF DictateToggle
  <2> QED
    BY <1>2, <2>1, RequestStopWorks
<1>3. CASE ~Busy(s) /\ ~Starting(s)
  <2>1. t = StartLive(s, "handsfree", "F") /\ s.pc = "none"
    BY <1>3 DEF DictateToggle, Starting
  <2> HIDE DEF t
  <2>2. Works(s, t) /\ Quenched(t)
    BY <1>3, <2>1, StartLiveWorks DEF Activations, Profiles
  <2> QED
    BY <2>2, QuenchedSofter DEF Quenched, t
<1> QED
  BY <1>1, <1>2, <1>3

LEMMA HomeToggleWorks ==
  ASSUME NEW s, Good(s)
  PROVE  LET t == HomeToggle(s) IN Works(s, t) /\ Softer(s, t)
<1> DEFINE t == HomeToggle(s)
<1>1. CASE Graceful(s)
  <2>1. t = StopLive(s) /\ s.capturing
    BY <1>1 DEF HomeToggle, Graceful, Good, Chip, Controllers
  <2> HIDE DEF t
  <2>2. Works(s, t) /\ Quenched(t)
    BY <2>1, StopLiveWorks
  <2> QED
    BY <2>2, QuenchedSofter DEF t
<1>2. CASE ~Graceful(s) /\ Processing(s)
  <2>1. t = CancelLive(s, "none") /\ s.pc # "prologue"
    BY <1>2 DEF HomeToggle, Good, Chip, Busy, Processing
  <2> HIDE DEF t
  <2>2. Works(s, t) /\ Quenched(t)
    BY <2>1, CancelLiveWorks DEF Continuations
  <2> QED
    BY <2>2, QuenchedSofter DEF t
<1>3. CASE ~Graceful(s) /\ ~Processing(s) /\ Starting(s)
  <2>1. t = RequestStopIfStarting(s) /\ ~Busy(s)
    BY <1>3 DEF HomeToggle, Graceful, Processing, Busy
  <2> QED
    BY <2>1, RequestStopWorks
<1>4. CASE ~Graceful(s) /\ ~Processing(s) /\ ~Starting(s)
  <2>1. t = StartLive(s, "handsfree", "F") /\ s.pc = "none" /\ ~Busy(s)
    BY <1>4 DEF HomeToggle, Starting, Graceful, Processing, Busy
  <2> HIDE DEF t
  <2>2. Works(s, t) /\ Quenched(t)
    BY <2>1, StartLiveWorks DEF Activations, Profiles
  <2> QED
    BY <2>2, QuenchedSofter DEF t
<1> QED
  BY <1>1, <1>2, <1>3, <1>4

LEMMA SystemResumedWorks ==
  ASSUME NEW s, Good(s)
  PROVE  LET t == SystemResumed(s) IN
         /\ Works(s, t) /\ ~t.pending
         /\ Softer(s, t) \/ (s.pc = "prologue" /\ s.status # "idle")
         /\ HoldOpen(t) => s.pc = "prologue" /\ s.status # "idle" /\ t.pc = "prologue"
         /\ Asks(t) => Softer(s, t)
<1> DEFINE t == SystemResumed(s)
<1>1. CASE s.status # "idle"
  <2>1. t = CancelLive(s, "none")
    BY <1>1 DEF SystemResumed
  <2> HIDE DEF t
  <2>2. /\ Works(s, t) /\ (s.pc # "prologue" => Quenched(t))
        /\ Cancelled(s, "none", t)
    BY <2>1, CancelLiveWorks DEF Continuations
  <2>3. ~t.pending /\ ~Asks(t) /\ t.pc = s.pc
    BY <2>2 DEF Cancelled, Asks
  <2>4. HoldOpen(t) => s.pc = "prologue"
    BY <2>2 DEF Quenched
  <2>5. Softer(s, t) \/ s.pc = "prologue"
    BY <2>2, QuenchedSofter
  <2> QED
    BY <1>1, <2>2, <2>3, <2>4, <2>5 DEF t
<1>2. CASE s.status = "idle"
  <2>1. t = RequestStopIfStarting(s) /\ ~Busy(s)
    BY <1>2 DEF SystemResumed, Busy
  <2> HIDE DEF t
  <2>2. Works(s, t) /\ Softer(s, t) /\ ~HoldOpen(t)
    BY <2>1, RequestStopWorks
  <2>3. ~t.pending
    BY <2>1, <2>2 DEF Works, Turns, Good, Presses, Softer, Busy, Processing
  <2> QED
    BY <2>2, <2>3 DEF t
<1> QED
  BY <1>1, <1>2

(* What a turn does only depends on this much of where it starts.          *)
LEMMA WorksFrom ==
  ASSUME NEW s, NEW u, NEW t, Works(u, t), u.status = s.status,
         u.capturing = s.capturing, u.tail = s.tail, u.ipc = s.ipc, u.via = s.via,
         u.n = s.n, u.pc = s.pc, u.cancelDuring = s.cancelDuring
  PROVE  Works(s, t)
<1>1. Busy(u) <=> Busy(s)
  BY DEF Busy
<1>2. Turns(s, t)
  BY DEF Works, Turns, Sends
<1>3. Delivers(s, t)
  BY <1>1 DEF Works, Delivers
<1>4. Calm(s, t)
  BY DEF Works, Calm
<1> QED
  BY <1>2, <1>3, <1>4 DEF Works

LEMMA ReclassifyLiveWorks ==
  ASSUME NEW s, Good(s), s.pc # "none" \/ s.capturing
  PROVE  LET t == ReclassifyLive(s) IN Works(s, t) /\ Quenched(t)
<1> DEFINE t == ReclassifyLive(s)
<1>0. s \in Controllers
  BY DEF Good
<1>1. CASE s.pc # "none"
  <2>1. t = WithReclass(s, TRUE)
    BY <1>1 DEF ReclassifyLive, WithReclass, Starting
  <2> HIDE DEF t
  <2>2. /\ t \in Controllers /\ SameMic(s, t) /\ SamePress(s, t) /\ t.ipc = s.ipc
        /\ t.via = s.via /\ t.pc = s.pc /\ t.n = s.n
        /\ t.cancelDuring = s.cancelDuring /\ t.reclass = TRUE
    BY <1>0, <2>1, FlagIs
  <2>3. Works(s, t)
    BY <2>2, PlainWorks DEF SamePress, Good, Presses
  <2>4. ~s.pending /\ (s.check # "off" => s.pc = "prologue")
    BY <1>1 DEF Good, Presses, Busy, Processing
  <2>5. Quenched(t)
    BY <1>1, <2>2, <2>4 DEF Quenched, HoldOpen, Asks, Elsewhere, SamePress
  <2> QED
    BY <2>3, <2>5 DEF t
<1>2. CASE s.pc = "none"
  <2>1. s.capturing /\ s.cfg # 0 /\ Busy(s) /\ ~s.pending /\ s.check = "off"
    BY <1>0, <1>2 DEF Good, Chip, Presses, Busy, Controllers
  <2>2. t = ApplyReclassify(s)
    BY <1>2, <2>1 DEF ReclassifyLive, Starting
  <2> HIDE DEF t
  <2>3. /\ t \in Controllers /\ SameStart(s, t) /\ SamePress(s, t) /\ t.ipc = s.ipc
        /\ t.status = s.status /\ t.capturing = s.capturing /\ t.cfg = s.cfg
        /\ t.endpoint = s.endpoint /\ t.before = s.before /\ t.tail = s.tail
        /\ t.act = "handsfree"
    BY <1>0, <2>2, ApplyReclassifyIs
  <2>4. Busy(t) <=> Busy(s)
    BY <2>3 DEF Busy
  <2>5. Chip(t) /\ Presses(t)
    BY <2>1, <2>3, <2>4 DEF Chip, Presses, SameStart, SamePress, Good
  <2>6. Sends(s, t)
    BY <1>0, <2>3, SendsNothing
  <2>7. Works(s, t)
    BY <1>2, <2>3, <2>4, <2>5, <2>6 DEF Works, Turns, Delivers, Calm, Good, SameStart
  <2>8. Quenched(t)
    BY <1>2, <2>1, <2>3 DEF Quenched, HoldOpen, Asks, SameStart, SamePress
  <2> QED
    BY <2>7, <2>8 DEF t
<1> QED
  BY <1>1, <1>2

LEMMA RestartLiveAsWorks ==
  ASSUME NEW s, Good(s), s.pc # "none" \/ s.capturing
  PROVE  LET t == RestartLiveAs(s) IN Works(s, t) /\ Quenched(t)
<1> DEFINE t == RestartLiveAs(s)
           u == WithReclass(s, FALSE)
<1>1. u = [s EXCEPT !.reclass = FALSE]
  BY DEF WithReclass
<1>2. /\ s \in Controllers
      /\ u \in Controllers /\ SameMic(s, u) /\ SamePress(s, u) /\ u.ipc = s.ipc
      /\ u.via = s.via /\ u.pc = s.pc /\ u.n = s.n
      /\ u.cancelDuring = s.cancelDuring /\ u.stopReq = s.stopReq
      /\ u.startAct = s.startAct
  BY FlagIs DEF Good
<1>3. t = IF u.pc # "none" THEN WithRestart(u, TRUE)
          ELSE IF ~u.capturing THEN u ELSE CancelLive(u, "restart")
  BY <1>1 DEF RestartLiveAs, WithRestart, Starting
<1> HIDE DEF t, u
<1>4. CASE s.pc # "none"
  <2>1. /\ t \in Controllers /\ SameMic(u, t) /\ SamePress(u, t) /\ t.ipc = u.ipc
        /\ t.via = u.via /\ t.pc = u.pc /\ t.n = u.n
        /\ t.cancelDuring = u.cancelDuring /\ t.restart = TRUE
    BY <1>2, <1>3, <1>4, FlagIs
  <2>2. /\ SameMic(s, t) /\ SamePress(s, t) /\ t.ipc = s.ipc
        /\ t.via = s.via /\ t.pc = s.pc /\ t.n = s.n
        /\ t.cancelDuring = s.cancelDuring
    BY <1>2, <2>1 DEF SameMic, SamePress
  <2>3. Works(s, t)
    BY <2>1, <2>2, PlainWorks DEF SamePress, Good, Presses
  <2>4. ~s.pending /\ (s.check # "off" => s.pc = "prologue")
    BY <1>4 DEF Good, Presses, Busy, Processing
  <2>5. Quenched(t)
    BY <1>4, <2>1, <2>2, <2>4 DEF Quenched, HoldOpen, Asks, Elsewhere, SamePress
  <2> QED
    BY <2>3, <2>5 DEF t
<1>5. CASE s.pc = "none"
  <2>1. Works(s, u)
    BY <1>2, PlainWorks DEF SamePress, Good, Presses
  <2>2. Good(u) /\ u.capturing /\ u.pc = "none"
    BY <1>2, <1>5, <2>1 DEF Works, Turns, SameMic
  <2>3. t = CancelLive(u, "restart")
    BY <1>3, <2>2
  <2>4. Works(u, t) /\ Quenched(t)
    BY <2>2, <2>3, CancelLiveWorks DEF Continuations
  <2>5. Works(s, t)
    BY <1>2, <2>4, WorksFrom DEF SameMic
  <2> QED
    BY <2>4, <2>5 DEF t
<1> QED
  BY <1>4, <1>5

LEMMA DictateReclassifyWorks ==
  ASSUME NEW s, NEW same \in BOOLEAN, Good(s)
  PROVE  LET t == DictateReclassify(s, same) IN Works(s, t) /\ Quenched(t)
<1> DEFINE t == DictateReclassify(s, same)
<1>0. s \in Controllers
  BY DEF Good
<1>1. CASE ~Busy(s) /\ ~Starting(s)
  <2>1. t = StartLive(s, "handsfree", "F") /\ s.pc = "none"
    BY <1>1 DEF DictateReclassify, Starting
  <2> QED
    BY <1>1, <2>1, StartLiveWorks DEF Activations, Profiles
<1>2. CASE Busy(s) \/ Starting(s)
  <2>1. CASE s.profile = "F"
    <3>1. t = StopOrCancel(s, TRUE)
      BY <1>2, <2>1 DEF DictateReclassify
    <3> QED
      BY <3>1, StopOrCancelWorks
  <2>2. CASE s.profile # "F" /\ ~s.capturing /\ ~Starting(s)
    <3>1. t = VoidPending(s)
      BY <1>2, <2>2 DEF DictateReclassify
    <3> HIDE DEF t
    <3>2. /\ t \in Controllers /\ SameStart(s, t) /\ SameMic(s, t) /\ t.ipc = s.ipc
          /\ t.pending = FALSE /\ t.check = "off"
      BY <1>0, <3>1, VoidPendingIs
    <3>3. Works(s, t)
      BY <3>2, PlainWorks DEF SameStart
    <3>4. Quenched(t)
      BY <2>2, <3>2 DEF Quenched, HoldOpen, Asks, SameStart, SameMic, Starting
    <3> QED
      BY <3>3, <3>4 DEF t
  <2>3. CASE /\ s.profile # "F" /\ (s.capturing \/ Starting(s))
             /\ LiveActivation(s) # "hold"
    <3>1. t = StopOrCancel(s, TRUE)
      BY <1>2, <2>3 DEF DictateReclassify
    <3> QED
      BY <3>1, StopOrCancelWorks
  <2>4. CASE /\ s.profile # "F" /\ (s.capturing \/ Starting(s))
             /\ LiveActivation(s) = "hold" /\ same
    <3>1. t = ReclassifyLive(s) /\ (s.pc # "none" \/ s.capturing)
      BY <1>2, <2>4 DEF DictateReclassify, Starting
    <3> QED
      BY <3>1, ReclassifyLiveWorks
  <2>5. CASE /\ s.profile # "F" /\ (s.capturing \/ Starting(s))
             /\ LiveActivation(s) = "hold" /\ ~same
    <3>1. t = RestartLiveAs(s) /\ (s.pc # "none" \/ s.capturing)
      BY <1>2, <2>5 DEF DictateReclassify, Starting
    <3> QED
      BY <3>1, RestartLiveAsWorks
  <2> QED
    BY <2>1, <2>2, <2>3, <2>4, <2>5
<1> QED
  BY <1>1, <1>2

(* An error event or a failed phrase of a running session ends it.          *)
LEMMA AbandonWorks ==
  ASSUME NEW s, Good(s), Busy(s)
  PROVE  LET t == Abandon(s) IN Turns(s, t) /\ Delivers(s, t) /\ Quenched(t)
<1> DEFINE t == Abandon(s)
<1>1. s \in Controllers
  BY DEF Good
<1>2. /\ t \in Controllers /\ SameStart(s, t)
      /\ t.ipc = Append(Append(s.ipc, Order(s, "stop", "none")),
                        Order(s, "retire", "none"))
      /\ t.status = "error" /\ t.capturing = FALSE /\ t.act = s.act
      /\ t.cfg = 0 /\ t.endpoint = "none" /\ t.before = "none" /\ t.tail = "none"
      /\ t.pending = FALSE /\ t.check = "off"
  BY <1>1, AbandonIs
<1> HIDE DEF t
<1>3. Sends(s, t) /\ (s.endpoint = s.via => Hits(s.n, t.ipc))
  BY <1>1, <1>2, SendsTwo
<1>4. Chip(t) /\ Presses(t)
  BY <1>2 DEF Chip, Presses, SameStart, Good, Busy
<1>5. Turns(s, t)
  BY <1>2, <1>3, <1>4 DEF Turns, Good, SameStart
<1>6. Delivers(s, t)
  BY <1>2, <1>3 DEF Delivers, Good, Chip
<1>7. s.pc # "prologue"
  BY DEF Good, Chip
<1>8. Quenched(t)
  BY <1>2, <1>7 DEF Quenched, HoldOpen, Asks, SameStart
<1> QED
  BY <1>5, <1>6, <1>8 DEF t

LEMMA StopRejectedWorks ==
  ASSUME NEW s, Good(s)
  PROVE  LET t == StopRejected(s) IN
         Turns(s, t) /\ Softer(s, t) /\ (~s.capturing => Delivers(s, t))
<1> DEFINE t == StopRejected(s)
<1>1. s \in Controllers
  BY DEF Good
<1>2. /\ t \in Controllers /\ SameStart(s, t)
      /\ t.ipc = Append(s.ipc, Order(s, "retire", "none"))
      /\ t.status = "error" /\ t.capturing = FALSE /\ t.act = s.act
      /\ t.cfg = 0 /\ t.endpoint = "none" /\ t.before = "none" /\ t.tail = "none"
      /\ t.pending = FALSE /\ t.check = "off"
  BY <1>1, StopRejectedIs
<1> HIDE DEF t
<1>3. Sends(s, t)
  BY <1>1, <1>2, SendsOne DEF Words, Continuations
<1>4. Chip(t) /\ Presses(t)
  BY <1>2 DEF Chip, Presses, SameStart, Good, Busy
<1>5. Turns(s, t)
  BY <1>2, <1>3, <1>4 DEF Turns, Good, SameStart
<1>6. ~s.capturing => Delivers(s, t)
  BY <1>2, <1>3 DEF Delivers
<1>7. Softer(s, t)
  BY <1>2 DEF Softer, HoldOpen, Asks, SameStart
<1> QED
  BY <1>5, <1>6, <1>7 DEF t

LEMMA SendsRelease ==
  ASSUME NEW s \in Controllers, NEW t, t.ipc = Append(s.ipc, Order(s, "release", "none"))
  PROVE  Sends(s, t) /\ (s.endpoint = s.via => Hits(s.n, t.ipc))
<1>1. "release" \in Words /\ "none" \in Continuations \ {"owed"}
  BY DEF Words, Continuations
<1>2. /\ Sends(s, t)
      /\ "release" # "retire" /\ s.endpoint = s.via => Hits(s.n, t.ipc)
  BY <1>1, SendsOne
<1> QED
  BY <1>2

(* A session's end: whatever it leaves, the microphone is off and the       *)
(* session's release is on its way.                                        *)
LEMMA EndedWorks ==
  ASSUME NEW s, Good(s), Busy(s), NEW t \in Controllers,
         SameStart(s, t), t.ipc = Append(s.ipc, Order(s, "release", "none")),
         ~t.capturing, t.cfg = s.cfg, t.before = s.before,
         t.status \in {"idle", "error", "transcribing", "injecting"},
         t.tail # "none" => s.cfg # 0,
         Busy(t) => s.pc # "invoke",
         t.pending => s.pending /\ Busy(t),
         t.check # "off" => t.check = "asked" /\ s.pending /\ ~Busy(t)
  PROVE  Turns(s, t) /\ Delivers(s, t) /\ Softer(s, t)
<1>1. s \in Controllers /\ s.pc \in {"none", "invoke"}
  BY DEF Good, Chip, Controllers
<1>2. Sends(s, t) /\ (s.endpoint = s.via => Hits(s.n, t.ipc))
  BY <1>1, SendsRelease
<1>3. Chip(t)
  BY <1>1 DEF Chip, SameStart, Good, Busy
<1>4. s.pc # "none" => ~s.pending
  BY DEF Good, Presses
<1>5. Presses(t)
  BY <1>1, <1>4 DEF Presses, SameStart, Busy, Processing
<1>6. Turns(s, t)
  BY <1>2, <1>3, <1>5 DEF Turns, Good, SameStart
<1>7. Delivers(s, t)
  BY <1>2 DEF Delivers, Good, Chip
<1>8. ~HoldOpen(t)
  BY <1>1 DEF HoldOpen, SameStart
<1>9. Softer(s, t)
  BY <1>8 DEF Softer, Asks
<1> QED
  BY <1>6, <1>7, <1>9

LEMMA ClosedWorks ==
  ASSUME NEW s, NEW tail \in {"none", "insert", "quiet"}, NEW short \in BOOLEAN,
         Good(s), tail # "none" => s.pc # "invoke"
  PROVE  LET t == Closed(s, tail, short) IN
         Turns(s, t) /\ Delivers(s, t) /\ Softer(s, t) /\ ~t.capturing
<1> DEFINE t == Closed(s, tail, short)
           e == WithWatchdog(WithCapturing(s, FALSE), FALSE)
           r == Send(e, "release", "none")
           u == WithStatus(r, "transcribing")
<1>1. s \in Controllers /\ e \in Controllers
  BY Setters DEF Good
<1>2. e = Ended(s)
  BY DEF Ended, WithWatchdog, WithCapturing
<1>3. /\ SameStart(s, e) /\ SamePress(s, e) /\ e.ipc = s.ipc /\ e.capturing = FALSE
      /\ e.status = s.status /\ e.act = s.act /\ e.cfg = s.cfg
      /\ e.endpoint = s.endpoint /\ e.before = s.before /\ e.tail = s.tail
  BY <1>1 DEF WithWatchdog, WithCapturing, Controllers, SameStart, SamePress
<1> HIDE DEF e
<1>4. CASE s.status \in {"error", "idle"}
  <2>1. t = e /\ ~Busy(s) /\ s.capturing = FALSE
    BY <1>1, <1>2, <1>4 DEF Closed, Busy, Good, Chip, Controllers
  <2>2. SameMic(s, e)
    BY <1>3, <2>1 DEF SameMic
  <2> HIDE DEF t
  <2>3. Works(s, t)
    BY <1>1, <1>3, <2>1, <2>2, PlainWorks DEF SameStart, SamePress, Good, Presses
  <2>4. Softer(s, t)
    BY <1>3, <2>1 DEF Softer, HoldOpen, Asks, Elsewhere, SameStart, SamePress
  <2> QED
    BY <1>3, <2>1, <2>3, <2>4 DEF Works, t
<1>5. CASE s.status \notin {"error", "idle"}
  <2>1. Busy(s) /\ s.check = "off"
    BY <1>1, <1>5 DEF Busy, Controllers, Statuses, Good, Presses
  <2>2. r \in Controllers /\ SameStart(e, r) /\ SameMic(e, r) /\ SamePress(e, r)
        /\ r.ipc = Append(e.ipc, Order(e, "release", "none"))
    BY <1>1, SendIs DEF Words, Continuations
  <2>3. Order(e, "release", "none") = Order(s, "release", "none")
    BY <1>3 DEF Order, SameStart
  <2>4. u = [Send(Ended(s), "release", "none") EXCEPT !.status = "transcribing"]
    BY <1>2 DEF WithStatus
  <2> HIDE DEF r
  <2>5. u \in Controllers
    BY <2>2, Setters DEF Statuses
  <2>6. /\ SameStart(r, u) /\ SamePress(r, u) /\ u.ipc = r.ipc
        /\ u.capturing = r.capturing /\ u.cfg = r.cfg /\ u.before = r.before
        /\ u.status = "transcribing" /\ u.tail = r.tail
    BY <2>2 DEF WithStatus, Controllers, SameStart, SamePress
  <2> HIDE DEF u
  <2>7. /\ SameStart(s, u) /\ u.pending = s.pending /\ u.check = "off"
        /\ u.ipc = Append(s.ipc, Order(s, "release", "none"))
        /\ ~u.capturing /\ u.cfg = s.cfg /\ u.before = s.before
        /\ u.status = "transcribing" /\ u.tail = s.tail
    BY <1>3, <2>1, <2>2, <2>3, <2>6 DEF SameStart, SamePress, SameMic
  <2>8. t = IF tail = "none" \/ s.cfg = 0
            THEN IF short THEN SettleShort(u) ELSE Settle(u)
            ELSE IF tail = "insert" THEN [u EXCEPT !.status = "injecting", !.tail = "insert"]
            ELSE [u EXCEPT !.tail = "quiet"]
    BY <1>5, <2>4 DEF Closed
  <2> HIDE DEF t
  <2>9. CASE tail = "none" \/ s.cfg = 0
    <3>1. /\ t \in Controllers /\ SameStart(u, t) /\ t.ipc = u.ipc /\ t.pending = FALSE
          /\ t.check = IF u.pending THEN "asked" ELSE "off"
          /\ t.status \in {"idle", "error"} /\ t.capturing = u.capturing
          /\ t.cfg = u.cfg /\ t.before = u.before /\ t.tail = "none"
      BY <2>5, <2>7, <2>8, <2>9, SettleIs, SettleShortIs
    <3>2. SameStart(s, t) /\ ~Busy(t)
      BY <2>7, <3>1 DEF SameStart, Busy
    <3>3. Turns(s, t) /\ Delivers(s, t) /\ Softer(s, t)
      BY <2>1, <2>7, <3>1, <3>2, EndedWorks
    <3> QED
      BY <2>7, <3>1, <3>3 DEF t
  <2>10. CASE tail = "insert" /\ s.cfg # 0
    <3>1. t = WithStatus(WithTail(u, "insert"), "injecting")
      BY <2>8, <2>10 DEF WithStatus, WithTail
    <3>2. t \in Controllers
      BY <2>5, <3>1, Setters DEF Statuses
    <3>3. /\ SameStart(u, t) /\ SamePress(u, t) /\ t.ipc = u.ipc
          /\ t.capturing = u.capturing /\ t.cfg = u.cfg /\ t.before = u.before
          /\ t.status = "injecting"
      BY <2>5, <3>1 DEF WithStatus, WithTail, Controllers, SameStart, SamePress
    <3>4. SameStart(s, t) /\ Busy(t) /\ t.pending = s.pending /\ t.check = "off"
      BY <2>7, <3>3 DEF SameStart, SamePress, Busy
    <3>5. Turns(s, t) /\ Delivers(s, t) /\ Softer(s, t)
      BY <2>1, <2>7, <2>10, <3>2, <3>3, <3>4, EndedWorks
    <3> QED
      BY <2>7, <3>3, <3>5 DEF t
  <2>11. CASE tail = "quiet" /\ s.cfg # 0
    <3>1. t = WithTail(u, "quiet")
      BY <2>8, <2>11 DEF WithTail
    <3>2. t \in Controllers
      BY <2>5, <3>1, Setters
    <3>3. /\ SameStart(u, t) /\ SamePress(u, t) /\ t.ipc = u.ipc
          /\ t.capturing = u.capturing /\ t.cfg = u.cfg /\ t.before = u.before
          /\ t.status = "transcribing"
      BY <2>5, <2>7, <3>1 DEF WithTail, Controllers, SameStart, SamePress
    <3>4. SameStart(s, t) /\ Busy(t) /\ t.pending = s.pending /\ t.check = "off"
      BY <2>7, <3>3 DEF SameStart, SamePress, Busy
    <3>5. Turns(s, t) /\ Delivers(s, t) /\ Softer(s, t)
      BY <2>1, <2>7, <2>11, <3>2, <3>3, <3>4, EndedWorks
    <3> QED
      BY <2>7, <3>3, <3>5 DEF t
  <2> QED
    BY <2>9, <2>10, <2>11
<1> QED
  BY <1>4, <1>5

(* A turn between the idle chip and the error one.                         *)
LEMMA ResultWorks ==
  ASSUME NEW s, NEW t \in Controllers, Good(s), ~Busy(s), ~Busy(t),
         SameStart(s, t), t.ipc = s.ipc, t.capturing = s.capturing, t.act = s.act,
         t.cfg = s.cfg, t.endpoint = s.endpoint, t.before = s.before,
         t.tail = s.tail, ~t.pending, t.check # "off" => t.check = s.check
  PROVE  Works(s, t) /\ Softer(s, t)
<1>1. s \in Controllers /\ s.status # "listening" /\ s.status # "translating"
      /\ t.status # "listening" /\ t.status # "translating"
  BY DEF Good, Busy
<1>2. Chip(t)
  BY <1>1 DEF Chip, SameStart, Good
<1>3. Presses(t)
  BY DEF Presses, SameStart, Good
<1>4. Sends(s, t)
  BY <1>1, SendsNothing
<1>5. Turns(s, t)
  BY <1>2, <1>3, <1>4 DEF Turns, Good, SameStart
<1>6. Delivers(s, t) /\ Calm(s, t)
  BY DEF Delivers, Calm, SameStart
<1>7. Softer(s, t)
  BY DEF Softer, HoldOpen, Asks, Elsewhere, SameStart
<1> QED
  BY <1>5, <1>6, <1>7 DEF Works

LEMMA HeldCheckReadsWorks ==
  ASSUME NEW s, NEW c \in {"up", "held"}, Good(s), s.check = "asked"
  PROVE  LET t == [s EXCEPT !.check = c] IN Works(s, t) /\ Softer(s, t)
<1> DEFINE t == [s EXCEPT !.check = c]
<1>1. s \in Controllers /\ t = WithCheck(s, c)
  BY DEF Good, WithCheck
<1>2. /\ SameStart(s, t) /\ SameMic(s, t) /\ t.ipc = s.ipc /\ t.pending = s.pending
      /\ t.check = c
  BY <1>1 DEF Controllers, SameStart, SameMic
<1> HIDE DEF t
<1>3. t \in Controllers
  BY <1>1, Setters
<1>4. Works(s, t)
  BY <1>2, <1>3, PlainWorks DEF SameStart, Good, Presses
<1>5. Softer(s, t)
  BY <1>2 DEF Softer, HoldOpen, Asks, Elsewhere, SameStart, SameMic
<1> QED
  BY <1>4, <1>5 DEF t

(* A held chord starts what its press had asked for.                       *)
LEMMA HeldCheckAnswersWorks ==
  ASSUME NEW s, Good(s), s.check \in {"up", "held"}
  PROVE  LET u == [s EXCEPT !.check = "off"]
             t == IF s.check = "held" /\ s.status \in {"idle", "error"}
                  THEN DictateStart(u) ELSE u
         IN /\ Works(s, t) /\ ~t.pending /\ ~Asks(t)
            /\ HoldOpen(t) => \/ HoldOpen(s) /\ (t.pc = "prologue" <=> s.pc = "prologue")
                              \/ Asks(s) /\ ~Elsewhere(s)
<1> DEFINE u == [s EXCEPT !.check = "off"]
           t == IF s.check = "held" /\ s.status \in {"idle", "error"}
                THEN DictateStart(u) ELSE u
<1>1. s \in Controllers /\ u = WithCheck(s, "off") /\ ~Busy(s) /\ ~s.pending
  BY DEF Good, WithCheck, Presses, Busy, Processing
<1>2. /\ SameStart(s, u) /\ SameMic(s, u) /\ u.ipc = s.ipc /\ u.pending = s.pending
      /\ u.check = "off"
  BY <1>1 DEF Controllers, SameStart, SameMic
<1> HIDE DEF u
<1>3. u \in Controllers
  BY <1>1, Setters
<1>4. Works(s, u)
  BY <1>2, <1>3, PlainWorks DEF SameStart, Good, Presses
<1>5. CASE s.check = "held" /\ s.status \in {"idle", "error"}
  <2>1. t = DictateStart(u)
    BY <1>5
  <2> HIDE DEF t
  <2>2. /\ Works(u, t) /\ t.check = u.check
        /\ t.pending => u.pending \/ (Processing(u) /\ ~u.capturing)
        /\ Elsewhere(u) => Elsewhere(t) /\ ~HoldOpen(t) /\ ~t.pending
    BY <1>4, <2>1, DictateStartWorks DEF Works, Turns
  <2>3. Works(s, t)
    BY <1>2, <2>2, WorksFrom DEF SameStart, SameMic
  <2>4. ~t.pending /\ ~Asks(t)
    BY <1>1, <1>2, <1>5, <2>2 DEF Processing, Asks, SameMic
  <2>5. HoldOpen(t) => Asks(s) /\ ~Elsewhere(s)
    BY <1>2, <1>5, <2>2 DEF Asks, Elsewhere, SameStart
  <2> QED
    BY <2>3, <2>4, <2>5 DEF t, u
<1>6. CASE ~(s.check = "held" /\ s.status \in {"idle", "error"})
  <2>1. t = u
    BY <1>6
  <2>2. ~u.pending /\ ~Asks(u)
    BY <1>1, <1>2 DEF Asks
  <2>3. HoldOpen(u) => HoldOpen(s) /\ (u.pc = "prologue" <=> s.pc = "prologue")
    BY <1>2 DEF HoldOpen, SameStart, SameMic
  <2> QED
    BY <1>4, <2>1, <2>2, <2>3 DEF u
<1> QED
  BY <1>5, <1>6

LEMMA FlashWorks ==
  ASSUME NEW s, Good(s), ~Busy(s)
  PROVE  LET t == FlashError(s) IN Works(s, t) /\ Softer(s, t)
<1> DEFINE t == FlashError(s)
<1>1. /\ t \in Controllers /\ SameStart(s, t) /\ t.ipc = s.ipc
      /\ t.pending = FALSE /\ t.check = "off" /\ t.status = "error"
      /\ t.capturing = s.capturing /\ t.act = s.act /\ t.cfg = s.cfg
      /\ t.endpoint = s.endpoint /\ t.before = s.before /\ t.tail = s.tail
  BY FlashErrorIs DEF Good
<1> HIDE DEF t
<1>2. ~Busy(t)
  BY <1>1 DEF Busy
<1> QED
  BY <1>1, <1>2, ResultWorks DEF t

LEMMA ErrorLingersWorks ==
  ASSUME NEW s, Good(s)
  PROVE  LET u == [s EXCEPT !.errTimer = FALSE]
             t == IF s.status = "error"
                  THEN [u EXCEPT !.status = "idle", !.profile = "none"] ELSE u
         IN Works(s, t) /\ Softer(s, t)
<1> DEFINE u == [s EXCEPT !.errTimer = FALSE]
           t == IF s.status = "error"
                THEN [u EXCEPT !.status = "idle", !.profile = "none"] ELSE u
<1>1. s \in Controllers /\ u = WithErrTimer(s, FALSE)
  BY DEF Good, WithErrTimer
<1>2. u \in Controllers
  BY <1>1, Setters
<1>3. CASE s.status = "error"
  <2>1. t = WithProfile(WithStatus(u, "idle"), "none")
    BY <1>3 DEF WithProfile, WithStatus
  <2>2. /\ SameStart(s, t) /\ SamePress(s, t) /\ t.ipc = s.ipc
        /\ t.status = "idle" /\ t.capturing = s.capturing /\ t.act = s.act
        /\ t.cfg = s.cfg /\ t.endpoint = s.endpoint /\ t.before = s.before
        /\ t.tail = s.tail
    BY <1>1, <1>3 DEF Controllers, SameStart, SamePress
  <2> HIDE DEF t, u
  <2>3. t \in Controllers
    BY <1>2, <2>1, Setters DEF Statuses
  <2>4. ~Busy(s) /\ ~Busy(t) /\ ~t.pending
    BY <1>3, <2>2 DEF Busy, Processing, Good, Presses, SamePress
  <2>5. Works(s, t) /\ Softer(s, t)
    BY <2>2, <2>3, <2>4, ResultWorks DEF SamePress
  <2> QED
    BY <2>5 DEF t, u
<1>4. CASE s.status # "error"
  <2>1. t = u
    BY <1>4
  <2>2. SameStart(s, u) /\ SameMic(s, u) /\ SamePress(s, u) /\ u.ipc = s.ipc
    BY <1>1 DEF Controllers, SameStart, SameMic, SamePress
  <2> HIDE DEF u
  <2>3. Works(s, u)
    BY <1>2, <2>2, PlainWorks DEF SameStart, SamePress, Good, Presses
  <2>4. Softer(s, u)
    BY <2>2 DEF Softer, HoldOpen, Asks, Elsewhere, SameStart, SameMic, SamePress
  <2> QED
    BY <2>1, <2>3, <2>4 DEF u
<1> QED
  BY <1>3, <1>4

(* The watchdog's own field is nobody else's.                              *)
LEMMA WatchdogWorks ==
  ASSUME NEW s, Good(s)
  PROVE  LET t == [s EXCEPT !.watchdog = FALSE] IN
         /\ Works(s, t) /\ Softer(s, t)
         /\ Works(s, ArmWatchdog(t)) /\ Softer(s, ArmWatchdog(t))
         /\ \A next \in {"none", "recover"} : s.status = "transcribing" =>
              Works(s, CancelLive(t, next)) /\ Softer(s, CancelLive(t, next))
<1> DEFINE t == [s EXCEPT !.watchdog = FALSE]
           a == ArmWatchdog(t)
<1>1. s \in Controllers /\ t = WithWatchdog(s, FALSE)
  BY DEF Good, WithWatchdog
<1>2. SameStart(s, t) /\ SameMic(s, t) /\ SamePress(s, t) /\ t.ipc = s.ipc
  BY <1>1 DEF Controllers, SameStart, SameMic, SamePress
<1>3. t \in Controllers
  BY <1>1, Setters
<1> HIDE DEF t
<1>4. Works(s, t)
  BY <1>2, <1>3, PlainWorks DEF SameStart, SamePress, Good, Presses
<1>5. Softer(s, t)
  BY <1>2 DEF Softer, HoldOpen, Asks, Elsewhere, SameStart, SameMic, SamePress
<1>6. /\ a \in Controllers /\ SameStart(t, a) /\ SameMic(t, a) /\ SamePress(t, a)
      /\ a.ipc = t.ipc
  BY <1>3, ArmWatchdogIs
<1> HIDE DEF a
<1>7. SameStart(s, a) /\ SameMic(s, a) /\ SamePress(s, a) /\ a.ipc = s.ipc
  BY <1>2, <1>6 DEF SameStart, SameMic, SamePress
<1>8. Works(s, a)
  BY <1>6, <1>7, PlainWorks DEF SameStart, SamePress, Good, Presses
<1>9. Softer(s, a)
  BY <1>7 DEF Softer, HoldOpen, Asks, Elsewhere, SameStart, SameMic, SamePress
<1>10. ASSUME NEW next \in {"none", "recover"}, s.status = "transcribing"
       PROVE  Works(s, CancelLive(t, next)) /\ Softer(s, CancelLive(t, next))
  <2> DEFINE c == CancelLive(t, next)
  <2>1. Good(t) /\ t.pc # "prologue"
    BY <1>2, <1>4, <1>10 DEF Works, Turns, SameStart, Good, Chip, Busy
  <2>2. Works(t, c) /\ Quenched(c)
    BY <2>1, CancelLiveWorks DEF Continuations
  <2> HIDE DEF c
  <2>3. Works(s, c)
    BY <1>2, <2>2, WorksFrom DEF SameStart, SameMic
  <2> QED
    BY <2>2, <2>3, QuenchedSofter DEF c
<1> QED
  BY <1>4, <1>5, <1>8, <1>9, <1>10 DEF t, a

LEMMA PhraseTranslatesWorks ==
  ASSUME NEW s, Good(s), s.tail = "none", s.status \in {"listening", "transcribing"},
         s.before = "none"
  PROVE  LET t == [s EXCEPT !.before = s.status, !.status = "translating"] IN
         Works(s, t) /\ Softer(s, t)
<1> DEFINE t == [s EXCEPT !.before = s.status, !.status = "translating"]
<1>1. s \in Controllers /\ t = WithStatus(WithBefore(s, s.status), "translating")
  BY DEF Good, WithStatus, WithBefore
<1>2. t \in Controllers
  BY <1>1, Setters DEF Statuses
<1>3. /\ SameStart(s, t) /\ SamePress(s, t) /\ t.ipc = s.ipc
      /\ t.status = "translating" /\ t.before = s.status
      /\ t.capturing = s.capturing /\ t.act = s.act
      /\ t.cfg = s.cfg /\ t.endpoint = s.endpoint /\ t.tail = s.tail
  BY <1>1 DEF Controllers, SameStart, SamePress
<1> HIDE DEF t
<1>4. Busy(s) /\ Busy(t) /\ Processing(t)
  BY <1>3 DEF Busy, Processing
<1>5. Chip(t)
  BY <1>3, <1>4 DEF Chip, SameStart, Good
<1>6. Presses(t)
  BY <1>3, <1>4 DEF Presses, SameStart, SamePress, Good
<1>7. Sends(s, t)
  BY <1>1, <1>3, SendsNothing
<1>8. Works(s, t)
  BY <1>2, <1>3, <1>4, <1>5, <1>6, <1>7 DEF Works, Turns, Delivers, Calm, Good, SameStart
<1>9. Softer(s, t)
  BY <1>3 DEF Softer, HoldOpen, Asks, Elsewhere, SameStart, SamePress
<1> QED
  BY <1>8, <1>9 DEF t

LEMMA PhraseTranslatedWorks ==
  ASSUME NEW s, Good(s), s.before # "none"
  PROVE  LET t == [s EXCEPT !.before = "none",
                     !.status = IF s.status = "translating" THEN s.before ELSE s.status]
         IN Works(s, t) /\ Softer(s, t)
<1> DEFINE b == IF s.status = "translating" THEN s.before ELSE s.status
           t == [s EXCEPT !.before = "none", !.status = b]
<1>1. s \in Controllers /\ t = WithStatus(WithBefore(s, "none"), b)
  BY DEF Good, WithStatus, WithBefore
<1>2. b \in Statuses /\ s.before \in {"listening", "transcribing"}
  BY <1>1 DEF Controllers, Statuses
<1> HIDE DEF b, t
<1>3. t \in Controllers
  BY <1>1, <1>2, Setters
<1>4. /\ SameStart(s, t) /\ SamePress(s, t) /\ t.ipc = s.ipc
      /\ t.status = b /\ t.before = "none"
      /\ t.capturing = s.capturing /\ t.act = s.act
      /\ t.cfg = s.cfg /\ t.endpoint = s.endpoint /\ t.tail = s.tail
  BY <1>1 DEF t, Controllers, SameStart, SamePress
<1>5. (Busy(t) <=> Busy(s)) /\ (Processing(s) /\ ~s.capturing => Processing(t))
  BY <1>2, <1>4 DEF b, Busy, Processing, Good, Chip
<1>6. Chip(t)
  BY <1>2, <1>4, <1>5 DEF b, Chip, SameStart, Good
<1>7. Presses(t)
  BY <1>4, <1>5 DEF Presses, SameStart, SamePress, Good
<1>8. Sends(s, t)
  BY <1>1, <1>4, SendsNothing
<1>9. Works(s, t)
  BY <1>3, <1>4, <1>5, <1>6, <1>7, <1>8 DEF Works, Turns, Delivers, Calm, Good, SameStart
<1>10. Softer(s, t)
  BY <1>4 DEF Softer, HoldOpen, Asks, Elsewhere, SameStart, SamePress
<1> QED
  BY <1>9, <1>10 DEF b, t

(* A tail's turn ends: the session it belongs to records no more.           *)
LEMMA TailWorks ==
  ASSUME NEW s, NEW t \in Controllers, Good(s), s.tail # "none",
         SameStart(s, t), t.ipc = s.ipc, t.capturing = s.capturing, t.act = s.act,
         t.cfg = s.cfg, t.before = s.before, t.tail = "none",
         t.status \in {"idle", "error"} \/ t.status = s.status,
         t.pending => s.pending /\ Busy(t),
         t.check # "off" => ~Busy(t) /\ (t.check = s.check \/ s.pending)
  PROVE  Works(s, t) /\ Softer(s, t)
<1>1. s \in Controllers /\ ~s.capturing /\ s.status # "listening"
  BY DEF Good, Chip
<1>2. Busy(t) => Busy(s) /\ t.status = s.status
  BY DEF Busy
<1>3. s.pc # "none" => ~s.pending /\ ~Busy(s)
  BY <1>1 DEF Good, Presses, Busy, Processing
<1>4. t.status # "listening" /\ (t.status = "translating" => s.status = "translating")
  BY <1>1
<1>5. Chip(t)
  BY <1>1, <1>2, <1>4 DEF Chip, SameStart, Good
<1>6. t.pending => Processing(t)
  BY <1>2, <1>4 DEF Busy, Processing
<1>7. t.check # "off" => s.pc \in {"none", "prologue"}
  BY <1>1, <1>3 DEF Good, Presses, Controllers
<1>8. Presses(t)
  BY <1>1, <1>2, <1>3, <1>6, <1>7 DEF Presses, SameStart
<1>9. Sends(s, t)
  BY <1>1, SendsNothing
<1>10. Works(s, t)
  BY <1>1, <1>5, <1>8, <1>9 DEF Works, Turns, Delivers, Calm, Good, SameStart
<1>11. t.check # "off" => s.pending \/ (t.check = s.check)
  OBVIOUS
<1>12. Softer(s, t)
  BY <1>1, <1>11 DEF Softer, HoldOpen, Asks, Elsewhere, SameStart
<1> QED
  BY <1>10, <1>12

LEMMA TailEndsWorks ==
  ASSUME NEW s, Good(s), s.tail # "none", s.before = "none"
  PROVE  /\ Works(s, Settle(s)) /\ Softer(s, Settle(s))
         /\ LET t == [s EXCEPT !.tail = "none"] IN Works(s, t) /\ Softer(s, t)
<1>1. s \in Controllers
  BY DEF Good
<1>2. Works(s, Settle(s)) /\ Softer(s, Settle(s))
  <2> DEFINE t == Settle(s)
  <2>1. /\ t \in Controllers /\ SameStart(s, t) /\ t.ipc = s.ipc /\ t.pending = FALSE
        /\ t.check = IF s.pending THEN "asked" ELSE s.check
        /\ t.status = "idle" /\ t.capturing = s.capturing /\ t.act = s.act
        /\ t.cfg = s.cfg /\ t.endpoint = s.endpoint /\ t.before = s.before
        /\ t.tail = "none"
    BY <1>1, SettleIs
  <2> HIDE DEF t
  <2>2. ~Busy(t) /\ (t.check = s.check \/ s.pending)
    BY <2>1 DEF Busy
  <2>3. Works(s, t) /\ Softer(s, t)
    BY <2>1, <2>2, TailWorks
  <2> QED
    BY <2>3 DEF t
<1>3. LET t == [s EXCEPT !.tail = "none"] IN Works(s, t) /\ Softer(s, t)
  <2> DEFINE t == [s EXCEPT !.tail = "none"]
  <2>1. t = WithTail(s, "none")
    BY DEF WithTail
  <2>2. /\ SameStart(s, t) /\ SamePress(s, t) /\ t.ipc = s.ipc /\ t.status = s.status
        /\ t.capturing = s.capturing /\ t.act = s.act /\ t.cfg = s.cfg
        /\ t.endpoint = s.endpoint /\ t.before = s.before /\ t.tail = "none"
    BY <1>1 DEF Controllers, SameStart, SamePress
  <2> HIDE DEF t
  <2>3. t \in Controllers
    BY <1>1, <2>1, Setters
  <2>4. Busy(t) <=> Busy(s)
    BY <2>2 DEF Busy
  <2>5. t.pending => s.pending /\ Busy(t)
    BY <2>2, <2>4 DEF SamePress, Good, Presses, Busy, Processing
  <2>6. t.check # "off" => ~Busy(t) /\ t.check = s.check
    BY <2>2, <2>4 DEF SamePress, Good, Presses
  <2>7. Works(s, t) /\ Softer(s, t)
    BY <2>2, <2>3, <2>5, <2>6, TailWorks
  <2> QED
    BY <2>7 DEF t
<1> QED
  BY <1>2, <1>3

LEMMA InsertFailsWorks ==
  ASSUME NEW s, Good(s), s.tail = "insert"
  PROVE  LET t == SettleKeepingError(FlashError(s)) IN Works(s, t) /\ Softer(s, t)
<1> DEFINE f == FlashError(s)
           t == SettleKeepingError(f)
<1>1. /\ f \in Controllers /\ SameStart(s, f) /\ f.ipc = s.ipc
      /\ f.pending = FALSE /\ f.check = "off" /\ f.status = "error"
      /\ f.capturing = s.capturing /\ f.act = s.act /\ f.cfg = s.cfg
      /\ f.endpoint = s.endpoint /\ f.before = s.before /\ f.tail = s.tail
  BY FlashErrorIs DEF Good
<1> HIDE DEF f
<1>2. /\ t \in Controllers /\ SameStart(f, t) /\ t.ipc = f.ipc /\ t.pending = FALSE
      /\ t.check = IF f.pending THEN "asked" ELSE f.check
      /\ t.status = f.status /\ t.capturing = f.capturing /\ t.act = f.act
      /\ t.cfg = f.cfg /\ t.endpoint = f.endpoint /\ t.before = f.before
      /\ t.tail = "none"
  BY <1>1, SettleKeepingErrorIs
<1> HIDE DEF t
<1>3. SameStart(s, t) /\ t.check = "off"
  BY <1>1, <1>2 DEF SameStart
<1>4. Works(s, t) /\ Softer(s, t)
  BY <1>1, <1>2, <1>3, TailWorks
<1> QED
  BY <1>4 DEF t, f

(* The prologue's end: a session recording, its start command to be sent.   *)
LEMMA SessionUpIs ==
  ASSUME NEW s \in Controllers
  PROVE  LET t == SessionUp(s) IN
         /\ t \in Controllers /\ t.ipc = s.ipc /\ SamePress(s, t)
         /\ t.via = s.via /\ t.pc = "invoke" /\ t.n = s.n + 1 /\ t.cfg = s.n + 1
         /\ t.stopReq = s.stopReq /\ t.restart = s.restart
         /\ t.cancelDuring = FALSE /\ t.reclass = FALSE
         /\ t.status = "listening" /\ t.capturing = TRUE /\ t.endpoint = s.via
         /\ t.before = "none" /\ t.tail = "none"
         /\ t.act = IF s.reclass THEN "handsfree" ELSE s.startAct
<1> DEFINE d == Disown(s)
           m == WithN(WithCfg(WithAct(WithStatus(d, "listening"), s.startAct), s.n + 1), s.n + 1)
           w == WithPc(WithCapturing(WithEndpoint(m, s.via), TRUE), "invoke")
           t == WithCancelDuring(WithReclass(w, FALSE), FALSE)
<1>1. /\ d \in Controllers /\ SameStart(s, d) /\ SamePress(s, d) /\ d.ipc = s.ipc
      /\ d.status = s.status /\ d.capturing = s.capturing /\ d.act = s.act
      /\ d.endpoint = s.endpoint
      /\ d.cfg = 0 /\ d.tail = "none" /\ d.before = "none"
  BY DisownIs
<1>2. /\ s.n \in Nat /\ s.startAct \in {"hold", "handsfree"}
      /\ s.via \in {"none", "stream", "batch"} /\ s.reclass \in BOOLEAN
  BY DEF Controllers
<1>3. t = [Disown(s) EXCEPT
              !.n = s.n + 1, !.cfg = s.n + 1, !.act = s.startAct,
              !.status = "listening", !.endpoint = s.via, !.capturing = TRUE,
              !.pc = "invoke", !.cancelDuring = FALSE, !.reclass = FALSE]
  BY <1>1 DEF WithN, WithCfg, WithAct, WithStatus, WithPc, WithCapturing, WithEndpoint,
              WithCancelDuring, WithReclass, Controllers
<1>4. Disown(s).n = s.n
  BY <1>1 DEF SameStart
<1>5. SessionUp(s) = IF s.reclass THEN ApplyReclassify(t) ELSE t
  BY <1>3, <1>4 DEF SessionUp
<1>6. s.n + 1 \in Nat
  BY <1>2
<1> HIDE DEF d
<1>7. WithAct(WithStatus(d, "listening"), s.startAct) \in Controllers
  BY <1>1, <1>2, Setters DEF Statuses
<1>8. m \in Controllers
  BY <1>6, <1>7, Setters
<1>9. /\ m.via = d.via /\ m.n = s.n + 1 /\ m.cfg = s.n + 1 /\ m.stopReq = d.stopReq
      /\ m.restart = d.restart /\ m.status = "listening" /\ m.act = s.startAct
      /\ m.ipc = d.ipc /\ SamePress(d, m) /\ m.tail = d.tail /\ m.before = d.before
  BY <1>1 DEF WithN, WithCfg, WithAct, WithStatus, Controllers, SamePress
<1> HIDE DEF m
<1>10. w \in Controllers
  BY <1>2, <1>8, Setters
<1>11. /\ w.via = m.via /\ w.n = m.n /\ w.cfg = m.cfg /\ w.stopReq = m.stopReq
       /\ w.restart = m.restart /\ w.status = m.status /\ w.act = m.act
       /\ w.ipc = m.ipc /\ SamePress(m, w) /\ w.tail = m.tail /\ w.before = m.before
       /\ w.pc = "invoke" /\ w.capturing = TRUE /\ w.endpoint = s.via
  BY <1>8 DEF WithPc, WithCapturing, WithEndpoint, Controllers, SamePress
<1> HIDE DEF w
<1>12. t \in Controllers
  BY <1>10, Setters
<1>13. /\ t.via = w.via /\ t.n = w.n /\ t.cfg = w.cfg /\ t.stopReq = w.stopReq
       /\ t.restart = w.restart /\ t.status = w.status /\ t.act = w.act
       /\ t.ipc = w.ipc /\ SamePress(w, t) /\ t.tail = w.tail /\ t.before = w.before
       /\ t.pc = w.pc /\ t.capturing = w.capturing /\ t.endpoint = w.endpoint
       /\ t.cancelDuring = FALSE /\ t.reclass = FALSE
  BY <1>10 DEF WithCancelDuring, WithReclass, Controllers, SamePress
<1> HIDE DEF t
<1>14. /\ t.ipc = s.ipc /\ SamePress(s, t)
       /\ t.via = s.via /\ t.pc = "invoke" /\ t.n = s.n + 1 /\ t.cfg = s.n + 1
       /\ t.stopReq = s.stopReq /\ t.restart = s.restart
       /\ t.cancelDuring = FALSE /\ t.reclass = FALSE
       /\ t.status = "listening" /\ t.capturing = TRUE /\ t.endpoint = s.via
       /\ t.before = "none" /\ t.tail = "none" /\ t.act = s.startAct
  BY <1>1, <1>9, <1>11, <1>13 DEF SameStart, SamePress
<1>15. CASE s.reclass
  <2> DEFINE a == ApplyReclassify(t)
  <2>1. /\ a \in Controllers /\ SameStart(t, a) /\ SamePress(t, a) /\ a.ipc = t.ipc
        /\ a.status = t.status /\ a.capturing = t.capturing /\ a.cfg = t.cfg
        /\ a.endpoint = t.endpoint /\ a.before = t.before /\ a.tail = t.tail
        /\ a.act = "handsfree"
    BY <1>12, ApplyReclassifyIs
  <2>2. SessionUp(s) = a
    BY <1>5, <1>15
  <2> HIDE DEF a
  <2> QED
    BY <1>14, <1>15, <2>1, <2>2 DEF SameStart, SamePress
<1>16. CASE ~s.reclass
  BY <1>5, <1>12, <1>14, <1>16
<1> QED
  BY <1>15, <1>16

LEMMA SessionUpWorks ==
  ASSUME NEW s, Good(s), s.pc = "prologue", s.check = "off"
  PROVE  LET t == SessionUp(s) IN
         /\ Good(t) /\ t.ipc = s.ipc /\ t.via = s.via /\ t.n = s.n + 1
         /\ t.pc = "invoke" /\ t.capturing /\ ~t.cancelDuring
         /\ ~t.pending /\ ~Asks(t)
         /\ HoldOpen(t) => HoldOpen(s)
<1> DEFINE t == SessionUp(s)
<1>1. s \in Controllers /\ s.n \in Nat /\ ~s.pending
  BY DEF Good, Chip, Presses, Controllers, Busy, Processing
<1>2. /\ t \in Controllers /\ t.ipc = s.ipc /\ SamePress(s, t)
      /\ t.via = s.via /\ t.pc = "invoke" /\ t.n = s.n + 1 /\ t.cfg = s.n + 1
      /\ t.stopReq = s.stopReq /\ t.restart = s.restart
      /\ t.cancelDuring = FALSE /\ t.reclass = FALSE
      /\ t.status = "listening" /\ t.capturing = TRUE /\ t.endpoint = s.via
      /\ t.before = "none" /\ t.tail = "none"
      /\ t.act = IF s.reclass THEN "handsfree" ELSE s.startAct
  BY <1>1, SessionUpIs
<1> HIDE DEF t
<1>3. t.n > 0
  BY <1>1, <1>2
<1>4. Chip(t)
  BY <1>2, <1>3 DEF Chip
<1>5. Presses(t)
  BY <1>1, <1>2 DEF Presses, SamePress
<1>6. HoldOpen(t) => HoldOpen(s)
  BY <1>2 DEF HoldOpen
<1>7. ~Asks(t)
  BY <1>2 DEF Asks, SamePress
<1> QED
  BY <1>1, <1>2, <1>4, <1>5, <1>6, <1>7 DEF Good, SamePress, t

(* The controller once its start is over, before what the start still owes. *)
Left(s) == [s EXCEPT !.pc = "none", !.restart = FALSE, !.reclass = FALSE]

LEMMA LeftIs ==
  ASSUME NEW s \in Controllers
  PROVE  LET t == Left(s) IN
         /\ t \in Controllers /\ SameMic(s, t) /\ SamePress(s, t) /\ t.ipc = s.ipc
         /\ t.via = s.via /\ t.n = s.n /\ t.pc = "none" /\ t.stopReq = s.stopReq
         /\ t.cancelDuring = s.cancelDuring /\ ~t.reclass /\ ~t.restart
         /\ t.startAct = s.startAct
<1>1. Left(s) = WithPc(WithRestart(WithReclass(s, FALSE), FALSE), "none")
  BY DEF Left, WithPc, WithRestart, WithReclass
<1>2. Left(s) \in Controllers
  BY <1>1, Setters
<1> QED
  BY <1>2 DEF Left, Controllers, SameMic, SamePress

LEMMA LeftGood ==
  ASSUME NEW s, Good(s), ~s.cancelDuring
  PROVE  Good(Left(s))
<1> DEFINE u == Left(s)
<1>1. /\ u \in Controllers /\ SameMic(s, u) /\ SamePress(s, u) /\ u.ipc = s.ipc
      /\ u.via = s.via /\ u.n = s.n /\ u.pc = "none"
      /\ u.cancelDuring = s.cancelDuring
  BY LeftIs DEF Good
<1> HIDE DEF u
<1>2. (Busy(u) <=> Busy(s)) /\ (Processing(u) <=> Processing(s))
  BY <1>1 DEF Busy, Processing, SameMic
<1>3. Chip(u)
  BY <1>1, <1>2 DEF Chip, SameMic, Good
<1>4. Presses(u)
  BY <1>1, <1>2 DEF Presses, SameMic, SamePress, Good
<1> QED
  BY <1>1, <1>3, <1>4 DEF Good, u

LEMMA FinallyWorks ==
  ASSUME NEW s \in Controllers, Good(Left(s)), ~s.pending, s.check = "off",
         s.restart /\ Busy(s) => s.capturing
  PROVE  LET t == Finally(s) IN
         /\ Works(Left(s), t) /\ ~t.pending /\ (Asks(t) => Elsewhere(t))
         /\ HoldOpen(t) => /\ s.capturing /\ s.act = "hold"
                           /\ ~s.restart /\ ~s.reclass /\ t.pc = "none"
<1> DEFINE u == Left(s)
           t == Finally(s)
<1>1. /\ u \in Controllers /\ SameMic(s, u) /\ SamePress(s, u) /\ u.ipc = s.ipc
      /\ u.via = s.via /\ u.n = s.n /\ u.pc = "none"
      /\ u.cancelDuring = s.cancelDuring
  BY LeftIs
<1>2. t = IF s.restart THEN IF s.capturing THEN CancelLive(u, "restart")
                            ELSE DictateToggle(u)
          ELSE IF s.reclass THEN ReclassifyLive(u) ELSE u
  BY DEF Finally, Left
<1>3. Good(u)
  OBVIOUS
<1> HIDE DEF u, t
<1>4. Busy(u) <=> Busy(s)
  BY <1>1 DEF Busy, SameMic
<1>5. CASE s.restart /\ s.capturing
  <2>1. t = CancelLive(u, "restart")
    BY <1>2, <1>5
  <2>2. Works(u, t) /\ Quenched(t)
    BY <1>1, <1>3, <2>1, CancelLiveWorks DEF Continuations
  <2> QED
    BY <2>2 DEF Quenched, t, u
<1>6. CASE s.restart /\ ~s.capturing
  <2>1. ~Busy(u) /\ ~Starting(u)
    BY <1>1, <1>4, <1>6 DEF Starting
  <2>2. t = StartLive(u, "handsfree", "F")
    BY <1>2, <1>6, <2>1 DEF DictateToggle
  <2>3. Works(u, t) /\ Quenched(t)
    BY <1>1, <1>3, <2>1, <2>2, StartLiveWorks DEF Activations, Profiles
  <2> QED
    BY <2>3 DEF Quenched, t, u
<1>7. CASE ~s.restart /\ s.reclass /\ s.capturing
  <2>1. t = ReclassifyLive(u) /\ u.capturing
    BY <1>1, <1>2, <1>7 DEF SameMic
  <2>2. Works(u, t) /\ Quenched(t)
    BY <1>3, <2>1, ReclassifyLiveWorks
  <2> QED
    BY <2>2 DEF Quenched, t, u
<1>8. CASE ~s.restart /\ ~(s.reclass /\ s.capturing)
  <2>1. t = u
    BY <1>1, <1>2, <1>8 DEF ReclassifyLive, Starting, SameMic
  <2>2. Works(u, u)
    BY <1>1, <1>3, PlainWorks DEF SameMic, Good, Presses
  <2>3. ~u.pending /\ ~Asks(u)
    BY <1>1 DEF SamePress, Asks
  <2>4. HoldOpen(u) => s.capturing /\ s.act = "hold" /\ ~s.reclass /\ u.pc = "none"
    BY <1>1, <1>8 DEF HoldOpen, SameMic
  <2> QED
    BY <1>8, <2>1, <2>2, <2>3, <2>4 DEF t, u
<1> QED
  BY <1>5, <1>6, <1>7, <1>8

LEMMA PrologueRejectsWorks ==
  ASSUME NEW s, Good(s), s.pc = "prologue"
  PROVE  LET t == Finally(FlashError(s)) IN
         /\ Works(s, t) /\ ~HoldOpen(t) /\ ~t.pending /\ (Asks(t) => Elsewhere(t))
<1> DEFINE f == FlashError(s)
           t == Finally(f)
<1>1. s \in Controllers /\ ~Busy(s) /\ ~s.capturing /\ ~s.cancelDuring
  BY DEF Good, Chip, Busy
<1>2. /\ f \in Controllers /\ SameStart(s, f) /\ f.ipc = s.ipc
      /\ f.pending = FALSE /\ f.check = "off" /\ f.status = "error"
      /\ f.capturing = s.capturing /\ f.act = s.act /\ f.cfg = s.cfg
      /\ f.endpoint = s.endpoint /\ f.before = s.before /\ f.tail = s.tail
  BY <1>1, FlashErrorIs
<1>3. Works(s, f)
  BY <1>1, FlashWorks
<1> HIDE DEF f
<1>4. Good(f) /\ ~f.cancelDuring /\ ~Busy(f)
  BY <1>1, <1>2, <1>3 DEF Works, Turns, SameStart, Busy
<1>5. Good(Left(f))
  BY <1>4, LeftGood
<1>6. /\ Works(Left(f), t) /\ ~t.pending /\ (Asks(t) => Elsewhere(t))
      /\ HoldOpen(t) => f.capturing
  BY <1>2, <1>4, <1>5, FinallyWorks
<1> HIDE DEF t
<1>7. /\ SameMic(f, Left(f)) /\ Left(f).ipc = f.ipc /\ Left(f).via = f.via
      /\ Left(f).n = f.n /\ Left(f).pc = "none" /\ Left(f).cancelDuring = f.cancelDuring
  BY <1>2, LeftIs
<1>8. Turns(s, t)
  BY <1>1, <1>2, <1>6, <1>7 DEF Works, Turns, Sends, SameStart
<1>9. Delivers(s, t)
  BY <1>1, <1>2, <1>6, <1>7 DEF Works, Delivers, SameMic
<1> QED
  BY <1>1, <1>2, <1>6, <1>8, <1>9 DEF Works, Calm, t, f

(* The start the user cancelled has its cancel answered.                    *)
LEMMA OwedReturnsWorks ==
  ASSUME NEW s, Good(s), s.pc = "owed"
  PROVE  LET t == Finally(s) IN
         /\ Works(Left(s), t) /\ ~HoldOpen(t) /\ ~t.pending /\ (Asks(t) => Elsewhere(t))
<1>1. s \in Controllers /\ ~Busy(s) /\ ~s.capturing /\ ~s.cancelDuring
  BY DEF Good, Chip, Busy
<1>2. ~s.pending /\ s.check = "off"
  BY <1>1 DEF Good, Presses, Busy, Processing
<1>3. Good(Left(s))
  BY <1>1, LeftGood
<1>4. /\ Works(Left(s), Finally(s)) /\ ~Finally(s).pending
      /\ (Asks(Finally(s)) => Elsewhere(Finally(s)))
      /\ HoldOpen(Finally(s)) => s.capturing
  BY <1>1, <1>2, <1>3, FinallyWorks
<1> QED
  BY <1>1, <1>4

(* A stop asked during the invoke goes out when it returns.                 *)
LEMMA InvokeResolvedWorks ==
  ASSUME NEW s, Good(s), s.pc = "invoke", ~s.cancelDuring
  PROVE  LET t == InvokeResolved(s) IN
         /\ Works(Left(s), t) /\ ~t.pending /\ (Asks(t) => Elsewhere(t))
         /\ HoldOpen(t) => HoldOpen(s) /\ t.pc = "none"
<1> DEFINE u == WithPc(s, "none")
           v == WithStopReq(u, FALSE)
           t == InvokeResolved(s)
           z == Left(s)
<1>1. s \in Controllers
  BY DEF Good
<1>2. /\ z \in Controllers /\ SameMic(s, z) /\ SamePress(s, z) /\ z.ipc = s.ipc
      /\ z.via = s.via /\ z.n = s.n /\ z.pc = "none" /\ z.stopReq = s.stopReq
      /\ z.cancelDuring = s.cancelDuring /\ ~z.reclass /\ ~z.restart
  BY <1>1, LeftIs
<1>3. Good(z)
  BY LeftGood
<1> HIDE DEF z
<1>4. /\ u \in Controllers /\ SameMic(s, u) /\ SamePress(s, u) /\ u.ipc = s.ipc
      /\ u.via = s.via /\ u.n = s.n /\ u.pc = "none" /\ u.stopReq = s.stopReq
      /\ u.cancelDuring = s.cancelDuring /\ u.restart = s.restart
      /\ u.reclass = s.reclass
  <2>1. u \in Controllers
    BY <1>1, Setters
  <2> QED
    BY <1>1, <2>1 DEF WithPc, Controllers, SameMic, SamePress
<1>5. Left(u) = z
  BY <1>1 DEF Left, WithPc, Controllers, z
<1>6. ~s.pending /\ s.check = "off" /\ (Busy(s) => s.capturing)
  BY DEF Good, Presses, Busy, Processing
<1>7. /\ t = IF s.stopReq /\ ~s.restart
             THEN Finally(IF s.capturing THEN StopLive(v) ELSE v)
             ELSE Finally(u)
  BY DEF InvokeResolved, WithPc, WithStopReq
<1> HIDE DEF t
<1>8. CASE ~(s.stopReq /\ ~s.restart)
  <2>1. t = Finally(u)
    BY <1>7, <1>8
  <2>2. ~u.pending /\ u.check = "off" /\ (u.restart /\ Busy(u) => u.capturing)
    BY <1>4, <1>6 DEF SamePress, SameMic, Busy
  <2>3. /\ Works(z, t) /\ ~t.pending /\ (Asks(t) => Elsewhere(t))
        /\ HoldOpen(t) => /\ u.capturing /\ u.act = "hold"
                          /\ ~u.restart /\ ~u.reclass /\ t.pc = "none"
    BY <1>3, <1>4, <1>5, <2>1, <2>2, FinallyWorks
  <2>4. HoldOpen(t) => HoldOpen(s) /\ t.pc = "none"
    BY <1>4, <1>8, <2>3 DEF HoldOpen, SameMic
  <2> QED
    BY <2>3, <2>4 DEF t, z
<1>9. CASE s.stopReq /\ ~s.restart
  <2> DEFINE w == IF s.capturing THEN StopLive(v) ELSE v
  <2>1. t = Finally(w)
    BY <1>7, <1>9
  <2>2. /\ v \in Controllers /\ SameMic(u, v) /\ SamePress(u, v) /\ v.ipc = u.ipc
        /\ v.via = u.via /\ v.pc = u.pc /\ v.n = u.n
        /\ v.cancelDuring = u.cancelDuring /\ v.restart = u.restart
    BY <1>4, FlagIs
  <2> HIDE DEF u, v
  <2>3. /\ SameMic(z, v) /\ SamePress(z, v) /\ v.ipc = z.ipc /\ v.via = z.via
        /\ v.pc = z.pc /\ v.n = z.n /\ v.cancelDuring = z.cancelDuring
        /\ v.restart = FALSE
    BY <1>1, <1>2, <1>4, <1>9, <2>2 DEF SameMic, SamePress, Controllers
  <2>4. Works(z, v)
    BY <1>3, <2>2, <2>3, PlainWorks DEF SamePress, Good, Presses
  <2>5. Good(v) /\ v.pc = "none" /\ ~v.pending /\ v.check = "off" /\ ~v.cancelDuring
    BY <1>2, <1>6, <2>3, <2>4 DEF Works, Turns, SamePress
  <2>6. v.capturing = s.capturing
    BY <1>2, <2>3 DEF SameMic
  <2>7. /\ w \in Controllers /\ Works(z, w) /\ ~w.capturing /\ ~w.restart /\ w.pc = "none"
        /\ ~w.pending /\ w.check = "off" /\ ~w.cancelDuring
    <3>1. CASE s.capturing
      <4>1. w = StopLive(v)
        BY <3>1
      <4>2. Works(v, StopLive(v))
        BY <2>5, <2>6, <3>1, StopLiveWorks
      <4>3. /\ SameStart(v, StopLive(v)) /\ SamePress(v, StopLive(v))
            /\ StopLive(v) \in Controllers /\ StopLive(v).capturing = FALSE
        BY <2>2, <2>5, StopLiveIs
      <4>4. Works(z, StopLive(v))
        BY <2>3, <4>2, WorksFrom DEF SameMic
      <4> HIDE DEF w
      <4> QED
        BY <2>3, <2>5, <4>1, <4>3, <4>4 DEF SameStart, SamePress
    <3>2. CASE ~s.capturing
      <4>1. w = v
        BY <3>2
      <4> HIDE DEF w
      <4> QED
        BY <2>2, <2>3, <2>4, <2>5, <2>6, <3>2, <4>1
    <3> QED
      BY <3>1, <3>2
  <2> HIDE DEF w
  <2>8. Good(w)
    BY <2>7 DEF Works, Turns
  <2>9. Good(Left(w))
    BY <2>7, <2>8, LeftGood
  <2>10. /\ Left(w) \in Controllers /\ SameMic(w, Left(w)) /\ Left(w).ipc = w.ipc
         /\ Left(w).via = w.via /\ Left(w).n = w.n /\ Left(w).pc = "none"
         /\ Left(w).cancelDuring = w.cancelDuring
    BY <2>7, LeftIs
  <2>11. /\ Works(Left(w), t) /\ ~t.pending /\ (Asks(t) => Elsewhere(t))
         /\ HoldOpen(t) => w.capturing
    BY <2>1, <2>7, <2>9, FinallyWorks
  <2>12. Works(w, t)
    BY <2>7, <2>10, <2>11, WorksFrom DEF SameMic
  <2>13. t = Left(w)
    BY <2>1, <2>7, <2>10 DEF Finally, Left, ReclassifyLive, Starting, SameMic
  <2>14. Works(z, t)
    <3>1. Turns(z, t)
      BY <2>7, <2>9, <2>10, <2>13 DEF Works, Turns, Sends
    <3>2. Busy(t) <=> Busy(w)
      BY <2>10, <2>13 DEF Busy, SameMic
    <3>3. Delivers(z, t) /\ Calm(z, t)
      BY <1>2, <2>7, <2>10, <2>13, <3>2 DEF Works, Delivers, Calm, SameMic
    <3> QED
      BY <3>1, <3>3 DEF Works
  <2> QED
    BY <2>7, <2>11, <2>14 DEF t, z
<1> QED
  BY <1>8, <1>9

(* A cancel during the invoke goes out when it returns.                     *)
LEMMA InvokeCancelledIs ==
  ASSUME NEW s, Good(s), s.pc = "invoke", s.cancelDuring
  PROVE  LET t == InvokeResolved(s) IN
         /\ Good(t) /\ t.via = s.via /\ t.n = s.n /\ t.pc = "owed"
         /\ ~t.capturing /\ ~t.pending /\ ~Asks(t) /\ ~HoldOpen(t)
         /\ \E o \in Commands : /\ t.ipc = Append(s.ipc, o) /\ o.next = "owed"
                               /\ o.cmd = "cancel" /\ o.hits /\ o.of = s.n
<1> DEFINE m == WithEndpoint(WithCancelDuring(WithPc(s, "owed"), FALSE), s.via)
           q == Send(m, "cancel", "owed")
           o == Order(m, "cancel", "owed")
           t == InvokeResolved(s)
<1>1. s \in Controllers /\ s.via \in {"none", "stream", "batch"}
      /\ s.endpoint \in {"none", "stream", "batch"}
  BY DEF Good, Controllers
<1>2. t = WithStopReq(WithEndpoint(q, s.endpoint), FALSE)
  BY DEF InvokeResolved, WithStopReq, WithEndpoint, WithCancelDuring, WithPc
<1>3. m \in Controllers
  BY <1>1, Setters
<1>4. /\ m.via = s.via /\ m.n = s.n /\ m.pc = "owed" /\ m.endpoint = s.via
      /\ m.cancelDuring = FALSE /\ m.status = s.status /\ m.capturing = s.capturing
      /\ m.cfg = s.cfg /\ m.before = s.before /\ m.tail = s.tail /\ SamePress(s, m)
      /\ m.ipc = s.ipc
  BY <1>1 DEF WithEndpoint, WithCancelDuring, WithPc, Controllers, SamePress
<1> HIDE DEF m, t
<1>5. /\ q \in Controllers /\ SameStart(m, q) /\ SameMic(m, q) /\ SamePress(m, q)
      /\ q.ipc = Append(m.ipc, o)
  BY <1>3, SendIs DEF Words, Continuations
<1>6. "cancel" \in Words /\ "owed" \in Continuations
  BY DEF Words, Continuations
<1>7. o \in Commands /\ o.cmd = "cancel" /\ o.next = "owed" /\ o.hits /\ o.of = s.n
  BY <1>3, <1>4, <1>6, OrderIs
<1> HIDE DEF q, o
<1>8. t \in Controllers
  BY <1>1, <1>2, <1>5, Setters
<1>9. /\ t.via = q.via /\ t.n = q.n /\ t.pc = q.pc /\ t.cancelDuring = q.cancelDuring
      /\ t.status = q.status /\ t.capturing = q.capturing /\ t.cfg = q.cfg
      /\ t.before = q.before /\ t.tail = q.tail /\ SamePress(q, t) /\ t.ipc = q.ipc
  BY <1>2, <1>5 DEF WithStopReq, WithEndpoint, Controllers, SamePress
<1>10. /\ t.via = s.via /\ t.n = s.n /\ t.pc = "owed" /\ ~t.cancelDuring
       /\ t.status = s.status /\ t.capturing = s.capturing /\ t.cfg = s.cfg
       /\ t.before = s.before /\ t.tail = s.tail /\ SamePress(s, t)
       /\ t.ipc = Append(s.ipc, o)
  BY <1>4, <1>5, <1>9 DEF SameStart, SameMic, SamePress
<1>11. ~Busy(s) /\ ~s.capturing
  BY DEF Good, Chip, Busy
<1>12. ~Busy(t) /\ ~t.capturing
  BY <1>10, <1>11 DEF Busy
<1>13. ~s.pending /\ s.check = "off"
  BY <1>11 DEF Good, Presses, Busy, Processing
<1>14. Chip(t)
  BY <1>10, <1>11, <1>12 DEF Chip, Good
<1>15. Presses(t)
  BY <1>10, <1>12, <1>13 DEF Presses, SamePress
<1>16. ~Asks(t) /\ ~HoldOpen(t) /\ ~t.pending
  BY <1>10, <1>13 DEF Asks, HoldOpen, SamePress
<1> QED
  BY <1>7, <1>8, <1>10, <1>12, <1>14, <1>15, <1>16 DEF Good, t

LEMMA InvokeRejectedWorks ==
  ASSUME NEW s, Good(s), s.pc = "invoke"
  PROVE  LET t == InvokeRejected(s) IN
         /\ Good(t) /\ t.via = s.via /\ t.n = s.n /\ t.pc \in {"none", "prologue"}
         /\ \E u \in Controllers : u.ipc = s.ipc /\ u.n = s.n /\ Sends(u, t)
         /\ ~t.capturing /\ ~HoldOpen(t) /\ ~t.pending /\ (Asks(t) => Elsewhere(t))
<1> DEFINE r == WithCancelDuring(WithCapturing(WithEndpoint(s, "none"), FALSE), FALSE)
           f == FlashError(r)
           q == IF s.cancelDuring THEN r ELSE f
           t == InvokeRejected(s)
<1>1. s \in Controllers /\ ~s.pending /\ s.check = "off"
  BY DEF Good, Presses, Busy, Processing
<1>2. t = Finally(q)
  BY DEF InvokeRejected, WithCancelDuring, WithCapturing, WithEndpoint
<1> HIDE DEF t
<1>3. r \in Controllers
  BY <1>1, Setters
<1>4. /\ r.via = s.via /\ r.n = s.n /\ r.pc = s.pc /\ r.cancelDuring = FALSE
      /\ r.capturing = FALSE /\ r.status = s.status /\ r.cfg = s.cfg
      /\ r.before = s.before /\ r.tail = s.tail /\ SamePress(s, r) /\ r.ipc = s.ipc
  BY <1>1 DEF WithCancelDuring, WithCapturing, WithEndpoint, Controllers, SamePress
<1> HIDE DEF r
<1>5. /\ f \in Controllers /\ SameStart(r, f) /\ f.ipc = r.ipc
      /\ f.pending = FALSE /\ f.check = "off" /\ f.status = "error"
      /\ f.capturing = r.capturing /\ f.cfg = r.cfg
      /\ f.before = r.before /\ f.tail = r.tail
  BY <1>3, FlashErrorIs
<1> HIDE DEF f
<1>6. /\ q \in Controllers /\ q.via = s.via /\ q.n = s.n /\ q.pc = "invoke"
      /\ q.cancelDuring = FALSE /\ q.capturing = FALSE /\ q.cfg = s.cfg
      /\ q.tail = s.tail /\ q.ipc = s.ipc
      /\ ~q.pending /\ q.check = "off"
  BY <1>1, <1>3, <1>4, <1>5 DEF SameStart, SamePress
<1>7. ~Busy(q)
  BY <1>4, <1>5 DEF Busy, Good, Chip
<1> HIDE DEF q
<1>8. Chip(q)
  BY <1>6, <1>7 DEF Chip, Busy, Good
<1>9. Presses(q)
  BY <1>6, <1>7 DEF Presses
<1>10. Good(Left(q))
  BY <1>6, <1>8, <1>9, LeftGood DEF Good
<1>11. /\ Works(Left(q), t) /\ ~t.pending /\ (Asks(t) => Elsewhere(t))
       /\ HoldOpen(t) => q.capturing
  BY <1>2, <1>6, <1>7, <1>10, FinallyWorks
<1>12. /\ Left(q) \in Controllers /\ SameMic(q, Left(q)) /\ Left(q).ipc = q.ipc
       /\ Left(q).via = q.via /\ Left(q).n = q.n /\ Left(q).pc = "none"
  BY <1>6, LeftIs
<1>13. /\ Good(t) /\ Sends(Left(q), t) /\ t.via = s.via /\ t.n = s.n
       /\ t.pc # "invoke" /\ t.pc # "owed" /\ ~t.capturing
  BY <1>6, <1>11, <1>12 DEF Works, Turns, Delivers, SameMic
<1>14. t.pc \in {"none", "prologue"}
  BY <1>13 DEF Good, Controllers
<1> QED
  BY <1>6, <1>11, <1>12, <1>13, <1>14 DEF t

-----------------------------------------------------------------------------
(* The chord: what a push-to-talk session has to end it.                    *)

Fires == {"start", "stop", "toggle", "reclassify"}
Ends  == {"stop", "reclassify"}
Ending == \E i \in DOMAIN triggers : triggers[i] \in Ends
Cover  == chord = "down" \/ Ending

(* Every press still to be heard of has the chord down or its end behind it. *)
StartsEnd ==
  \A i \in DOMAIN triggers : triggers[i] = "start" =>
    chord = "down" \/ \E j \in DOMAIN triggers : j > i /\ triggers[j] \in Ends

(* The chord, or the end of it on its way, is behind what it began.          *)
KeysFor(s) ==
  /\ HoldOpen(s) => Cover \/ Unmarked(s)
  /\ s.pending => Cover
  /\ Asks(s) => Cover \/ Elsewhere(s)

(* The reply a cancelled start waits for comes once.                        *)
OwedFor(s, rep) ==
  /\ \A i \in DOMAIN s.ipc : s.ipc[i].next = "owed" =>
       /\ s.pc = "owed"
       /\ \A j \in DOMAIN s.ipc : s.ipc[j].next = "owed" => i = j
       /\ \A r \in rep : r.next # "owed"
  /\ \A r \in rep : r.next = "owed" =>
       s.pc = "owed" /\ \A q \in rep : q.next = "owed" => r = q

Replies == [next : {"stop", "restart", "recover", "owed", "reject"}, of : Nat]
Events  == [ev : {"error", "closed"}, of : Nat]

TypeInv ==
  /\ ts.n <= MaxSessions
  /\ chord \in {"up", "down", "handed"}
  /\ triggers \in Seq(Fires) /\ Len(triggers) <= MaxTriggers
  /\ startCmd \in {"none", "keyring", "ok", "err"}
  /\ startCmd # "none" <=> ts.pc = "invoke"
  /\ replies \subseteq Replies /\ events \in Seq(Events)
  /\ RustType

CoreInv == TypeInv /\ Good(ts) /\ StartsEnd /\ KeysFor(ts) /\ OwedFor(ts, replies)

LEMMA SofterKeys ==
  ASSUME NEW s, NEW t, KeysFor(s), Softer(s, t), t.n = s.n
  PROVE  KeysFor(t)
BY DEF KeysFor, Softer, Unmarked

LEMMA QuenchedKeys ==
  ASSUME NEW t, ~HoldOpen(t), ~t.pending, Asks(t) => Elsewhere(t)
  PROVE  KeysFor(t)
BY DEF KeysFor

LEMMA OwedTurn ==
  ASSUME NEW s \in Controllers, NEW t \in Controllers, NEW rep, NEW rep2,
         OwedFor(s, rep), rep2 \subseteq rep, Sends(s, t),
         t.pc = "owed" <=> s.pc = "owed"
  PROVE  OwedFor(t, rep2)
<1>1. s.ipc \in Seq(Commands) /\ t.ipc \in Seq(Commands)
  BY DEF Controllers
<1>2. ASSUME NEW i \in DOMAIN t.ipc, t.ipc[i].next = "owed"
      PROVE  i \in DOMAIN s.ipc /\ s.ipc[i].next = "owed"
  <2>1. i <= Len(s.ipc) /\ t.ipc[i] = s.ipc[i]
    BY <1>2 DEF Sends
  <2>2. i \in 1..Len(t.ipc) /\ Len(s.ipc) \in Nat /\ Len(t.ipc) \in Nat
    BY <1>1
  <2>3. i \in 1..Len(s.ipc)
    BY <2>1, <2>2
  <2> QED
    BY <1>1, <1>2, <2>1, <2>3
<1> QED
  BY <1>2 DEF OwedFor

(* With no such reply due there is none after the start either.             *)
LEMMA OwedFree ==
  ASSUME NEW u \in Controllers, NEW t \in Controllers, NEW rep,
         \A i \in DOMAIN u.ipc : u.ipc[i].next # "owed",
         \A r \in rep : r.next # "owed", Sends(u, t)
  PROVE  OwedFor(t, rep)
<1>1. u.ipc \in Seq(Commands) /\ t.ipc \in Seq(Commands)
  BY DEF Controllers
<1>2. ASSUME NEW i \in DOMAIN t.ipc, t.ipc[i].next = "owed"
      PROVE  FALSE
  <2>1. i <= Len(u.ipc) /\ t.ipc[i] = u.ipc[i]
    BY <1>2 DEF Sends
  <2>2. i \in 1..Len(t.ipc) /\ Len(u.ipc) \in Nat /\ Len(t.ipc) \in Nat
    BY <1>1
  <2>3. i \in DOMAIN u.ipc
    BY <1>1, <2>1, <2>2
  <2> QED
    BY <1>2, <2>1, <2>3
<1> QED
  BY <1>2 DEF OwedFor

LEMMA RemoveAtIs ==
  ASSUME NEW S, NEW c \in Seq(S), NEW i \in DOMAIN c
  PROVE  /\ RemoveAt(c, i) \in Seq(S)
         /\ DOMAIN RemoveAt(c, i) = 1..(Len(c) - 1)
         /\ \A j \in 1..(Len(c) - 1) :
              /\ j < i => RemoveAt(c, i)[j] = c[j]
              /\ j >= i => RemoveAt(c, i)[j] = c[j + 1]
         /\ Len(c) \in Nat /\ i \in 1..Len(c)
<1> DEFINE a == SubSeq(c, 1, i - 1)
           b == SubSeq(c, i + 1, Len(c))
<1>1. Len(c) \in Nat /\ i \in 1..Len(c) /\ DOMAIN c = 1..Len(c)
  OBVIOUS
<1>2. a \in Seq(S) /\ Len(a) = i - 1 /\ \A j \in 1..(i - 1) : a[j] = c[j]
  BY <1>1
<1>3. b \in Seq(S) /\ Len(b) = Len(c) - i /\ \A j \in 1..(Len(c) - i) : b[j] = c[i + j]
  BY <1>1
<1>4. RemoveAt(c, i) = a \o b
  BY DEF RemoveAt
<1> HIDE DEF a, b
<1>5. RemoveAt(c, i) \in Seq(S) /\ Len(a \o b) = Len(c) - 1
  <2>0. a \in Seq(S) /\ b \in Seq(S)
    BY <1>2, <1>3
  <2>1. a \o b \in Seq(S) /\ Len(a \o b) = Len(a) + Len(b)
    BY <2>0
  <2>2. (i - 1) + (Len(c) - i) = Len(c) - 1
    BY <1>1
  <2> QED
    BY <1>2, <1>3, <1>4, <2>1, <2>2
<1>6. DOMAIN RemoveAt(c, i) = 1..(Len(c) - 1)
  BY <1>4, <1>5
<1>7. ASSUME NEW j \in 1..(Len(c) - 1)
      PROVE  /\ j < i => RemoveAt(c, i)[j] = c[j]
             /\ j >= i => RemoveAt(c, i)[j] = c[j + 1]
  <2>1. CASE j < i
    <3>1. j \in 1..(i - 1) /\ j <= Len(a)
      BY <1>1, <1>2, <2>1
    <3>2. (a \o b)[j] = a[j]
      BY <1>1, <1>2, <1>3, <3>1
    <3> QED
      BY <1>1, <1>2, <1>4, <2>1, <3>1, <3>2
  <2>2. CASE j >= i
    <3>1. j - (i - 1) \in 1..(Len(c) - i) /\ j > Len(a) /\ j <= Len(a) + Len(b)
      BY <1>1, <1>2, <1>3, <2>2
    <3>2. (a \o b)[j] = b[j - Len(a)]
      BY <1>1, <1>2, <1>3, <3>1
    <3>3. i + (j - (i - 1)) = j + 1
      BY <1>1
    <3>4. b[j - (i - 1)] = c[j + 1]
      BY <1>3, <3>1, <3>3
    <3> QED
      BY <1>1, <1>2, <1>4, <2>2, <3>2, <3>4
  <2> QED
    BY <1>1, <2>1, <2>2
<1> QED
  BY <1>1, <1>5, <1>6, <1>7

(* Each command but the one taken stays, and none is new.                   *)
LEMMA Taken ==
  ASSUME NEW s \in Controllers, NEW i \in DOMAIN s.ipc
  PROVE  LET t == [s EXCEPT !.ipc = RemoveAt(s.ipc, i)] IN
         /\ t \in Controllers /\ SameStart(s, t) /\ SameMic(s, t) /\ SamePress(s, t)
         /\ t.ipc = RemoveAt(s.ipc, i)
         /\ \A j \in DOMAIN t.ipc : \E k \in DOMAIN s.ipc : k # i /\ t.ipc[j] = s.ipc[k]
         /\ \A j, l \in DOMAIN t.ipc : \A k \in DOMAIN s.ipc :
              t.ipc[j].next = "owed" /\ t.ipc[l].next = "owed" /\
              (\A p, q \in DOMAIN s.ipc :
                 s.ipc[p].next = "owed" /\ s.ipc[q].next = "owed" => p = q) => j = l
         /\ \A k \in DOMAIN s.ipc \ {i} : \E j \in DOMAIN t.ipc : t.ipc[j] = s.ipc[k]
<1> DEFINE c == s.ipc
           t == [s EXCEPT !.ipc = RemoveAt(s.ipc, i)]
<1>1. c \in Seq(Commands) /\ DOMAIN c = 1..Len(c)
  BY DEF Controllers
<1>2. /\ RemoveAt(c, i) \in Seq(Commands)
      /\ DOMAIN RemoveAt(c, i) = 1..(Len(c) - 1)
      /\ \A j \in 1..(Len(c) - 1) :
           /\ j < i => RemoveAt(c, i)[j] = c[j]
           /\ j >= i => RemoveAt(c, i)[j] = c[j + 1]
      /\ Len(c) \in Nat /\ i \in 1..Len(c)
  BY <1>1, RemoveAtIs
<1>3. t = WithIpc(s, RemoveAt(s.ipc, i))
  BY DEF WithIpc
<1>4. t \in Controllers
  BY <1>2, <1>3, Setters
<1>5. SameStart(s, t) /\ SameMic(s, t) /\ SamePress(s, t) /\ t.ipc = RemoveAt(s.ipc, i)
  BY DEF Controllers, SameStart, SameMic, SamePress
<1> HIDE DEF t
<1> DEFINE d == RemoveAt(s.ipc, i)
<1>6. ASSUME NEW j \in DOMAIN t.ipc
      PROVE  \E k \in DOMAIN c : /\ k # i /\ t.ipc[j] = c[k]
                                 /\ j < i => k = j
                                 /\ j >= i => k = j + 1
  <2>1. j \in 1..(Len(c) - 1) /\ j \in Nat /\ i \in Nat
    BY <1>2, <1>5, <1>6
  <2>2. CASE j < i
    BY <1>1, <1>2, <1>5, <2>1, <2>2
  <2>3. CASE j >= i
    <3>1. j + 1 \in DOMAIN c /\ j + 1 # i
      BY <1>1, <1>2, <2>1, <2>3
    <3> QED
      BY <1>2, <1>5, <2>1, <2>3, <3>1
  <2> QED
    BY <2>1, <2>2, <2>3
<1>7. \A j \in DOMAIN t.ipc : \E k \in DOMAIN s.ipc : k # i /\ t.ipc[j] = s.ipc[k]
  BY <1>6
<1>8. ASSUME NEW j \in DOMAIN t.ipc, NEW l \in DOMAIN t.ipc,
             t.ipc[j].next = "owed", t.ipc[l].next = "owed",
             \A p, q \in DOMAIN s.ipc :
               s.ipc[p].next = "owed" /\ s.ipc[q].next = "owed" => p = q
      PROVE  j = l
  <2>1. PICK k \in DOMAIN c : /\ t.ipc[j] = c[k] /\ (j < i => k = j) /\ k # i
                              /\ (j >= i => k = j + 1)
    BY <1>6
  <2>2. PICK m \in DOMAIN c : /\ t.ipc[l] = c[m] /\ (l < i => m = l) /\ m # i
                              /\ (l >= i => m = l + 1)
    BY <1>6
  <2>3. k = m
    BY <1>8, <2>1, <2>2
  <2>4. j \in Nat /\ l \in Nat /\ i \in Nat /\ k \in Nat
    BY <1>1, <1>2, <1>5
  <2> QED
    BY <2>1, <2>2, <2>3, <2>4
<1>9. ASSUME NEW k \in DOMAIN s.ipc \ {i}
      PROVE  \E j \in DOMAIN t.ipc : t.ipc[j] = s.ipc[k]
  <2>1. k \in 1..Len(c) /\ k # i
    BY <1>1
  <2>2. CASE k < i
    <3>1. k \in 1..(Len(c) - 1)
      BY <1>2, <2>1, <2>2
    <3> QED
      BY <1>2, <1>5, <2>2, <3>1
  <2>3. CASE k > i
    <3>1. k - 1 \in 1..(Len(c) - 1) /\ k - 1 >= i /\ (k - 1) + 1 = k
      BY <1>2, <2>1, <2>3
    <3> QED
      BY <1>2, <1>5, <2>3, <3>1
  <2> QED
    BY <1>2, <2>1, <2>2, <2>3
<1> QED
  BY <1>4, <1>5, <1>7, <1>8, <1>9 DEF t

(* The next trigger is handled: only its own cover may be gone with it.      *)
LEMMA TriggerTaken ==
  ASSUME triggers \in Seq(Fires), triggers # <<>>, triggers' = Tail(triggers),
         chord' = chord, StartsEnd
  PROVE  /\ StartsEnd' /\ triggers' \in Seq(Fires) /\ Len(triggers') <= Len(triggers)
         /\ Head(triggers) = "start" => Cover'
         /\ Cover /\ Head(triggers) \notin Ends => Cover'
<1> DEFINE k == Len(triggers)
<1>1. /\ k \in Nat /\ k > 0 /\ DOMAIN triggers = 1..k
      /\ triggers' \in Seq(Fires) /\ Len(triggers') = k - 1
      /\ DOMAIN triggers' = 1..(k - 1) /\ Head(triggers) = triggers[1]
  OBVIOUS
<1>2. \A i \in 1..(k - 1) : triggers'[i] = triggers[i + 1]
  OBVIOUS
<1> HIDE DEF k
<1>3. ASSUME NEW j \in DOMAIN triggers, j > 1, triggers[j] \in Ends
      PROVE  Cover'
  <2>1. j - 1 \in DOMAIN triggers' /\ (j - 1) + 1 = j
    BY <1>1, <1>3
  <2>2. triggers'[j - 1] = triggers[j]
    BY <1>1, <1>2, <2>1
  <2> QED
    BY <1>3, <2>1, <2>2 DEF Cover, Ending
<1>4. StartsEnd'
  <2> SUFFICES ASSUME NEW i \in DOMAIN triggers', triggers'[i] = "start", chord' # "down"
               PROVE  \E j \in DOMAIN triggers' : j > i /\ triggers'[j] \in Ends
    BY DEF StartsEnd
  <2>1. i + 1 \in DOMAIN triggers /\ triggers[i + 1] = "start" /\ i \in Nat
    BY <1>1, <1>2
  <2>2. PICK j \in DOMAIN triggers : j > i + 1 /\ triggers[j] \in Ends
    BY <2>1 DEF StartsEnd
  <2>3. j - 1 \in DOMAIN triggers' /\ (j - 1) + 1 = j /\ j - 1 > i
    BY <1>1, <2>1, <2>2
  <2>4. triggers'[j - 1] = triggers[j]
    BY <1>1, <1>2, <2>3
  <2> QED
    BY <2>2, <2>3, <2>4
<1>5. Head(triggers) = "start" => Cover'
  <2> SUFFICES ASSUME Head(triggers) = "start", chord # "down"  PROVE Cover'
    BY DEF Cover
  <2>1. 1 \in DOMAIN triggers
    BY <1>1
  <2>2. PICK j \in DOMAIN triggers : j > 1 /\ triggers[j] \in Ends
    BY <1>1, <2>1 DEF StartsEnd
  <2> QED
    BY <1>3, <2>2
<1>6. Cover /\ Head(triggers) \notin Ends => Cover'
  <2> SUFFICES ASSUME Cover, Head(triggers) \notin Ends, chord # "down"  PROVE Cover'
    BY DEF Cover
  <2>1. PICK j \in DOMAIN triggers : triggers[j] \in Ends
    BY DEF Cover, Ending
  <2>2. j > 1
    BY <1>1, <2>1
  <2> QED
    BY <1>3, <2>1, <2>2
<1>7. Len(triggers') <= Len(triggers)
  BY <1>1 DEF k
<1> QED
  BY <1>1, <1>4, <1>5, <1>6, <1>7

(* A key: what was covered stays covered, and a press brings its own cover.  *)
LEMMA KeyTyped ==
  ASSUME triggers \in Seq(Fires), StartsEnd, NEW f \in Fires,
         triggers' = Append(triggers, f),
         \/ chord' = "down" \/ f \in Ends
         \/ f # "start" /\ chord # "down"
  PROVE  StartsEnd' /\ (Cover => Cover') /\ triggers' \in Seq(Fires)
<1> DEFINE k == Len(triggers)
<1>1. /\ k \in Nat /\ DOMAIN triggers = 1..k /\ triggers' \in Seq(Fires)
      /\ DOMAIN triggers' = 1..(k + 1) /\ triggers'[k + 1] = f
      /\ \A i \in 1..k : triggers'[i] = triggers[i]
  OBVIOUS
<1> HIDE DEF k
<1>2. k + 1 \in DOMAIN triggers' /\ \A i \in DOMAIN triggers : i \in DOMAIN triggers' /\ i < k + 1
  BY <1>1
<1>3. Ending => Ending'
  BY <1>1, <1>2 DEF Ending
<1>4. f \in Ends => Ending'
  BY <1>1, <1>2 DEF Ending
<1>5. Cover => Cover'
  BY <1>3, <1>4 DEF Cover
<1>6. StartsEnd'
  <2> SUFFICES ASSUME NEW i \in DOMAIN triggers', triggers'[i] = "start", chord' # "down"
               PROVE  \E j \in DOMAIN triggers' : j > i /\ triggers'[j] \in Ends
    BY DEF StartsEnd
  <2>1. CASE f \in Ends
    <3>1. i # k + 1
      BY <1>1, <2>1 DEF Ends
    <3>2. k + 1 > i
      BY <1>1, <3>1
    <3> QED
      BY <1>1, <1>2, <2>1, <3>2
  <2>2. CASE f \notin Ends
    <3>1. f # "start" /\ chord # "down"
      BY <2>2
    <3>2. i # k + 1
      BY <1>1, <3>1
    <3>3. i \in DOMAIN triggers
      BY <1>1, <3>2
    <3>4. triggers[i] = "start"
      BY <1>1, <3>3
    <3>5. PICK j \in DOMAIN triggers : j > i /\ triggers[j] \in Ends
      BY <3>1, <3>3, <3>4 DEF StartsEnd
    <3> QED
      BY <1>1, <1>2, <3>5
  <2> QED
    BY <2>1, <2>2
<1> QED
  BY <1>1, <1>5, <1>6

LEMMA EventTaken ==
  ASSUME events \in Seq(Events), events # <<>>, events' = Tail(events)
  PROVE  events' \in Seq(Events)
OBVIOUS

(* A turn that leaves the keys alone.                                       *)
LEMMA TurnCore ==
  ASSUME CoreInv, NEW t, Turns(ts, t), KeysFor(t), ts' = t,
         UNCHANGED <<chord, triggers, startCmd, slot, active, rs, doomed>>,
         replies' \subseteq replies, events' \in Seq(Events)
  PROVE  CoreInv'
<1>1. Good(ts) /\ ts \in Controllers /\ Good(t) /\ t \in Controllers
  BY DEF CoreInv, Turns, Good
<1>2. TypeInv'
  BY DEF CoreInv, TypeInv, RustType, Turns
<1>3. OwedFor(t, replies')
  BY <1>1, OwedTurn DEF CoreInv, Turns
<1>4. StartsEnd' /\ KeysFor(ts)'
  BY DEF CoreInv, StartsEnd, KeysFor, Cover, Ending, Unmarked
<1> QED
  BY <1>1, <1>2, <1>3, <1>4 DEF CoreInv

LEMMA InitCore ==
  ASSUME Init
  PROVE  CoreInv
<1>1. PICK via \in {"stream", "batch"} : ts = Idle(via)
  BY ConstantsAssumption DEF Init
<1>2. via \in {"stream", "batch"}
  OBVIOUS
<1>3. <<>> \in Seq(Commands) /\ <<>> \in Seq(Events) /\ <<>> \in Seq(Fires) /\ Len(<<>>) = 0
  OBVIOUS
<1>4. ts \in Controllers
  BY <1>1, <1>2, <1>3 DEF Idle, Controllers, Statuses
<1>5. /\ ts.via = via /\ ts.pc = "none" /\ ts.n = 0 /\ ts.status = "idle"
      /\ ts.cfg = 0 /\ ts.capturing = FALSE /\ ts.cancelDuring = FALSE
      /\ ts.pending = FALSE /\ ts.check = "off" /\ ts.before = "none"
      /\ ts.tail = "none" /\ ts.ipc = <<>>
  BY <1>1 DEF Idle
<1>6. MaxSessions \in Nat /\ MaxTriggers \in Nat
  BY ConstantsAssumption
<1>7. RustType
  BY <1>6 DEF Init, RustType
<1>8. TypeInv
  <2>1. ts.n <= MaxSessions /\ Len(triggers) <= MaxTriggers
    BY <1>3, <1>5, <1>6 DEF Init
  <2>2. triggers \in Seq(Fires) /\ events \in Seq(Events)
    BY <1>3 DEF Init
  <2> QED
    BY <1>1, <1>5, <1>7, <2>1, <2>2 DEF Init, TypeInv
<1>9. Good(ts)
  BY <1>4, <1>5 DEF Good, Chip, Presses, Busy, Processing
<1>10. KeysFor(ts) /\ StartsEnd
  BY <1>5 DEF Init, KeysFor, HoldOpen, Asks, StartsEnd
<1>11. OwedFor(ts, replies)
  BY <1>5 DEF Init, OwedFor
<1> QED
  BY <1>8, <1>9, <1>10, <1>11 DEF CoreInv

-----------------------------------------------------------------------------
(* The chip and the chord, action by action.                               *)

LEMMA PrologueResolvesCore ==
  ASSUME CoreInv, PrologueResolves
  PROVE  CoreInv'
<1> DEFINE t == SessionUp(ts)
<1>1. /\ Good(ts) /\ ts.pc = "prologue" /\ ts.check = "off" /\ ts' = t
      /\ ts.n < MaxSessions /\ startCmd' = "keyring"
      /\ UNCHANGED <<chord, triggers, replies, slot, active, rs, events, doomed>>
  BY DEF PrologueResolves, CoreInv, rustVars, history
<1>2. /\ Good(t) /\ t.ipc = ts.ipc /\ t.via = ts.via /\ t.n = ts.n + 1
      /\ t.pc = "invoke" /\ t.capturing /\ ~t.cancelDuring
      /\ ~t.pending /\ ~Asks(t) /\ (HoldOpen(t) => HoldOpen(ts))
  BY <1>1, SessionUpWorks
<1> HIDE DEF t
<1>3. ts.n \in Nat /\ MaxSessions \in Nat
  BY <1>1, ConstantsAssumption DEF Good, Controllers
<1>4. t.n <= MaxSessions
  BY <1>1, <1>2, <1>3
<1>5. TypeInv'
  BY <1>1, <1>2, <1>4 DEF CoreInv, TypeInv, RustType
<1>6. KeysFor(ts)' /\ StartsEnd'
  BY <1>1, <1>2 DEF CoreInv, KeysFor, Cover, Ending, StartsEnd, Unmarked
<1>7. OwedFor(ts', replies')
  BY <1>1, <1>2 DEF CoreInv, OwedFor
<1> QED
  BY <1>1, <1>2, <1>5, <1>6, <1>7 DEF CoreInv

LEMMA PrologueRejectsCore ==
  ASSUME CoreInv, PrologueRejects
  PROVE  CoreInv'
<1> DEFINE t == Finally(FlashError(ts))
<1>1. /\ Good(ts) /\ ts.pc = "prologue" /\ ts' = t
      /\ UNCHANGED <<chord, triggers, startCmd, replies, slot, active, rs, events>>
  BY DEF PrologueRejects, CoreInv, rustVars
<1>2. Works(ts, t) /\ ~HoldOpen(t) /\ ~t.pending /\ (Asks(t) => Elsewhere(t))
  BY <1>1, PrologueRejectsWorks
<1> HIDE DEF t
<1>3. Turns(ts, t) /\ Good(t) /\ ts \in Controllers /\ t \in Controllers
  BY <1>1, <1>2 DEF Works, Turns, Good
<1>4. TypeInv'
  BY <1>1, <1>3 DEF CoreInv, TypeInv, RustType, Turns
<1>5. KeysFor(ts)' /\ StartsEnd'
  BY <1>1, <1>2 DEF CoreInv, KeysFor, Cover, Ending, StartsEnd
<1>6. OwedFor(t, replies)
  BY <1>3, OwedTurn DEF CoreInv, Turns
<1> QED
  BY <1>1, <1>3, <1>4, <1>5, <1>6 DEF CoreInv

LEMMA InvokeReturnsCore ==
  ASSUME CoreInv, InvokeReturns
  PROVE  CoreInv'
<1>1. /\ Good(ts) /\ ts \in Controllers /\ ts.pc = "invoke" /\ startCmd' = "none"
      /\ UNCHANGED <<chord, triggers, replies, slot, active, rs, events, doomed>>
  BY DEF InvokeReturns, CoreInv, TypeInv, Good, rustVars, history
<1>2. /\ \A i \in DOMAIN ts.ipc : ts.ipc[i].next # "owed"
      /\ \A r \in replies : r.next # "owed"
  BY <1>1 DEF CoreInv, OwedFor
<1>3. ASSUME NEW t, ts' = t, Good(t), t.via = ts.via, t.n = ts.n, t.pc # "invoke",
             KeysFor(t), OwedFor(t, replies)
      PROVE  CoreInv'
  <2>1. TypeInv'
    BY <1>1, <1>3 DEF CoreInv, TypeInv, RustType
  <2>2. KeysFor(ts)' /\ StartsEnd'
    BY <1>1, <1>3 DEF CoreInv, KeysFor, Cover, Ending, StartsEnd, Unmarked
  <2> QED
    BY <1>1, <1>3, <2>1, <2>2 DEF CoreInv
<1>4. CASE startCmd = "ok" /\ ~ts.cancelDuring
  <2> DEFINE t == InvokeResolved(ts)
  <2>1. /\ Works(Left(ts), t) /\ ~t.pending /\ (Asks(t) => Elsewhere(t))
        /\ HoldOpen(t) => HoldOpen(ts) /\ t.pc = "none"
    BY <1>1, <1>4, InvokeResolvedWorks
  <2>2. ts' = t
    BY <1>4 DEF InvokeReturns
  <2> HIDE DEF t
  <2>3. /\ Left(ts) \in Controllers /\ Left(ts).ipc = ts.ipc /\ Left(ts).via = ts.via
        /\ Left(ts).n = ts.n /\ Left(ts).pc = "none"
    BY <1>1, LeftIs
  <2>4. /\ Good(t) /\ t \in Controllers /\ Sends(Left(ts), t) /\ t.via = ts.via
        /\ t.n = ts.n /\ t.pc # "invoke"
    BY <2>1, <2>3 DEF Works, Turns, Good
  <2>5. OwedFor(t, replies)
    BY <1>2, <2>3, <2>4, OwedFree
  <2>6. KeysFor(t)
    BY <1>1, <2>1, <2>4 DEF CoreInv, KeysFor, Unmarked
  <2> QED
    BY <1>3, <2>2, <2>4, <2>5, <2>6
<1>5. CASE startCmd = "ok" /\ ts.cancelDuring
  <2> DEFINE t == InvokeResolved(ts)
  <2>1. /\ Good(t) /\ t.via = ts.via /\ t.n = ts.n /\ t.pc = "owed"
        /\ ~t.capturing /\ ~t.pending /\ ~Asks(t) /\ ~HoldOpen(t)
        /\ \E o \in Commands : /\ t.ipc = Append(ts.ipc, o) /\ o.next = "owed"
                              /\ o.cmd = "cancel" /\ o.hits
    BY <1>1, <1>5, InvokeCancelledIs
  <2>2. ts' = t
    BY <1>5 DEF InvokeReturns
  <2> HIDE DEF t
  <2>3. PICK o \in Commands : t.ipc = Append(ts.ipc, o)
    BY <2>1
  <2>4. /\ ts.ipc \in Seq(Commands) /\ Len(ts.ipc) \in Nat
        /\ DOMAIN ts.ipc = 1..Len(ts.ipc)
    BY <1>1 DEF Controllers
  <2>5. /\ DOMAIN t.ipc = 1..(Len(ts.ipc) + 1)
        /\ \A i \in 1..Len(ts.ipc) : t.ipc[i] = ts.ipc[i]
    BY <2>3, <2>4
  <2>6. \A i \in DOMAIN t.ipc : t.ipc[i].next = "owed" => i = Len(ts.ipc) + 1
    BY <1>2, <2>4, <2>5
  <2>7. OwedFor(t, replies)
    BY <1>2, <2>1, <2>6 DEF OwedFor
  <2>8. KeysFor(t)
    BY <2>1, QuenchedKeys
  <2> QED
    BY <1>3, <2>1, <2>2, <2>7, <2>8
<1>6. CASE startCmd # "ok"
  <2> DEFINE t == InvokeRejected(ts)
  <2>1. /\ Good(t) /\ t.via = ts.via /\ t.n = ts.n /\ t.pc \in {"none", "prologue"}
        /\ \E u \in Controllers : u.ipc = ts.ipc /\ Sends(u, t)
        /\ ~t.capturing /\ ~HoldOpen(t) /\ ~t.pending /\ (Asks(t) => Elsewhere(t))
    BY <1>1, InvokeRejectedWorks
  <2>2. ts' = t
    BY <1>6 DEF InvokeReturns
  <2> HIDE DEF t
  <2>3. PICK u \in Controllers : u.ipc = ts.ipc /\ Sends(u, t)
    BY <2>1
  <2>4. t \in Controllers
    BY <2>1 DEF Good
  <2>5. OwedFor(t, replies)
    BY <1>2, <2>3, <2>4, OwedFree
  <2>6. KeysFor(t)
    BY <2>1, QuenchedKeys
  <2> QED
    BY <1>3, <2>1, <2>2, <2>5, <2>6
<1> QED
  BY <1>4, <1>5, <1>6

LEMMA ReplyArrivesCore ==
  ASSUME CoreInv, ReplyArrives
  PROVE  CoreInv'
<1>1. PICK r \in replies :
        /\ replies' = replies \ {r}
        /\ \/ r.next = "owed" /\ ts' = Finally(ts)
           \/ r.next = "restart" /\ ts' = DictateToggle(ts)
           \/ r.next = "recover" /\ ts' = IF Starting(ts) \/ ts.cfg # 0 \/ Busy(ts)
                                          THEN ts ELSE FlashError(ts)
           \/ r.next = "reject" /\ ts' = StopRejected(ts)
        /\ UNCHANGED <<chord, triggers, startCmd, rustVars, events, doomed>>
  BY DEF ReplyArrives
<1>2. /\ Good(ts) /\ ts \in Controllers /\ KeysFor(ts) /\ replies' \subseteq replies
      /\ UNCHANGED <<chord, triggers, startCmd, slot, active, rs, doomed>>
      /\ events' \in Seq(Events) /\ events' = events
  BY <1>1 DEF CoreInv, TypeInv, Good, rustVars
<1>3. ASSUME NEW t, ts' = t, Turns(ts, t), Softer(ts, t)
      PROVE  CoreInv'
  <2>1. KeysFor(t)
    BY <1>2, <1>3, SofterKeys DEF Turns
  <2> QED
    BY <1>2, <1>3, <2>1, TurnCore
<1>4. CASE r.next = "owed" /\ ts' = Finally(ts)
  <2> DEFINE t == Finally(ts)
  <2>1. ts.pc = "owed"
    BY <1>4 DEF CoreInv, OwedFor
  <2>2. /\ Works(Left(ts), t) /\ ~HoldOpen(t) /\ ~t.pending
        /\ (Asks(t) => Elsewhere(t))
    BY <1>2, <2>1, OwedReturnsWorks
  <2>3. /\ Left(ts) \in Controllers /\ Left(ts).ipc = ts.ipc /\ Left(ts).via = ts.via
        /\ Left(ts).n = ts.n /\ Left(ts).pc = "none"
    BY <1>2, LeftIs
  <2>4. ts' = t
    BY <1>4
  <2> HIDE DEF t
  <2>5. /\ Good(t) /\ t \in Controllers /\ Sends(Left(ts), t) /\ t.via = ts.via
        /\ t.n = ts.n /\ t.pc # "invoke"
    BY <2>2, <2>3 DEF Works, Turns, Good
  <2>6. /\ \A i \in DOMAIN ts.ipc : ts.ipc[i].next # "owed"
        /\ \A q \in replies' : q.next # "owed"
    BY <1>1, <1>4 DEF CoreInv, OwedFor
  <2>7. OwedFor(t, replies')
    BY <2>3, <2>5, <2>6, OwedFree
  <2>8. TypeInv'
    BY <1>2, <2>1, <2>4, <2>5 DEF CoreInv, TypeInv, RustType
  <2>9. KeysFor(ts)' /\ StartsEnd'
    BY <1>2, <2>2, <2>4 DEF CoreInv, KeysFor, Cover, Ending, StartsEnd
  <2> QED
    BY <2>4, <2>5, <2>7, <2>8, <2>9 DEF CoreInv
<1>5. CASE r.next = "restart" /\ ts' = DictateToggle(ts)
  <2>1. Works(ts, DictateToggle(ts)) /\ Softer(ts, DictateToggle(ts))
    BY <1>2, DictateToggleWorks
  <2> QED
    BY <1>3, <1>5, <2>1 DEF Works
<1>6. CASE /\ r.next = "recover"
           /\ ts' = IF Starting(ts) \/ ts.cfg # 0 \/ Busy(ts) THEN ts ELSE FlashError(ts)
  <2>1. CASE Starting(ts) \/ ts.cfg # 0 \/ Busy(ts)
    <3>1. ts' = ts
      BY <1>6, <2>1
    <3>2. Works(ts, ts)
      BY <1>2, PlainWorks DEF SameMic, Good, Presses
    <3>3. Softer(ts, ts)
      BY DEF Softer
    <3> QED
      BY <1>3, <3>1, <3>2, <3>3 DEF Works
  <2>2. CASE ~(Starting(ts) \/ ts.cfg # 0 \/ Busy(ts))
    <3>1. Works(ts, FlashError(ts)) /\ Softer(ts, FlashError(ts))
      BY <1>2, <2>2, FlashWorks
    <3> QED
      BY <1>3, <1>6, <2>2, <3>1 DEF Works
  <2> QED
    BY <2>1, <2>2
<1>7. CASE r.next = "reject" /\ ts' = StopRejected(ts)
  <2>1. Turns(ts, StopRejected(ts)) /\ Softer(ts, StopRejected(ts))
    BY <1>2, StopRejectedWorks
  <2> QED
    BY <1>3, <1>7, <2>1
<1> QED
  BY <1>1, <1>4, <1>5, <1>6, <1>7

LEMMA EventArrivesCore ==
  ASSUME CoreInv, EventArrives
  PROVE  CoreInv'
<1>1. /\ Good(ts) /\ KeysFor(ts) /\ events # <<>> /\ events' = Tail(events)
      /\ UNCHANGED <<chord, triggers, startCmd, slot, active, rs, doomed>>
      /\ replies' = replies
  BY DEF EventArrives, CoreInv, TypeInv, rustVars
<1>2. events' \in Seq(Events)
  BY <1>1, EventTaken DEF CoreInv, TypeInv
<1>3. ASSUME NEW t, ts' = t, Turns(ts, t), Softer(ts, t)
      PROVE  CoreInv'
  <2>1. KeysFor(t)
    BY <1>1, <1>3, SofterKeys DEF Turns
  <2> QED
    BY <1>1, <1>2, <1>3, <2>1, TurnCore
<1>4. CASE Head(events).ev = "error" /\ ts' = Errored(ts)
  <2>1. CASE Busy(ts)
    <3>1. Turns(ts, Abandon(ts)) /\ Quenched(Abandon(ts))
      BY <1>1, <2>1, AbandonWorks
    <3>2. ts' = Abandon(ts)
      BY <1>4, <2>1 DEF Errored
    <3> QED
      BY <1>3, <3>1, <3>2, QuenchedSofter
  <2>2. CASE ~Busy(ts)
    <3>1. ts' = ts
      BY <1>4, <2>2 DEF Errored
    <3>2. Works(ts, ts)
      BY <1>1, PlainWorks DEF SameMic, Good, Presses
    <3>3. Softer(ts, ts)
      BY DEF Softer
    <3> QED
      BY <1>3, <3>1, <3>2, <3>3 DEF Works
  <2> QED
    BY <2>1, <2>2
<1>5. ASSUME NEW tail \in {"none", "insert", "quiet"}, NEW short \in BOOLEAN,
             tail # "none" => startCmd = "none",
             ts' = Closed(ts, tail, short)
      PROVE  CoreInv'
  <2>1. tail # "none" => ts.pc # "invoke"
    BY <1>5 DEF CoreInv, TypeInv
  <2>2. Turns(ts, Closed(ts, tail, short)) /\ Softer(ts, Closed(ts, tail, short))
    BY <1>1, <2>1, ClosedWorks
  <2> QED
    BY <1>3, <1>5, <2>2
<1> QED
  BY <1>4, <1>5 DEF EventArrives

LEMMA TriggerArrivesCore ==
  ASSUME CoreInv, TriggerArrives
  PROVE  CoreInv'
<1>1. /\ Good(ts) /\ KeysFor(ts) /\ ts \in Controllers
      /\ triggers # <<>> /\ triggers' = Tail(triggers)
      /\ UNCHANGED <<chord, startCmd, replies, slot, active, rs, events, doomed>>
  BY DEF TriggerArrives, CoreInv, TypeInv, Good, rustVars, history
<1>2. /\ StartsEnd' /\ triggers' \in Seq(Fires) /\ Len(triggers') <= Len(triggers)
      /\ Head(triggers) = "start" => Cover'
      /\ Cover /\ Head(triggers) \notin Ends => Cover'
  BY <1>1, TriggerTaken DEF CoreInv, TypeInv
<1>3. Len(triggers') <= MaxTriggers
  <2>1. Len(triggers) \in Nat /\ Len(triggers') \in Nat /\ MaxTriggers \in Nat
    BY <1>2, ConstantsAssumption DEF CoreInv, TypeInv
  <2> QED
    BY <1>2, <2>1 DEF CoreInv, TypeInv
<1>4. ASSUME NEW t, ts' = t, Turns(ts, t), KeysFor(ts)'
      PROVE  CoreInv'
  <2>1. Good(t) /\ t \in Controllers
    BY <1>4 DEF Turns, Good
  <2>2. TypeInv'
    BY <1>1, <1>2, <1>3, <1>4 DEF CoreInv, TypeInv, RustType, Turns
  <2>3. OwedFor(t, replies)
    BY <1>1, <1>4, <2>1, OwedTurn DEF CoreInv, Turns
  <2> QED
    BY <1>1, <1>2, <1>4, <2>1, <2>2, <2>3 DEF CoreInv
<1>5. CASE Head(triggers) = "start" /\ ts' = DictateStart(ts)
  <2>1. Works(ts, DictateStart(ts))
    BY <1>1, DictateStartWorks
  <2>2. Cover'
    BY <1>2, <1>5
  <2>3. KeysFor(ts)'
    BY <2>2 DEF KeysFor
  <2> QED
    BY <1>4, <1>5, <2>1, <2>3 DEF Works
<1>6. CASE Head(triggers) = "stop" /\ ts' = StopOrCancel(ts, FALSE)
  <2>1. Works(ts, StopOrCancel(ts, FALSE)) /\ Quenched(StopOrCancel(ts, FALSE))
    BY <1>1, StopOrCancelWorks
  <2>2. KeysFor(ts)'
    BY <1>6, <2>1 DEF KeysFor, Quenched
  <2> QED
    BY <1>4, <1>6, <2>1, <2>2 DEF Works
<1>7. CASE Head(triggers) = "toggle" /\ ts' = DictateToggle(ts)
  <2> DEFINE t == DictateToggle(ts)
  <2>1. Works(ts, t) /\ Softer(ts, t) /\ ~HoldOpen(t)
    BY <1>1, DictateToggleWorks
  <2> HIDE DEF t
  <2>2. KeysFor(t) /\ ts' = t
    BY <1>1, <1>7, <2>1, SofterKeys DEF Works, Turns, t
  <2>3. Cover => Cover'
    BY <1>2, <1>7 DEF Ends
  <2>4. KeysFor(ts)'
    BY <2>1, <2>2, <2>3 DEF KeysFor
  <2> QED
    BY <1>4, <2>1, <2>2, <2>4 DEF Works
<1>8. ASSUME NEW same \in BOOLEAN, Head(triggers) = "reclassify",
             ts' = DictateReclassify(ts, same)
      PROVE  CoreInv'
  <2>1. /\ Works(ts, DictateReclassify(ts, same))
        /\ Quenched(DictateReclassify(ts, same))
    BY <1>1, DictateReclassifyWorks
  <2>2. KeysFor(ts)'
    BY <1>8, <2>1 DEF KeysFor, Quenched
  <2> QED
    BY <1>4, <1>8, <2>1, <2>2 DEF Works
<1> QED
  BY <1>5, <1>6, <1>7, <1>8 DEF TriggerArrives

(* The turns that see nothing from outside.                                *)
QuietTurns ==
  \/ HeldCheckReads \/ HeldCheckAnswers \/ ErrorLingers \/ StuckWatchdog
  \/ HandsFreeAutoStop \/ PhraseTranslates \/ PhraseTranslated \/ LivePhraseFails
  \/ TailEnds \/ InsertFails

(* Each of them, and the one that may send while the start command travels.  *)
LEMMA QuietTurnsWork ==
  ASSUME Good(ts), KeysFor(ts), QuietTurns
  PROVE  /\ Turns(ts, ts') /\ Delivers(ts, ts') /\ KeysFor(ts')
         /\ Calm(ts, ts') \/ (PhraseQueued /\ Busy(ts))
         /\ UNCHANGED <<chord, triggers, startCmd, replies, slot, active, rs, events, doomed, crossed>>
<1>1. UNCHANGED <<chord, triggers, startCmd, replies, slot, active, rs, events, doomed, crossed>>
  BY DEF QuietTurns, HeldCheckReads, HeldCheckAnswers, ErrorLingers, StuckWatchdog,
         HandsFreeAutoStop, PhraseTranslates, PhraseTranslated, LivePhraseFails,
         TailEnds, InsertFails, Turn, rustVars, history
<1>2. ASSUME NEW t, ts' = t, Works(ts, t), Softer(ts, t)
      PROVE  /\ Turns(ts, ts') /\ Delivers(ts, ts') /\ KeysFor(ts') /\ Calm(ts, ts')
  <2>1. KeysFor(t)
    BY <1>2, SofterKeys DEF Works, Turns
  <2> QED
    BY <1>2, <2>1 DEF Works
<1>3. CASE HeldCheckReads
  <2> DEFINE c == IF chord = "up" THEN "up" ELSE "held"
  <2>1. ts.check = "asked" /\ ts' = [ts EXCEPT !.check = c] /\ c \in {"up", "held"}
    BY <1>3 DEF HeldCheckReads, Turn
  <2> HIDE DEF c
  <2>2. /\ Works(ts, [ts EXCEPT !.check = c]) /\ Softer(ts, [ts EXCEPT !.check = c])
    BY <2>1, HeldCheckReadsWorks
  <2> QED
    BY <1>1, <1>2, <2>1, <2>2
<1>4. CASE HeldCheckAnswers
  <2> DEFINE u == [ts EXCEPT !.check = "off"]
             t == IF ts.check = "held" /\ ts.status \in {"idle", "error"}
                  THEN DictateStart(u) ELSE u
  <2>1. ts.check \in {"up", "held"} /\ ts' = t
    BY <1>4 DEF HeldCheckAnswers, Turn
  <2>2. /\ Works(ts, t) /\ ~t.pending /\ ~Asks(t)
        /\ HoldOpen(t) => \/ HoldOpen(ts) /\ (t.pc = "prologue" <=> ts.pc = "prologue")
                          \/ Asks(ts) /\ ~Elsewhere(ts)
    BY <2>1, HeldCheckAnswersWorks
  <2> HIDE DEF t
  <2>3. KeysFor(t)
    BY <2>2 DEF KeysFor, Works, Turns, Unmarked
  <2> QED
    BY <1>1, <2>1, <2>2, <2>3 DEF Works
<1>5. CASE ErrorLingers
  <2> DEFINE u == [ts EXCEPT !.errTimer = FALSE]
             t == IF ts.status = "error"
                  THEN [u EXCEPT !.status = "idle", !.profile = "none"] ELSE u
  <2>1. ts' = t
    BY <1>5 DEF ErrorLingers, Turn
  <2>2. Works(ts, t) /\ Softer(ts, t)
    BY ErrorLingersWorks
  <2> HIDE DEF t
  <2> QED
    BY <1>1, <1>2, <2>1, <2>2
<1>6. CASE StuckWatchdog
  <2> DEFINE t == [ts EXCEPT !.watchdog = FALSE]
  <2>1. /\ Works(ts, t) /\ Softer(ts, t)
        /\ Works(ts, ArmWatchdog(t)) /\ Softer(ts, ArmWatchdog(t))
        /\ \A next \in {"none", "recover"} : ts.status = "transcribing" =>
             Works(ts, CancelLive(t, next)) /\ Softer(ts, CancelLive(t, next))
    BY WatchdogWorks
  <2>2. \/ ts' = ArmWatchdog(t) \/ ts' = t
        \/ ts.status = "transcribing" /\
           \E next \in {"none", "recover"} : ts' = CancelLive(t, next)
    <3>1. ASSUME NEW next \in {"none"} \cup (IF ts.cfg # 0 THEN {"recover"} ELSE {})
          PROVE  next \in {"none", "recover"}
      OBVIOUS
    <3> QED
      BY <1>6, <3>1 DEF StuckWatchdog, Turn
  <2> HIDE DEF t
  <2> QED
    BY <1>1, <1>2, <2>1, <2>2
<1>7. CASE HandsFreeAutoStop
  <2>1. ts.capturing /\ ts' = StopLive(ts)
    BY <1>7 DEF HandsFreeAutoStop, Turn
  <2>2. Works(ts, StopLive(ts)) /\ Quenched(StopLive(ts))
    BY <2>1, StopLiveWorks
  <2> QED
    BY <1>1, <1>2, <2>1, <2>2, QuenchedSofter
<1>8. CASE PhraseTranslates
  <2> DEFINE t == [ts EXCEPT !.before = ts.status, !.status = "translating"]
  <2>1. /\ ts.tail = "none" /\ ts.status \in {"listening", "transcribing"}
        /\ ts.before = "none" /\ ts' = t
    BY <1>8 DEF PhraseTranslates, PhraseQueued, Turn
  <2>2. Works(ts, t) /\ Softer(ts, t)
    BY <2>1, PhraseTranslatesWorks
  <2> HIDE DEF t
  <2> QED
    BY <1>1, <1>2, <2>1, <2>2
<1>9. CASE PhraseTranslated
  <2> DEFINE t == [ts EXCEPT !.before = "none",
                     !.status = IF ts.status = "translating" THEN ts.before ELSE ts.status]
  <2>1. ts.before # "none" /\ ts' = t
    BY <1>9 DEF PhraseTranslated, Turn
  <2>2. Works(ts, t) /\ Softer(ts, t)
    BY <2>1, PhraseTranslatedWorks
  <2> HIDE DEF t
  <2> QED
    BY <1>1, <1>2, <2>1, <2>2
<1>10. CASE LivePhraseFails
  <2>1. PhraseQueued /\ Busy(ts) /\ ts' = Abandon(ts)
    BY <1>10 DEF LivePhraseFails, Turn
  <2>2. Turns(ts, Abandon(ts)) /\ Delivers(ts, Abandon(ts)) /\ Quenched(Abandon(ts))
    BY <2>1, AbandonWorks
  <2>3. KeysFor(Abandon(ts))
    BY <2>2, QuenchedKeys DEF Quenched
  <2> QED
    BY <1>1, <2>1, <2>2, <2>3
<1>11. CASE TailEnds
  <2>1. /\ ts.tail # "none" /\ ts.before = "none"
        /\ ts' = Settle(ts) \/ ts' = [ts EXCEPT !.tail = "none"]
    BY <1>11 DEF TailEnds, Turn
  <2>2. /\ Works(ts, Settle(ts)) /\ Softer(ts, Settle(ts))
        /\ LET t == [ts EXCEPT !.tail = "none"] IN Works(ts, t) /\ Softer(ts, t)
    BY <2>1, TailEndsWorks
  <2> QED
    BY <1>1, <1>2, <2>1, <2>2
<1>12. CASE InsertFails
  <2> DEFINE t == SettleKeepingError(FlashError(ts))
  <2>1. ts.tail = "insert" /\ ts' = t
    BY <1>12 DEF InsertFails, Turn
  <2>2. Works(ts, t) /\ Softer(ts, t)
    BY <2>1, InsertFailsWorks
  <2> HIDE DEF t
  <2> QED
    BY <1>1, <1>2, <2>1, <2>2
<1> QED
  BY <1>3, <1>4, <1>5, <1>6, <1>7, <1>8, <1>9, <1>10, <1>11, <1>12 DEF QuietTurns

LEMMA QuietTurnsCore ==
  ASSUME CoreInv, QuietTurns
  PROVE  CoreInv'
<1>1. /\ Turns(ts, ts') /\ KeysFor(ts')
      /\ UNCHANGED <<chord, triggers, startCmd, replies, slot, active, rs, events, doomed>>
  BY QuietTurnsWork DEF CoreInv
<1>2. /\ replies' \subseteq replies
      /\ events' \in Seq(Events)
  BY <1>1 DEF CoreInv, TypeInv
<1> QED
  BY <1>1, <1>2, TurnCore

LEMMA UserCore ==
  ASSUME CoreInv, User
  PROVE  CoreInv'
<1>1. Good(ts) /\ KeysFor(ts) /\ triggers \in Seq(Fires)
  BY ConstantsAssumption DEF CoreInv, TypeInv
<1>3. ASSUME UNCHANGED <<ts, startCmd, replies, slot, active, rs, events, doomed>>,
             chord' \in {"up", "down", "handed"},
             triggers' \in Seq(Fires), Len(triggers') <= MaxTriggers,
             StartsEnd', Cover => Cover'
      PROVE  CoreInv'
  <2>1. TypeInv'
    BY <1>3 DEF CoreInv, TypeInv, RustType
  <2>2. KeysFor(ts)'
    BY <1>3 DEF CoreInv, KeysFor, Unmarked
  <2> QED
    BY <1>3, <2>1, <2>2 DEF CoreInv, OwedFor
<1>4. ASSUME NEW from \in {"up", "down", "handed"}, NEW to \in {"up", "down", "handed"},
             NEW f \in Fires, Key(from, to, <<f>>),
             to = "down" \/ f \in Ends \/ (f # "start" /\ from # "down")
      PROVE  CoreInv'
  <2>1. /\ UNCHANGED <<ts, startCmd, replies, slot, active, rs, events, doomed>>
        /\ chord = from /\ chord' = to /\ triggers' = triggers \o <<f>>
        /\ Len(triggers) + Len(<<f>>) <= MaxTriggers
    BY <1>4 DEF Key, rustVars, history
  <2>2. triggers' = Append(triggers, f) /\ Len(Append(triggers, f)) = Len(triggers) + Len(<<f>>)
    BY <1>1, <2>1
  <2>3. StartsEnd' /\ (Cover => Cover') /\ triggers' \in Seq(Fires)
    BY <1>1, <1>4, <2>1, <2>2, KeyTyped DEF CoreInv
  <2>4. Len(triggers') <= MaxTriggers
    BY <2>1, <2>2
  <2> QED
    BY <1>3, <1>4, <2>1, <2>3, <2>4
<1>5. PressRoot => CoreInv'
  BY <1>4 DEF PressRoot, Fires
<1>6. PressFamily => CoreInv'
  BY <1>4 DEF PressFamily, Fires
<1>7. CompleteChord => CoreInv'
  BY <1>4 DEF CompleteChord, Fires, Ends
<1>8. PressAgain => CoreInv'
  BY <1>4 DEF PressAgain, Fires
<1>9. ReleaseRoot => CoreInv'
  BY <1>4 DEF ReleaseRoot, Fires, Ends
<1>10. ReleaseHanded => CoreInv'
  <2> SUFFICES ASSUME ReleaseHanded  PROVE CoreInv'
    OBVIOUS
  <2>1. /\ UNCHANGED <<ts, startCmd, replies, slot, active, rs, events, doomed>>
        /\ chord = "handed" /\ chord' = "up" /\ triggers' = triggers \o <<>>
    BY DEF ReleaseHanded, Key, rustVars, history
  <2>2. triggers' = triggers
    BY <1>1, <2>1
  <2>3. StartsEnd' /\ (Cover => Cover')
    BY <2>1, <2>2 DEF CoreInv, StartsEnd, Cover, Ending
  <2> QED
    BY <1>3, <2>1, <2>2, <2>3 DEF CoreInv, TypeInv
<1>11. HomeButton => CoreInv'
  <2> SUFFICES ASSUME HomeButton  PROVE CoreInv'
    OBVIOUS
  <2> DEFINE t == HomeToggle(ts)
  <2>1. /\ ts' = t
        /\ UNCHANGED <<chord, triggers, startCmd, replies, slot, active, rs, events, doomed>>
    BY DEF HomeButton, rustVars, history
  <2>2. Works(ts, t) /\ Softer(ts, t)
    BY <1>1, HomeToggleWorks
  <2> HIDE DEF t
  <2>3. Turns(ts, t) /\ KeysFor(t)
    BY <1>1, <2>2, SofterKeys DEF Works, Turns
  <2>4. replies' \subseteq replies /\ events' \in Seq(Events)
    BY <2>1 DEF CoreInv, TypeInv
  <2> QED
    BY <2>1, <2>3, <2>4, TurnCore
<1>12. Resume => CoreInv'
  <2> SUFFICES ASSUME Resume  PROVE CoreInv'
    OBVIOUS
  <2> DEFINE t == SystemResumed(ts)
  <2>1. /\ ts' = t
        /\ UNCHANGED <<chord, triggers, startCmd, replies, slot, active, rs, events>>
        /\ doomed' = IF ts.pc = "prologue" /\ ts.status # "idle"
                     THEN doomed \cup {ts.n + 1} ELSE doomed
    BY DEF Resume, rustVars
  <2>2. /\ Works(ts, t) /\ ~t.pending
        /\ HoldOpen(t) => ts.pc = "prologue" /\ ts.status # "idle" /\ t.pc = "prologue"
        /\ Asks(t) => Softer(ts, t)
    BY <1>1, SystemResumedWorks
  <2> HIDE DEF t
  <2>3. Turns(ts, t) /\ Good(t) /\ t \in Controllers /\ ts \in Controllers /\ t.n = ts.n
    BY <1>1, <2>2 DEF Works, Turns, Good
  <2>4. TypeInv'
    BY <2>1, <2>3 DEF CoreInv, TypeInv, RustType, Turns
  <2>5. HoldOpen(t) => t.pc = "prologue" /\ t.n + 1 \in doomed'
    BY <2>1, <2>2, <2>3
  <2>6. Asks(t) => Cover \/ Elsewhere(t)
    BY <1>1, <2>2 DEF KeysFor, Softer
  <2>7. KeysFor(ts)' /\ StartsEnd'
    BY <2>1, <2>2, <2>5, <2>6 DEF CoreInv, KeysFor, Cover, Ending, StartsEnd, Unmarked
  <2>8. OwedFor(t, replies)
    BY <2>3, OwedTurn DEF CoreInv, Turns
  <2> QED
    BY <2>1, <2>3, <2>4, <2>7, <2>8 DEF CoreInv
<1> QED
  BY <1>5, <1>6, <1>7, <1>8, <1>9, <1>10, <1>11, <1>12 DEF User

(* A command of the controller takes effect: what Rust may do with it.       *)
LEMMA CommandIs ==
  ASSUME CoreInv, CommandTakesEffect
  PROVE  \E i \in DOMAIN ts.ipc :
           LET c == ts.ipc[i] IN
           /\ c \in Commands /\ ts' = [ts EXCEPT !.ipc = RemoveAt(ts.ipc, i)]
           /\ slot' \in {slot, 0} /\ rs' \in [Sessions -> {"none", "live", "draining", "errored", "over"}]
           /\ replies' \subseteq Replies
           /\ \/ replies' = replies
              \/ c.next # "none" /\ \E r \in Replies :
                   /\ replies' = replies \cup {r}
                   /\ r.next = "owed" <=> c.next = "owed"
                   /\ r.next = "reject" => c.next = "stop"
           /\ UNCHANGED <<chord, triggers, startCmd, events, doomed>>
           /\ active' \in {active, 0}
<1>1. PICK i \in DOMAIN ts.ipc :
        LET c == ts.ipc[i] IN
        /\ ts' = [ts EXCEPT !.ipc = RemoveAt(ts.ipc, i)]
        /\ \/ /\ c.cmd = "stop"
              /\ IF c.hits THEN Released("draining") ELSE UNCHANGED <<slot, rs>>
              /\ UNCHANGED active
              /\ \/ UNCHANGED replies
                 \/ /\ c.next = "stop" /\ replies' = replies \cup {[next |-> "reject", of |-> c.of]}
           \/ /\ c.cmd \in {"cancel", "release"}
              /\ IF c.hits THEN Released("over") ELSE UNCHANGED <<slot, rs>>
              /\ active' = 0
              /\ replies' = replies \cup
                   (IF c.next = "none" THEN {} ELSE {[next |-> c.next, of |-> c.of]})
           \/ /\ c.cmd = "retire" /\ active' = 0
              /\ UNCHANGED <<slot, rs, replies>>
        /\ UNCHANGED <<chord, triggers, startCmd, events, doomed>>
  BY DEF CommandTakesEffect
<1> DEFINE c == ts.ipc[i]
           b == [next |-> "reject", of |-> c.of]
           d == [next |-> c.next, of |-> c.of]
<1>2. ts.ipc \in Seq(Commands)
  BY DEF CoreInv, Good, Controllers
<1>3. c \in Commands
  BY <1>2
<1>4. b \in Replies /\ b.next = "reject" /\ (c.next # "none" => d \in Replies)
      /\ d.next = c.next /\ c.next # "reject"
  <2>1. c.of \in Nat /\ c.next \in {"none", "stop", "restart", "recover", "owed"}
    BY <1>3 DEF Commands
  <2> HIDE DEF c
  <2>2. c.next # "none" => d \in Replies
    BY <2>1 DEF Replies
  <2> QED
    BY <2>1, <2>2 DEF Replies
<1>5. replies \subseteq Replies /\ rs \in [Sessions -> {"none", "live", "draining", "errored", "over"}]
  BY DEF CoreInv, TypeInv, RustType
<1>6. slot' \in {slot, 0} /\ active' \in {active, 0}
  BY <1>1 DEF Released
<1>7. rs' \in [Sessions -> {"none", "live", "draining", "errored", "over"}]
  <2>1. \A to \in {"draining", "over"} : Released(to) =>
          rs' \in [Sessions -> {"none", "live", "draining", "errored", "over"}]
    BY <1>5 DEF Released
  <2> QED
    BY <1>1, <1>5, <2>1
<1> HIDE DEF b, d
<1>8. CASE c.cmd = "stop"
  <2>1. replies' = replies \/ (c.next = "stop" /\ replies' = replies \cup {b})
    BY <1>1, <1>8 DEF b
  <2> QED
    BY <1>1, <1>3, <1>4, <1>5, <1>6, <1>7, <2>1
<1>9. CASE c.cmd \in {"cancel", "release"}
  <2>1. replies' = replies \cup (IF c.next = "none" THEN {} ELSE {d})
    BY <1>1, <1>9 DEF d
  <2>2. replies' = replies \/ (c.next # "none" /\ replies' = replies \cup {d})
    BY <2>1
  <2> QED
    BY <1>1, <1>3, <1>4, <1>5, <1>6, <1>7, <1>9, <2>2
<1>10. CASE c.cmd = "retire"
  <2>1. replies' = replies
    BY <1>1, <1>10
  <2> QED
    BY <1>1, <1>3, <1>4, <1>5, <1>6, <1>7, <2>1
<1> QED
  BY <1>3, <1>8, <1>9, <1>10 DEF Commands

LEMMA CommandCore ==
  ASSUME CoreInv, CommandTakesEffect
  PROVE  CoreInv'
<1>1. PICK i \in DOMAIN ts.ipc :
        LET c == ts.ipc[i] IN
        /\ c \in Commands /\ ts' = [ts EXCEPT !.ipc = RemoveAt(ts.ipc, i)]
        /\ slot' \in {slot, 0} /\ rs' \in [Sessions -> {"none", "live", "draining", "errored", "over"}]
        /\ replies' \subseteq Replies
        /\ \/ replies' = replies
           \/ c.next # "none" /\ \E r \in Replies :
                /\ replies' = replies \cup {r}
                /\ r.next = "owed" <=> c.next = "owed"
                /\ r.next = "reject" => c.next = "stop"
        /\ UNCHANGED <<chord, triggers, startCmd, events, doomed>>
        /\ active' \in {active, 0}
  BY CommandIs
<1> DEFINE c == ts.ipc[i]
<1>2. Good(ts) /\ ts \in Controllers /\ OwedFor(ts, replies)
  BY DEF CoreInv, Good
<1>3. /\ ts' \in Controllers /\ SameStart(ts, ts') /\ SameMic(ts, ts') /\ SamePress(ts, ts')
      /\ \A j \in DOMAIN ts'.ipc : \E k \in DOMAIN ts.ipc : k # i /\ ts'.ipc[j] = ts.ipc[k]
      /\ \A j, l \in DOMAIN ts'.ipc :
           ts'.ipc[j].next = "owed" /\ ts'.ipc[l].next = "owed" /\
           (\A p, q \in DOMAIN ts.ipc :
              ts.ipc[p].next = "owed" /\ ts.ipc[q].next = "owed" => p = q) => j = l
  <2> DEFINE t == [ts EXCEPT !.ipc = RemoveAt(ts.ipc, i)]
  <2>1. /\ t \in Controllers /\ SameStart(ts, t) /\ SameMic(ts, t) /\ SamePress(ts, t)
        /\ \A j \in DOMAIN t.ipc : \E k \in DOMAIN ts.ipc : k # i /\ t.ipc[j] = ts.ipc[k]
        /\ \A j, l \in DOMAIN t.ipc : \A k \in DOMAIN ts.ipc :
             t.ipc[j].next = "owed" /\ t.ipc[l].next = "owed" /\
             (\A p, q \in DOMAIN ts.ipc :
                ts.ipc[p].next = "owed" /\ ts.ipc[q].next = "owed" => p = q) => j = l
    BY <1>2, Taken
  <2>2. ts' = t
    BY <1>1
  <2> HIDE DEF t
  <2> QED
    BY <2>1, <2>2
<1>4. Good(ts')
  BY <1>2, <1>3 DEF Good, Chip, Presses, Busy, Processing, SameStart, SameMic, SamePress
<1>5. TypeInv'
  <2>1. slot' \in 0..MaxSessions /\ active' \in 0..MaxSessions
    BY <1>1, ConstantsAssumption DEF CoreInv, TypeInv, RustType
  <2>2. RustType'
    BY <1>1, <2>1 DEF RustType, Sessions
  <2>3. ts'.via = ts.via /\ ts'.n = ts.n /\ ts'.pc = ts.pc
    BY <1>3 DEF SameStart
  <2> QED
    BY <1>1, <2>2, <2>3 DEF CoreInv, TypeInv
<1>6. KeysFor(ts)' /\ StartsEnd'
  <2>1. /\ HoldOpen(ts') <=> HoldOpen(ts)
        /\ Asks(ts') <=> Asks(ts)
        /\ Elsewhere(ts') <=> Elsewhere(ts)
        /\ ts'.pending = ts.pending
    BY <1>3 DEF HoldOpen, Asks, Elsewhere, SameStart, SameMic, SamePress
  <2>2. Unmarked(ts)' <=> Unmarked(ts)
    BY <1>1, <1>3 DEF Unmarked, SameStart
  <2>3. StartsEnd' /\ (Cover' <=> Cover)
    BY <1>1 DEF CoreInv, StartsEnd, Cover, Ending
  <2> QED
    BY <2>1, <2>2, <2>3 DEF CoreInv, KeysFor
<1>7. ts'.pc = ts.pc
  BY <1>3 DEF SameStart
<1>8. \A j, l \in DOMAIN ts'.ipc : ts'.ipc[j].next = "owed" /\ ts'.ipc[l].next = "owed" => j = l
  BY <1>2, <1>3 DEF OwedFor
<1>9. \A j \in DOMAIN ts'.ipc : ts'.ipc[j].next = "owed" =>
        c.next # "owed" /\ ts.pc = "owed" /\ \A r \in replies : r.next # "owed"
  BY <1>2, <1>3 DEF OwedFor
<1>10. c.next = "owed" => ts.pc = "owed" /\ \A r \in replies : r.next # "owed"
  BY <1>2 DEF OwedFor
<1>11. OwedFor(ts', replies')
  <2>1. CASE replies' = replies
    BY <1>2, <1>7, <1>8, <1>9, <2>1 DEF OwedFor
  <2>2. CASE c.next # "none" /\ \E r \in Replies :
               /\ replies' = replies \cup {r}
               /\ r.next = "owed" <=> c.next = "owed"
    <3>1. PICK r \in Replies : /\ replies' = replies \cup {r}
                               /\ r.next = "owed" <=> c.next = "owed"
      BY <2>2
    <3> HIDE DEF c
    <3> QED
      BY <1>2, <1>7, <1>8, <1>9, <1>10, <3>1 DEF OwedFor
  <2> QED
    BY <1>1, <2>1, <2>2
<1> QED
  BY <1>4, <1>5, <1>6, <1>11 DEF CoreInv

(* Nothing of the controller's changes while Rust starts, errs or closes.    *)
LEMMA RustCore ==
  ASSUME CoreInv, RustType', events' \in Seq(Events),
         startCmd' \in {"none", "keyring", "ok", "err"},
         startCmd' # "none" <=> startCmd # "none",
         UNCHANGED <<ts, chord, triggers, replies, doomed>>
  PROVE  CoreInv'
<1>1. TypeInv'
  BY DEF CoreInv, TypeInv
<1>2. StartsEnd' /\ KeysFor(ts)'
  BY DEF CoreInv, StartsEnd, KeysFor, Cover, Ending, Unmarked
<1> QED
  BY <1>1, <1>2 DEF CoreInv

LEMMA StartTakesEffectCore ==
  ASSUME CoreInv, StartTakesEffect
  PROVE  CoreInv'
<1> DEFINE States == {"none", "live", "draining", "errored", "over"}
           stopped == IF slot = 0 THEN rs ELSE [rs EXCEPT ![slot] = "over"]
<1>1. /\ startCmd = "keyring" /\ startCmd' \in {"ok", "err"}
      /\ UNCHANGED <<ts, chord, triggers, replies, events, doomed>>
      /\ \/ /\ slot' = ts.n /\ active' = ts.n /\ rs' = [stopped EXCEPT ![ts.n] = "live"]
         \/ /\ slot' = 0 /\ active' = active /\ rs' = stopped
  BY DEF StartTakesEffect, history
<1>2. /\ slot \in 0..MaxSessions /\ active \in 0..MaxSessions /\ rs \in [Sessions -> States]
      /\ ts.n \in 0..MaxSessions
  BY ConstantsAssumption DEF CoreInv, TypeInv, RustType, Good, Controllers
<1>3. stopped \in [Sessions -> States]
  BY <1>2
<1> HIDE DEF stopped
<1>4. [stopped EXCEPT ![ts.n] = "live"] \in [Sessions -> States]
  BY <1>3
<1>5. RustType'
  BY <1>1, <1>2, <1>3, <1>4, ConstantsAssumption DEF RustType, Sessions
<1>6. events' \in Seq(Events)
  BY <1>1 DEF CoreInv, TypeInv
<1> QED
  BY <1>1, <1>5, <1>6, RustCore

(* What an event adds to those on their way.                                *)
LEMMA EmitIs ==
  ASSUME NEW e \in Sessions, NEW ev \in {"error", "closed"}, events \in Seq(Events), Emit(e, ev)
  PROVE  /\ events' \in Seq(Events)
         /\ active # e => events' = events
         /\ \A i \in DOMAIN events : i \in DOMAIN events' /\ events'[i] = events[i]
         /\ active = e => \E i \in DOMAIN events' : events'[i].ev = ev /\ events'[i].of = e
<1>1. e \in Nat
  BY ConstantsAssumption DEF Sessions
<1> DEFINE x == [ev |-> ev, of |-> e]
<1>2. x \in Events /\ x.ev = ev /\ x.of = e
  BY <1>1 DEF Events
<1>3. events' = IF active = e THEN Append(events, x) ELSE events
  BY DEF Emit
<1> HIDE DEF x
<1>4. CASE active = e
  <2>1. /\ events' = Append(events, x) /\ Len(events) \in Nat
        /\ DOMAIN events' = 1..(Len(events) + 1) /\ DOMAIN events = 1..Len(events)
        /\ events'[Len(events) + 1] = x
        /\ \A i \in 1..Len(events) : events'[i] = events[i]
    BY <1>2, <1>3, <1>4
  <2>2. Len(events) + 1 \in DOMAIN events'
    BY <2>1
  <2>3. \A i \in 1..Len(events) : i \in 1..(Len(events) + 1)
    BY <2>1
  <2>4. events' \in Seq(Events)
    BY <1>2, <2>1
  <2> QED
    BY <1>2, <1>4, <2>1, <2>2, <2>3, <2>4
<1>5. CASE active # e
  BY <1>3, <1>5
<1> QED
  BY <1>4, <1>5

LEMMA SessionCore ==
  ASSUME CoreInv, NEW e \in Sessions,
         SessionErrors(e) \/ SessionCloses(e) \/ DrainGoesSilent(e)
  PROVE  CoreInv'
<1>1. /\ UNCHANGED <<ts, chord, triggers, startCmd, replies, slot, active, doomed>>
      /\ Emit(e, "error") \/ Emit(e, "closed") \/ events' = events
      /\ \E to \in {"errored", "over"} : rs' = [rs EXCEPT ![e] = to]
  BY DEF SessionErrors, SessionCloses, DrainGoesSilent, history
<1>2. events' \in Seq(Events)
  BY <1>1, EmitIs DEF CoreInv, TypeInv
<1>3. RustType'
  BY <1>1 DEF CoreInv, TypeInv, RustType
<1> QED
  BY <1>1, <1>2, <1>3, RustCore DEF CoreInv, TypeInv

LEMMA CoreStep ==
  ASSUME CoreInv, [Next]_vars
  PROVE  CoreInv'
<1>1. CASE UNCHANGED vars
  <2>1. UNCHANGED <<ts, chord, triggers, startCmd, replies, slot, active, rs, events, doomed>>
    BY <1>1 DEF vars, rustVars, history
  <2> QED
    BY <2>1, RustCore DEF CoreInv, TypeInv, RustType
<1>2. CASE User
  BY <1>2, UserCore
<1>3. CASE Rust
  BY <1>3, StartTakesEffectCore, CommandCore, SessionCore DEF Rust
<1>4. CASE Controller
  <2>1. QuietTurns => CoreInv'
    BY QuietTurnsCore
  <2> QED
    BY <1>4, <2>1, PrologueResolvesCore, PrologueRejectsCore, InvokeReturnsCore,
       ReplyArrivesCore, EventArrivesCore, TriggerArrivesCore
       DEF Controller, QuietTurns
<1> QED
  BY <1>1, <1>2, <1>3, <1>4 DEF Next

(* The inductive invariant about the chip and the chord: every reachable    *)
(* state of the controller satisfies it.          *)
THEOREM CoreAlways == Spec => []CoreInv
<1>1. Init => CoreInv
  BY InitCore
<1>2. CoreInv /\ [Next]_vars => CoreInv'
  BY CoreStep
<1> QED
  BY <1>1, <1>2, PTL DEF Spec

(* Types of the controller's state, of Rust's and of what travels.          *)
THEOREM TypeCorrect == Spec => []TypeOK
<1>1. CoreInv => TypeOK
  <2> SUFFICES ASSUME CoreInv  PROVE TypeOK
    OBVIOUS
  <2>1. ts \in Controllers /\ ts.n \in 0..MaxSessions
    BY ConstantsAssumption DEF CoreInv, Good, Controllers, TypeInv
  <2>2. ControllerType
    BY <2>1 DEF ControllerType, CoreInv, TypeInv, Good, Chip, Controllers, Statuses
  <2> QED
    BY <2>2 DEF TypeOK, TravelType, CoreInv, TypeInv
<1> QED
  BY <1>1, CoreAlways, PTL

(* A push-to-talk session records only while its chord is down, or the end   *)
(* of it is on its way.                                                     *)
THEOREM ReleasedChord == Spec => []ReleasedChordStops
<1>1. CoreInv => ReleasedChordStops
  <2> SUFFICES ASSUME CoreInv, chord # "down", triggers = <<>>, ~Unmarked(ts)
               PROVE  /\ ~Starting(ts) => ~(ts.capturing /\ ts.act = "hold")
                      /\ Starting(ts) /\ LiveActivation(ts) = "hold" =>
                           ts.stopReq \/ ts.restart \/ ts.cancelDuring \/ ts.pc = "owed"
                           \/ (ts.pc = "invoke" /\ ~ts.capturing)
    BY DEF ReleasedChordStops
  <2>1. ~Cover
    BY DEF Cover, Ending
  <2>2. ~HoldOpen(ts)
    BY <2>1 DEF CoreInv, KeysFor
  <2>3. Good(ts) /\ ts.pc \in {"none", "prologue", "invoke", "owed"}
    BY DEF CoreInv, Good, Controllers
  <2>4. ~Starting(ts) => ~(ts.capturing /\ ts.act = "hold")
    BY <2>2 DEF HoldOpen, Starting
  <2>5. ASSUME ts.pc = "prologue", LiveActivation(ts) = "hold"
        PROVE  ts.stopReq \/ ts.restart
    <3>1. ~ts.capturing
      BY <2>3, <2>5 DEF Good, Chip, Busy
    <3>2. ~ts.reclass /\ ts.startAct = "hold"
      BY <2>5, <3>1 DEF LiveActivation, Starting
    <3> QED
      BY <2>2, <2>5, <3>2 DEF HoldOpen
  <2>6. ASSUME ts.pc = "invoke", LiveActivation(ts) = "hold", ts.capturing
        PROVE  ts.stopReq \/ ts.restart
    <3>1. ts.cfg # 0
      BY <2>3, <2>6 DEF Good, Chip
    <3>2. ~ts.reclass /\ ts.act = "hold"
      BY <2>6, <3>1 DEF LiveActivation, Starting
    <3> QED
      BY <2>2, <2>6, <3>2 DEF HoldOpen
  <2> QED
    BY <2>3, <2>4, <2>5, <2>6 DEF Starting
<1> QED
  BY <1>1, CoreAlways, PTL

-----------------------------------------------------------------------------
(* The microphone: the window's session against the one Rust holds.         *)

(* A stop of the window's own session may still be rejected, or was.         *)
Rejects(s, rep) ==
  \/ \E i \in DOMAIN s.ipc : s.ipc[i].of = s.n /\ s.ipc[i].next = "stop"
  \/ \E r \in rep : r.of = s.n /\ r.next = "reject"

(* What of the window's own session is on its way.                          *)
Ordered(s) == \E i \in DOMAIN s.ipc : s.ipc[i].of = s.n
Heard(n, ev) == \E i \in DOMAIN ev : ev[i].of = n
Closing(n, ev) == \E i \in DOMAIN ev : ev[i].of = n /\ ev[i].ev = "closed"

(* Nothing is of a session that has not begun.                              *)
AgesFor(s, rep, ev) ==
  /\ \A i \in DOMAIN s.ipc : s.ipc[i].of <= s.n
  /\ \A r \in rep : r.of <= s.n
  /\ \A i \in DOMAIN ev : ev[i].of <= s.n
  /\ slot <= s.n /\ active <= s.n
  /\ \A e \in Sessions : e > s.n => rs[e] = "none"

(* A start on its way finds nothing of its own session before it.            *)
StartFor(s, c, rep, ev) ==
  /\ c # "none" => ~Rejects(s, rep)
  /\ c \in {"keyring", "err"} =>
       /\ ~Ordered(s) /\ ~Heard(s.n, ev) /\ slot # s.n /\ active # s.n
       /\ s.n \in Sessions /\ rs[s.n] = "none"
       /\ s.capturing \/ s.cancelDuring
  /\ c = "err" => slot = 0

(* Past a start, the session Rust holds is the window's, recorded or about    *)
(* to be let go.                                                            *)
SlotFor(s, c) ==
  slot # 0 /\ c # "keyring" =>
    /\ slot = s.n
    /\ s.capturing \/ Hits(s.n, s.ipc) \/ (c = "ok" /\ s.cancelDuring)

(* The session the window records is the one Rust runs, or its end is told.  *)
RecordFor(s, c, rep, ev) ==
  s.capturing =>
    /\ ~Ordered(s) /\ ~Rejects(s, rep)
    /\ c \in {"none", "ok"} =>
         /\ slot = s.n /\ active = s.n
         /\ rs[s.n] \in {"live", "errored"} \/ Closing(s.n, ev)

MicFor(s, c, rep, ev) ==
  StartFor(s, c, rep, ev) /\ SlotFor(s, c) /\ RecordFor(s, c, rep, ev)

(* Every session agrees with Rust but one that something late of an earlier   *)
(* session changed.                                                         *)
Crossed == ts.n \in crossed
Ages    == AgesFor(ts, replies, events)
MicInv  == Ages /\ (Crossed \/ MicFor(ts, startCmd, replies, events))

Answers == {"none", "keyring", "ok", "err"}

(* What is left of a queue of events.                                       *)
From(ev, ev2) == \A i \in DOMAIN ev2 : \E j \in DOMAIN ev : ev2[i] = ev[j]

LEMMA FromItself == ASSUME NEW ev PROVE From(ev, ev)
BY DEF From

(* Commands only join, and only of the window's own session.                *)
LEMMA SendsAges ==
  ASSUME NEW s \in Controllers, NEW t \in Controllers, NEW rep, NEW rep2, NEW ev, NEW ev2,
         AgesFor(s, rep, ev), Sends(s, t), t.n = s.n, rep2 \subseteq rep, From(ev, ev2)
  PROVE  AgesFor(t, rep2, ev2)
<1>1. s.ipc \in Seq(Commands) /\ t.ipc \in Seq(Commands) /\ s.n \in Nat
  BY DEF Controllers
<1>2. ASSUME NEW i \in DOMAIN t.ipc  PROVE t.ipc[i].of <= t.n
  <2>1. CASE i <= Len(s.ipc) /\ t.ipc[i] = s.ipc[i]
    <3>1. i \in DOMAIN s.ipc
      BY <1>1, <1>2, <2>1
    <3> QED
      BY <2>1, <3>1 DEF AgesFor
  <2>2. CASE t.ipc[i].of = s.n
    BY <1>1, <2>2
  <2> QED
    BY <1>2, <2>1, <2>2 DEF Sends
<1>3. \A i \in DOMAIN ev2 : ev2[i].of <= t.n
  BY DEF AgesFor, From
<1> QED
  BY <1>2, <1>3 DEF AgesFor

(* A turn of the controller that leaves Rust alone.                         *)
LEMMA TurnMic ==
  ASSUME NEW s, NEW t, NEW c \in Answers, NEW rep, NEW rep2, NEW ev, NEW ev2,
         Good(s), Turns(s, t), Delivers(s, t), MicFor(s, c, rep, ev),
         rep2 \subseteq rep, c # "none" <=> s.pc = "invoke",
         c \in {"keyring", "err"} => Calm(s, t) /\ ev2 = ev,
         t.capturing => ev2 = ev
  PROVE  MicFor(t, c, rep2, ev2)
<1>1. /\ s \in Controllers /\ t \in Controllers /\ Good(t) /\ Sends(s, t)
      /\ t.n = s.n /\ (s.cancelDuring => t.cancelDuring)
      /\ t.pc = "invoke" <=> s.pc = "invoke"
  BY DEF Good, Turns
<1>2. Hits(s.n, s.ipc) => Hits(s.n, t.ipc)
  BY <1>1, SendsKeep
<1>3. /\ t.capturing => s.capturing /\ t.ipc = s.ipc
      /\ s.capturing /\ ~t.capturing => Hits(s.n, t.ipc) \/ t.cancelDuring
  BY DEF Delivers
<1>4. ASSUME t.cancelDuring  PROVE c \in {"keyring", "ok", "err"}
  BY <1>1, <1>4 DEF Good, Chip, Answers
<1>5. c = "err" => slot = 0
  BY DEF MicFor, StartFor
<1>6. SlotFor(t, c)
  <2> SUFFICES ASSUME slot # 0, c # "keyring"
               PROVE  /\ slot = t.n
                      /\ t.capturing \/ Hits(t.n, t.ipc) \/ (c = "ok" /\ t.cancelDuring)
    BY DEF SlotFor
  <2>1. /\ slot = s.n
        /\ s.capturing \/ Hits(s.n, s.ipc) \/ (c = "ok" /\ s.cancelDuring)
    BY DEF MicFor, SlotFor
  <2>2. t.cancelDuring => c = "ok"
    BY <1>4, <1>5
  <2> QED
    BY <1>1, <1>2, <1>3, <2>1, <2>2
<1>7. RecordFor(t, c, rep2, ev2)
  <2> SUFFICES ASSUME t.capturing
               PROVE  /\ ~Ordered(t) /\ ~Rejects(t, rep2)
                      /\ c \in {"none", "ok"} =>
                           /\ slot = t.n /\ active = t.n
                           /\ rs[t.n] \in {"live", "errored"} \/ Closing(t.n, ev2)
    BY DEF RecordFor
  <2>1. /\ ~Ordered(s) /\ ~Rejects(s, rep)
        /\ c \in {"none", "ok"} =>
             /\ slot = s.n /\ active = s.n
             /\ rs[s.n] \in {"live", "errored"} \/ Closing(s.n, ev)
    BY <1>3 DEF MicFor, RecordFor
  <2>2. ~Ordered(t) /\ ~Rejects(t, rep2)
    BY <1>1, <1>3, <2>1 DEF Rejects, Ordered
  <2> QED
    BY <1>1, <1>3, <2>1, <2>2
<1>8. StartFor(t, c, rep2, ev2)
  <2>1. ASSUME c # "none"  PROVE ~Rejects(t, rep2)
    <3>1. ~Rejects(s, rep) /\ s.pc = "invoke"
      BY <2>1 DEF MicFor, StartFor
    <3>2. s.ipc \in Seq(Commands) /\ t.ipc \in Seq(Commands)
      BY <1>1 DEF Controllers
    <3>3. ASSUME NEW i \in DOMAIN t.ipc, t.ipc[i].of = t.n, t.ipc[i].next = "stop"
          PROVE  FALSE
      <4>1. i <= Len(s.ipc) /\ t.ipc[i] = s.ipc[i]
        BY <1>1, <3>1, <3>3 DEF Sends
      <4>2. i \in DOMAIN s.ipc
        BY <3>2, <4>1
      <4> QED
        BY <1>1, <3>1, <3>3, <4>1, <4>2 DEF Rejects
    <3> QED
      BY <1>1, <3>1, <3>3 DEF Rejects
  <2>2. ASSUME c \in {"keyring", "err"}
        PROVE  /\ ~Ordered(t) /\ ~Heard(t.n, ev2) /\ slot # t.n /\ active # t.n
               /\ t.n \in Sessions /\ rs[t.n] = "none"
               /\ t.capturing \/ t.cancelDuring
    <3>1. t.ipc = s.ipc /\ ev2 = ev /\ (s.capturing \/ s.cancelDuring => t.capturing \/ t.cancelDuring)
      BY <2>2 DEF Calm
    <3> QED
      BY <1>1, <2>2, <3>1 DEF MicFor, StartFor, Ordered
  <2> QED
    BY <1>5, <2>1, <2>2 DEF StartFor
<1> QED
  BY <1>6, <1>7, <1>8 DEF MicFor

(* The state after, with Rust's side as it was.                             *)
LEMMA AgesKept ==
  ASSUME AgesFor(ts', replies', events'), UNCHANGED <<slot, active, rs>>
  PROVE  Ages'
BY DEF Ages, AgesFor

LEMMA MicKept ==
  ASSUME AgesFor(ts', replies', events'), UNCHANGED <<slot, active, rs>>,
         Crossed' \/ MicFor(ts', startCmd', replies', events')
  PROVE  MicInv'
<1>1. Ages'
  BY AgesKept
<1>2. ASSUME MicFor(ts', startCmd', replies', events')
      PROVE  MicFor(ts, startCmd, replies, events)'
  <2>1. StartFor(ts, startCmd, replies, events)'
    BY <1>2 DEF MicFor, StartFor, Rejects, Ordered, Heard
  <2>2. SlotFor(ts, startCmd)'
    BY <1>2 DEF MicFor, SlotFor, Hits
  <2>3. RecordFor(ts, startCmd, replies, events)'
    BY <1>2 DEF MicFor, RecordFor, Rejects, Ordered, Closing
  <2> QED
    BY <2>1, <2>2, <2>3 DEF MicFor
<1> QED
  BY <1>1, <1>2 DEF MicInv

(* A turn of the session's own, or one that something late brought on.       *)
LEMMA WorksMic ==
  ASSUME CoreInv, MicInv, Turns(ts, ts'), crossed \subseteq crossed',
         replies' \subseteq replies, From(events, events'),
         UNCHANGED <<startCmd, slot, active, rs>>,
         \/ ts.n \in crossed'
         \/ /\ Delivers(ts, ts')
            /\ startCmd \in {"keyring", "err"} => Calm(ts, ts') /\ events' = events
            /\ ts'.capturing => events' = events
  PROVE  MicInv'
<1>1. /\ Good(ts) /\ startCmd \in Answers /\ (startCmd # "none" <=> ts.pc = "invoke")
      /\ AgesFor(ts, replies, events)
      /\ ts.n \in crossed \/ MicFor(ts, startCmd, replies, events)
      /\ ts \in Controllers /\ ts' \in Controllers /\ Sends(ts, ts') /\ ts'.n = ts.n
  BY DEF CoreInv, TypeInv, MicInv, Ages, Crossed, Answers, Good, Turns
<1> DEFINE t == ts'
<1>2. AgesFor(ts', replies', events')
  BY <1>1, SendsAges
<1>3. CASE ts.n \in crossed'
  BY <1>1, <1>2, <1>3, MicKept DEF Crossed
<1>4. CASE ts.n \notin crossed'
  <2>1. MicFor(ts, startCmd, replies, events)
    BY <1>1, <1>4
  <2>2. MicFor(ts', startCmd', replies', events')
    BY <1>1, <1>4, <2>1, TurnMic
  <2> QED
    BY <1>2, <2>2, MicKept
<1> QED
  BY <1>3, <1>4

LEMMA InitMic ==
  ASSUME Init
  PROVE  MicInv
<1>1. PICK via \in {"stream", "batch"} : ts = Idle(via)
  BY ConstantsAssumption DEF Init
<1>2. ts.capturing = FALSE /\ ts.n = 0 /\ ts.ipc = <<>>
  BY <1>1 DEF Idle
<1>3. \A e \in Sessions : rs[e] = "none"
  BY DEF Init
<1>4. AgesFor(ts, replies, events)
  BY <1>2, <1>3 DEF Init, AgesFor
<1>5. MicFor(ts, startCmd, replies, events)
  BY <1>2 DEF Init, MicFor, StartFor, SlotFor, RecordFor
<1> QED
  BY <1>4, <1>5 DEF MicInv, Ages

-----------------------------------------------------------------------------
(* The microphone, action by action.                                       *)

LEMMA QuietTurnsMic ==
  ASSUME CoreInv, MicInv, QuietTurns
  PROVE  MicInv'
<1>1. /\ Turns(ts, ts') /\ Delivers(ts, ts')
      /\ Calm(ts, ts') \/ (PhraseQueued /\ Busy(ts))
      /\ UNCHANGED <<startCmd, replies, slot, active, rs, events, crossed>>
  BY QuietTurnsWork DEF CoreInv
<1>2. Crossed \/ (startCmd \in {"keyring", "err"} => ~PhraseQueued)
  BY DEF MicInv, MicFor, StartFor, PhraseQueued, CoreInv, Good, Chip
<1> QED
  BY <1>1, <1>2, WorksMic, FromItself DEF Crossed

LEMMA TriggerArrivesMic ==
  ASSUME CoreInv, MicInv, TriggerArrives
  PROVE  MicInv'
<1>1. /\ Good(ts) /\ UNCHANGED <<startCmd, replies, slot, active, rs, events, crossed>>
  BY DEF TriggerArrives, CoreInv, rustVars, history
<1>2. Works(ts, ts')
  BY <1>1, DictateStartWorks, StopOrCancelWorks, DictateToggleWorks, DictateReclassifyWorks
     DEF TriggerArrives
<1> QED
  BY <1>1, <1>2, WorksMic, FromItself DEF Works

LEMMA UserMic ==
  ASSUME CoreInv, MicInv, User
  PROVE  MicInv'
<1>1. UNCHANGED <<startCmd, replies, slot, active, rs, events, crossed>>
  BY DEF User, PressRoot, PressFamily, CompleteChord, PressAgain, ReleaseRoot,
         ReleaseHanded, HomeButton, Resume, Key, rustVars, history
<1>2. ts' = ts \/ ts' = HomeToggle(ts) \/ ts' = SystemResumed(ts)
  BY DEF User, PressRoot, PressFamily, CompleteChord, PressAgain, ReleaseRoot,
         ReleaseHanded, HomeButton, Resume, Key
<1>3. Good(ts) /\ ts \in Controllers
  BY DEF CoreInv, Good
<1>4. Works(ts, ts)
  BY <1>3, PlainWorks DEF SameMic, Good, Presses
<1>5. Works(ts, ts')
  BY <1>2, <1>3, <1>4, HomeToggleWorks, SystemResumedWorks
<1> QED
  BY <1>1, <1>5, WorksMic, FromItself DEF Works

(* The oldest event is taken: the others are as they were.                  *)
LEMMA EventGone ==
  ASSUME events \in Seq(Events), events # <<>>, events' = Tail(events)
  PROVE  /\ From(events, events')
         /\ Head(events) = events[1] /\ 1 \in DOMAIN events
         /\ \A j \in DOMAIN events : j # 1 =>
              j - 1 \in DOMAIN events' /\ events'[j - 1] = events[j]
<1>1. /\ Len(events) \in Nat \ {0} /\ DOMAIN events = 1..Len(events)
      /\ DOMAIN events' = 1..(Len(events) - 1)
      /\ \A i \in 1..(Len(events) - 1) : events'[i] = events[i + 1]
      /\ Head(events) = events[1]
  OBVIOUS
<1>2. \A i \in 1..(Len(events) - 1) : i + 1 \in DOMAIN events
  BY <1>1
<1>3. From(events, events')
  BY <1>1, <1>2 DEF From
<1>4. ASSUME NEW j \in DOMAIN events, j # 1
      PROVE  j - 1 \in DOMAIN events' /\ events'[j - 1] = events[j]
  <2>1. j - 1 \in 1..(Len(events) - 1) /\ (j - 1) + 1 = j
    BY <1>1, <1>4
  <2> QED
    BY <1>1, <2>1
<1> QED
  BY <1>1, <1>3, <1>4

LEMMA EventArrivesMic ==
  ASSUME CoreInv, MicInv, EventArrives
  PROVE  MicInv'
<1>1. /\ Good(ts) /\ ts \in Controllers /\ events # <<>> /\ events' = Tail(events)
      /\ events \in Seq(Events) /\ ts.n \in Nat
      /\ crossed' = IF Head(events).of < ts.n /\ ts' # ts THEN crossed \cup {ts.n}
                    ELSE crossed
      /\ UNCHANGED <<startCmd, replies, slot, active, rs>>
  BY DEF EventArrives, Crosses, CoreInv, TypeInv, Good, Controllers, rustVars
<1> DEFINE h == Head(events).of
<1>2. /\ From(events, events') /\ h = events[1].of /\ 1 \in DOMAIN events
      /\ \A j \in DOMAIN events : j # 1 =>
           j - 1 \in DOMAIN events' /\ events'[j - 1] = events[j]
  BY <1>1, EventGone
<1>3. h <= ts.n /\ h \in Nat
  <2>1. events[1] \in Events
    BY <1>1, <1>2
  <2>2. events[1].of \in Nat
    BY <2>1 DEF Events
  <2>3. events[1].of <= ts.n
    BY <1>2 DEF MicInv, Ages, AgesFor
  <2> QED
    BY <1>2, <2>2, <2>3
<1>4. crossed \subseteq crossed' /\ (h < ts.n /\ ts' # ts => ts.n \in crossed')
  BY <1>1
<1>5. Turns(ts, ts') /\ ((Delivers(ts, ts') /\ ~ts'.capturing) \/ ts' = ts)
  <2>1. CASE ts' = Errored(ts) /\ Busy(ts)
    <3>1. ts' = Abandon(ts)
      BY <2>1 DEF Errored
    <3>2. Turns(ts, Abandon(ts)) /\ Delivers(ts, Abandon(ts))
      BY <1>1, <2>1, AbandonWorks
    <3>3. Abandon(ts).capturing = FALSE
      BY <1>1, AbandonIs
    <3> QED
      BY <3>1, <3>2, <3>3
  <2>2. CASE ts' = Errored(ts) /\ ~Busy(ts)
    <3>1. ts' = ts
      BY <2>2 DEF Errored
    <3>2. Works(ts, ts)
      BY <1>1, PlainWorks DEF SameMic, Good, Presses
    <3> QED
      BY <3>1, <3>2 DEF Works
  <2>3. ASSUME NEW tail \in {"none", "insert", "quiet"}, NEW short \in BOOLEAN,
               tail # "none" => startCmd = "none",
               ts' = Closed(ts, tail, short)
        PROVE  Turns(ts, ts') /\ Delivers(ts, ts') /\ ~ts'.capturing
    <3>1. tail # "none" => ts.pc # "invoke"
      BY <2>3 DEF CoreInv, TypeInv
    <3> QED
      BY <1>1, <2>3, <3>1, ClosedWorks
  <2> QED
    BY <2>1, <2>2, <2>3 DEF EventArrives
<1> HIDE DEF h
<1>6. CASE ts.n \in crossed'
  BY <1>1, <1>2, <1>4, <1>5, <1>6, WorksMic
<1>7. CASE ts.n \notin crossed' /\ h < ts.n
  <2>1. ts' = ts /\ MicFor(ts, startCmd, replies, events)
    BY <1>4, <1>7 DEF MicInv, Crossed
  <2>2. Heard(ts.n, events') => Heard(ts.n, events)
    BY <1>2 DEF Heard, From
  <2>3. Closing(ts.n, events) => Closing(ts.n, events')
    <3> SUFFICES ASSUME NEW j \in DOMAIN events, events[j].of = ts.n, events[j].ev = "closed"
                 PROVE  Closing(ts.n, events')
      BY DEF Closing
    <3>1. j # 1
      BY <1>1, <1>2, <1>3, <1>7
    <3> QED
      BY <1>2, <3>1 DEF Closing
  <2>4. MicFor(ts, startCmd, replies, events')
    BY <2>1, <2>2, <2>3 DEF MicFor, StartFor, RecordFor
  <2>5. Sends(ts, ts) /\ AgesFor(ts, replies, events)
    BY <1>1, SendsNothing DEF MicInv, Ages
  <2>6. AgesFor(ts, replies, events')
    BY <1>1, <1>2, <2>5, SendsAges
  <2> QED
    BY <1>1, <2>1, <2>4, <2>6, MicKept
<1>8. CASE ts.n \notin crossed' /\ h = ts.n
  <2>1. MicFor(ts, startCmd, replies, events) /\ Heard(ts.n, events)
    BY <1>2, <1>4, <1>8 DEF MicInv, Crossed, Heard
  <2>2. startCmd \notin {"keyring", "err"}
    BY <2>1 DEF MicFor, StartFor
  <2>3. CASE Delivers(ts, ts') /\ ~ts'.capturing
    BY <1>1, <1>2, <1>4, <1>5, <2>2, <2>3, WorksMic
  <2>4. CASE ts' = ts /\ ~ts.capturing
    <3>1. Works(ts, ts)
      BY <1>1, PlainWorks DEF SameMic, Good, Presses
    <3> QED
      BY <1>1, <1>2, <1>4, <1>5, <2>2, <2>4, <3>1, WorksMic DEF Works
  <2>5. ts' = ts => ~ts.capturing \/ (Delivers(ts, ts') /\ ~ts'.capturing)
    <3> SUFFICES ASSUME ts' = ts, ts.capturing  PROVE Delivers(ts, ts') /\ ~ts'.capturing
      OBVIOUS
    <3>1. Busy(ts) /\ ts.status \notin {"error", "idle"}
      BY <1>1 DEF Good, Chip, Busy
    <3>2. ts' # Errored(ts)
      BY <1>1, <3>1, AbandonIs DEF Errored
    <3> QED
      BY <1>1, <3>2, ClosedWorks DEF EventArrives, CoreInv, TypeInv
  <2> QED
    BY <1>5, <2>3, <2>4, <2>5
<1> QED
  BY <1>1, <1>3, <1>6, <1>7, <1>8

(* What a start that is left, or answered, keeps of the microphone.          *)
LEMMA LeftMic ==
  ASSUME NEW s \in Controllers, NEW c \in Answers, NEW rep, NEW ev,
         MicFor(s, c, rep, ev), ~s.cancelDuring, c \in {"none", "ok"}
  PROVE  MicFor(Left(s), "none", rep, ev)
<1>1. /\ Left(s).ipc = s.ipc /\ Left(s).n = s.n /\ SameMic(s, Left(s))
      /\ Left(s).cancelDuring = s.cancelDuring
  BY LeftIs
<1> DEFINE t == Left(s)
<1>2. t.ipc = s.ipc /\ t.n = s.n /\ t.capturing = s.capturing
  BY <1>1 DEF SameMic
<1> HIDE DEF t
<1>3. StartFor(t, "none", rep, ev) /\ SlotFor(t, "none")
  BY <1>2 DEF MicFor, StartFor, SlotFor
<1>4. RecordFor(t, "none", rep, ev)
  BY <1>2 DEF MicFor, RecordFor, Rejects, Ordered
<1> QED
  BY <1>3, <1>4 DEF MicFor, t

LEMMA LeftAges ==
  ASSUME NEW s \in Controllers, NEW rep, NEW ev, AgesFor(s, rep, ev)
  PROVE  Left(s) \in Controllers /\ Left(s).n = s.n /\ AgesFor(Left(s), rep, ev)
BY LeftIs DEF AgesFor

(* A turn that ends the start: the session's own.                           *)
LEMMA LeavesMic ==
  ASSUME CoreInv, MicInv, NEW t, ts' = t, ~ts.cancelDuring, startCmd \in {"none", "ok"},
         startCmd' = "none", Good(Left(ts)), Works(Left(ts), t),
         replies' \subseteq replies, UNCHANGED <<slot, active, rs, events, crossed>>
  PROVE  MicInv'
<1> DEFINE u == Left(ts)
<1>1. /\ ts \in Controllers /\ AgesFor(ts, replies, events) /\ startCmd \in Answers
      /\ ts.n \in crossed \/ MicFor(ts, startCmd, replies, events)
      /\ "none" \in Answers
  BY DEF CoreInv, Good, MicInv, Ages, Crossed, Answers
<1>2. u \in Controllers /\ u.n = ts.n /\ AgesFor(u, replies, events) /\ u.pc = "none"
  BY <1>1, LeftAges, LeftIs
<1>3. Turns(u, t) /\ Delivers(u, t) /\ Sends(u, t) /\ t \in Controllers /\ t.n = ts.n
  BY <1>2 DEF Works, Turns, Good
<1>4. ts.n \notin crossed => MicFor(u, "none", replies, events)
  BY <1>1, LeftMic
<1>5. Good(u)
  OBVIOUS
<1> HIDE DEF u
<1>6. AgesFor(t, replies', events)
  BY <1>2, <1>3, SendsAges, FromItself
<1>7. ts.n \notin crossed => MicFor(t, "none", replies', events)
  BY <1>1, <1>2, <1>3, <1>4, <1>5, TurnMic
<1> QED
  BY <1>3, <1>6, <1>7, MicKept DEF Crossed

LEMMA ReplyArrivesMic ==
  ASSUME CoreInv, MicInv, ReplyArrives
  PROVE  MicInv'
<1>1. PICK r \in replies :
        /\ replies' = replies \ {r}
        /\ \/ r.next = "owed" /\ ts' = Finally(ts)
           \/ r.next = "restart" /\ ts' = DictateToggle(ts)
           \/ r.next = "recover" /\ ts' = IF Starting(ts) \/ ts.cfg # 0 \/ Busy(ts)
                                          THEN ts ELSE FlashError(ts)
           \/ r.next = "reject" /\ ts' = StopRejected(ts)
        /\ IF r.next = "reject" THEN Crosses(r.of) ELSE UNCHANGED crossed
        /\ UNCHANGED <<startCmd, rustVars, events>>
  BY DEF ReplyArrives
<1>2. /\ Good(ts) /\ ts \in Controllers /\ replies' \subseteq replies /\ ts.n \in Nat
      /\ UNCHANGED <<startCmd, slot, active, rs, events>>
      /\ crossed \subseteq crossed' /\ From(events, events')
      /\ r \in Replies
  BY <1>1, FromItself DEF CoreInv, TypeInv, Good, Controllers, rustVars, Crosses
<1>3. ASSUME Works(ts, ts')
      PROVE  MicInv'
  BY <1>2, <1>3, WorksMic DEF Works
<1>4. CASE r.next = "owed" /\ ts' = Finally(ts)
  <2>1. ts.pc = "owed"
    BY <1>4 DEF CoreInv, OwedFor
  <2>2. ~ts.cancelDuring /\ startCmd = "none" /\ UNCHANGED crossed
    BY <1>1, <1>2, <1>4, <2>1 DEF Good, Chip, CoreInv, TypeInv
  <2>3. Good(Left(ts)) /\ Works(Left(ts), Finally(ts))
    BY <1>2, <2>1, <2>2, LeftGood, OwedReturnsWorks
  <2> QED
    BY <1>2, <1>4, <2>2, <2>3, LeavesMic
<1>5. CASE r.next = "restart" /\ ts' = DictateToggle(ts)
  BY <1>2, <1>3, <1>5, DictateToggleWorks
<1>6. CASE /\ r.next = "recover"
           /\ ts' = IF Starting(ts) \/ ts.cfg # 0 \/ Busy(ts) THEN ts ELSE FlashError(ts)
  <2>1. Works(ts, ts)
    BY <1>2, PlainWorks DEF SameMic, Good, Presses
  <2>2. ~Busy(ts) => Works(ts, FlashError(ts))
    BY <1>2, FlashWorks
  <2> QED
    BY <1>3, <1>6, <2>1, <2>2
<1>7. CASE r.next = "reject" /\ ts' = StopRejected(ts)
  <2>1. Turns(ts, ts') /\ (~ts.capturing => Delivers(ts, ts'))
    BY <1>2, <1>7, StopRejectedWorks
  <2>2. r.of <= ts.n /\ r.of \in Nat
    BY <1>1, <1>2 DEF MicInv, Ages, AgesFor, Replies
  <2>3. CASE ts' = ts
    BY <1>2, <1>3, <2>3, PlainWorks DEF SameMic, Good, Presses
  <2>4. CASE ts' # ts /\ r.of < ts.n
    <3>1. ts.n \in crossed'
      BY <1>1, <1>7, <2>4 DEF Crosses
    <3> QED
      BY <1>2, <2>1, <3>1, WorksMic
  <2>5. CASE r.of = ts.n
    <3>1. ts.n \in crossed \/ (startCmd = "none" /\ ~ts.capturing)
      BY <1>7, <2>5 DEF MicInv, Crossed, MicFor, StartFor, RecordFor, Rejects
    <3>2. ts'.capturing = FALSE
      BY <1>2, <1>7, StopRejectedIs
    <3> QED
      BY <1>2, <2>1, <3>1, <3>2, WorksMic
  <2> QED
    BY <1>2, <2>2, <2>3, <2>4, <2>5
<1> QED
  BY <1>1, <1>4, <1>5, <1>6, <1>7

(* The new session: nothing before it is its own.                           *)
LEMMA PrologueResolvesMic ==
  ASSUME CoreInv, MicInv, PrologueResolves
  PROVE  MicInv'
<1> DEFINE t == SessionUp(ts)
<1>1. /\ Good(ts) /\ ts \in Controllers /\ ts.pc = "prologue" /\ ts.check = "off" /\ ts' = t
      /\ ts.n < MaxSessions /\ startCmd' = "keyring" /\ ts.n \in Nat
      /\ UNCHANGED <<replies, slot, active, rs, events>>
  BY DEF PrologueResolves, CoreInv, Good, Controllers, rustVars, history
<1>2. Good(t) /\ t.ipc = ts.ipc /\ t.n = ts.n + 1 /\ t.capturing
  BY <1>1, SessionUpWorks
<1> HIDE DEF t
<1>3. /\ t.n \in Sessions /\ t.n > ts.n /\ t.n \in Nat
      /\ \A e \in Sessions : e > t.n => e > ts.n
  BY <1>1, <1>2, ConstantsAssumption DEF Sessions
<1>4. /\ \A i \in DOMAIN ts.ipc : ts.ipc[i].of <= ts.n
      /\ \A r \in replies : r.of <= ts.n
      /\ \A i \in DOMAIN events : events[i].of <= ts.n
      /\ slot <= ts.n /\ active <= ts.n
      /\ \A e \in Sessions : e > ts.n => rs[e] = "none"
  BY DEF MicInv, Ages, AgesFor
<1>5. /\ \A i \in DOMAIN ts.ipc : ts.ipc[i].of \in Nat
      /\ \A r \in replies : r.of \in Nat
      /\ \A i \in DOMAIN events : events[i].of \in Nat
      /\ slot \in Nat /\ active \in Nat
  <2>1. ts.ipc \in Seq(Commands)
    BY <1>1 DEF Controllers
  <2>2. events \in Seq(Events) /\ replies \subseteq Replies
    BY DEF CoreInv, TypeInv
  <2>3. ASSUME NEW i \in DOMAIN ts.ipc
        PROVE  ts.ipc[i].of \in Nat
    <3>1. ts.ipc[i] \in Commands
      BY <2>1
    <3> QED
      BY <3>1 DEF Commands
  <2>4. \A r \in replies : r.of \in Nat
    BY <2>2 DEF Replies
  <2>5. ASSUME NEW i \in DOMAIN events
        PROVE  events[i].of \in Nat
    <3>1. events[i] \in Events
      BY <2>2
    <3> QED
      BY <3>1 DEF Events
  <2>6. slot \in Nat /\ active \in Nat
    BY ConstantsAssumption DEF CoreInv, TypeInv, RustType
  <2> QED
    BY <2>3, <2>4, <2>5, <2>6
<1>6. AgesFor(t, replies, events)
  BY <1>1, <1>2, <1>3, <1>4, <1>5 DEF AgesFor
<1>7. ~Ordered(t) /\ ~Rejects(t, replies) /\ ~Heard(t.n, events)
  BY <1>1, <1>2, <1>4, <1>5 DEF Ordered, Rejects, Heard
<1>8. StartFor(t, "keyring", replies, events)
  BY <1>1, <1>2, <1>3, <1>4, <1>5, <1>7 DEF StartFor
<1>9. RecordFor(t, "keyring", replies, events) /\ SlotFor(t, "keyring")
  BY <1>7 DEF RecordFor, SlotFor
<1>10. MicFor(t, "keyring", replies, events)
  BY <1>8, <1>9 DEF MicFor
<1> QED
  BY <1>1, <1>6, <1>10, MicKept

LEMMA PrologueRejectsMic ==
  ASSUME CoreInv, MicInv, PrologueRejects
  PROVE  MicInv'
<1>1. /\ Good(ts) /\ ts.pc = "prologue" /\ ts' = Finally(FlashError(ts))
      /\ UNCHANGED <<startCmd, replies, slot, active, rs, events, crossed>>
  BY DEF PrologueRejects, CoreInv, rustVars
<1>2. Works(ts, Finally(FlashError(ts)))
  BY <1>1, PrologueRejectsWorks
<1> QED
  BY <1>1, <1>2, WorksMic, FromItself DEF Works

LEMMA InvokeReturnsMic ==
  ASSUME CoreInv, MicInv, InvokeReturns
  PROVE  MicInv'
<1>1. /\ Good(ts) /\ ts \in Controllers /\ ts.pc = "invoke" /\ startCmd' = "none"
      /\ startCmd \in {"ok", "err"} /\ startCmd \in Answers
      /\ UNCHANGED <<replies, slot, active, rs, events, crossed>>
      /\ AgesFor(ts, replies, events)
      /\ ts.n \in crossed \/ MicFor(ts, startCmd, replies, events)
  BY DEF InvokeReturns, CoreInv, TypeInv, Good, rustVars, history, Answers,
         MicInv, Ages, Crossed
<1>2. CASE startCmd = "ok" /\ ~ts.cancelDuring
  <2>1. Good(Left(ts)) /\ Works(Left(ts), InvokeResolved(ts))
    BY <1>1, <1>2, LeftGood, InvokeResolvedWorks
  <2>2. ts' = InvokeResolved(ts)
    BY <1>2 DEF InvokeReturns
  <2> QED
    BY <1>1, <1>2, <2>1, <2>2, LeavesMic
<1>3. CASE startCmd = "ok" /\ ts.cancelDuring
  <2> DEFINE t == InvokeResolved(ts)
  <2>1. /\ t.n = ts.n /\ ~t.capturing /\ t \in Controllers
        /\ \E o \in Commands : /\ t.ipc = Append(ts.ipc, o) /\ o.next = "owed"
                              /\ o.cmd = "cancel" /\ o.hits /\ o.of = ts.n
    BY <1>1, <1>3, InvokeCancelledIs DEF Good
  <2>2. ts' = t
    BY <1>3 DEF InvokeReturns
  <2> HIDE DEF t
  <2>3. PICK o \in Commands : /\ t.ipc = Append(ts.ipc, o) /\ o.cmd = "cancel"
                              /\ o.hits /\ o.of = ts.n
    BY <2>1
  <2>4. ts.ipc \in Seq(Commands) /\ ts.n \in Nat
    BY <1>1 DEF Controllers
  <2>5. Len(ts.ipc) + 1 \in DOMAIN t.ipc /\ t.ipc[Len(ts.ipc) + 1] = o
    BY <2>3, <2>4
  <2>6. Hits(t.n, t.ipc)
    BY <2>1, <2>3, <2>5 DEF Hits
  <2>7. ASSUME NEW i \in DOMAIN t.ipc  PROVE t.ipc[i].of <= t.n
    <3>1. i = Len(ts.ipc) + 1 \/ (i \in DOMAIN ts.ipc /\ t.ipc[i] = ts.ipc[i])
      BY <2>3, <2>4, <2>7
    <3> QED
      BY <1>1, <2>1, <2>3, <2>4, <2>5, <3>1 DEF AgesFor
  <2>8. AgesFor(t, replies, events)
    BY <1>1, <2>1, <2>7 DEF AgesFor
  <2>9. ts.n \in crossed \/ MicFor(t, "none", replies, events)
    BY <1>1, <1>3, <2>1, <2>6 DEF MicFor, StartFor, SlotFor, RecordFor
  <2> QED
    BY <1>1, <2>1, <2>2, <2>8, <2>9, MicKept DEF Crossed
<1>4. CASE startCmd = "err"
  <2> DEFINE t == InvokeRejected(ts)
  <2>1. /\ t.n = ts.n /\ ~t.capturing /\ t \in Controllers
        /\ \E u \in Controllers : u.ipc = ts.ipc /\ u.n = ts.n /\ Sends(u, t)
    BY <1>1, InvokeRejectedWorks DEF Good
  <2>2. ts' = t
    BY <1>4 DEF InvokeReturns
  <2> HIDE DEF t
  <2>3. PICK u \in Controllers : u.ipc = ts.ipc /\ u.n = ts.n /\ Sends(u, t)
    BY <2>1
  <2>4. AgesFor(u, replies, events)
    BY <1>1, <2>3 DEF AgesFor
  <2>5. AgesFor(t, replies, events)
    BY <2>1, <2>3, <2>4, SendsAges, FromItself
  <2>6. ts.n \in crossed \/ MicFor(t, "none", replies, events)
    BY <1>1, <1>4, <2>1 DEF MicFor, StartFor, SlotFor, RecordFor
  <2> QED
    BY <1>1, <2>1, <2>2, <2>5, <2>6, MicKept DEF Crossed
<1> QED
  BY <1>1, <1>2, <1>3, <1>4

(* The start takes the slot over from whatever session was left in it.       *)
LEMMA StartTakesEffectMic ==
  ASSUME CoreInv, MicInv, StartTakesEffect
  PROVE  MicInv'
<1> DEFINE stopped == IF slot = 0 THEN rs ELSE [rs EXCEPT ![slot] = "over"]
<1>1. /\ startCmd = "keyring" /\ UNCHANGED <<ts, replies, events, crossed>>
      /\ Good(ts) /\ rs \in [Sessions -> {"none", "live", "draining", "errored", "over"}]
      /\ ts.n \in Nat /\ slot \in 0..MaxSessions /\ active \in 0..MaxSessions
      /\ AgesFor(ts, replies, events)
      /\ ts.n \in crossed \/ MicFor(ts, startCmd, replies, events)
  BY DEF StartTakesEffect, history, CoreInv, TypeInv, RustType, Good, Controllers,
         MicInv, Ages, Crossed
<1>2. \/ /\ startCmd' = "ok" /\ slot' = ts.n /\ active' = ts.n
         /\ rs' = [stopped EXCEPT ![ts.n] = "live"]
      \/ /\ startCmd' = "err" /\ slot' = 0 /\ rs' = stopped /\ active' = active
  BY DEF StartTakesEffect
<1>3. /\ stopped \in [Sessions -> {"none", "live", "draining", "errored", "over"}]
      /\ \A e \in Sessions : e # slot => stopped[e] = rs[e]
  BY <1>1
<1> HIDE DEF stopped
<1>4. \A e \in Sessions : e > ts.n => e # slot /\ e # ts.n
  BY <1>1, ConstantsAssumption DEF AgesFor, Sessions
<1>5. \A e \in Sessions : e > ts.n => rs'[e] = "none"
  BY <1>1, <1>2, <1>3, <1>4 DEF AgesFor
<1>6. Ages'
  BY <1>1, <1>2, <1>5, ConstantsAssumption DEF AgesFor, Ages
<1>7. ASSUME MicFor(ts, startCmd, replies, events)
      PROVE  MicFor(ts, startCmd, replies, events)'
  <2>1. /\ ~Ordered(ts) /\ ~Heard(ts.n, events) /\ active # ts.n
        /\ ts.n \in Sessions /\ rs[ts.n] = "none" /\ slot # ts.n
        /\ ts.capturing \/ ts.cancelDuring
        /\ ~Rejects(ts, replies)
    BY <1>1, <1>7 DEF MicFor, StartFor
  <2>2. stopped[ts.n] = "none"
    BY <1>3, <2>1
  <2>3. CASE /\ startCmd' = "ok" /\ slot' = ts.n /\ active' = ts.n
             /\ rs' = [stopped EXCEPT ![ts.n] = "live"]
    <3>1. rs'[ts.n] = "live"
      BY <1>3, <2>1, <2>3
    <3>2. ~Rejects(ts, replies)' /\ ~Ordered(ts)'
      BY <1>1, <2>1 DEF Rejects, Ordered
    <3> QED
      BY <1>1, <2>1, <2>3, <3>1, <3>2 DEF MicFor, StartFor, SlotFor, RecordFor
  <2>4. CASE startCmd' = "err" /\ slot' = 0 /\ rs' = stopped /\ active' = active
    <3>1. ~Rejects(ts, replies)' /\ ~Ordered(ts)' /\ ~Heard(ts.n, events)'
      BY <1>1, <2>1 DEF Rejects, Ordered, Heard
    <3>2. ts.n # 0
      BY <2>1, ConstantsAssumption DEF Sessions
    <3> QED
      BY <1>1, <2>1, <2>2, <2>4, <3>1, <3>2 DEF MicFor, StartFor, SlotFor, RecordFor
  <2> QED
    BY <1>2, <2>3, <2>4
<1> QED
  BY <1>1, <1>6, <1>7 DEF MicInv, Crossed

(* A command that frees the slot.                                           *)
Frees(c) == c.hits /\ c.cmd \in {"stop", "cancel", "release"}

(* What the command taken does to the slot and to who may emit.              *)
LEMMA CommandFreesIs ==
  ASSUME CoreInv, CommandTakesEffect
  PROVE  \E i \in DOMAIN ts.ipc :
           LET c == ts.ipc[i] IN
           /\ c \in Commands /\ ts' = [ts EXCEPT !.ipc = RemoveAt(ts.ipc, i)]
           /\ IF Frees(c) THEN slot' = 0 ELSE slot' = slot /\ rs' = rs
           /\ \A e \in Sessions : rs'[e] = rs[e] \/ e = slot
           /\ active' = active \/ (active' = 0 /\ c.cmd # "stop")
           /\ crossed' = crossed \cup Overtakes(c)
           /\ \A r \in replies' : \/ r \in replies
                                  \/ r.of = c.of /\ (r.next = "reject" => c.next = "stop")
           /\ UNCHANGED <<startCmd, events>>
<1>1. PICK i \in DOMAIN ts.ipc :
        LET c == ts.ipc[i] IN
        /\ ts' = [ts EXCEPT !.ipc = RemoveAt(ts.ipc, i)]
        /\ crossed' = crossed \cup Overtakes(c)
        /\ \/ /\ c.cmd = "stop"
              /\ IF c.hits THEN Released("draining") ELSE UNCHANGED <<slot, rs>>
              /\ UNCHANGED active
              /\ \/ UNCHANGED replies
                 \/ /\ c.next = "stop" /\ replies' = replies \cup {[next |-> "reject", of |-> c.of]}
           \/ /\ c.cmd \in {"cancel", "release"}
              /\ IF c.hits THEN Released("over") ELSE UNCHANGED <<slot, rs>>
              /\ active' = 0
              /\ replies' = replies \cup
                   (IF c.next = "none" THEN {} ELSE {[next |-> c.next, of |-> c.of]})
           \/ /\ c.cmd = "retire" /\ active' = 0
              /\ UNCHANGED <<slot, rs, replies>>
        /\ UNCHANGED <<startCmd, events>>
  BY DEF CommandTakesEffect
<1> DEFINE c == ts.ipc[i]
           b == [next |-> "reject", of |-> c.of]
           d == [next |-> c.next, of |-> c.of]
<1>2. ts.ipc \in Seq(Commands)
  BY DEF CoreInv, Good, Controllers
<1>3. c \in Commands
  BY <1>2
<1>4. d.next = c.next /\ c.next # "reject" /\ d.of = c.of /\ b.of = c.of
  BY <1>3 DEF Commands
<1>5. rs \in [Sessions -> {"none", "live", "draining", "errored", "over"}]
  BY DEF CoreInv, TypeInv, RustType
<1>6. ASSUME NEW to \in {"draining", "over"}, Released(to)
      PROVE  slot' = 0 /\ \A e \in Sessions : rs'[e] = rs[e] \/ e = slot
  BY <1>5, <1>6 DEF Released
<1> HIDE DEF b, d
<1>7. CASE c.cmd = "stop"
  <2>1. /\ IF c.hits THEN Released("draining") ELSE slot' = slot /\ rs' = rs
        /\ active' = active
        /\ replies' = replies \/ (c.next = "stop" /\ replies' = replies \cup {b})
    BY <1>1, <1>7 DEF b
  <2>2. /\ IF Frees(c) THEN slot' = 0 ELSE slot' = slot /\ rs' = rs
        /\ \A e \in Sessions : rs'[e] = rs[e] \/ e = slot
    BY <1>6, <1>7, <2>1 DEF Frees
  <2>3. \A r \in replies' : \/ r \in replies
                            \/ r.of = c.of /\ (r.next = "reject" => c.next = "stop")
    BY <1>4, <2>1
  <2> QED
    BY <1>1, <1>3, <2>1, <2>2, <2>3
<1>8. CASE c.cmd \in {"cancel", "release"}
  <2>1. /\ IF c.hits THEN Released("over") ELSE slot' = slot /\ rs' = rs
        /\ active' = 0
        /\ replies' = replies \cup (IF c.next = "none" THEN {} ELSE {d})
    BY <1>1, <1>8 DEF d
  <2>2. /\ IF Frees(c) THEN slot' = 0 ELSE slot' = slot /\ rs' = rs
        /\ \A e \in Sessions : rs'[e] = rs[e] \/ e = slot
    BY <1>6, <1>8, <2>1 DEF Frees
  <2>3. \A r \in replies' : \/ r \in replies
                            \/ r.of = c.of /\ (r.next = "reject" => c.next = "stop")
    BY <1>4, <2>1
  <2> QED
    BY <1>1, <1>3, <1>8, <2>1, <2>2, <2>3
<1>9. CASE c.cmd = "retire"
  <2>1. active' = 0 /\ slot' = slot /\ rs' = rs /\ replies' = replies /\ ~Frees(c)
    BY <1>1, <1>9 DEF Frees
  <2> QED
    BY <1>1, <1>3, <1>9, <2>1
<1> QED
  BY <1>3, <1>7, <1>8, <1>9 DEF Commands

(* A command of an earlier session spares the window's, or is noted; one of   *)
(* the window's own finds it no longer recording.                           *)
LEMMA CommandMic ==
  ASSUME CoreInv, MicInv, CommandTakesEffect
  PROVE  MicInv'
<1>1. PICK i \in DOMAIN ts.ipc :
        LET c == ts.ipc[i] IN
        /\ c \in Commands /\ ts' = [ts EXCEPT !.ipc = RemoveAt(ts.ipc, i)]
        /\ IF Frees(c) THEN slot' = 0 ELSE slot' = slot /\ rs' = rs
        /\ \A e \in Sessions : rs'[e] = rs[e] \/ e = slot
        /\ active' = active \/ (active' = 0 /\ c.cmd # "stop")
        /\ crossed' = crossed \cup Overtakes(c)
        /\ \A r \in replies' : \/ r \in replies
                               \/ r.of = c.of /\ (r.next = "reject" => c.next = "stop")
        /\ UNCHANGED <<startCmd, events>>
  BY CommandFreesIs
<1> DEFINE c == ts.ipc[i]
           t == [ts EXCEPT !.ipc = RemoveAt(ts.ipc, i)]
<1>2. /\ Good(ts) /\ ts \in Controllers /\ ts.n \in Nat /\ c \in Commands
      /\ slot \in Nat /\ active \in Nat
      /\ rs \in [Sessions -> {"none", "live", "draining", "errored", "over"}]
      /\ AgesFor(ts, replies, events)
  BY <1>1, ConstantsAssumption
     DEF CoreInv, TypeInv, RustType, Good, Controllers, MicInv, Ages
<1>3. /\ SameStart(ts, t) /\ SameMic(ts, t)
      /\ \A j \in DOMAIN t.ipc : \E k \in DOMAIN ts.ipc : k # i /\ t.ipc[j] = ts.ipc[k]
      /\ \A k \in DOMAIN ts.ipc \ {i} : \E j \in DOMAIN t.ipc : t.ipc[j] = ts.ipc[k]
  BY <1>2, Taken
<1>4. ts' = t
  BY <1>1
<1>5. c.of <= ts.n /\ c.of \in Nat
  BY <1>2 DEF AgesFor, Commands
<1> HIDE DEF t, c
<1>6. ts'.n = ts.n /\ ts'.cancelDuring = ts.cancelDuring /\ ts'.capturing = ts.capturing
  BY <1>3, <1>4 DEF SameStart, SameMic
<1>7. Ages'
  <2>1. \A j \in DOMAIN ts'.ipc : ts'.ipc[j].of <= ts'.n
    BY <1>2, <1>3, <1>4, <1>6 DEF AgesFor
  <2>2. \A r \in replies' : r.of <= ts'.n
    BY <1>1, <1>2, <1>5, <1>6 DEF AgesFor, c
  <2>3. slot' <= ts'.n /\ active' <= ts'.n
    BY <1>1, <1>2, <1>6 DEF AgesFor
  <2>4. ASSUME NEW e \in Sessions, e > ts'.n  PROVE rs'[e] = "none"
    <3>1. e # slot /\ rs[e] = "none"
      BY <1>2, <1>6, <2>4, ConstantsAssumption DEF AgesFor, Sessions
    <3> QED
      BY <1>1, <3>1
  <2> QED
    BY <1>1, <1>2, <1>6, <2>1, <2>2, <2>3, <2>4 DEF Ages, AgesFor
<1>8. ASSUME ts.n \notin crossed'
      PROVE  MicFor(ts, startCmd, replies, events)'
  <2>1. MicFor(ts, startCmd, replies, events) /\ ts.n \notin Overtakes(c)
    BY <1>1, <1>8 DEF MicInv, Crossed, c
  <2>2. /\ Ordered(ts)' => Ordered(ts)
        /\ Rejects(ts, replies)' => Rejects(ts, replies)
    <3>1. ASSUME Ordered(ts')  PROVE Ordered(ts)
      BY <1>3, <1>4, <1>6, <3>1 DEF Ordered
    <3>2. ASSUME Rejects(ts', replies')  PROVE Rejects(ts, replies)
      <4>1. ASSUME NEW j \in DOMAIN ts'.ipc, ts'.ipc[j].of = ts.n, ts'.ipc[j].next = "stop"
            PROVE  Rejects(ts, replies)
        BY <1>3, <1>4, <4>1 DEF Rejects
      <4>2. ASSUME NEW r \in replies', r.of = ts.n, r.next = "reject"
            PROVE  Rejects(ts, replies)
        BY <1>1, <4>2 DEF Rejects, c
      <4> QED
        BY <1>6, <3>2, <4>1, <4>2 DEF Rejects
    <3> QED
      BY <3>1, <3>2 DEF Ordered, Rejects
  <2>3. slot' # 0 /\ Hits(ts.n, ts.ipc) => Hits(ts'.n, ts'.ipc)
    <3> SUFFICES ASSUME slot' # 0, NEW k \in DOMAIN ts.ipc, ts.ipc[k].of = ts.n,
                        Frees(ts.ipc[k])
                 PROVE  Hits(ts'.n, ts'.ipc)
      BY DEF Hits, Frees
    <3>1. k \in DOMAIN ts.ipc \ {i}
      BY <1>1
    <3>2. PICK j \in DOMAIN t.ipc : t.ipc[j] = ts.ipc[k]
      BY <1>3, <3>1
    <3> QED
      BY <1>4, <1>6, <3>2 DEF Hits, Frees
  <2>4. SlotFor(ts, startCmd)'
    <3> SUFFICES ASSUME slot' # 0, startCmd # "keyring"
                 PROVE  /\ slot' = ts.n
                        /\ \/ ts.capturing \/ Hits(ts'.n, ts'.ipc)
                           \/ startCmd = "ok" /\ ts.cancelDuring
      BY <1>1, <1>6 DEF SlotFor, Hits
    <3>1. slot' = slot
      BY <1>1
    <3> QED
      BY <2>1, <2>3, <3>1 DEF MicFor, SlotFor
  <2>5. CASE c.of < ts.n
    <3>1. /\ slot = ts.n => slot' = slot /\ rs' = rs
          /\ active = ts.n => active' = active
      BY <1>1, <2>1, <2>5 DEF Overtakes, Frees, c
    <3>2. ts.n \in Sessions => rs'[ts.n] = rs[ts.n]
      BY <1>1, <3>1
    <3>3. ts.n # 0 => (slot' = ts.n <=> slot = ts.n) /\ (active' = ts.n <=> active = ts.n)
      BY <1>1, <3>1
    <3>4. slot = 0 => slot' = 0
      BY <1>1
    <3>5. StartFor(ts, startCmd, replies, events)'
      <4>1. startCmd # "none" => ~Rejects(ts, replies)'
        BY <2>1, <2>2 DEF MicFor, StartFor
      <4>2. ASSUME startCmd \in {"keyring", "err"}
            PROVE  /\ ~Ordered(ts)' /\ ~Heard(ts.n, events) /\ slot' # ts.n /\ active' # ts.n
                   /\ ts.n \in Sessions /\ rs'[ts.n] = "none"
                   /\ ts.capturing \/ ts.cancelDuring
        <5>1. ts.n \in Sessions /\ ts.n # 0
          BY <2>1, <4>2, ConstantsAssumption DEF MicFor, StartFor, Sessions
        <5> QED
          BY <2>1, <2>2, <3>2, <3>3, <4>2, <5>1 DEF MicFor, StartFor
      <4>3. startCmd = "err" => slot' = 0
        BY <2>1, <3>4 DEF MicFor, StartFor
      <4> QED
        BY <1>1, <1>6, <4>1, <4>2, <4>3 DEF StartFor, Heard
    <3>6. RecordFor(ts, startCmd, replies, events)'
      <4> SUFFICES ASSUME ts.capturing
                   PROVE  /\ ~Ordered(ts)' /\ ~Rejects(ts, replies)'
                          /\ startCmd \in {"none", "ok"} =>
                               /\ slot' = ts.n /\ active' = ts.n
                               /\ rs'[ts.n] \in {"live", "errored"} \/ Closing(ts.n, events)
        BY <1>1, <1>6 DEF RecordFor, Closing
      <4>1. /\ ~Ordered(ts) /\ ~Rejects(ts, replies)
            /\ startCmd \in {"none", "ok"} =>
                 /\ slot = ts.n /\ active = ts.n
                 /\ rs[ts.n] \in {"live", "errored"} \/ Closing(ts.n, events)
        BY <2>1 DEF MicFor, RecordFor
      <4> QED
        BY <2>2, <3>1, <4>1
    <3> QED
      BY <2>4, <3>5, <3>6 DEF MicFor
  <2>6. CASE c.of = ts.n
    <3>1. Ordered(ts)
      BY <2>6 DEF Ordered, c
    <3>2. ~ts.capturing /\ startCmd \notin {"keyring", "err"}
      BY <2>1, <3>1 DEF MicFor, StartFor, RecordFor
    <3>3. StartFor(ts, startCmd, replies, events)'
      <4>1. startCmd # "none" => ~Rejects(ts, replies)'
        BY <2>1, <2>2 DEF MicFor, StartFor
      <4> QED
        BY <1>1, <3>2, <4>1 DEF StartFor
    <3>4. RecordFor(ts, startCmd, replies, events)'
      BY <1>6, <3>2 DEF RecordFor
    <3> QED
      BY <2>4, <3>3, <3>4 DEF MicFor
  <2> QED
    BY <1>2, <1>5, <2>5, <2>6
<1> QED
  BY <1>6, <1>7, <1>8 DEF MicInv, Crossed

(* Rust's own steps: an error, an end that is told, one that is not.        *)
LEMMA SessionMic ==
  ASSUME CoreInv, MicInv, NEW e \in Sessions,
         SessionErrors(e) \/ SessionCloses(e) \/ DrainGoesSilent(e)
  PROVE  MicInv'
<1>1. /\ UNCHANGED <<ts, replies, startCmd, slot, active, crossed>>
      /\ Good(ts) /\ events \in Seq(Events) /\ e # 0 /\ e \in Nat /\ ts.n \in Nat
      /\ rs \in [Sessions -> {"none", "live", "draining", "errored", "over"}]
      /\ AgesFor(ts, replies, events)
  BY ConstantsAssumption
     DEF SessionErrors, SessionCloses, DrainGoesSilent, CoreInv, TypeInv, RustType, Sessions,
         history, Good, Controllers, MicInv, Ages
<1>2. rs[e] # "none" /\ rs[e] \in {"live", "draining", "errored"}
  BY DEF SessionErrors, SessionCloses, DrainGoesSilent
<1>3. PICK to \in {"errored", "over"} : rs' = [rs EXCEPT ![e] = to]
  BY DEF SessionErrors, SessionCloses, DrainGoesSilent
<1>4. /\ rs'[e] = to
      /\ \A d \in Sessions : rs[d] = "none" => rs'[d] = "none"
      /\ \A d \in Sessions : d # e => rs'[d] = rs[d]
  BY <1>1, <1>2, <1>3
<1>5. /\ \A i \in DOMAIN events : i \in DOMAIN events' /\ events'[i] = events[i]
      /\ active # e => events' = events
      /\ \A i \in DOMAIN events' : i \in DOMAIN events \/ events'[i].of = e
  <2>1. CASE events' = events
    BY <2>1
  <2>2. ASSUME NEW ev \in {"error", "closed"}, Emit(e, ev)
        PROVE  /\ \A i \in DOMAIN events : i \in DOMAIN events' /\ events'[i] = events[i]
               /\ active # e => events' = events
               /\ \A i \in DOMAIN events' : i \in DOMAIN events \/ events'[i].of = e
    <3>1. /\ \A i \in DOMAIN events : i \in DOMAIN events' /\ events'[i] = events[i]
          /\ active # e => events' = events
      BY <1>1, <2>2, EmitIs
    <3>2. \A i \in DOMAIN events' : i \in DOMAIN events \/ events'[i].of = e
      <4> DEFINE x == [ev |-> ev, of |-> e]
      <4>1. x.of = e /\ (events' = Append(events, x) \/ events' = events)
        BY <2>2 DEF Emit
      <4> HIDE DEF x
      <4>2. CASE events' = Append(events, x)
        <5>1. /\ DOMAIN events' = 1..(Len(events) + 1) /\ DOMAIN events = 1..Len(events)
              /\ events'[Len(events) + 1] = x /\ Len(events) \in Nat
          BY <1>1, <4>2
        <5>2. \A i \in 1..(Len(events) + 1) : i \in 1..Len(events) \/ i = Len(events) + 1
          BY <5>1
        <5> QED
          BY <4>1, <5>1, <5>2
      <4> QED
        BY <4>1, <4>2
    <3> QED
      BY <3>1, <3>2
  <2> QED
    BY <2>1, <2>2 DEF SessionErrors, SessionCloses, DrainGoesSilent
<1>6. SessionCloses(e) /\ active = e => Closing(e, events')
  <2> SUFFICES ASSUME SessionCloses(e), active = e  PROVE Closing(e, events')
    OBVIOUS
  <2>1. Emit(e, "closed")
    BY DEF SessionCloses
  <2>2. \E i \in DOMAIN events' : events'[i].ev = "closed" /\ events'[i].of = e
    BY <1>1, <2>1, EmitIs
  <2> QED
    BY <2>2 DEF Closing
<1>7. e <= ts.n
  BY <1>1, <1>2 DEF AgesFor
<1>8. Ages'
  <2>1. \A i \in DOMAIN events' : events'[i].of <= ts.n
    BY <1>1, <1>5, <1>7 DEF AgesFor
  <2>2. \A d \in Sessions : d > ts.n => rs'[d] = "none"
    BY <1>1, <1>4 DEF AgesFor
  <2> QED
    BY <1>1, <2>1, <2>2 DEF Ages, AgesFor
<1>9. ASSUME MicFor(ts, startCmd, replies, events)
      PROVE  MicFor(ts, startCmd, replies, events)'
  <2>1. StartFor(ts, startCmd, replies, events)'
    <3>1. startCmd # "none" => ~Rejects(ts, replies)
      BY <1>9 DEF MicFor, StartFor
    <3>2. ASSUME startCmd \in {"keyring", "err"}
          PROVE  /\ ~Ordered(ts) /\ ~Heard(ts.n, events') /\ slot # ts.n /\ active # ts.n
                 /\ ts.n \in Sessions /\ rs'[ts.n] = "none"
                 /\ ts.capturing \/ ts.cancelDuring
      <4>1. /\ ~Ordered(ts) /\ ~Heard(ts.n, events) /\ slot # ts.n /\ active # ts.n
            /\ ts.n \in Sessions /\ rs[ts.n] = "none"
            /\ ts.capturing \/ ts.cancelDuring
        BY <1>9, <3>2 DEF MicFor, StartFor
      <4>2. e # ts.n
        BY <1>2, <4>1
      <4>3. ~Heard(ts.n, events')
        BY <1>5, <4>1, <4>2 DEF Heard
      <4> QED
        BY <1>4, <4>1, <4>3
    <3>3. startCmd = "err" => slot = 0
      BY <1>9 DEF MicFor, StartFor
    <3> QED
      BY <1>1, <3>1, <3>2, <3>3 DEF StartFor, Rejects, Ordered, Heard
  <2>2. SlotFor(ts, startCmd)'
    BY <1>1, <1>9 DEF MicFor, SlotFor, Hits
  <2>3. RecordFor(ts, startCmd, replies, events)'
    <3> SUFFICES ASSUME ts.capturing
                 PROVE  /\ ~Ordered(ts) /\ ~Rejects(ts, replies)
                        /\ startCmd \in {"none", "ok"} =>
                             /\ slot = ts.n /\ active = ts.n
                             /\ rs'[ts.n] \in {"live", "errored"} \/ Closing(ts.n, events')
      BY <1>1 DEF RecordFor, Rejects, Ordered, Closing
    <3>1. /\ ~Ordered(ts) /\ ~Rejects(ts, replies)
          /\ startCmd \in {"none", "ok"} =>
               /\ slot = ts.n /\ active = ts.n
               /\ rs[ts.n] \in {"live", "errored"} \/ Closing(ts.n, events)
      BY <1>9 DEF MicFor, RecordFor
    <3>2. Closing(ts.n, events) => Closing(ts.n, events')
      BY <1>5 DEF Closing
    <3>3. ASSUME startCmd \in {"none", "ok"}, rs[ts.n] \in {"live", "errored"}, active = ts.n
          PROVE  rs'[ts.n] \in {"live", "errored"} \/ Closing(ts.n, events')
      <4>1. CASE ts.n = e
        <5>1. CASE SessionErrors(e)
          BY <1>1, <3>3, <4>1, <5>1 DEF SessionErrors
        <5>2. CASE SessionCloses(e)
          BY <1>6, <3>3, <4>1, <5>2
        <5>3. CASE DrainGoesSilent(e)
          BY <3>3, <4>1, <5>3 DEF DrainGoesSilent
        <5> QED
          BY <5>1, <5>2, <5>3
      <4>2. CASE ts.n # e
        <5>1. ts.n \in 0..MaxSessions /\ ts.n # 0
          BY <1>1, ConstantsAssumption DEF CoreInv, TypeInv, Good, Chip, Controllers
        <5>2. ts.n \in Sessions
          BY <5>1, ConstantsAssumption DEF Sessions
        <5> QED
          BY <1>4, <3>3, <4>2, <5>2
      <4> QED
        BY <4>1, <4>2
    <3> QED
      BY <3>1, <3>2, <3>3
  <2> QED
    BY <2>1, <2>2, <2>3 DEF MicFor
<1> QED
  BY <1>1, <1>8, <1>9 DEF MicInv, Crossed

LEMMA MicStep ==
  ASSUME CoreInv, MicInv, [Next]_vars
  PROVE  MicInv'
<1>1. CASE UNCHANGED vars
  <2>1. UNCHANGED <<ts, startCmd, replies, slot, active, rs, events, crossed>>
    BY <1>1 DEF vars, rustVars, history
  <2>2. /\ AgesFor(ts', replies', events')
        /\ Crossed' \/ MicFor(ts', startCmd', replies', events')
    BY <2>1 DEF MicInv, Ages, Crossed
  <2> QED
    BY <2>1, <2>2, MicKept
<1>2. CASE User
  BY <1>2, UserMic
<1>3. CASE Rust
  BY <1>3, StartTakesEffectMic, CommandMic, SessionMic DEF Rust
<1>4. CASE Controller
  <2>1. QuietTurns => MicInv'
    BY QuietTurnsMic
  <2> QED
    BY <1>4, <2>1, PrologueResolvesMic, PrologueRejectsMic, InvokeReturnsMic,
       ReplyArrivesMic, EventArrivesMic, TriggerArrivesMic
       DEF Controller, QuietTurns
<1> QED
  BY <1>1, <1>2, <1>3, <1>4 DEF Next

(* With nothing on its way an idle or errored chip means no session in Rust,  *)
(* and the session the window records is the one Rust runs, in every session   *)
(* that nothing late of an earlier one reached.                             *)
THEOREM ChipIsTrue == Spec => []ChipMatchesTheMic
<1> DEFINE Inv == CoreInv /\ MicInv
<1>1. Init => Inv
  BY InitCore, InitMic
<1>2. Inv /\ [Next]_vars => Inv'
  BY CoreStep, MicStep
<1>3. Inv => ChipMatchesTheMic
  <2> SUFFICES ASSUME CoreInv, MicInv, Quiet, ts.n \notin crossed
               PROVE  /\ ts.status \in {"idle", "error"} => slot = 0
                      /\ ts.capturing => slot = ts.cfg /\ active = slot /\ rs[slot] # "over"
    BY DEF ChipMatchesTheMic
  <2>1. /\ Good(ts) /\ ts.ipc = <<>> /\ events = <<>> /\ startCmd = "none"
        /\ MicFor(ts, startCmd, replies, events)
    BY DEF Quiet, CoreInv, MicInv, Crossed
  <2>2. ~Hits(ts.n, ts.ipc) /\ ~Closing(ts.n, events)
    BY <2>1 DEF Hits, Closing
  <2>3. ts.status \in {"idle", "error"} => ~ts.capturing
    BY <2>1 DEF Good, Chip
  <2>4. ts.status \in {"idle", "error"} => slot = 0
    BY <2>1, <2>2, <2>3 DEF MicFor, SlotFor
  <2>5. ts.capturing => slot = ts.n /\ active = ts.n /\ rs[ts.n] \in {"live", "errored"}
    BY <2>1, <2>2 DEF MicFor, RecordFor
  <2>6. ts.capturing => ts.cfg = ts.n
    BY <2>1 DEF Good, Chip
  <2> QED
    BY <2>4, <2>5, <2>6
<1> QED
  BY <1>1, <1>2, <1>3, PTL DEF Spec

-----------------------------------------------------------------------------
(* The mute worker (MuteWorker): what its channel holds, and what follows.   *)

(* The channel: x is followed by y when y is queued behind every x.        *)
Followed(q, x, y) ==
  \A i \in 1..Len(q) : q[i] = x => \E j \in (i + 1)..Len(q) : q[j] = y

(* What sending a command leaves of the channel.                           *)
LEMMA SendProperties ==
  ASSUME NEW q \in Seq(Command), NEW c \in Command
  PROVE  /\ Append(q, c) \in Seq(Command)
         /\ Range(Append(q, c)) = Range(q) \cup {c}
         /\ \A x, y : Followed(q, x, y) /\ c # x => Followed(Append(q, c), x, y)
         /\ \A x : c # x => Followed(Append(q, c), x, c)
<1> DEFINE r == Append(q, c)
<1>1. /\ r \in Seq(Command) /\ Len(r) = Len(q) + 1 /\ Len(q) \in Nat
      /\ \A i \in 1..Len(q) : r[i] = q[i]
      /\ r[Len(q) + 1] = c
      /\ DOMAIN r = 1..Len(r) /\ DOMAIN q = 1..Len(q)
  BY AppendProperties, LenProperties
<1> HIDE DEF r
<1>2. Range(r) = Range(q) \cup {c}
  <2>1. ASSUME NEW x \in Range(r) PROVE x \in Range(q) \cup {c}
    BY <1>1, <2>1 DEF Range
  <2>2. Range(q) \subseteq Range(r)
    BY <1>1 DEF Range
  <2>3. c \in Range(r)
    BY <1>1 DEF Range
  <2>4. QED
    BY <2>1, <2>2, <2>3
<1>3. ASSUME NEW x, NEW y, Followed(q, x, y), c # x
      PROVE  Followed(r, x, y)
  <2>1. SUFFICES ASSUME NEW i \in 1..Len(r), r[i] = x
                 PROVE  \E j \in (i + 1)..Len(r) : r[j] = y
    BY DEF Followed
  <2>2. i \in 1..Len(q) /\ q[i] = x
    BY <1>1, <1>3, <2>1
  <2>3. PICK j \in (i + 1)..Len(q) : q[j] = y
    BY <1>3, <2>2 DEF Followed
  <2>4. j \in (i + 1)..Len(r) /\ r[j] = y
    BY <1>1, <2>2, <2>3
  <2>5. QED
    BY <2>4
<1>4. ASSUME NEW x, c # x
      PROVE  Followed(r, x, c)
  <2>1. SUFFICES ASSUME NEW i \in 1..Len(r), r[i] = x
                 PROVE  \E j \in (i + 1)..Len(r) : r[j] = c
    BY DEF Followed
  <2>2. i \in 1..Len(q) /\ Len(r) \in (i + 1)..Len(r)
    BY <1>1, <1>4, <2>1
  <2>3. QED
    BY <1>1, <2>2
<1>5. QED
  BY <1>1, <1>2, <1>3, <1>4 DEF r

(* What receiving the oldest command leaves of it.                         *)
LEMMA ReceiveProperties ==
  ASSUME NEW q \in Seq(Command), q # <<>>
  PROVE  /\ Tail(q) \in Seq(Command) /\ Head(q) \in Command
         /\ Range(q) = Range(Tail(q)) \cup {Head(q)}
         /\ \A x, y : Followed(q, x, y) => Followed(Tail(q), x, y)
         /\ \A y : Followed(q, Head(q), y) => y \in Range(Tail(q))
<1> DEFINE r == Tail(q)
<1>1. /\ r \in Seq(Command) /\ Head(q) \in Command
      /\ Len(q) \in Nat \ {0} /\ Len(r) = Len(q) - 1
      /\ \A i \in 1..Len(r) : r[i] = q[i + 1]
      /\ DOMAIN r = 1..Len(r) /\ DOMAIN q = 1..Len(q)
      /\ Head(q) = q[1]
  BY HeadTailProperties, LenProperties, EmptySeq
<1> HIDE DEF r
<1>2. \A i \in 2..Len(q) : i - 1 \in 1..Len(r) /\ q[i] = r[i - 1]
  BY <1>1
<1>3. Range(q) = Range(r) \cup {Head(q)}
  <2>1. ASSUME NEW x \in Range(q) PROVE x \in Range(r) \cup {Head(q)}
    <3>1. PICK i \in 1..Len(q) : x = q[i]
      BY <1>1, <2>1 DEF Range
    <3>2. CASE i = 1
      BY <1>1, <3>1, <3>2
    <3>3. CASE i # 1
      <4>1. i - 1 \in DOMAIN r /\ x = r[i - 1]
        BY <1>1, <1>2, <3>1, <3>3
      <4>2. QED
        BY <4>1 DEF Range
    <3>4. QED
      BY <3>2, <3>3
  <2>2. ASSUME NEW x \in Range(r) PROVE x \in Range(q)
    <3>1. PICK i \in 1..Len(r) : x = r[i]
      BY <1>1, <2>2 DEF Range
    <3>2. i + 1 \in DOMAIN q /\ x = q[i + 1]
      BY <1>1, <3>1
    <3>3. QED
      BY <3>2 DEF Range
  <2>3. Head(q) \in Range(q)
    BY <1>1 DEF Range
  <2>4. QED
    BY <2>1, <2>2, <2>3
<1>4. ASSUME NEW x, NEW y, Followed(q, x, y)
      PROVE  Followed(r, x, y) /\ (Head(q) = x => y \in Range(r))
  <2>1. ASSUME NEW i \in 1..Len(r), r[i] = x
        PROVE  \E j \in (i + 1)..Len(r) : r[j] = y
    <3>1. i + 1 \in 1..Len(q) /\ q[i + 1] = x
      BY <1>1, <2>1
    <3>2. PICK j \in (i + 2)..Len(q) : q[j] = y
      BY <1>4, <3>1 DEF Followed
    <3>3. j - 1 \in (i + 1)..Len(r) /\ r[j - 1] = y
      BY <1>1, <1>2, <2>1, <3>2
    <3>4. QED
      BY <3>3
  <2>2. ASSUME Head(q) = x PROVE y \in Range(r)
    <3>1. PICK j \in 2..Len(q) : q[j] = y
      BY <1>1, <1>4, <2>2 DEF Followed
    <3>2. QED
      BY <1>1, <1>2, <3>1 DEF Range
  <2>3. QED
    BY <2>1, <2>2 DEF Followed
<1>5. QED
  BY <1>1, <1>3, <1>4 DEF r

(* A command that is not queued is followed by anything.                   *)
LEMMA AbsentIsFollowed ==
  ASSUME NEW q \in Seq(Command), NEW x, x \notin Range(q)
  PROVE  \A y : Followed(q, x, y)
BY LenProperties DEF Followed, Range

(* What follows a queued command is queued.                                *)
LEMMA FollowedIsQueued ==
  ASSUME NEW q \in Seq(Command), NEW x \in Range(q), NEW y, Followed(q, x, y)
  PROVE  y \in Range(q)
<1>1. DOMAIN q = 1..Len(q) /\ Len(q) \in Nat
  BY LenProperties
<1>2. PICK i \in 1..Len(q) : q[i] = x
  BY <1>1 DEF Range
<1>3. PICK j \in (i + 1)..Len(q) : q[j] = y
  BY <1>2 DEF Followed
<1>4. QED
  BY <1>1, <1>2, <1>3 DEF Range

(* Commands of different kinds or guards are different.                    *)
LEMMA CommandsDiffer ==
  /\ \A g, h : Mute(g) # Unmute(h) /\ Mute(g) # Flush(h) /\ Unmute(g) # Flush(h)
  /\ \A g, h : g # h => Mute(g) # Mute(h) /\ Unmute(g) # Unmute(h)
BY DEF Mute, Unmute, Flush

-----------------------------------------------------------------------------
(* The inductive invariant.                                                 *)

(* Every guard has one owner: a start under way, a session, or a stop that  *)
(* is still joining its capture.                                            *)
OneOwner ==
  /\ \A k \in Kinds : making[k] # 0 => k \in locked
  /\ \A k \in locked : live[k] = 0
  /\ \A k \in Kinds : making[k] <= seq /\ live[k] <= seq
  /\ \A g \in dropping : g <= seq
  /\ \A k, j \in Kinds :
       /\ live[k] # 0 => live[k] \notin dropping /\ making[j] # live[k]
       /\ making[k] # 0 => making[k] \notin dropping
       /\ k # j /\ live[k] # 0 => live[j] # live[k]
       /\ k # j /\ making[k] # 0 => making[j] # making[k]

(* A guard's Mute is ended by an Unmute behind it, or by the drop to come.  *)
MutesEnd ==
  \A g \in Guards : g \in OpenGuards \/ Followed(queue, Mute(g), Unmute(g))
OwnerEnds ==
  owner = 0 \/ owner \in OpenGuards \/ Unmute(owner) \in Range(queue)

(* An Unmute is sent after its guard is gone, and only for a guard made.    *)
UnmutesLate ==
  \A g \in Guards : Unmute(g) \in Range(queue) => g \notin OpenGuards /\ g <= seq

(* The newest guard's Mute is the last one queued.                         *)
NewestLast ==
  \A g \in Guards :
    /\ Mute(g) \in Range(queue) => g <= seq
    /\ g # seq => Followed(queue, Mute(g), Mute(seq))

(* What the worker muted is what the user had not.                         *)
ModeIsTheRest == muted \ mode = base

(* The newest guard owns the mute from its Mute to its drop.               *)
Covered ==
  exit = 0 /\ seq \in OpenGuards \ ({0} \cup dropping) /\ Mute(seq) \notin Range(queue)
    => owner = seq /\ muted = Outputs

(* The exit's passes, and where a start may still be under way.            *)
Flushes == {Flush(p) : p \in 1..Passes}
ExitOrder ==
  /\ exit = 0 => step = "takes" /\ Range(queue) \cap Flushes = {}
  /\ Dead => exit = Passes
  /\ flushed => step \in {"waits", "dead"}
  /\ exit = Passes =>
       /\ step # "takes" => Stream \notin locked
       /\ step \notin {"takes", "drops"} => Record \notin locked

(* The last pass sent a flush the worker may still answer: it is behind     *)
(* every Mute.                                                              *)
Answerable == exit = Passes /\ step = "waits" /\ (dropped \/ ~wedged)
LastFlush ==
  /\ Answerable =>
       /\ \A g \in Guards : Followed(queue, Mute(g), Flush(Passes))
       /\ owner = 0 \/ Flush(Passes) \in Range(queue)
  /\ exit = Passes /\ flushed =>
       owner = 0 /\ \A g \in Guards : Mute(g) \notin Range(queue)

QueueInv == MutesEnd /\ OwnerEnds /\ UnmutesLate /\ NewestLast

IInv ==
  /\ MuteType
  /\ OneOwner
  /\ QueueInv
  /\ ModeIsTheRest
  /\ Covered
  /\ ExitOrder
  /\ LastFlush

-----------------------------------------------------------------------------
(* Types.                                                                   *)

(* The commands the code sends.                                            *)
LEMMA Sendable ==
  /\ \A g \in Guards : Mute(g) \in Command /\ Unmute(g) \in Command
  /\ \A p \in 1..Passes : Flush(p) \in Command
BY DEF Command

(* The initial state is well typed.                                        *)
LEMMA TypeInit == MuteInit => MuteType
<1> SUFFICES ASSUME MuteInit PROVE MuteType
  OBVIOUS
<1> USE GuardsAssumption DEF MuteInit
<1>1. <<>> \in Seq(Command) /\ 0 \in 0..MaxGuards /\ 0 \in 0..Passes
      /\ FALSE \in BOOLEAN
  BY EmptySeq DEF Passes
<1>2. QED
  BY <1>1 DEF MuteType

(* The steps of the sessions.                                              *)
LEMMA TypeSessions == ASSUME MuteType, SessionSteps PROVE MuteType'
<1> USE GuardsAssumption DEF MuteType, workerVars, exitVars, Guards
<1>1. ASSUME NEW k \in Kinds, StartBegin(k) PROVE MuteType'
  <2>1. queue' \in Seq(Command)
    BY <1>1, Sendable, SendProperties DEF StartBegin
  <2>2. live' \in [Kinds -> 0..MaxGuards] /\ locked' \subseteq Kinds
    BY <1>1 DEF StartBegin
  <2>3. QED
    BY <1>1, <2>1, <2>2 DEF StartBegin
<1>2. ASSUME NEW k \in Kinds, MakesGuard(k) PROVE MuteType'
  <2>1. seq + 1 \in Guards
    BY <1>2 DEF MakesGuard
  <2>2. queue' \in Seq(Command)
    BY <1>2, <2>1, Sendable, SendProperties DEF MakesGuard
  <2>3. seq' \in 0..MaxGuards /\ making' \in [Kinds -> 0..MaxGuards]
    BY <1>2, <2>1 DEF MakesGuard
  <2>4. QED
    BY <1>2, <2>2, <2>3 DEF MakesGuard
<1>3. ASSUME NEW k \in Kinds, StartOpens(k) PROVE MuteType'
  <2>1. /\ live' \in [Kinds -> 0..MaxGuards] /\ making' \in [Kinds -> 0..MaxGuards]
        /\ locked' \subseteq Kinds
    BY <1>3 DEF StartOpens
  <2>2. QED
    BY <1>3, <2>1 DEF StartOpens
<1>4. ASSUME NEW k \in Kinds, StartFails(k) PROVE MuteType'
  <2>1. queue' \in Seq(Command)
    BY <1>4, Sendable, SendProperties DEF StartFails
  <2>2. making' \in [Kinds -> 0..MaxGuards] /\ locked' \subseteq Kinds
    BY <1>4 DEF StartFails
  <2>3. QED
    BY <1>4, <2>1, <2>2 DEF StartFails
<1>5. ASSUME NEW k \in Kinds, Takes(k) PROVE MuteType'
  <2>1. live[k] \in 1..MaxGuards
    BY <1>5 DEF Takes
  <2>2. live' \in [Kinds -> 0..MaxGuards]
    BY <1>5 DEF Takes
  <2>3. dropping' \subseteq 1..MaxGuards
    BY <1>5, <2>1 DEF Takes
  <2>4. QED
    BY <1>5, <2>2, <2>3 DEF Takes
<1>6. ASSUME NEW g \in Guards, Drops(g) PROVE MuteType'
  <2>1. queue' \in Seq(Command)
    BY <1>6, Sendable, SendProperties DEF Drops
  <2>2. QED
    BY <1>6, <2>1 DEF Drops
<1>7. QED
  BY <1>1, <1>2, <1>3, <1>4, <1>5, <1>6 DEF SessionSteps

(* A command is one of three kinds.                                        *)
LEMMA CommandKinds ==
  ASSUME NEW c \in Command
  PROVE  \/ \E g \in Guards : c = Mute(g)
         \/ \E g \in Guards : c = Unmute(g)
         \/ \E p \in 1..Passes : c = Flush(p)
BY DEF Command

(* What the worker does with the oldest command.                           *)
LEMMA WorkerCases ==
  ASSUME MuteType, Worker
  PROVE  \/ \E g \in Guards : Head(queue) = Mute(g) /\ HandleMute(g)
         \/ \E g \in Guards : Head(queue) = Unmute(g) /\ HandleUnmute(g)
         \/ \E p \in 1..Passes : Head(queue) = Flush(p) /\ HandleFlush
<1>1. Head(queue) \in Command
  BY ReceiveProperties DEF Worker, MuteType
<1>2. CASE \E g \in Guards : Head(queue) = Mute(g)
  BY <1>2 DEF Worker, Mute
<1>3. CASE \E g \in Guards : Head(queue) = Unmute(g)
  BY <1>3 DEF Worker, Unmute
<1>4. CASE \E p \in 1..Passes : Head(queue) = Flush(p)
  BY <1>4 DEF Worker, Flush
<1>5. QED
  BY <1>1, <1>2, <1>3, <1>4, CommandKinds

(* The steps of the worker.                                                *)
LEMMA TypeWorker == ASSUME MuteType, Worker PROVE MuteType'
<1>1. queue' \in Seq(Command)
  BY ReceiveProperties DEF Worker, MuteType
<1>2. /\ owner' \in 0..MaxGuards /\ (owner' = 0 => mode' = {})
      /\ mode' \subseteq muted' /\ muted' \subseteq Outputs
  BY WorkerCases, GuardsAssumption DEF MuteType, HandleMute, HandleUnmute, HandleFlush,
     RestoreAll, Restored, workerVars, Guards
<1>3. QED
  BY <1>1, <1>2 DEF Worker, MuteType, sessionVars, exitVars

(* The steps of the user and of the exit.                                  *)
LEMMA TypeOthers ==
  ASSUME MuteType, exit = 0 => step = "takes",
         Exit \/ \E o \in Outputs : UserToggles(o)
  PROVE  MuteType'
<1> USE DEF MuteType, sessionVars, workerVars, exitVars
<1>1. ASSUME NEW o \in Outputs, UserToggles(o) PROVE MuteType'
  BY <1>1 DEF UserToggles
<1>2. CASE ExitBegins
  <2>1. exit' \in 0..Passes /\ FALSE \in BOOLEAN
    BY <1>2 DEF ExitBegins, Passes
  <2>2. QED
    BY <1>2, <2>1 DEF ExitBegins
<1>3. CASE ExitTakes
  <2>1. queue' \in Seq(Command) /\ dropped' \in BOOLEAN
        /\ live' \in [Kinds -> 0..MaxGuards]
    BY <1>3, GuardsAssumption, Sendable, SendProperties DEF ExitTakes, Kinds, Guards
  <2>2. QED
    BY <1>3, <2>1 DEF ExitTakes
<1>4. CASE ExitDrops
  <2>1. queue' \in Seq(Command) /\ dropped' \in BOOLEAN
        /\ live' \in [Kinds -> 0..MaxGuards]
    BY <1>4, GuardsAssumption, Sendable, SendProperties DEF ExitDrops, Kinds, Guards
  <2>2. QED
    BY <1>4, <2>1 DEF ExitDrops
<1>5. CASE ExitFlushes
  <2>1. exit \in 1..Passes
    BY <1>5 DEF ExitFlushes, Passes
  <2>2. queue' \in Seq(Command)
    BY <1>5, <2>1, Sendable, SendProperties DEF ExitFlushes
  <2>3. QED
    BY <1>5, <2>2 DEF ExitFlushes
<1>6. CASE ExitAnswered
  BY <1>6 DEF ExitAnswered
<1>7. CASE ExitTimesOut
  BY <1>7 DEF ExitTimesOut
<1>8. CASE Dies
  BY <1>8 DEF Dies
<1>9. QED
  BY <1>1, <1>2, <1>3, <1>4, <1>5, <1>6, <1>7, <1>8 DEF Exit

-----------------------------------------------------------------------------
(* The channel and the owners, whichever step sends.                        *)

(* No guard comes or goes, nothing is sent.                                *)
LEMMA QueueStays ==
  ASSUME MuteType, QueueInv, queue' = queue, seq' = seq, owner' = owner,
         \A g \in Guards : g \in OpenGuards' <=> g \in OpenGuards
  PROVE  QueueInv'
BY DEF MuteType, QueueInv, MutesEnd, OwnerEnds, UnmutesLate, NewestLast, Guards

(* The exit sends its flush.                                               *)
LEMMA QueueFlushes ==
  ASSUME MuteType, QueueInv, NEW p \in 1..Passes, queue' = Append(queue, Flush(p)),
         UNCHANGED <<sessionVars, workerVars>>
  PROVE  QueueInv'
<1>1. /\ Range(queue') = Range(queue) \cup {Flush(p)}
      /\ \A x, y : Followed(queue, x, y) /\ Flush(p) # x => Followed(queue', x, y)
  BY Sendable, SendProperties DEF MuteType
<1>2. OpenGuards' = OpenGuards /\ seq' = seq /\ owner' = owner
  BY DEF OpenGuards, sessionVars, workerVars
<1>3. QED
  BY <1>1, <1>2, CommandsDiffer DEF QueueInv, MutesEnd, OwnerEnds, UnmutesLate, NewestLast

(* A guard is dropped: its Unmute is sent.                                 *)
LEMMA QueueUnmutes ==
  ASSUME MuteType, QueueInv, NEW d \in Guards, d <= seq,
         queue' = Append(queue, Unmute(d)), seq' = seq, owner' = owner,
         \A g \in Guards : g \in OpenGuards' <=> g \in OpenGuards /\ g # d
  PROVE  QueueInv'
<1>1. /\ Range(queue') = Range(queue) \cup {Unmute(d)}
      /\ \A x, y : Followed(queue, x, y) /\ Unmute(d) # x => Followed(queue', x, y)
      /\ Followed(queue', Mute(d), Unmute(d))
  BY Sendable, SendProperties, CommandsDiffer DEF MuteType
<1>2. MutesEnd'
  BY <1>1, CommandsDiffer DEF QueueInv, MutesEnd
<1>3. OwnerEnds'
  BY <1>1 DEF QueueInv, OwnerEnds, MuteType, Guards
<1>4. UnmutesLate'
  BY <1>1, CommandsDiffer DEF QueueInv, UnmutesLate
<1>5. NewestLast'
  BY <1>1, CommandsDiffer DEF QueueInv, NewestLast
<1>6. QED
  BY <1>2, <1>3, <1>4, <1>5 DEF QueueInv

(* A guard is made: its Mute is sent, behind every older one.              *)
LEMMA QueueMutes ==
  ASSUME MuteType, QueueInv, seq' = seq + 1, seq + 1 \in Guards,
         queue' = Append(queue, Mute(seq + 1)), owner' = owner,
         \A g \in Guards : g \in OpenGuards' <=> g \in OpenGuards \/ g = seq + 1
  PROVE  QueueInv'
<1> DEFINE n == seq + 1
<1>1. /\ Range(queue') = Range(queue) \cup {Mute(n)}
      /\ \A x, y : Followed(queue, x, y) /\ Mute(n) # x => Followed(queue', x, y)
      /\ \A x : Mute(n) # x => Followed(queue', x, Mute(n))
  BY Sendable, SendProperties DEF MuteType
<1>2. seq' = n /\ n \in Guards /\ \A g \in Guards : g <= seq => g <= n /\ g # n
  BY DEF MuteType, Guards
<1>3. \A g \in Guards : g \in OpenGuards' <=> g \in OpenGuards \/ g = n
  OBVIOUS
<1> HIDE DEF n
<1>4. MutesEnd'
  BY <1>1, <1>3, CommandsDiffer DEF QueueInv, MutesEnd
<1>5. OwnerEnds'
  BY <1>1, <1>3 DEF QueueInv, OwnerEnds, MuteType, Guards
<1>6. UnmutesLate'
  BY <1>1, <1>2, <1>3, CommandsDiffer DEF QueueInv, UnmutesLate
<1>7. NewestLast'
  BY <1>1, <1>2, CommandsDiffer DEF QueueInv, NewestLast
<1>8. QED
  BY <1>4, <1>5, <1>6, <1>7 DEF QueueInv

(* The worker takes the oldest command: a Mute it applies still has its end *)
(* behind it.                                                               *)
LEMMA QueueIsServed ==
  ASSUME MuteType, QueueInv, Worker
  PROVE  QueueInv'
<1>1. queue \in Seq(Command) /\ queue # <<>> /\ queue' = Tail(queue)
      /\ OpenGuards' = OpenGuards /\ seq' = seq
  BY DEF MuteType, Worker, sessionVars, OpenGuards
<1>2. /\ Range(queue) = Range(queue') \cup {Head(queue)}
      /\ \A x, y : Followed(queue, x, y) => Followed(queue', x, y)
      /\ \A y : Followed(queue, Head(queue), y) => y \in Range(queue')
  BY <1>1, ReceiveProperties
<1>3. MutesEnd' /\ UnmutesLate' /\ NewestLast'
  <2>1. ASSUME NEW g \in Guards
        PROVE  /\ Followed(queue, Mute(g), Unmute(g)) => Followed(queue', Mute(g), Unmute(g))
               /\ Followed(queue, Mute(g), Mute(seq)) => Followed(queue', Mute(g), Mute(seq))
    BY <1>2
  <2>2. MutesEnd'
    BY <1>1, <2>1 DEF QueueInv, MutesEnd
  <2>3. UnmutesLate'
    BY <1>1, <1>2 DEF QueueInv, UnmutesLate
  <2>4. NewestLast'
    BY <1>1, <1>2, <2>1 DEF QueueInv, NewestLast
  <2>5. QED
    BY <2>2, <2>3, <2>4
<1>4. OwnerEnds'
  <2>1. ASSUME NEW g \in Guards, Head(queue) = Mute(g), HandleMute(g)
        PROVE  OwnerEnds'
    <3>1. g \in OpenGuards \/ Unmute(g) \in Range(queue')
      <4>1. Followed(queue, Mute(g), Unmute(g)) => Unmute(g) \in Range(queue')
        BY <1>2, <2>1
      <4>2. QED
        BY <4>1 DEF QueueInv, MutesEnd
    <3>2. QED
      BY <1>1, <2>1, <3>1 DEF OwnerEnds, HandleMute
  <2>2. ASSUME NEW g \in Guards, Head(queue) = Unmute(g), HandleUnmute(g)
        PROVE  OwnerEnds'
    BY <1>1, <1>2, <2>2, CommandsDiffer DEF QueueInv, OwnerEnds, HandleUnmute,
       RestoreAll, workerVars
  <2>3. CASE HandleFlush
    BY <2>3 DEF HandleFlush, RestoreAll, OwnerEnds
  <2>4. QED
    BY <2>1, <2>2, <2>3, WorkerCases
<1>5. QED
  BY <1>3, <1>4 DEF QueueInv

(* What the worker does keeps what the user had muted.                     *)
LEMMA RestIsKept ==
  ASSUME MuteType, ModeIsTheRest, Worker
  PROVE  ModeIsTheRest'
BY WorkerCases DEF MuteType, ModeIsTheRest, Worker, HandleMute, HandleUnmute, HandleFlush,
   RestoreAll, Restored, workerVars

-----------------------------------------------------------------------------
(* Sessions.                                                                *)

(* Where no step of the exit or the worker is taken, and no Mute is sent.   *)
LEMMA QuietKeeps ==
  ASSUME MuteType, Covered, ExitOrder, LastFlush, UNCHANGED <<workerVars, exitVars>>,
         seq' = seq, locked' \subseteq locked \/ exit < Passes,
         queue' = queue \/ \E d \in Guards : queue' = Append(queue, Unmute(d)),
         seq \in OpenGuards' \ ({0} \cup dropping') => seq \in OpenGuards \ ({0} \cup dropping)
  PROVE  Covered' /\ ExitOrder' /\ LastFlush'
<1> DEFINE Unmutes == {Unmute(d) : d \in Guards}
<1>1. /\ Range(queue') \subseteq Range(queue) \cup Unmutes
      /\ Range(queue) \subseteq Range(queue')
      /\ \A x, y : Followed(queue, x, y) /\ x \notin Unmutes => Followed(queue', x, y)
  <2>1. ASSUME NEW d \in Guards, queue' = Append(queue, Unmute(d))
        PROVE  /\ Range(queue') \subseteq Range(queue) \cup Unmutes
               /\ Range(queue) \subseteq Range(queue')
               /\ \A x, y : Followed(queue, x, y) /\ x \notin Unmutes
                          => Followed(queue', x, y)
    <3>1. /\ Range(queue') = Range(queue) \cup {Unmute(d)}
          /\ \A x, y : Followed(queue, x, y) /\ Unmute(d) # x => Followed(queue', x, y)
      BY <2>1, Sendable, SendProperties DEF MuteType
    <3>2. QED
      BY <3>1
  <2>2. QED
    BY <2>1
<1>2. \A g \in Guards, p \in 1..Passes : Mute(g) \notin Unmutes /\ Flush(p) \notin Unmutes
  BY CommandsDiffer
<1> HIDE DEF Unmutes
<1>3. Covered'
  <2>1. CASE seq \in Guards
    BY <1>1, <1>2, <2>1 DEF Covered, workerVars, exitVars
  <2>2. CASE seq \notin Guards
    BY <2>2 DEF Covered, MuteType, Guards
  <2>3. QED
    BY <2>1, <2>2
<1>4. ExitOrder'
  <2>1. Range(queue') \cap Flushes \subseteq Range(queue)
    BY <1>1, <1>2 DEF Flushes
  <2>2. QED
    BY <1>1, <2>1 DEF ExitOrder, exitVars, Dead, Passes, MuteType
<1>5. LastFlush'
  <2>1. Passes \in 1..Passes
    BY DEF Passes
  <2>2. QED
    BY <1>1, <1>2, <2>1 DEF LastFlush, Answerable, workerVars, exitVars
<1>6. QED
  BY <1>3, <1>4, <1>5

(* A start takes the lock; the session it replaces is dropped.             *)
LEMMA StartBeginKeeps ==
  ASSUME IInv, MuteType', NEW k \in Kinds, StartBegin(k)
  PROVE  IInv'
<1>1. OneOwner'
  BY DEF StartBegin, IInv, MuteType, OneOwner
<1>2. ModeIsTheRest'
  BY DEF StartBegin, IInv, ModeIsTheRest, workerVars
<1>3. \A g \in Guards : g \in OpenGuards' <=> g \in OpenGuards /\ g # live[k]
  BY DEF StartBegin, IInv, MuteType, OneOwner, OpenGuards, Guards
<1>4. /\ UNCHANGED <<workerVars, exitVars, dropping>> /\ seq' = seq /\ owner' = owner
      /\ exit < Passes
  BY DEF StartBegin, workerVars
<1>5. CASE live[k] = 0
  <2>1. queue' = queue
    BY <1>5 DEF StartBegin
  <2>2. QueueInv'
    BY <1>3, <1>4, <1>5, <2>1, QueueStays DEF IInv, Guards
  <2>3. Covered' /\ ExitOrder' /\ LastFlush'
    BY <1>3, <1>4, <1>5, <2>1, QuietKeeps DEF IInv, MuteType, Guards
  <2>4. QED
    BY <1>1, <1>2, <2>2, <2>3 DEF IInv
<1>6. CASE live[k] # 0
  <2>1. queue' = Append(queue, Unmute(live[k]))
    BY <1>6 DEF StartBegin
  <2>2. live[k] \in Guards /\ live[k] <= seq
    BY <1>6 DEF IInv, MuteType, OneOwner, Guards
  <2>3. QueueInv'
    BY <1>3, <1>4, <2>1, <2>2, QueueUnmutes DEF IInv
  <2>4. Covered' /\ ExitOrder' /\ LastFlush'
    BY <1>3, <1>4, <2>1, <2>2, QuietKeeps DEF IInv, MuteType, Guards
  <2>5. QED
    BY <1>1, <1>2, <2>3, <2>4 DEF IInv
<1>7. QED
  BY <1>5, <1>6

(* A guard is made and sends its Mute; no start is under way once the last  *)
(* pass has looked at both states.                                          *)
LEMMA MakesGuardKeeps ==
  ASSUME IInv, MuteType', NEW k \in Kinds, MakesGuard(k)
  PROVE  IInv'
<1>1. OneOwner'
  <2>1. /\ making' = [making EXCEPT ![k] = seq + 1] /\ seq' = seq + 1 /\ k \in locked
        /\ making[k] = 0 /\ UNCHANGED <<locked, live, dropping>>
    BY DEF MakesGuard
  <2>2. /\ OneOwner /\ seq \in Nat /\ making \in [Kinds -> 0 .. MaxGuards]
        /\ live \in [Kinds -> 0 .. MaxGuards] /\ dropping \subseteq 0 .. MaxGuards
    BY DEF IInv, MuteType, Guards
  <2>3. \A i \in Kinds : making'[i] = IF i = k THEN seq + 1 ELSE making[i]
    BY <2>1, <2>2
  <2>4. \A g \in 0 .. MaxGuards : g <= seq => g # seq + 1
    BY <2>2
  <2>5. \A i \in Kinds : live[i] \in Nat /\ making[i] \in Nat /\ live[i] # seq + 1 /\ making[i] # seq + 1
    BY <2>2, <2>4 DEF OneOwner
  <2>6. seq + 1 \notin dropping
    BY <2>2, <2>4 DEF OneOwner
  <2>7. QED
    BY <2>1, <2>2, <2>3, <2>5, <2>6 DEF OneOwner
<1>2. ModeIsTheRest'
  BY DEF MakesGuard, IInv, ModeIsTheRest, workerVars
<1>3. seq + 1 \in Guards /\ \A g \in Guards : g \in OpenGuards' <=> g \in OpenGuards \/ g = seq + 1
  <2>1. seq + 1 \in Guards
    BY DEF MakesGuard, IInv, MuteType, Guards
  <2>2. \A j \in Kinds : making'[j] = IF j = k THEN seq + 1 ELSE making[j]
    BY DEF MakesGuard, IInv, MuteType
  <2>3. QED
    BY <2>1, <2>2 DEF MakesGuard, OpenGuards, Guards
<1>4. QueueInv'
  BY <1>3, QueueMutes DEF MakesGuard, IInv, workerVars
<1>5. Range(queue') = Range(queue) \cup {Mute(seq + 1)}
  BY <1>3, Sendable, SendProperties DEF MakesGuard, IInv, MuteType
<1>6. Covered'
  BY <1>5 DEF MakesGuard, Covered
<1>7. ExitOrder'
  BY <1>5, CommandsDiffer DEF MakesGuard, IInv, ExitOrder, Flushes, Dead, exitVars
<1>8. exit = Passes => step \in {"takes", "drops"}
  BY DEF MakesGuard, IInv, ExitOrder, Kinds
<1>9. LastFlush'
  BY <1>8 DEF MakesGuard, IInv, ExitOrder, LastFlush, Answerable, exitVars
<1>10. QED
  BY <1>1, <1>2, <1>4, <1>6, <1>7, <1>9 DEF IInv

(* The session starts with its guard.                                      *)
LEMMA StartOpensKeeps ==
  ASSUME IInv, MuteType', NEW k \in Kinds, StartOpens(k)
  PROVE  IInv'
<1>1. OneOwner'
  BY DEF StartOpens, IInv, MuteType, OneOwner
<1>2. ModeIsTheRest'
  BY DEF StartOpens, IInv, ModeIsTheRest, workerVars
<1>3. \A g \in Guards : g \in OpenGuards' <=> g \in OpenGuards
  <2>1. live[k] = 0
    BY DEF StartOpens, IInv, OneOwner
  <2>2. \A j \in Kinds : /\ live'[j] = IF j = k THEN making[k] ELSE live[j]
                        /\ making'[j] = IF j = k THEN 0 ELSE making[j]
    BY DEF StartOpens, IInv, MuteType
  <2>3. QED
    BY <2>1, <2>2 DEF StartOpens, OpenGuards, Guards
<1>4. /\ UNCHANGED <<workerVars, exitVars, dropping, queue>> /\ seq' = seq
      /\ owner' = owner /\ locked' \subseteq locked
  BY DEF StartOpens, workerVars
<1>5. QueueInv'
  BY <1>3, <1>4, QueueStays DEF IInv
<1>6. Covered' /\ ExitOrder' /\ LastFlush'
  BY <1>3, <1>4, QuietKeeps DEF IInv, MuteType, Guards
<1>7. QED
  BY <1>1, <1>2, <1>5, <1>6 DEF IInv

(* A start fails; a guard it had made is dropped.                          *)
LEMMA StartFailsKeeps ==
  ASSUME IInv, MuteType', NEW k \in Kinds, StartFails(k)
  PROVE  IInv'
<1>1. OneOwner'
  BY DEF StartFails, IInv, MuteType, OneOwner
<1>2. ModeIsTheRest'
  BY DEF StartFails, IInv, ModeIsTheRest, workerVars
<1>3. \A g \in Guards : g \in OpenGuards' <=> g \in OpenGuards /\ g # making[k]
  BY DEF StartFails, IInv, MuteType, OneOwner, OpenGuards, Guards
<1>4. /\ UNCHANGED <<workerVars, exitVars, dropping>> /\ seq' = seq /\ owner' = owner
      /\ locked' \subseteq locked
  BY DEF StartFails, workerVars
<1>5. CASE making[k] = 0
  <2>1. queue' = queue
    BY <1>5 DEF StartFails
  <2>2. QueueInv'
    BY <1>3, <1>4, <1>5, <2>1, QueueStays DEF IInv, Guards
  <2>3. Covered' /\ ExitOrder' /\ LastFlush'
    BY <1>3, <1>4, <1>5, <2>1, QuietKeeps DEF IInv, MuteType, Guards
  <2>4. QED
    BY <1>1, <1>2, <2>2, <2>3 DEF IInv
<1>6. CASE making[k] # 0
  <2>1. queue' = Append(queue, Unmute(making[k]))
    BY <1>6 DEF StartFails
  <2>2. making[k] \in Guards /\ making[k] <= seq
    BY <1>6 DEF IInv, MuteType, OneOwner, Guards
  <2>3. QueueInv'
    BY <1>3, <1>4, <2>1, <2>2, QueueUnmutes DEF IInv
  <2>4. Covered' /\ ExitOrder' /\ LastFlush'
    BY <1>3, <1>4, <2>1, <2>2, QuietKeeps DEF IInv, MuteType, Guards
  <2>5. QED
    BY <1>1, <1>2, <2>3, <2>4 DEF IInv
<1>7. QED
  BY <1>5, <1>6

(* A stop or a cancel takes the session out, to drop it later.             *)
LEMMA TakesKeeps ==
  ASSUME IInv, MuteType', NEW k \in Kinds, Takes(k)
  PROVE  IInv'
<1>1. OneOwner'
  BY DEF Takes, IInv, MuteType, OneOwner
<1>2. ModeIsTheRest'
  BY DEF Takes, IInv, ModeIsTheRest, workerVars
<1>3. \A g \in Guards : g \in OpenGuards' <=> g \in OpenGuards
  <2>1. \A j \in Kinds : live'[j] = IF j = k THEN 0 ELSE live[j]
    BY DEF Takes, IInv, MuteType
  <2>2. QED
    BY <2>1 DEF Takes, OpenGuards, Guards
<1>4. /\ UNCHANGED <<workerVars, exitVars, queue, locked>> /\ seq' = seq
      /\ owner' = owner /\ dropping \subseteq dropping'
  BY DEF Takes, workerVars
<1>5. QueueInv'
  BY <1>3, <1>4, QueueStays DEF IInv
<1>6. Covered' /\ ExitOrder' /\ LastFlush'
  BY <1>3, <1>4, QuietKeeps DEF IInv, MuteType, Guards
<1>7. QED
  BY <1>1, <1>2, <1>5, <1>6 DEF IInv

(* The stop's capture join is over: its guard is dropped.                  *)
LEMMA DropsKeeps ==
  ASSUME IInv, MuteType', NEW g \in Guards, Drops(g)
  PROVE  IInv'
<1>1. OneOwner'
  BY DEF Drops, IInv, MuteType, OneOwner
<1>2. ModeIsTheRest'
  BY DEF Drops, IInv, ModeIsTheRest, workerVars
<1>3. \A h \in Guards : h \in OpenGuards' <=> h \in OpenGuards /\ h # g
  BY DEF Drops, IInv, MuteType, OneOwner, OpenGuards, Guards
<1>4. /\ UNCHANGED <<workerVars, exitVars, locked>> /\ seq' = seq /\ owner' = owner
      /\ queue' = Append(queue, Unmute(g)) /\ dropping' = dropping \ {g}
  BY DEF Drops, workerVars
<1>5. g <= seq
  BY DEF Drops, IInv, OneOwner
<1>6. QueueInv'
  BY <1>3, <1>4, <1>5, QueueUnmutes DEF IInv
<1>7. Covered' /\ ExitOrder' /\ LastFlush'
  BY <1>3, <1>4, QuietKeeps DEF IInv, MuteType, Guards
<1>8. QED
  BY <1>1, <1>2, <1>6, <1>7 DEF IInv

-----------------------------------------------------------------------------
(* The worker, the user and the exit.                                       *)

(* Steps of others leave the owners alone.                                 *)
LEMMA OwnerUnchanged ==
  ASSUME OneOwner, UNCHANGED sessionVars PROVE OneOwner' /\ OpenGuards' = OpenGuards
BY DEF OneOwner, OpenGuards, sessionVars

(* The worker restores only at the end of the newest session or at a flush, *)
(* and the last flush finds every Mute before it.                           *)
LEMMA WorkerKeeps ==
  ASSUME IInv, MuteType', Worker
  PROVE  IInv'
<1>1. /\ queue \in Seq(Command) /\ queue # <<>> /\ queue' = Tail(queue)
      /\ UNCHANGED <<sessionVars, exitVars>> /\ seq' = seq /\ dropping' = dropping
      /\ seq \in 0..MaxGuards
  BY DEF Worker, IInv, MuteType, sessionVars
<1>2. /\ Range(queue) = Range(queue') \cup {Head(queue)}
      /\ \A x, y : Followed(queue, x, y) => Followed(queue', x, y)
      /\ \A y : Followed(queue, Head(queue), y) => y \in Range(queue')
  BY <1>1, ReceiveProperties
<1>3. OneOwner' /\ OpenGuards' = OpenGuards
  BY <1>1, OwnerUnchanged DEF IInv
<1>4. QueueInv' /\ ModeIsTheRest'
  BY QueueIsServed, RestIsKept DEF IInv
<1>5. Covered'
  <2>1. SUFFICES ASSUME exit = 0, seq \in OpenGuards \ ({0} \cup dropping),
                        Mute(seq) \notin Range(queue')
                 PROVE  owner' = seq /\ muted' = Outputs
    BY <1>1, <1>3 DEF Covered, exitVars
  <2>2. seq \in Guards
    BY <1>1, <2>1 DEF Guards
  <2>3. ASSUME NEW g \in Guards, Head(queue) = Mute(g), HandleMute(g)
        PROVE  owner' = seq /\ muted' = Outputs
    <3>1. g # seq => Followed(queue, Mute(g), Mute(seq))
      BY <2>3 DEF IInv, QueueInv, NewestLast
    <3>2. g = seq
      BY <1>2, <2>1, <2>3, <3>1
    <3>3. QED
      BY <2>3, <3>2 DEF HandleMute
  <2>4. ASSUME NEW g \in Guards, Head(queue) = Unmute(g), HandleUnmute(g)
        PROVE  owner' = seq /\ muted' = Outputs
    <3>1. g # seq
      BY <1>2, <2>1, <2>4 DEF IInv, QueueInv, UnmutesLate
    <3>2. Mute(seq) \notin Range(queue)
      BY <1>2, <2>1, <2>4, CommandsDiffer
    <3>3. owner = seq /\ muted = Outputs
      BY <2>1, <3>2 DEF IInv, Covered
    <3>4. QED
      BY <2>4, <3>1, <3>3 DEF HandleUnmute, workerVars
  <2>5. ASSUME NEW p \in 1..Passes, Head(queue) = Flush(p)
        PROVE  FALSE
    BY <1>2, <2>1, <2>5 DEF IInv, ExitOrder, Flushes
  <2>6. QED
    BY <2>3, <2>4, <2>5, WorkerCases DEF IInv
<1>6. ExitOrder'
  BY <1>1, <1>2 DEF IInv, ExitOrder, exitVars, sessionVars, Dead
<1>7. LastFlush'
  <2>1. \/ owner' = owner
        \/ owner' = 0
        \/ \E g \in Guards : Head(queue) = Mute(g) /\ owner' = g
    BY WorkerCases DEF IInv, HandleMute, HandleUnmute, HandleFlush, RestoreAll, workerVars
  <2>2. CASE exit = Passes /\ flushed
    <3>1. owner = 0 /\ \A g \in Guards : Mute(g) \notin Range(queue)
      BY <2>2 DEF IInv, LastFlush
    <3>2. owner' = 0
      BY <1>2, <2>1, <3>1
    <3>3. QED
      BY <1>1, <1>2, <2>2, <3>1, <3>2, AbsentIsFollowed DEF LastFlush, exitVars, IInv, MuteType
  <2>3. CASE ~(exit = Passes /\ flushed)
    <3>1. SUFFICES ASSUME Answerable
                   PROVE  /\ \A g \in Guards : Followed(queue', Mute(g), Flush(Passes))
                          /\ owner' = 0 \/ Flush(Passes) \in Range(queue')
      BY <1>1, <2>3 DEF LastFlush, Answerable, exitVars
    <3>2. ASSUME NEW g \in Guards
          PROVE  /\ Followed(queue', Mute(g), Flush(Passes))
                 /\ Head(queue) = Mute(g) => Flush(Passes) \in Range(queue')
      <4>1. Followed(queue, Mute(g), Flush(Passes))
        BY <3>1 DEF IInv, LastFlush
      <4>2. QED
        BY <1>2, <4>1
    <3>3. owner' = 0 \/ Flush(Passes) \in Range(queue')
      <4>1. CASE Head(queue) = Flush(Passes)
        BY <4>1, WorkerCases, CommandsDiffer DEF IInv, HandleFlush, RestoreAll
      <4>2. CASE Head(queue) # Flush(Passes)
        <5>1. owner = 0 \/ Flush(Passes) \in Range(queue')
          BY <1>2, <3>1, <4>2 DEF IInv, LastFlush
        <5>2. QED
          BY <2>1, <3>2, <5>1
      <4>3. QED
        BY <4>1, <4>2
    <3>4. QED
      BY <3>2, <3>3
  <2>4. QED
    BY <2>2, <2>3
<1>8. QED
  BY <1>3, <1>4, <1>5, <1>6, <1>7 DEF IInv

(* The user's own change is made to both.                                  *)
LEMMA UserKeeps ==
  ASSUME IInv, MuteType', NEW o \in Outputs, UserToggles(o)
  PROVE  IInv'
<1>1. OneOwner' /\ OpenGuards' = OpenGuards /\ UNCHANGED <<sessionVars, exitVars, queue, owner>>
      /\ seq' = seq /\ owner = 0
  BY OwnerUnchanged DEF UserToggles, IInv, sessionVars
<1>2. QueueInv'
  BY <1>1, QueueStays DEF IInv
<1>3. ModeIsTheRest'
  BY DEF UserToggles, IInv, ModeIsTheRest
<1>4. Covered'
  BY <1>1 DEF IInv, Covered, sessionVars, exitVars
<1>5. ExitOrder' /\ LastFlush'
  BY <1>1 DEF IInv, ExitOrder, LastFlush, Answerable, sessionVars, exitVars, Dead
<1>6. QED
  BY <1>1, <1>2, <1>3, <1>4, <1>5 DEF IInv

(* A pass of the exit takes a session out of a state no start holds.       *)
LEMMA ExitTakesOut ==
  ASSUME IInv, MuteType', NEW k \in Kinds, k \notin locked,
         live' = [live EXCEPT ![k] = 0],
         queue' = IF live[k] = 0 THEN queue ELSE Append(queue, Unmute(live[k])),
         UNCHANGED <<seq, locked, making, dropping, workerVars, base, exit, flushed>>,
         step # step', step \in {"takes", "drops"}, step' \in {"drops", "flushes"},
         exit # 0, step' = "flushes" => Record \notin locked,
         exit = Passes => Stream \notin locked
  PROVE  IInv'
<1>1. OneOwner'
  BY DEF IInv, MuteType, OneOwner
<1>2. ModeIsTheRest'
  BY DEF IInv, ModeIsTheRest, workerVars
<1>3. \A g \in Guards : g \in OpenGuards' <=> g \in OpenGuards /\ g # live[k]
  BY DEF IInv, MuteType, OneOwner, OpenGuards, Guards
<1>4. owner' = owner /\ seq' = seq
  BY DEF workerVars
<1>5. QueueInv'
  <2>1. CASE live[k] = 0
    BY <1>3, <1>4, <2>1, QueueStays DEF IInv, Guards
  <2>2. CASE live[k] # 0
    <3>1. live[k] \in Guards /\ live[k] <= seq
      BY <2>2 DEF IInv, MuteType, OneOwner, Guards
    <3>2. QED
      BY <1>3, <1>4, <2>2, <3>1, QueueUnmutes DEF IInv
  <2>3. QED
    BY <2>1, <2>2
<1>6. Covered' /\ ExitOrder' /\ LastFlush'
  BY DEF IInv, Covered, ExitOrder, LastFlush, Answerable, Dead
<1>7. QED
  BY <1>1, <1>2, <1>5, <1>6 DEF IInv

(* The steps of cleanup_for_exit.                                          *)
LEMMA ExitKeeps ==
  ASSUME IInv, MuteType', Exit
  PROVE  IInv'
<1> USE DEF exitVars
<1>1. ASSUME UNCHANGED <<sessionVars, workerVars, base, queue>>
      PROVE  OneOwner' /\ QueueInv' /\ ModeIsTheRest'
  <2>1. OneOwner' /\ OpenGuards' = OpenGuards /\ seq' = seq /\ owner' = owner
    BY <1>1, OwnerUnchanged DEF IInv, sessionVars, workerVars
  <2>2. QueueInv'
    BY <1>1, <2>1, QueueStays DEF IInv
  <2>3. QED
    BY <1>1, <2>1, <2>2 DEF IInv, ModeIsTheRest, workerVars
<1>2. CASE ExitBegins
  <2>1. exit' # 0 /\ step' = "takes" /\ ~flushed'
    BY <1>2 DEF ExitBegins, IInv, MuteType
  <2>2. Covered' /\ ExitOrder' /\ LastFlush'
    BY <2>1 DEF Covered, ExitOrder, LastFlush, Answerable, Dead
  <2>3. QED
    BY <1>1, <1>2, <2>2 DEF ExitBegins, IInv
<1>3. CASE ExitTakes
  BY <1>3, ExitTakesOut DEF ExitTakes, Kinds
<1>4. CASE ExitDrops
  BY <1>4, ExitTakesOut DEF ExitDrops, Kinds, IInv, ExitOrder
<1>5. CASE ExitFlushes
  <2>1. exit \in 1..Passes /\ ~flushed
    BY <1>5 DEF ExitFlushes, IInv, MuteType, ExitOrder
  <2>2. OneOwner' /\ OpenGuards' = OpenGuards /\ ModeIsTheRest'
    BY <1>5, OwnerUnchanged DEF ExitFlushes, IInv, ModeIsTheRest, workerVars
  <2>3. CASE dropped \/ ~wedged
    <3>1. queue' = Append(queue, Flush(exit))
      BY <1>5, <2>3 DEF ExitFlushes
    <3>2. QueueInv'
      BY <1>5, <2>1, <3>1, QueueFlushes DEF ExitFlushes, IInv
    <3>3. /\ Range(queue') = Range(queue) \cup {Flush(exit)}
          /\ \A x : Flush(exit) # x => Followed(queue', x, Flush(exit))
      BY <2>1, <3>1, Sendable, SendProperties DEF IInv, MuteType
    <3>4. LastFlush'
      BY <1>5, <2>1, <3>3, CommandsDiffer DEF ExitFlushes, LastFlush, Answerable
    <3>5. Covered' /\ ExitOrder'
      BY <1>5, <2>1 DEF ExitFlushes, IInv, Covered, ExitOrder, Dead, sessionVars
    <3>6. QED
      BY <2>2, <3>2, <3>4, <3>5 DEF IInv
  <2>4. CASE ~(dropped \/ ~wedged)
    <3>1. queue' = queue
      BY <1>5, <2>4 DEF ExitFlushes
    <3>2. Covered' /\ ExitOrder' /\ LastFlush'
      BY <1>5, <2>1, <2>4 DEF ExitFlushes, IInv, Covered, ExitOrder, LastFlush,
         Answerable, Dead, sessionVars
    <3>3. QED
      BY <1>1, <1>5, <3>1, <3>2 DEF ExitFlushes, IInv
  <2>5. QED
    BY <2>3, <2>4
<1>6. CASE ExitAnswered
  <2>1. exit # 0
    BY <1>6 DEF ExitAnswered, IInv, ExitOrder
  <2>2. exit = Passes => owner = 0 /\ Flush(Passes) \notin Range(queue)
    <3>1. exit = Passes => Flush(Passes) \notin Range(queue)
      BY <1>6 DEF ExitAnswered, FlushPending, Range
    <3>2. QED
      BY <1>6, <3>1 DEF ExitAnswered, IInv, LastFlush, Answerable
  <2>3. ASSUME exit = Passes, NEW g \in Guards PROVE Mute(g) \notin Range(queue)
    <3>1. Followed(queue, Mute(g), Flush(Passes))
      BY <1>6, <2>3 DEF ExitAnswered, IInv, LastFlush, Answerable
    <3>2. Mute(g) \in Range(queue) => Flush(Passes) \in Range(queue)
      BY <3>1, FollowedIsQueued DEF IInv, MuteType
    <3>3. QED
      BY <2>2, <2>3, <3>2
  <2>4. LastFlush'
    BY <1>6, <2>2, <2>3 DEF ExitAnswered, IInv, LastFlush, Answerable, workerVars
  <2>5. Covered' /\ ExitOrder'
    BY <1>6, <2>1 DEF ExitAnswered, IInv, Covered, ExitOrder, Dead, sessionVars
  <2>6. QED
    BY <1>1, <1>6, <2>4, <2>5 DEF ExitAnswered, IInv
<1>7. CASE ExitTimesOut
  <2>1. Covered' /\ ExitOrder' /\ LastFlush'
    BY <1>7 DEF ExitTimesOut, IInv, Covered, ExitOrder, LastFlush, Answerable, Dead,
       sessionVars, workerVars
  <2>2. QED
    BY <1>1, <1>7, <2>1 DEF ExitTimesOut, IInv
<1>8. CASE Dies
  <2>1. exit # 0
    BY <1>8 DEF Dies, Passes
  <2>2. Covered' /\ ExitOrder' /\ LastFlush'
    BY <1>8, <2>1 DEF Dies, IInv, Covered, ExitOrder, LastFlush, Answerable, Dead,
       sessionVars, workerVars
  <2>3. QED
    BY <1>1, <1>8, <2>2 DEF Dies, IInv
<1>9. QED
  BY <1>2, <1>3, <1>4, <1>5, <1>6, <1>7, <1>8 DEF Exit

-----------------------------------------------------------------------------
(* Nothing is muted, queued or owned before the first guard.               *)
LEMMA IInit == MuteInit => IInv
<1> SUFFICES ASSUME MuteInit PROVE IInv
  OBVIOUS
<1>1. MuteType
  BY TypeInit
<1>2. Range(queue) = {} /\ \A x, y : Followed(queue, x, y)
  <2>1. <<>> \in Seq(Command) /\ DOMAIN <<>> = {} /\ Range(<<>>) = {}
    BY EmptySeq DEF Range
  <2>2. QED
    BY <2>1, AbsentIsFollowed DEF MuteInit
<1>3. OneOwner /\ ModeIsTheRest /\ Covered
  BY GuardsAssumption DEF MuteInit, OneOwner, ModeIsTheRest, Covered
<1>4. QueueInv
  BY <1>2 DEF MuteInit, QueueInv, MutesEnd, OwnerEnds, UnmutesLate, NewestLast
<1>5. ExitOrder /\ LastFlush
  BY <1>2 DEF MuteInit, ExitOrder, LastFlush, Answerable, Dead, Passes
<1>6. QED
  BY <1>1, <1>3, <1>4, <1>5 DEF IInv

(* Every step keeps the types.                                             *)
LEMMA TypeNext == ASSUME IInv, [MuteNext]_muteVars PROVE MuteType'
<1>1. CASE UNCHANGED muteVars
  BY <1>1 DEF muteVars, IInv, MuteType, sessionVars, workerVars, exitVars
<1>2. CASE MuteNext
  BY <1>2, TypeSessions, TypeWorker, TypeOthers DEF MuteNext, IInv, ExitOrder
<1>3. QED
  BY <1>1, <1>2

(* Every step keeps the invariant.                                         *)
LEMMA IInvNext == IInv /\ [MuteNext]_muteVars => IInv'
<1> SUFFICES ASSUME IInv, [MuteNext]_muteVars PROVE IInv'
  OBVIOUS
<1>1. MuteType'
  BY TypeNext
<1>2. CASE UNCHANGED muteVars
  <2>1. OneOwner' /\ OpenGuards' = OpenGuards /\ UNCHANGED <<queue, seq, owner>>
    BY <1>2, OwnerUnchanged DEF muteVars, IInv, sessionVars, workerVars
  <2>2. QueueInv'
    BY <2>1, QueueStays DEF IInv
  <2>3. ModeIsTheRest' /\ Covered' /\ ExitOrder' /\ LastFlush'
    BY <1>2, <2>1 DEF muteVars, IInv, ModeIsTheRest, Covered, ExitOrder, LastFlush,
       Answerable, Dead, sessionVars, workerVars, exitVars
  <2>4. QED
    BY <1>1, <2>1, <2>2, <2>3 DEF IInv
<1>3. CASE MuteNext
  <2>1. CASE SessionSteps
    BY <1>1, <2>1, StartBeginKeeps, MakesGuardKeeps, StartOpensKeeps, StartFailsKeeps,
       TakesKeeps, DropsKeeps DEF SessionSteps
  <2>2. CASE Worker
    BY <1>1, <2>2, WorkerKeeps
  <2>3. ASSUME NEW o \in Outputs, UserToggles(o) PROVE IInv'
    BY <1>1, <2>3, UserKeeps
  <2>4. CASE Exit
    BY <1>1, <2>4, ExitKeeps
  <2>5. QED
    BY <1>3, <2>1, <2>2, <2>3, <2>4 DEF MuteNext
<1>4. QED
  BY <1>2, <1>3

(* The types hold for every number of guards and every set of outputs.      *)
THEOREM MuteTypeCorrect == MuteSpec => []MuteType
<1>1. IInv => MuteType
  BY DEF IInv
<1>2. QED
  BY <1>1, IInit, IInvNext, PTL DEF MuteSpec

(* The outputs follow the sessions: with no session left and nothing queued *)
(* no guard owns the mute, so the worker has given back what it took; the   *)
(* newest guard's Mute is the last one, so it owns the mute once it is       *)
(* handled; and a flush the last pass saw answered found every Mute ahead.  *)
THEOREM MuteFollows == MuteSpec => []MuteFollowsTheSessions
<1>1. ASSUME IInv PROVE MuteFollowsTheSessions
  <2>1. ASSUME OpenGuards \subseteq {0}, queue = <<>> PROVE muted = base
    <3>1. Range(queue) = {}
      BY <2>1, EmptySeq DEF Range
    <3>2. owner = 0
      BY <1>1, <2>1, <3>1 DEF IInv, QueueInv, OwnerEnds
    <3>3. QED
      BY <1>1, <3>2 DEF IInv, MuteType, ModeIsTheRest
  <2>2. ASSUME Dead, flushed PROVE muted = base
    <3>1. owner = 0
      BY <1>1, <2>2 DEF IInv, ExitOrder, LastFlush
    <3>2. QED
      BY <1>1, <3>1 DEF IInv, MuteType, ModeIsTheRest
  <2>3. ASSUME NEW g \in OpenGuards \ ({0} \cup dropping),
               g = seq, Mute(g) \notin Range(queue), exit = 0
        PROVE  owner = g /\ muted = Outputs
    BY <1>1, <2>3 DEF IInv, Covered
  <2>4. QED
    BY <2>1, <2>2, <2>3 DEF MuteFollowsTheSessions
<1>2. QED
  BY <1>1, IInit, IInvNext, PTL DEF MuteSpec
=============================================================================
