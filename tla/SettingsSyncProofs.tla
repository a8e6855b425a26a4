------------------------- MODULE SettingsSyncProofs -------------------------
(***************************************************************************)
(* Proofs about settings synchronisation, for any servers, any setting      *)
(* categories and every bound on the edits and the gestures: the types of    *)
(* the engine's state, and that the guarded category changes with consent.   *)
(***************************************************************************)
EXTENDS SettingsSync, SequenceTheorems, TLAPS

-----------------------------------------------------------------------------
(* The inductive invariant.                                                 *)

OpKinds  == {None, "pull", "push", "approve", "resolve"}
Stages == {None, "bind", "bound", "asked", "answered", "put", "ok", "refused", "apply", "raise",
           "sign", "compose"}

Edition  == 0..MaxEdits
Content  == Edition \cup {Absent}
Doc      == [Cats -> Content]
Document == [ver : Nat, stamp : Nat, doc : Doc]
PutType  == [server : Servers \cup {None}, base : Nat, known : Nat, blob : Doc]
BaseType == [server : Servers \cup {None}, ver : Nat, stamp : Nat, doc : Doc,
             from : (Servers \cup {None}) \X Nat]

ReviewType ==
  [ver : Nat, stamp : Nat, doc : Doc, blob : Doc, cats : SUBSET Cats,
   applied : SUBSET Cats, sig : Doc]
ConflictType == [ver : Nat, stamp : Nat, doc : Doc, cats : SUBSET Cats]

OpType ==
  [kind : OpKinds, stage : Stages, manual : BOOLEAN, remote : Document, blob : Doc,
   cats : SUBSET Cats, put : PutType, tries : Nat, moved : BOOLEAN, sig : Doc,
   picks : SUBSET Cats, review : ReviewType, conflict : ConflictType]

PrefType ==
  /\ store \in [Cats -> Edition]
  /\ on \in SUBSET Cats /\ enabled \in BOOLEAN /\ target \in Servers /\ busy \in BOOLEAN
EngineType ==
  /\ st \in BaseType /\ fresh \in SUBSET Cats
  /\ op \in OpType /\ timer \in BOOLEAN /\ parked \in {"no", "parked", "due"}
PromptType == conflict \in ConflictType /\ review \in ReviewType
WorldType ==
  /\ late \in Seq(Servers) /\ server \in [Servers -> Document]
  /\ wire \in SUBSET PutType /\ \A put \in wire : put.server \in Servers
CountType ==
  /\ edits \in Edition /\ budget \in [Kinds -> Nat]
  /\ over \in [Edition -> SUBSET Edition] /\ misjudged \in BOOLEAN

(* Types of the settings, the engine, the prompts, the servers, the bounds.   *)
SyncType == PrefType /\ EngineType /\ PromptType /\ WorldType /\ CountType

(* An operation at a stage is of a kind; a request names its server; only an  *)
(* approval waits for its signature.                                        *)
Shape(o) ==
  /\ o.stage # None => o.kind # None
  /\ o.stage = "put" => o.put.server \in Servers
  /\ o.stage = "sign" => o.kind = "approve"

(* What waits for the keyring to be applied leaves the guarded category as it  *)
(* is, or is the review the user approved, unless the settings moved since.   *)
Asked(o, v, now) ==
  \/ v = now[Guarded]
  \/ o.kind = "approve" /\ v = o.review.blob[Guarded]
Consented(o, now) == o.stage = "apply" /\ ~o.moved => Asked(o, o.blob[Guarded], now)

IInv == SyncType /\ Shape(op) /\ Consented(op, store)

-----------------------------------------------------------------------------
(* What the operators return.                                               *)

LEMMA Constants ==
  /\ Guarded \in Cats /\ MaxEdits \in Nat
  /\ Absent \in Content /\ 0 \in Edition /\ Absent \notin Edition
  /\ \A e \in Edition : e \in Nat /\ e \in Content
  /\ \A e \in Edition : e < MaxEdits => e + 1 \in Edition
BY SyncAssumption DEF Absent, Content, Edition

LEMMA Documents ==
  /\ NoDoc \in Doc /\ Held \in Doc /\ Held \in [Cats -> Edition]
  /\ Nothing \in Document /\ Blank \in BaseType
  /\ NoConflict \in ConflictType /\ NoReview \in ReviewType /\ NoPut \in PutType
<1>1. NoDoc \in Doc /\ Held \in Doc /\ Held \in [Cats -> Edition]
  BY Constants DEF NoDoc, Held, Doc
<1> QED
  BY <1>1 DEF Nothing, Document, Blank, BaseType, NoConflict, ConflictType, NoReview,
     ReviewType, NoPut, PutType

LEMMA Operations ==
  /\ Idle \in OpType /\ Idle.stage = None /\ Idle.kind = None
  /\ \A m \in BOOLEAN :
       /\ Pull(m) \in OpType /\ Pull(m).kind = "pull" /\ Pull(m).stage = None
       /\ Push(m) \in OpType /\ Push(m).kind = "push" /\ Push(m).stage = None
<1>1. Idle \in OpType /\ Idle.stage = None /\ Idle.kind = None
  BY Documents DEF Idle, OpType, OpKinds, Stages
<1>2. "pull" \in OpKinds /\ "push" \in OpKinds
  BY DEF OpKinds
<1> QED
  BY <1>1, <1>2 DEF Pull, Push, OpType

LEMMA Composing ==
  ASSUME PrefType, EngineType, NEW pass \in Doc, NEW cats
  PROVE  /\ Compose(cats, pass) \in Doc
         /\ PassThrough(pass) \in Doc
         /\ MergeBase \in Doc
<1>1. st.doc \in Doc
  BY DEF EngineType, BaseType
<1> QED
  BY <1>1, Constants DEF Compose, PassThrough, MergeBase, Doc, PrefType

LEMMA Merging ==
  ASSUME NEW local \in Doc, NEW remote \in Doc
  PROVE  Merged(local, remote) \in Doc
BY DEF Merged, Doc

LEMMA Hydrating ==
  ASSUME PrefType, NEW blob \in Doc, NEW cats
  PROVE  Hydrated(blob, cats) \in [Cats -> Edition]
BY Constants DEF Hydrated, Doc, PrefType, Content

LEMMA Editions ==
  ASSUME NEW s \in [Cats -> Edition]
  PROVE  s \in Doc
BY Constants DEF Doc

-----------------------------------------------------------------------------
(* The steps an operation is made of.                                       *)

(* What every change of the operation in progress keeps.                    *)
Sound(o, now) == o \in OpType /\ Shape(o) /\ Consented(o, now)

LEMMA IdleSound == \A now : Sound(Idle, now)
BY Operations DEF Sound, Shape, Consented, Stages, None

LEMMA Staged ==
  ASSUME NEW o \in OpType, NEW stage \in Stages \ {"put", "sign", "apply"},
         o.kind # None, NEW now
  PROVE  Sound([o EXCEPT !.stage = stage], now)
BY DEF Sound, Shape, Consented, OpType, None

LEMMA StoredType ==
  ASSUME WorldType, NEW s \in Servers
  PROVE  Stored(s) \in Document
BY Documents DEF Stored, WorldType

LEMMA Sending ==
  ASSUME PrefType, NEW o \in OpType, o.kind # None, NEW blob \in Doc,
         NEW ver \in Nat, NEW stamp \in Nat, NEW now
  PROVE  Sound(SendTo(o, blob, ver, stamp), now)
<1> DEFINE put == [server |-> target, base |-> ver, known |-> stamp, blob |-> blob]
<1>1. put \in PutType /\ put.server \in Servers
  BY DEF PrefType, PutType
<1>2. "put" \in Stages
  BY DEF Stages
<1> HIDE DEF put
<1>3. [o EXCEPT !.stage = "put", !.remote = Nothing, !.put = put] \in OpType
  BY <1>1, <1>2, Documents DEF OpType
<1>4. SendTo(o, blob, ver, stamp) = [o EXCEPT !.stage = "put", !.remote = Nothing, !.put = put]
  BY DEF SendTo, put
<1>5. /\ SendTo(o, blob, ver, stamp).stage = "put" /\ SendTo(o, blob, ver, stamp).put = put
      /\ SendTo(o, blob, ver, stamp).kind = o.kind
  BY <1>4 DEF OpType
<1> QED
  BY <1>1, <1>3, <1>4, <1>5 DEF Sound, Shape, Consented

LEMMA ComposedSound ==
  ASSUME PrefType, EngineType, NEW o \in OpType, o.kind # None, NEW now
  PROVE  Sound(Composed(o), now)
<1>1. st.doc \in Doc /\ st.ver \in Nat /\ st.stamp \in Nat
  BY DEF EngineType, BaseType
<1>2. Compose(on, st.doc) \in Doc
  BY <1>1, Composing
<1> QED
  BY <1>1, <1>2, IdleSound, Sending DEF Composed

LEMMA BoundSound ==
  ASSUME PrefType, EngineType, NEW o \in OpType, o.kind # None, NEW now
  PROVE  Sound(Bound(o), now)
<1>1. CASE o.kind = "pull"
  BY <1>1, Staged, "asked" \in Stages \ {"put", "sign", "apply"} DEF Bound, Stages
<1>2. CASE o.kind # "pull"
  BY <1>2, ComposedSound DEF Bound
<1> QED
  BY <1>1, <1>2

LEMMA Taking ==
  ASSUME PrefType, EngineType, NEW s \in Servers,
         NEW o \in OpType, o.kind # None, Take(o, s), NEW now
  PROVE  Sound(op', now) /\ st' \in BaseType
<1>1. "bind" \in Stages \ {"put", "sign", "apply"}
  BY DEF Stages
<1>2. CASE st.server = s
  BY <1>2, BoundSound DEF Take, EngineType
<1>3. CASE st.server # s
  BY <1>1, <1>3, Staged, Documents DEF Take
<1> QED
  BY <1>2, <1>3

LEMMA Ending ==
  ASSUME EngineType, NEW send \in BOOLEAN, Ends(send), NEW now
  PROVE  Sound(op', now) /\ timer' \in BOOLEAN
BY IdleSound DEF Ends, EngineType

LEMMA Adopting ==
  ASSUME PrefType, EngineType, PromptType, NEW rem,
         rem.ver \in Nat, rem.stamp \in Nat, rem.doc \in Doc
  PROVE  /\ Adopted(rem) \in BaseType
         /\ Settles(rem) => fresh' \in SUBSET Cats /\ PromptType'
BY Documents DEF Adopted, Settles, PrefType, EngineType, PromptType, BaseType

LEMMA Forgetting ==
  ASSUME EngineType, Forget
  PROVE  st' \in BaseType /\ fresh' \in SUBSET Cats /\ PromptType'
         /\ parked' \in {"no", "parked", "due"}
BY Documents DEF Forget, EngineType, PromptType, DropPrompts, Unpark, BaseType

LEMMA Superseding ==
  ASSUME PrefType, EngineType, WorldType, Shape(op), Superseded
  PROVE  /\ PromptType' /\ parked' \in {"no", "parked", "due"} /\ timer' \in BOOLEAN
         /\ late' \in Seq(Servers)
         /\ wire' \in SUBSET PutType /\ \A put \in wire' : put.server \in Servers
<1>1. op.put \in PutType
  BY DEF EngineType, OpType
<1>2. PromptType'
  BY Documents DEF Superseded, DropPrompts, PromptType
<1>3. late' \in Seq(Servers)
  BY DEF Superseded, WorldType, PrefType
<1>4. op.stage = "put" => op.put.server \in Servers
  BY DEF Shape
<1>5. wire' \in SUBSET PutType /\ \A put \in wire' : put.server \in Servers
  BY <1>1, <1>4 DEF Superseded, WorldType
<1> QED
  BY <1>2, <1>3, <1>5 DEF Superseded

-----------------------------------------------------------------------------
(* Where an apply leads.                                                    *)

(* A step of the engine: types, the invariant, and the consent of operation o. *)
EngineStep(o) ==
  /\ store' \in [Cats -> Edition] /\ Asked(o, store'[Guarded], store)
  /\ st' \in BaseType /\ fresh' \in SUBSET Cats /\ timer' \in BOOLEAN
  /\ parked' \in {"no", "parked", "due"} /\ PromptType'
  /\ Sound(op', store')

(* What an apply may write over the guarded category.                       *)
Asks(o, blob) == Guarded \in o.cats /\ blob[Guarded] # Absent => Asked(o, blob[Guarded], store)

LEMMA Landing ==
  ASSUME IInv, NEW o \in OpType, o.kind # None, NEW blob \in Doc, NEW rem,
         rem.ver \in Nat, rem.stamp \in Nat, rem.doc \in Doc,
         Asks(o, blob), Lands(o, blob, rem)
  PROVE  EngineStep(o)
<1> USE DEF IInv, SyncType
<1>1. store' \in [Cats -> Edition]
  BY Hydrating DEF Lands
<1>2. Asked(o, store'[Guarded], store)
  BY Constants DEF Lands, Hydrated, Asks, Asked, PrefType
<1>3. parked' \in {"no", "parked", "due"}
  BY DEF Lands, EngineType
<1>4. CASE o.kind = "push"
  <2>1. st' \in BaseType /\ fresh' \in SUBSET Cats /\ PromptType'
    BY <1>4 DEF Lands, EngineType, PromptType, promptVars
  <2>2. CASE o.tries < 2
    <3> DEFINE again == [o EXCEPT !.tries = @ + 1]
    <3>1. again \in OpType /\ again.kind # None
      BY DEF OpType, None
    <3> HIDE DEF again
    <3>2. Sound(SendTo(again, blob, rem.ver, rem.stamp), store')
      BY <3>1, Sending
    <3>3. op' = SendTo(again, blob, rem.ver, rem.stamp) /\ timer' \in BOOLEAN
      BY <1>4, <2>2 DEF Lands, again, EngineType
    <3> QED
      BY <1>1, <1>2, <1>3, <2>1, <3>2, <3>3 DEF EngineStep
  <2>3. CASE ~(o.tries < 2)
    <3>1. Sound(op', store') /\ timer' \in BOOLEAN
      BY <1>4, <2>3, Ending DEF Lands
    <3> QED
      BY <1>1, <1>2, <1>3, <2>1, <3>1 DEF EngineStep
  <2> QED
    BY <2>2, <2>3
<1>5. CASE o.kind # "push"
  <2>1. Adopted(rem) \in BaseType /\ fresh' \in SUBSET Cats /\ PromptType'
    BY <1>5, Adopting DEF Lands
  <2>2. CASE o.kind = "resolve" /\ blob # rem.doc
    <3>1. \A stage \in {"bound", "bind"} : Sound([Push(TRUE) EXCEPT !.stage = stage], store')
      BY Operations, Staged, {"bound", "bind"} \subseteq Stages \ {"put", "sign", "apply"}
         DEF None, Stages
    <3>2. PushesOn(rem)
      BY <1>5, <2>2 DEF Lands
    <3>3. Sound(op', store') /\ st' \in BaseType /\ timer' \in BOOLEAN
      BY <2>1, <3>1, <3>2, Documents DEF PushesOn, EngineType
    <3> QED
      BY <1>1, <1>2, <1>3, <2>1, <3>3 DEF EngineStep
  <2>3. CASE ~(o.kind = "resolve" /\ blob # rem.doc)
    <3>1. st' = Adopted(rem) /\ Ends(o.kind # "pull" \/ blob # rem.doc)
      BY <1>5, <2>3 DEF Lands
    <3>2. Sound(op', store') /\ timer' \in BOOLEAN
      BY <3>1, Ending
    <3>3. st' \in BaseType
      BY <2>1, <3>1
    <3> QED
      BY <1>1, <1>2, <1>3, <2>1, <3>2, <3>3 DEF EngineStep
  <2> QED
    BY <2>2, <2>3
<1> QED
  BY <1>4, <1>5

LEMMA Applying ==
  ASSUME IInv, NEW o \in OpType, o.kind # None, NEW blob \in Doc,
         NEW rem \in Document, Asks(o, blob), Applies(o, blob, rem)
  PROVE  EngineStep(o)
<1> USE DEF IInv, SyncType
<1>1. rem.ver \in Nat /\ rem.stamp \in Nat /\ rem.doc \in Doc
  BY DEF Document
<1>2. UNCHANGED store => store' \in [Cats -> Edition] /\ Asked(o, store'[Guarded], store)
  BY DEF PrefType, Asked
<1>3. CASE busy
  <2>1. Sound(op', store') /\ timer' \in BOOLEAN
    BY <1>3, Ending DEF Applies
  <2> QED
    BY <1>2, <1>3, <2>1 DEF Applies, EngineStep, EngineType, PromptType, promptVars
<1>4. CASE ~busy /\ Guarded \in o.cats /\ blob[Guarded] # Absent
  <2> DEFINE n == [o EXCEPT !.stage = "apply", !.blob = blob, !.remote = rem, !.moved = FALSE]
  <2>1. /\ op' = n /\ UNCHANGED <<store, st, fresh, timer, parked>>
        /\ review' = IF o.kind = "approve" THEN NoReview ELSE review
        /\ conflict' = IF o.kind = "resolve" THEN NoConflict ELSE conflict
    BY <1>4 DEF Applies
  <2>2. n \in OpType /\ n.stage = "apply" /\ n.kind = o.kind /\ n.blob = blob /\ n.review = o.review
    BY DEF OpType, Stages
  <2>3. Sound(n, store')
    BY <1>4, <2>1, <2>2 DEF Sound, Shape, Consented, Asks, Asked
  <2>4. PromptType'
    BY <2>1, Documents DEF PromptType
  <2> QED
    BY <1>2, <2>1, <2>3, <2>4 DEF EngineStep, EngineType
<1>5. CASE ~busy /\ ~(Guarded \in o.cats /\ blob[Guarded] # Absent)
  <2>1. Lands(o, blob, rem)
    BY <1>5 DEF Applies
  <2> QED
    BY <1>1, <2>1, Landing
<1> QED
  BY <1>3, <1>4, <1>5

LEMMA Raising ==
  ASSUME IInv, NEW rem, rem.ver \in Nat, rem.stamp \in Nat, rem.doc \in Doc,
         NEW cats \in SUBSET Cats, RaiseConflict(rem, cats)
  PROVE  EngineStep(op)
<1> USE DEF IInv, SyncType
<1>1. Sound(op', store') /\ timer' \in BOOLEAN
  BY Ending DEF RaiseConflict
<1>2. PromptType'
  BY Documents DEF RaiseConflict, PromptType, ConflictType
<1> QED
  BY <1>1, <1>2 DEF RaiseConflict, EngineStep, PrefType, EngineType, Asked

LEMMA HoldingBack ==
  ASSUME IInv, NEW o \in OpType, o.kind # None, NEW blob \in Doc,
         NEW rem \in Document, HoldsBack(o, blob, rem)
  PROVE  EngineStep(o)
<1> USE DEF IInv, SyncType
<1> DEFINE rest == o.cats \ {Guarded}
           now  == IF busy THEN store ELSE Hydrated(blob, rest)
           asks == [ver |-> rem.ver, stamp |-> rem.stamp, doc |-> rem.doc,
                    blob |-> blob, cats |-> o.cats, sig |-> now,
                    applied |-> IF busy THEN {} ELSE rest]
           held == [o EXCEPT !.review = asks]
<1>1. now \in [Cats -> Edition] /\ now[Guarded] = store[Guarded]
  BY Hydrating, Constants DEF Hydrated, PrefType
<1>2. asks \in ReviewType
  BY <1>1, Editions DEF ReviewType, Document, OpType
<1>3. held \in OpType /\ held.kind # None
  BY <1>2 DEF OpType, None
<1>4. op' = [held EXCEPT !.stage = "raise"] /\ store' = now
  BY DEF HoldsBack, OpType
<1> HIDE DEF rest, now, asks, held
<1>5. Sound(op', store')
  BY <1>3, <1>4, Staged, "raise" \in Stages \ {"put", "sign", "apply"} DEF Stages
<1>6. PromptType'
  BY Documents DEF HoldsBack, PromptType
<1>7. parked' \in {"no", "parked", "due"}
  BY DEF HoldsBack, EngineType
<1> QED
  BY <1>1, <1>4, <1>5, <1>6, <1>7 DEF HoldsBack, EngineStep, EngineType, Asked

(* A merge of the live settings is of every category synced, so it changes    *)
(* the guarded one only if it says so.                                      *)
LEMMA Judged ==
  ASSUME IInv, NEW cats \in SUBSET Cats, NEW pass \in Doc, NEW blob \in Doc,
         NEW o, o.cats = cats, ~Risky(blob, Compose(cats, pass), cats)
  PROVE  Asks(o, blob)
BY Constants DEF IInv, Risky, Compose, Asks, Asked

LEMMA Reconciling ==
  ASSUME IInv, op.kind # None, NEW rem \in Document, Reconcile(rem)
  PROVE  EngineStep(op)
<1> USE DEF IInv, SyncType
<1> DEFINE local == Compose(on, PassThrough(rem.doc))
           blob  == Merged(local, rem.doc)
           o     == [op EXCEPT !.cats = on]
<1>1. rem.doc \in Doc /\ rem.ver \in Nat /\ rem.stamp \in Nat
  BY DEF Document
<1>2. PassThrough(rem.doc) \in Doc /\ local \in Doc
  BY <1>1, Composing
<1>3. blob \in Doc
  BY <1>1, <1>2, Merging
<1>4. on \in SUBSET Cats
  BY DEF PrefType
<1>5. /\ o \in OpType /\ o.kind = op.kind /\ o.kind # None /\ o.cats = on
      /\ o.review = op.review
  BY <1>4 DEF EngineType, OpType
<1>6. EngineStep(o) => EngineStep(op)
  BY <1>5 DEF EngineStep, Asked
<1>7. CASE Conflicts(local, rem.doc) # {}
  <2>1. Conflicts(local, rem.doc) \in SUBSET Cats
    BY DEF Conflicts
  <2>2. RaiseConflict(rem, Conflicts(local, rem.doc))
    BY <1>7 DEF Reconcile
  <2> QED
    BY <1>1, <2>1, <2>2, Raising
<1>8. CASE Conflicts(local, rem.doc) = {} /\ Risky(blob, local, on)
  <2>1. HoldsBack(o, blob, rem)
    BY <1>8 DEF Reconcile
  <2> QED
    BY <1>3, <1>5, <1>6, <2>1, HoldingBack
<1>9. CASE Conflicts(local, rem.doc) = {} /\ ~Risky(blob, local, on)
  <2>1. Applies(o, blob, rem)
    BY <1>9 DEF Reconcile
  <2>2. Asks(o, blob)
    BY <1>2, <1>3, <1>4, <1>5, <1>9, Judged
  <2> QED
    BY <1>3, <1>5, <1>6, <2>1, <2>2, Applying
<1> QED
  BY <1>7, <1>8, <1>9

-----------------------------------------------------------------------------
(* The actions, one by one.                                                 *)

LEMMA Spending ==
  ASSUME CountType, NEW kind, Turn(kind)
  PROVE  budget' \in [Kinds -> Nat]
<1>1. budget \in [Kinds -> Nat] /\ budget' = [budget EXCEPT ![kind] = @ - 1]
  BY DEF CountType, Turn
<1>2. CASE kind \in Kinds
  <2>1. budget[kind] \in Nat /\ budget[kind] > 0
    BY <1>1, <1>2 DEF Turn
  <2>2. budget[kind] - 1 \in Nat
    BY <2>1
  <2> QED
    BY <1>1, <2>2
<1>3. CASE kind \notin Kinds
  BY <1>1, <1>3
<1> QED
  BY <1>2, <1>3

LEMMA Judging ==
  ASSUME CountType, NEW rem, Judges(rem) \/ UNCHANGED histVars
  PROVE  over' \in [Edition -> SUBSET Edition] /\ misjudged' \in BOOLEAN
BY DEF CountType, Judges, histVars

(* A change of the guarded category has the user's consent.                 *)
Consent ==
  store'[Guarded] # store[Guarded] =>
    \/ edits' = edits + 1
    \/ op.kind = "approve" /\ op.review.blob[Guarded] = store'[Guarded]

Step == IInv' /\ Consent

LEMMA EngineKeeps ==
  ASSUME IInv, EngineStep(op), UNCHANGED <<prefVars, worldVars>>, CountType'
  PROVE  Step
<1>1. PrefType'
  BY DEF IInv, SyncType, PrefType, EngineStep, prefVars
<1>2. EngineType' /\ PromptType' /\ Shape(op') /\ Consented(op', store')
  BY DEF EngineStep, EngineType, Sound
<1>3. WorldType'
  BY DEF IInv, SyncType, WorldType, worldVars
<1>4. Consent
  BY DEF EngineStep, Asked, Consent
<1> QED
  BY <1>1, <1>2, <1>3, <1>4 DEF Step, IInv, SyncType

(* With the settings as they are, an operation stays as sound as it was.     *)
LEMMA Standing ==
  ASSUME IInv, Sound(op', store), UNCHANGED store,
         PrefType', st' \in BaseType, fresh' \in SUBSET Cats, timer' \in BOOLEAN,
         parked' \in {"no", "parked", "due"}, PromptType', WorldType', CountType'
  PROVE  Step
BY DEF Step, IInv, SyncType, EngineType, Sound, Consent

LEMMA SoundNow == IInv => Sound(op, store)
BY DEF IInv, SyncType, EngineType, Sound

LEMMA BindsKeeps == IInv /\ Binds => Step
<1> SUFFICES ASSUME IInv, Binds  PROVE Step
  OBVIOUS
<1> USE DEF IInv, SyncType
<1>1. st' \in BaseType
  BY DEF Binds, BindTo, BaseType, EngineType, PrefType
<1>2. op.kind # None /\ target \in Servers /\ op \in OpType
  BY DEF Binds, Shape, None, PrefType, EngineType
<1>3. Sound(op', store)
  <2>1. CASE op.kind = "pull"
    BY <1>2, <2>1, BoundSound DEF Binds
  <2>2. CASE op.kind # "pull"
    BY <1>2, <2>2, Staged, "bound" \in Stages \ {"put", "sign", "apply"} DEF Binds, Stages
  <2> QED
    BY <2>1, <2>2
<1>4. PrefType' /\ PromptType' /\ WorldType' /\ CountType'
  BY DEF Binds, PrefType, PromptType, WorldType, CountType, prefVars, promptVars, worldVars,
     bounds, histVars
<1> QED
  BY <1>1, <1>3, <1>4, Standing DEF Binds, EngineType

LEMMA BindsLateKeeps == IInv /\ BindsLate => Step
<1> SUFFICES ASSUME IInv, BindsLate  PROVE Step
  OBVIOUS
<1> USE DEF IInv, SyncType
<1>1. Head(late) \in Servers /\ late' \in Seq(Servers)
  BY HeadTailProperties DEF BindsLate, WorldType
<1>2. st' \in BaseType
  BY <1>1 DEF BindsLate, BindTo, BaseType, EngineType
<1>3. PrefType' /\ PromptType' /\ WorldType' /\ CountType'
  BY <1>1 DEF BindsLate, PrefType, PromptType, WorldType, CountType, prefVars, promptVars,
     bounds, histVars
<1> QED
  BY <1>2, <1>3, Standing, SoundNow DEF BindsLate, EngineType, engineVars

LEMMA PullFailsKeeps == IInv /\ PullFails => Step
<1> SUFFICES ASSUME IInv, PullFails  PROVE Step
  OBVIOUS
<1> USE DEF IInv, SyncType
<1>1. Sound(op', store) /\ timer' \in BOOLEAN
  BY Ending DEF PullFails
<1>2. CountType'
  BY Spending DEF PullFails, CountType, histVars
<1>3. PrefType' /\ PromptType' /\ WorldType'
  BY DEF PullFails, PrefType, PromptType, WorldType, prefVars, promptVars, worldVars
<1> QED
  BY <1>1, <1>2, <1>3, Standing DEF PullFails, EngineType

LEMMA PullsKeeps == IInv /\ Pulls => Step
<1> SUFFICES ASSUME IInv, Pulls  PROVE Step
  OBVIOUS
<1> USE DEF IInv, SyncType
<1> DEFINE rem == op.remote
<1>1. op.kind # None /\ rem \in Document /\ rem.ver \in Nat
  BY DEF Pulls, Shape, None, EngineType, OpType, Document
<1>2. EngineStep(op)
  <2> SUFFICES ASSUME Reconcile(rem) => EngineStep(op)  PROVE EngineStep(op)
    BY <1>1, Reconciling
  <2>0. rem.ver = 0 <=> ~(rem.ver > 0)
    BY <1>1
  <2>1. UNCHANGED store => store' \in [Cats -> Edition] /\ Asked(op, store'[Guarded], store)
    BY DEF PrefType, Asked
  <2>2. CASE rem.ver = 0
    <3>1. PullsNothing
      BY <2>0, <2>2, Zenon DEF Pulls
    <3>2. Sound(op', store') /\ timer' \in BOOLEAN
      BY <3>1, Ending DEF PullsNothing
    <3>3. CASE st.ver > 0 \/ st.doc # NoDoc
      BY <2>1, <3>1, <3>2, <3>3, Forgetting DEF PullsNothing, EngineStep
    <3>4. CASE ~(st.ver > 0 \/ st.doc # NoDoc)
      <4>1. PromptType'
        BY <3>1, <3>4, Documents DEF PullsNothing, DropPrompts, PromptType
      <4> QED
        BY <2>1, <3>1, <3>2, <3>4, <4>1 DEF PullsNothing, Unpark, EngineStep, EngineType
    <3> QED
      BY <3>3, <3>4
  <2>3. CASE rem.ver > 0 /\ Recreated(rem)
    <3>1. Forget /\ UNCHANGED <<store, op, timer>>
      BY <2>0, <2>3, Zenon DEF Pulls
    <3> QED
      BY <2>1, <3>1, Forgetting, SoundNow DEF EngineStep, EngineType
  <2>4. CASE rem.ver > 0 /\ ~Recreated(rem) /\ NothingNew(rem)
    <3>1. Ends(TRUE) /\ UNCHANGED <<store, st, fresh, parked, promptVars>>
      BY <2>0, <2>4, Zenon DEF Pulls
    <3>2. Sound(op', store') /\ timer' \in BOOLEAN
      BY <3>1, Ending
    <3> QED
      BY <2>1, <3>1, <3>2 DEF EngineStep, EngineType, PromptType, promptVars
  <2>5. CASE rem.ver > 0 /\ ~Recreated(rem) /\ ~NothingNew(rem)
    BY <2>0, <2>5, Zenon DEF Pulls
  <2> QED
    BY <1>1, <2>2, <2>3, <2>4, <2>5
<1>3. CountType'
  <2>0. rem.ver = 0 <=> ~(rem.ver > 0)
    BY <1>1
  <2>1. Judges(rem) \/ UNCHANGED histVars
    <3>1. CASE rem.ver = 0
      BY <2>0, <3>1, Zenon DEF Pulls
    <3>2. CASE rem.ver > 0 /\ Recreated(rem)
      BY <2>0, <3>2, Zenon DEF Pulls, histVars
    <3>3. CASE rem.ver > 0 /\ ~Recreated(rem) /\ NothingNew(rem)
      BY <2>0, <3>3, Zenon DEF Pulls
    <3>4. CASE rem.ver > 0 /\ ~Recreated(rem) /\ ~NothingNew(rem)
      BY <2>0, <3>4, Zenon DEF Pulls
    <3> QED
      BY <2>0, <3>1, <3>2, <3>3, <3>4
  <2> QED
    BY <2>1, Judging DEF Pulls, CountType, bounds
<1> QED
  BY <1>2, <1>3, EngineKeeps DEF Pulls

LEMMA PushRefusedKeeps == IInv /\ PushRefused => Step
<1> SUFFICES ASSUME IInv, PushRefused  PROVE Step
  OBVIOUS
<1> USE DEF IInv, SyncType
<1> DEFINE rem == op.remote
<1>1. op.kind # None /\ rem \in Document /\ rem.ver \in Nat
  BY DEF PushRefused, Shape, None, EngineType, OpType, Document
<1>2. EngineStep(op)
  <2>0. rem.ver = 0 <=> ~(rem.ver > 0)
    BY <1>1
  <2>1. UNCHANGED store => store' \in [Cats -> Edition] /\ Asked(op, store'[Guarded], store)
    BY DEF PrefType, Asked
  <2>2. CASE rem.ver = 0
    <3>1. Forget /\ Ends(TRUE) /\ UNCHANGED store
      BY <2>0, <2>2, Zenon DEF PushRefused
    <3>2. Sound(op', store') /\ timer' \in BOOLEAN
      BY <3>1, Ending
    <3> QED
      BY <2>1, <3>1, <3>2, Forgetting DEF EngineStep
  <2>3. CASE rem.ver > 0 /\ Recreated(rem)
    <3>1. Forget /\ UNCHANGED <<store, op, timer>>
      BY <2>0, <2>3, Zenon DEF PushRefused
    <3> QED
      BY <2>1, <3>1, Forgetting, SoundNow DEF EngineStep, EngineType
  <2>4. CASE rem.ver > 0 /\ ~Recreated(rem)
    <3>1. Reconcile(rem)
      BY <2>0, <2>4, Zenon DEF PushRefused
    <3> QED
      BY <1>1, <3>1, Reconciling
  <2> QED
    BY <1>1, <2>2, <2>3, <2>4
<1>3. CountType'
  <2>0. rem.ver = 0 <=> ~(rem.ver > 0)
    BY <1>1
  <2>1. Judges(rem) \/ UNCHANGED histVars
    <3>1. CASE rem.ver = 0
      BY <2>0, <3>1, Zenon DEF PushRefused, histVars
    <3>2. CASE rem.ver > 0 /\ Recreated(rem)
      BY <2>0, <3>2, Zenon DEF PushRefused, histVars
    <3>3. CASE rem.ver > 0 /\ ~Recreated(rem)
      BY <2>0, <3>3, Zenon DEF PushRefused
    <3> QED
      BY <2>0, <3>1, <3>2, <3>3
  <2> QED
    BY <2>1, Judging DEF PushRefused, CountType, bounds
<1> QED
  BY <1>2, <1>3, EngineKeeps DEF PushRefused

LEMMA PullReachesKeeps == IInv /\ PullReaches => Step
<1> SUFFICES ASSUME IInv, PullReaches  PROVE Step
  OBVIOUS
<1> USE DEF IInv, SyncType
<1> DEFINE told == [op EXCEPT !.remote = Stored(target)]
<1>1. op \in OpType /\ op.kind # None /\ Stored(target) \in Document
  BY StoredType DEF PullReaches, Shape, None, EngineType, PrefType
<1>2. told \in OpType /\ told.kind # None
  BY <1>1 DEF OpType, None
<1>3. Sound([told EXCEPT !.stage = "answered"], store)
  BY <1>2, Staged, "answered" \in Stages \ {"put", "sign", "apply"} DEF Stages
<1>4. [told EXCEPT !.stage = "answered"] = op'
  BY <1>1 DEF PullReaches, OpType
<1>5. PrefType' /\ PromptType' /\ WorldType' /\ CountType'
  BY DEF PullReaches, PrefType, PromptType, WorldType, CountType, prefVars, promptVars,
     worldVars, bounds, histVars
<1> QED
  BY <1>3, <1>4, <1>5, Standing DEF PullReaches, EngineType

LEMMA ComposesKeeps == IInv /\ Composes => Step
<1> SUFFICES ASSUME IInv, Composes  PROVE Step
  OBVIOUS
<1> USE DEF IInv, SyncType
<1>1. Sound(op', store)
  BY ComposedSound DEF Composes, Shape, None, EngineType
<1>2. PrefType' /\ PromptType' /\ WorldType' /\ CountType'
  BY DEF Composes, PrefType, PromptType, WorldType, CountType, prefVars, promptVars,
     worldVars, bounds, histVars
<1> QED
  BY <1>1, <1>2, Standing DEF Composes, EngineType

LEMMA Storing ==
  ASSUME WorldType, NEW put \in PutType, put.server \in Servers, Store(put)
  PROVE  server' \in [Servers -> Document]
BY DEF Store, WorldType, Document, PutType

LEMMA PutReachesKeeps == IInv /\ PutReaches => Step
<1> SUFFICES ASSUME IInv, PutReaches  PROVE Step
  OBVIOUS
<1> USE DEF IInv, SyncType
<1>1. op \in OpType /\ op.put \in PutType /\ op.put.server \in Servers /\ op.kind # None
      /\ target \in Servers
  BY DEF PutReaches, Shape, None, EngineType, OpType, PrefType
<1>2. server' \in [Servers -> Document]
  BY <1>1, Storing DEF PutReaches, WorldType
<1>3. PrefType' /\ PromptType' /\ WorldType' /\ CountType'
  BY <1>2 DEF PutReaches, PrefType, PromptType, WorldType, CountType, prefVars, promptVars,
     bounds
<1>4. \A stage \in {"ok", "refused"} : stage \in Stages \ {"put", "sign", "apply"}
  BY DEF Stages
<1>5. \A rem \in Document, stage \in {"ok", "refused"} :
        Sound([op EXCEPT !.stage = stage, !.remote = rem], store)
  <2> SUFFICES ASSUME NEW rem \in Document, NEW stage \in {"ok", "refused"}
               PROVE  Sound([op EXCEPT !.stage = stage, !.remote = rem], store)
    OBVIOUS
  <2> DEFINE told == [op EXCEPT !.remote = rem]
  <2>1. told \in OpType /\ told.kind # None
    BY <1>1 DEF OpType, None
  <2>2. Sound([told EXCEPT !.stage = stage], store)
    BY <1>4, <2>1, Staged
  <2>3. [told EXCEPT !.stage = stage] = [op EXCEPT !.stage = stage, !.remote = rem]
    BY <1>1 DEF OpType
  <2> QED
    BY <2>2, <2>3
<1>6. Sound(op', store)
  <2>1. CASE Swaps(op.put)
    BY <1>1, <1>2, <1>5, <2>1 DEF PutReaches
  <2>2. CASE ~Swaps(op.put)
    BY <1>1, <1>5, <2>2, StoredType DEF PutReaches
  <2> QED
    BY <2>1, <2>2
<1> QED
  BY <1>3, <1>6, Standing DEF PutReaches, EngineType

LEMMA PutFailsKeeps == IInv /\ PutFails => Step
<1> SUFFICES ASSUME IInv, PutFails  PROVE Step
  OBVIOUS
<1> USE DEF IInv, SyncType
<1>1. Sound(op', store) /\ timer' \in BOOLEAN
  BY Ending DEF PutFails
<1>2. op.put \in PutType /\ op.put.server \in Servers
  BY DEF PutFails, Shape, EngineType, OpType
<1>3. WorldType'
  BY <1>2 DEF PutFails, WorldType
<1>4. CountType'
  BY Spending DEF PutFails, CountType, histVars
<1>5. PrefType' /\ PromptType'
  BY DEF PutFails, PrefType, PromptType, prefVars, promptVars
<1> QED
  BY <1>1, <1>3, <1>4, <1>5, Standing DEF PutFails, EngineType

LEMMA PutReachesLateKeeps ==
  ASSUME IInv, NEW put \in wire, NEW lost \in BOOLEAN, PutReachesLate(put, lost)
  PROVE  Step
<1> USE DEF IInv, SyncType
<1>1. put \in PutType /\ put.server \in Servers
  BY DEF WorldType
<1>2. server' \in [Servers -> Document]
  BY <1>1, Storing DEF PutReachesLate, WorldType
<1>3. WorldType'
  BY <1>2 DEF PutReachesLate, WorldType
<1>4. PrefType' /\ PromptType' /\ CountType'
  BY DEF PutReachesLate, PrefType, PromptType, CountType, prefVars, promptVars, bounds
<1> QED
  BY <1>3, <1>4, Standing, SoundNow DEF PutReachesLate, EngineType, engineVars

LEMMA PushDoneKeeps == IInv /\ PushDone => Step
<1> SUFFICES ASSUME IInv, PushDone  PROVE Step
  OBVIOUS
<1> USE DEF IInv, SyncType
<1>1. op.remote \in Document
  BY DEF EngineType, OpType
<1>2. st' \in BaseType /\ fresh' \in SUBSET Cats /\ PromptType'
  BY <1>1, Adopting DEF PushDone, Adopt, Document
<1>3. Sound(op', store) /\ timer' \in BOOLEAN
  BY Ending DEF PushDone
<1>4. PrefType' /\ WorldType' /\ CountType'
  BY DEF PushDone, PrefType, WorldType, CountType, prefVars, worldVars, bounds, histVars
<1> QED
  BY <1>2, <1>3, <1>4, Standing DEF PushDone, EngineType

LEMMA AppliedKeeps == IInv /\ Applied => Step
<1> SUFFICES ASSUME IInv, Applied  PROVE Step
  OBVIOUS
<1> USE DEF IInv, SyncType
<1>1. op \in OpType /\ op.kind # None /\ op.stage = "apply" /\ op.remote \in Document
      /\ op.blob \in Doc /\ op.review \in ReviewType /\ op.conflict \in ConflictType
  BY DEF Applied, Shape, None, EngineType, OpType
<1>2. CountType'
  BY DEF Applied, CountType, bounds, histVars
<1>3. EngineStep(op)
  <2>1. CASE Stale
    <3>1. Sound(op', store') /\ timer' \in BOOLEAN
      BY <2>1, Ending DEF Applied
    <3>2. PromptType'
      BY <1>1, <2>1 DEF Applied, PromptType
    <3> QED
      BY <2>1, <3>1, <3>2 DEF Applied, EngineStep, EngineType, PrefType, Asked
  <2>2. CASE ~Stale
    <3>1. Asks(op, op.blob)
      BY <1>1, <2>2 DEF Stale, Consented, Asks
    <3>2. Lands(op, op.blob, op.remote)
      BY <2>2 DEF Applied
    <3> QED
      BY <1>1, <3>1, <3>2, Landing DEF Document
  <2> QED
    BY <2>1, <2>2
<1> QED
  BY <1>2, <1>3, EngineKeeps DEF Applied

LEMMA RaisesKeeps == IInv /\ Raises => Step
<1> SUFFICES ASSUME IInv, Raises  PROVE Step
  OBVIOUS
<1> USE DEF IInv, SyncType
<1>1. op.review \in ReviewType
  BY DEF EngineType, OpType
<1>2. PromptType'
  BY <1>1, Documents DEF Raises, PromptType, ReviewType
<1>3. Sound(op', store) /\ timer' \in BOOLEAN
  BY Ending DEF Raises
<1>4. PrefType' /\ WorldType' /\ CountType'
  BY DEF Raises, PrefType, WorldType, CountType, prefVars, worldVars, bounds, histVars
<1> QED
  BY <1>2, <1>3, <1>4, Standing DEF Raises, EngineType

LEMMA FocusPullKeeps == IInv /\ FocusPull => Step
<1> SUFFICES ASSUME IInv, FocusPull  PROVE Step
  OBVIOUS
<1> USE DEF IInv, SyncType
<1>1. target \in Servers
  BY DEF PrefType
<1>2. Sound(op', store) /\ st' \in BaseType
  BY <1>1, Operations, Taking DEF FocusPull, None
<1>3. PrefType' /\ PromptType' /\ WorldType' /\ CountType'
  BY DEF FocusPull, PrefType, PromptType, WorldType, CountType, prefVars, promptVars,
     worldVars, bounds, histVars
<1> QED
  BY <1>2, <1>3, Standing DEF FocusPull, EngineType

LEMMA RePullKeeps == IInv /\ RePull => Step
<1> SUFFICES ASSUME IInv, RePull  PROVE Step
  OBVIOUS
<1> USE DEF IInv, SyncType
<1>1. target \in Servers
  BY DEF PrefType
<1>2. Sound(op', store) /\ st' \in BaseType
  BY <1>1, Operations, Taking DEF RePull, None
<1>3. PrefType' /\ PromptType' /\ WorldType' /\ CountType'
  BY DEF RePull, PrefType, PromptType, WorldType, CountType, prefVars, promptVars,
     worldVars, bounds, histVars
<1> QED
  BY <1>2, <1>3, Standing DEF RePull, EngineType

LEMMA StartingPush ==
  ASSUME IInv, NEW manual \in BOOLEAN, StartsPush(manual)
  PROVE  Sound(op', store) /\ st' \in BaseType
<1> USE DEF IInv, SyncType
<1>1. target \in Servers
  BY DEF PrefType
<1>2. CASE ~Gated
  BY <1>1, <1>2, Operations, Taking DEF StartsPush, None
<1>3. CASE Gated /\ ~Prompt
  BY <1>1, <1>3, Operations, Taking DEF StartsPush, None
<1>4. CASE Gated /\ Prompt
  <2>1. UNCHANGED <<op, st>>
    BY <1>4 DEF StartsPush
  <2> QED
    BY <2>1, SoundNow DEF EngineType
<1> QED
  BY <1>2, <1>3, <1>4

LEMMA PushFiresKeeps == IInv /\ PushFires => Step
<1> SUFFICES ASSUME IInv, PushFires  PROVE Step
  OBVIOUS
<1> USE DEF IInv, SyncType
<1>1. Sound(op', store) /\ st' \in BaseType
  BY StartingPush DEF PushFires
<1>2. PrefType' /\ PromptType' /\ WorldType' /\ CountType'
  BY DEF PushFires, PrefType, PromptType, WorldType, CountType, prefVars, promptVars,
     worldVars, bounds, histVars
<1> QED
  BY <1>1, <1>2, Standing DEF PushFires, EngineType

LEMMA ManualSyncKeeps == IInv /\ ManualSync => Step
<1> SUFFICES ASSUME IInv, ManualSync  PROVE Step
  OBVIOUS
<1> USE DEF IInv, SyncType
<1>1. target \in Servers
  BY DEF PrefType
<1>2. Take(Pull(TRUE), target) => Sound(op', store) /\ st' \in BaseType
  BY <1>1, Operations, Taking DEF None
<1>3. Sound(op', store) /\ st' \in BaseType
  BY <1>2, StartingPush DEF ManualSync
<1>4. CountType'
  BY Spending DEF ManualSync, CountType, histVars
<1>5. PrefType' /\ PromptType' /\ WorldType'
  BY DEF ManualSync, PrefType, PromptType, WorldType, prefVars, promptVars, worldVars
<1> QED
  BY <1>3, <1>4, <1>5, Standing DEF ManualSync, EngineType

(* The settings moved: what an apply was about to write is looked at again.   *)
LEMMA Touching ==
  ASSUME IInv, Touched, NEW now
  PROVE  Sound(op', now)
<1>1. op \in OpType
  BY DEF IInv, SyncType, EngineType
<1>2. /\ op' \in OpType /\ op'.stage = op.stage /\ op'.kind = op.kind /\ op'.put = op.put
      /\ op'.moved = (op.kind # None)
  BY <1>1 DEF Touched, Free, OpType
<1> QED
  BY <1>2 DEF IInv, Sound, Shape, Consented, None

LEMMA EditKeeps ==
  ASSUME IInv, NEW c \in Cats, Edit(c)
  PROVE  Step
<1> USE DEF IInv, SyncType
<1>1. edits + 1 \in Edition /\ edits' = edits + 1
  BY Constants DEF Edit, CountType
<1>2. PrefType'
  BY <1>1 DEF Edit, PrefType, prefVars
<1>3. Sound(op', store')
  BY Touching DEF Edit
<1>4. store[c] \in Edition
  BY DEF PrefType
<1>5. CountType'
  BY <1>1, <1>4, Spending DEF Edit, CountType
<1>6. PromptType' /\ WorldType' /\ timer' \in BOOLEAN
  BY DEF Edit, PromptType, WorldType, EngineType, PrefType, promptVars, worldVars
<1>7. EngineType'
  BY <1>3, <1>6 DEF Edit, EngineType, Sound
<1> QED
  BY <1>1, <1>2, <1>3, <1>5, <1>6, <1>7 DEF Step, Consent, Sound

LEMMA Restarting ==
  ASSUME IInv, NEW s \in Servers, Restarts(s)
  PROVE  /\ Sound(op', store) /\ st' \in BaseType
         /\ PromptType' /\ parked' \in {"no", "parked", "due"} /\ timer' \in BOOLEAN
         /\ late' \in Seq(Servers)
         /\ wire' \in SUBSET PutType /\ \A put \in wire' : put.server \in Servers
BY Operations, Taking, Superseding DEF IInv, SyncType, Restarts, None

LEMMA TurnOnKeeps ==
  ASSUME IInv, NEW c \in Cats, TurnOn(c)
  PROVE  Step
<1> USE DEF IInv, SyncType
<1>1. target \in Servers
  BY DEF PrefType
<1>2. PrefType' /\ fresh' \in SUBSET Cats
  BY DEF TurnOn, PrefType, EngineType
<1>3. CountType'
  BY DEF TurnOn, CountType, bounds, histVars
<1>4. CASE enabled
  <2>1. Restarts(target)
    BY <1>4 DEF TurnOn
  <2> QED
    BY <1>1, <1>2, <1>3, <2>1, Restarting, Standing DEF TurnOn, WorldType
<1>5. CASE ~enabled
  <2>1. UNCHANGED <<st, engineVars, promptVars, late, wire>>
    BY <1>5 DEF TurnOn
  <2> QED
    BY <1>2, <1>3, <2>1, SoundNow, Standing DEF TurnOn, WorldType, PromptType, EngineType,
       engineVars, promptVars
<1> QED
  BY <1>4, <1>5

LEMMA TurnOffKeeps ==
  ASSUME IInv, NEW c \in Cats, TurnOff(c)
  PROVE  Step
<1> USE DEF IInv, SyncType
<1>1. target \in Servers
  BY DEF PrefType
<1>2. PrefType' /\ fresh' \in SUBSET Cats
  BY DEF TurnOff, PrefType, EngineType
<1>3. CountType'
  BY Spending DEF TurnOff, CountType, histVars
<1>4. CASE enabled /\ c \in fresh \cap conflict.cats
  <2>1. Restarts(target)
    BY <1>4 DEF TurnOff
  <2> QED
    BY <1>1, <1>2, <1>3, <2>1, Restarting, Standing DEF TurnOff, WorldType
<1>5. CASE ~(enabled /\ c \in fresh \cap conflict.cats)
  <2>1. Touched /\ timer' = (timer \/ enabled) /\ UNCHANGED <<st, parked, promptVars, late, wire>>
    BY <1>5 DEF TurnOff
  <2>2. Sound(op', store)
    BY <2>1, Touching
  <2>3. timer' \in BOOLEAN
    BY <2>1 DEF EngineType, PrefType
  <2> QED
    BY <1>2, <1>3, <2>1, <2>2, <2>3, Standing DEF TurnOff, WorldType, PromptType, EngineType,
       promptVars
<1> QED
  BY <1>4, <1>5

LEMMA SwitchServerKeeps ==
  ASSUME IInv, NEW s \in Servers, SwitchServer(s)
  PROVE  Step
<1> USE DEF IInv, SyncType
<1>1. PrefType' /\ UNCHANGED <<store, server>>
  BY DEF SwitchServer, PrefType
<1>2. CountType'
  BY Spending DEF SwitchServer, CountType, histVars
<1>3. CASE enabled
  <2>1. Restarts(s) /\ fresh' = {}
    BY <1>3 DEF SwitchServer
  <2> QED
    BY <1>1, <1>2, <2>1, Restarting, Standing DEF WorldType
<1>4. CASE ~enabled
  <2>1. UNCHANGED <<st, fresh, engineVars, promptVars, late, wire>>
    BY <1>4 DEF SwitchServer
  <2> QED
    BY <1>1, <1>2, <2>1, SoundNow, Standing DEF WorldType, PromptType, EngineType, engineVars,
       promptVars
<1> QED
  BY <1>3, <1>4

LEMMA DisableKeeps == IInv /\ Disable => Step
<1> SUFFICES ASSUME IInv, Disable  PROVE Step
  OBVIOUS
<1> USE DEF IInv, SyncType
<1>1. PrefType' /\ fresh' \in SUBSET Cats /\ st' \in BaseType
  BY DEF Disable, PrefType, EngineType
<1>2. CountType'
  BY Spending DEF Disable, CountType, histVars
<1>3. Sound(op', store)
  BY IdleSound DEF Disable
<1>4. PromptType' /\ WorldType' /\ parked' \in {"no", "parked", "due"} /\ timer' \in BOOLEAN
  BY Superseding DEF Disable, WorldType
<1> QED
  BY <1>1, <1>2, <1>3, <1>4, Standing DEF Disable

LEMMA EnableKeeps == IInv /\ Enable => Step
<1> SUFFICES ASSUME IInv, Enable  PROVE Step
  OBVIOUS
<1> USE DEF IInv, SyncType
<1>1. target \in Servers
  BY DEF PrefType
<1>2. PrefType' /\ fresh' \in SUBSET Cats
  BY DEF Enable, PrefType, EngineType
<1>3. CountType'
  BY DEF Enable, CountType, bounds, histVars
<1> QED
  BY <1>1, <1>2, <1>3, Restarting, Standing DEF Enable, WorldType

LEMMA DictationKeeps == IInv /\ (DictationStarts \/ DictationEnds) => Step
<1> SUFFICES ASSUME IInv, DictationStarts \/ DictationEnds  PROVE Step
  OBVIOUS
<1> USE DEF IInv, SyncType
<1>1. PrefType' /\ PromptType' /\ WorldType'
  BY DEF DictationStarts, DictationEnds, PrefType, PromptType, WorldType, promptVars, worldVars
<1>2. CountType'
  BY Spending DEF DictationStarts, DictationEnds, CountType, bounds, histVars
<1>3. EngineType' /\ UNCHANGED <<store, op>>
  BY DEF DictationStarts, DictationEnds, EngineType, engineVars
<1> QED
  BY <1>1, <1>2, <1>3, SoundNow, Standing DEF EngineType

-----------------------------------------------------------------------------
(* The answers to the prompts.                                              *)

LEMMA Choosing ==
  ASSUME IInv, NEW pairs \in SUBSET (Content \X Content), Chosen(pairs)
  PROVE  over' \in [Edition -> SUBSET Edition]
<1>1. over \in [Edition -> SUBSET Edition]
  BY DEF IInv, SyncType, CountType
<1>2. \A p \in pairs : p[2] # Absent => p[2] \in Edition
  BY DEF Content
<1>3. \A p \in pairs : p[2] # Absent => over[p[2]] \cup {p[2]} \in SUBSET Edition
  BY <1>1, <1>2
<1>4. \A v \in Edition :
        over[v] \cup UNION {over[p[2]] \cup {p[2]} : p \in
                              {q \in pairs : q[1] = v /\ q[2] # v /\ q[2] # Absent}}
          \in SUBSET Edition
  BY <1>1, <1>3
<1>5. over' = [v \in Edition |->
                 over[v] \cup UNION {over[p[2]] \cup {p[2]} : p \in
                                       {q \in pairs : q[1] = v /\ q[2] # v /\ q[2] # Absent}}]
  BY <1>1 DEF Chosen
<1> QED
  BY <1>4, <1>5

LEMMA ApproveKeeps == IInv /\ Approve => Step
<1> SUFFICES ASSUME IInv, Approve  PROVE Step
  OBVIOUS
<1> USE DEF IInv, SyncType
<1>1. review \in ReviewType /\ conflict \in ConflictType /\ store \in Doc
  BY Editions DEF PromptType, PrefType
<1>2. PrefType' /\ WorldType' /\ UNCHANGED <<store, st, fresh, parked, conflict, bounds>>
  BY DEF Approve, PrefType, WorldType, prefVars, worldVars
<1>3. CASE Moot(review)
  <2>1. review' = NoReview /\ Ends(TRUE) /\ UNCHANGED histVars
    BY <1>3 DEF Approve
  <2>2. Sound(op', store) /\ timer' \in BOOLEAN
    BY <2>1, Ending
  <2>3. PromptType' /\ CountType'
    BY <1>1, <1>2, <2>1, Documents DEF PromptType, CountType, histVars, bounds
  <2> QED
    BY <1>2, <2>2, <2>3, Standing DEF EngineType
<1>4. CASE ~Moot(review)
  <2> DEFINE o == [Idle EXCEPT !.kind = "approve", !.stage = "sign", !.sig = store,
                               !.cats = review.cats \cap on, !.review = review]
             pair == <<review.blob[Guarded], review.sig[Guarded]>>
  <2>1. /\ Chosen({pair}) /\ UNCHANGED misjudged /\ op' = o
        /\ UNCHANGED <<review, timer>>
    BY <1>4 DEF Approve
  <2>2. review.cats \cap on \in SUBSET Cats /\ "sign" \in Stages /\ "approve" \in OpKinds
    BY <1>1 DEF ReviewType, Stages, OpKinds
  <2>3. o \in OpType /\ o.stage = "sign" /\ o.kind = "approve"
    BY <1>1, <2>2, Operations DEF OpType
  <2>4. Sound(op', store)
    BY <2>1, <2>3 DEF Sound, Shape, Consented, None
  <2>5. {pair} \in SUBSET (Content \X Content)
    BY <1>1, Constants DEF ReviewType, Doc
  <2>6. over' \in [Edition -> SUBSET Edition]
    BY <2>1, <2>5, Choosing
  <2>7. PromptType' /\ CountType'
    BY <1>1, <1>2, <2>1, <2>6 DEF PromptType, CountType, bounds
  <2> QED
    BY <1>2, <2>1, <2>4, <2>7, Standing DEF EngineType
<1> QED
  BY <1>3, <1>4

LEMMA ApproveDecidesKeeps == IInv /\ ApproveDecides => Step
<1> SUFFICES ASSUME IInv, ApproveDecides  PROVE Step
  OBVIOUS
<1> USE DEF IInv, SyncType
<1> DEFINE r     == op.review
           local == Compose(op.cats, PassThrough(r.doc))
           both  == Conflicts(local, r.doc)
           blob  == [c \in Cats |-> IF c \in both \ Edited(r) THEN r.blob[c]
                                     ELSE Merged(local, r.doc)[c]]
           rem   == [ver |-> r.ver, stamp |-> r.stamp, doc |-> r.doc]
           again == Risky(blob, local, op.cats) /\ blob[Guarded] # r.blob[Guarded]
           gone  == review = NoReview \/ busy
           moved == (both \cap Edited(r)) \ r.applied # {}
<1>1. /\ op \in OpType /\ r \in ReviewType /\ op.kind = "approve" /\ op.cats \in SUBSET Cats
      /\ op.sig \in Doc
  BY DEF ApproveDecides, Shape, EngineType, OpType
<1>2. /\ r.ver \in Nat /\ r.stamp \in Nat /\ r.doc \in Doc /\ r.blob \in Doc
      /\ rem \in Document
  BY <1>1 DEF ReviewType, Document
<1>3. PassThrough(r.doc) \in Doc /\ local \in Doc
  BY <1>2, Composing
<1>4. blob \in Doc
  <2>1. Merged(local, r.doc) \in Doc
    BY <1>2, <1>3, Merging
  <2> QED
    BY <1>2, <2>1 DEF Doc
<1>5. both \in SUBSET Cats
  BY DEF Conflicts
<1>6. CASE gone
  <2>1. Ends(TRUE) /\ UNCHANGED <<store, st, fresh, parked, promptVars, histVars>>
    BY <1>6 DEF ApproveDecides
  <2>2. Sound(op', store') /\ timer' \in BOOLEAN
    BY <2>1, Ending
  <2>3. EngineStep(op)
    BY <2>1, <2>2 DEF EngineStep, EngineType, PromptType, PrefType, Asked, promptVars
  <2> QED
    BY <2>1, <2>3, Judging, EngineKeeps DEF ApproveDecides, CountType, bounds
<1>7. CASE ~gone /\ moved
  <2>1. RaiseConflict(r, both) /\ Judges(r)
    BY <1>7, Zenon DEF ApproveDecides
  <2>2. EngineStep(op)
    BY <1>2, <1>5, <2>1, Raising
  <2> QED
    BY <2>1, <2>2, Judging, EngineKeeps DEF ApproveDecides, CountType, bounds
<1>8. CASE ~gone /\ ~moved /\ again
  <2>1. /\ Judges(r)
        /\ review' = [r EXCEPT !.blob = blob, !.sig = op.sig]
        /\ conflict' = IF conflict.ver < r.ver THEN NoConflict ELSE conflict
        /\ Ends(FALSE)
        /\ UNCHANGED <<store, st, fresh, parked>>
    BY <1>8, Zenon DEF ApproveDecides
  <2>2. Sound(op', store') /\ timer' \in BOOLEAN
    BY <2>1, Ending
  <2> HIDE DEF blob
  <2>3. [r EXCEPT !.blob = blob, !.sig = op.sig] \in ReviewType
    BY <1>1, <1>4 DEF ReviewType
  <2>4. PromptType'
    BY <2>1, <2>3, Documents DEF PromptType
  <2>5. EngineStep(op)
    BY <2>1, <2>2, <2>4 DEF EngineStep, EngineType, PrefType, Asked
  <2> QED
    BY <2>1, <2>5, Judging, EngineKeeps DEF ApproveDecides, CountType, bounds
<1>9. CASE ~gone /\ ~moved /\ ~again
  <2>1. Applies(op, blob, rem) /\ Judges(r)
    BY <1>9, Zenon DEF ApproveDecides
  <2>2. Asks(op, blob)
    <3>1. CASE blob[Guarded] = r.blob[Guarded]
      BY <1>1, <3>1 DEF Asks, Asked
    <3>2. CASE ~Risky(blob, local, op.cats)
      BY <1>1, <1>3, <1>4, <3>2, Judged
    <3> QED
      BY <1>9, <3>1, <3>2
  <2>3. EngineStep(op)
    BY <1>1, <1>2, <1>4, <2>1, <2>2, Applying DEF None
  <2> QED
    BY <2>1, <2>3, Judging, EngineKeeps DEF ApproveDecides, CountType, bounds
<1> QED
  BY <1>6, <1>7, <1>8, <1>9

LEMMA ResolveKeeps ==
  ASSUME IInv, NEW picks \in SUBSET Cats, Resolve(picks)
  PROVE  Step
<1> USE DEF IInv, SyncType
<1>1. conflict \in ConflictType /\ on \in SUBSET Cats
  BY DEF PromptType, PrefType
<1>2. /\ PrefType' /\ WorldType'
      /\ UNCHANGED <<store, st, fresh, parked, review, bounds, histVars>>
  BY DEF Resolve, PrefType, WorldType, prefVars, worldVars
<1>3. CASE Moot(conflict)
  <2>1. conflict' = NoConflict /\ Ends(TRUE)
    BY <1>3 DEF Resolve
  <2>2. Sound(op', store) /\ timer' \in BOOLEAN
    BY <2>1, Ending
  <2>3. PromptType' /\ CountType'
    BY <1>2, <2>1, Documents DEF PromptType, CountType, bounds, histVars
  <2> QED
    BY <1>2, <2>2, <2>3, Standing DEF EngineType
<1>4. CASE ~Moot(conflict)
  <2> DEFINE o == [Idle EXCEPT !.kind = "resolve", !.stage = "compose", !.cats = on,
                               !.sig = store, !.picks = picks, !.conflict = conflict]
  <2>1. op' = o /\ UNCHANGED <<conflict, timer>>
    BY <1>4 DEF Resolve
  <2>2. "compose" \in Stages /\ "resolve" \in OpKinds
    BY DEF Stages, OpKinds
  <2>3. o \in OpType /\ o.stage = "compose" /\ o.kind = "resolve"
    BY <1>1, <2>2, Operations, Editions DEF OpType, PrefType
  <2>4. Sound(op', store)
    BY <2>1, <2>3 DEF Sound, Shape, Consented, None
  <2>5. PromptType' /\ CountType'
    BY <1>1, <1>2, <2>1 DEF PromptType, CountType, bounds, histVars
  <2> QED
    BY <1>2, <2>1, <2>4, <2>5, Standing DEF EngineType
<1> QED
  BY <1>3, <1>4

LEMMA ResolveDecidesKeeps == IInv /\ ResolveDecides => Step
<1> SUFFICES ASSUME IInv, ResolveDecides  PROVE Step
  OBVIOUS
<1> USE DEF IInv, SyncType
<1> DEFINE c     == op.conflict
           local == Compose(op.cats, PassThrough(c.doc))
           rem   == [ver |-> c.ver, stamp |-> c.stamp, doc |-> c.doc]
           final == [k \in Cats |-> IF k \in op.picks THEN c.doc[k]
                                     ELSE IF k \in c.cats THEN local[k]
                                     ELSE Merged(local, c.doc)[k]]
           pairs == {IF k \in op.picks THEN <<c.doc[k], op.sig[k]>>
                                       ELSE <<local[k], c.doc[k]>> : k \in c.cats}
           gone  == conflict # c \/ busy
           wider == ~(Conflicts(local, c.doc) \subseteq c.cats)
<1>1. /\ op \in OpType /\ c \in ConflictType /\ op.kind # None /\ op.cats \in SUBSET Cats
      /\ op.sig \in Doc
  BY DEF ResolveDecides, Shape, None, EngineType, OpType
<1>2. /\ c.ver \in Nat /\ c.stamp \in Nat /\ c.doc \in Doc /\ c.cats \in SUBSET Cats
      /\ rem \in Document /\ rem.ver = c.ver /\ rem.stamp = c.stamp /\ rem.doc = c.doc
  BY <1>1 DEF ConflictType, Document
<1>3. PassThrough(c.doc) \in Doc /\ local \in Doc
  BY <1>2, Composing
<1>4. final \in Doc
  <2>1. Merged(local, c.doc) \in Doc
    BY <1>2, <1>3, Merging
  <2> QED
    BY <1>2, <1>3, <2>1 DEF Doc
<1>5. Conflicts(local, c.doc) \in SUBSET Cats
  BY DEF Conflicts
<1>6. /\ edits' = edits /\ budget' = budget
      /\ UNCHANGED <<prefVars, worldVars>>
  BY DEF ResolveDecides, bounds
<1>7. CASE gone
  <2>1. Ends(TRUE) /\ UNCHANGED <<store, st, fresh, parked, promptVars, histVars>>
    BY <1>7 DEF ResolveDecides
  <2>2. Sound(op', store') /\ timer' \in BOOLEAN
    BY <2>1, Ending
  <2>3. EngineStep(op)
    BY <2>1, <2>2 DEF EngineStep, EngineType, PromptType, PrefType, Asked, promptVars
  <2> QED
    BY <1>6, <2>1, <2>3, Judging, EngineKeeps DEF CountType
<1>8. CASE ~gone /\ wider
  <2>1. RaiseConflict(rem, Conflicts(local, c.doc)) /\ Judges(c)
    BY <1>8, Zenon DEF ResolveDecides
  <2>2. EngineStep(op)
    BY <1>2, <1>5, <2>1, Raising
  <2> QED
    BY <1>6, <2>1, <2>2, Judging, EngineKeeps DEF CountType
<1>9. CASE ~gone /\ ~wider
  <2>1. /\ Chosen(pairs) /\ misjudged' = (misjudged \/ Foreign(c))
        /\ IF Risky(final, local, op.cats) THEN HoldsBack(op, final, rem)
           ELSE Applies(op, final, rem)
    BY <1>9, Zenon DEF ResolveDecides
  <2>2. pairs \in SUBSET (Content \X Content)
    BY <1>1, <1>2, <1>3 DEF Doc
  <2> HIDE DEF pairs, final
  <2>3. over' \in [Edition -> SUBSET Edition]
    BY <2>1, <2>2, Choosing
  <2>4. EngineStep(op)
    <3>1. CASE Risky(final, local, op.cats)
      BY <1>1, <1>2, <1>4, <2>1, <3>1, HoldingBack
    <3>2. CASE ~Risky(final, local, op.cats)
      <4>1. Asks(op, final)
        BY <1>1, <1>3, <1>4, <3>2, Judged
      <4> QED
        BY <1>1, <1>2, <1>4, <2>1, <3>2, <4>1, Applying
    <3> QED
      BY <3>1, <3>2
  <2> QED
    BY <1>6, <2>1, <2>3, <2>4, EngineKeeps DEF CountType
<1> QED
  BY <1>7, <1>8, <1>9

LEMMA DismissKeeps == IInv /\ (Reject \/ Later) => Step
<1> SUFFICES ASSUME IInv, Reject \/ Later  PROVE Step
  OBVIOUS
<1> USE DEF IInv, SyncType
<1>1. PromptType' /\ parked' \in {"no", "parked", "due"}
  BY Documents DEF Reject, Later, Unpark, PromptType, EngineType
<1>2. PrefType' /\ WorldType' /\ CountType' /\ UNCHANGED <<store, st, fresh, op, timer>>
  BY DEF Reject, Later, PrefType, WorldType, CountType, prefVars, worldVars, bounds, histVars
<1> QED
  BY <1>1, <1>2, SoundNow, Standing DEF EngineType

-----------------------------------------------------------------------------
(* The other devices.                                                       *)

(* What they do touches the servers alone.                                  *)
LEMMA PeerKeeps ==
  ASSUME IInv, server' \in [Servers -> Document], CountType',
         UNCHANGED <<store, prefVars, st, fresh, engineVars, promptVars, late, wire>>
  PROVE  Step
<1>1. PrefType' /\ PromptType' /\ WorldType' /\ EngineType' /\ UNCHANGED op
  BY DEF IInv, SyncType, PrefType, PromptType, WorldType, EngineType, prefVars, promptVars,
     engineVars
<1> QED
  BY <1>1, SoundNow, Standing DEF EngineType

LEMMA PeerEditsKeeps ==
  ASSUME IInv, NEW s \in Servers, NEW c \in Cats, PeerEdits(s, c)
  PROVE  Step
<1>1. /\ server \in [Servers -> Document] /\ over \in [Edition -> SUBSET Edition]
      /\ misjudged \in BOOLEAN
  BY DEF IInv, SyncType, WorldType, CountType
<1>2. server[s].doc \in Doc /\ server[s].doc[c] \in Content /\ server[s] \in Document
  BY <1>1 DEF Document, Doc
<1>3. edits + 1 \in Edition /\ edits' = edits + 1 /\ edits + 1 \in Content
  BY Constants DEF IInv, SyncType, PeerEdits, CountType
<1>4. server' \in [Servers -> Document]
  BY <1>1, <1>2, <1>3 DEF PeerEdits, PeerWrites, Document, Doc
<1>5. server[s].doc[c] # Absent => server[s].doc[c] \in Edition
  BY <1>2 DEF Content
<1>6. CountType'
  BY <1>1, <1>3, <1>5, Spending DEF IInv, SyncType, PeerEdits, CountType
<1> QED
  BY <1>4, <1>6, PeerKeeps DEF PeerEdits

LEMMA PeerSeedsKeeps ==
  ASSUME IInv, NEW s \in Servers, PeerSeeds(s)
  PROVE  Step
<1>1. server \in [Servers -> Document]
  BY DEF IInv, SyncType, WorldType
<1>2. server[s].doc \in Doc /\ server[s] \in Document
  BY <1>1 DEF Document
<1>3. [c \in Cats |-> IF server[s].doc[c] = Absent THEN 0 ELSE server[s].doc[c]] \in Doc
  BY <1>2, Constants DEF Doc
<1>4. server' \in [Servers -> Document]
  BY <1>1, <1>2, <1>3 DEF PeerSeeds, PeerWrites, Document
<1>5. CountType'
  BY DEF IInv, SyncType, PeerSeeds, CountType, bounds, histVars
<1> QED
  BY <1>4, <1>5, PeerKeeps DEF PeerSeeds

LEMMA PeerDeletesKeeps ==
  ASSUME IInv, NEW s \in Servers, PeerDeletes(s)
  PROVE  Step
<1>1. server \in [Servers -> Document]
  BY DEF IInv, SyncType, WorldType
<1>2. server' \in [Servers -> Document]
  BY <1>1 DEF PeerDeletes, Document
<1>3. CountType'
  BY Spending DEF IInv, SyncType, PeerDeletes, CountType, histVars
<1> QED
  BY <1>2, <1>3, PeerKeeps DEF PeerDeletes

-----------------------------------------------------------------------------
(* The results.                                                             *)

LEMMA IInit == Init => IInv
<1> SUFFICES ASSUME Init  PROVE IInv
  OBVIOUS
<1>1. PrefType
  BY SyncAssumption, Documents DEF Init, PrefType
<1>2. EngineType /\ Shape(op) /\ Consented(op, store)
  BY Documents, IdleSound DEF Init, EngineType, Sound
<1>3. PromptType
  BY Documents DEF Init, PromptType
<1>4. WorldType
  <2>1. [ver |-> 0, stamp |-> 0, doc |-> Held] \in Document
    BY Documents DEF Document
  <2> QED
    BY <2>1 DEF Init, WorldType
<1>5. CountType
  <2>1. over = [v \in Edition |-> {}] /\ edits = 0 /\ misjudged = FALSE
    BY DEF Init, Edition
  <2>2. budget \in [Kinds -> Nat]
    BY SyncAssumption DEF Init
  <2> QED
    BY <2>1, <2>2, Constants DEF CountType
<1> QED
  BY <1>1, <1>2, <1>3, <1>4, <1>5 DEF IInv, SyncType

LEMMA Stutters == IInv /\ UNCHANGED vars => Step
<1> SUFFICES ASSUME IInv, UNCHANGED vars  PROVE Step
  OBVIOUS
<1>1. CountType'
  BY DEF IInv, SyncType, CountType, vars, bounds, histVars
<1>2. server' \in [Servers -> Document]
  BY DEF IInv, SyncType, WorldType, vars, worldVars
<1> QED
  BY <1>1, <1>2, PeerKeeps DEF vars, worldVars

LEMMA INext == IInv /\ [Next]_vars => Step
<1> SUFFICES ASSUME IInv, [Next]_vars  PROVE Step
  OBVIOUS
<1>1. CASE Engine
  BY <1>1, BindsKeeps, BindsLateKeeps, PullsKeeps, ComposesKeeps, PutReachesKeeps,
     PushDoneKeeps, PushRefusedKeeps, AppliedKeeps, RaisesKeeps, ApproveDecidesKeeps,
     ResolveDecidesKeeps, RePullKeeps, PullReachesKeeps, FocusPullKeeps, PushFiresKeeps DEF Engine
<1>2. CASE World
  <2>1. target \in Servers
    BY DEF IInv, SyncType, PrefType
  <2> QED
    BY <1>2, <2>1, PullFailsKeeps, PutFailsKeeps, PutReachesLateKeeps, PeerSeedsKeeps,
       PeerDeletesKeeps, PeerEditsKeeps DEF World
<1>3. CASE User
  BY <1>3, EditKeeps, TurnOnKeeps, TurnOffKeeps, SwitchServerKeeps, DisableKeeps, EnableKeeps,
     ManualSyncKeeps, DictationKeeps, ApproveKeeps, DismissKeeps, ResolveKeeps DEF User
<1>4. CASE UNCHANGED vars
  BY <1>4, Stutters
<1> QED
  BY <1>1, <1>2, <1>3, <1>4 DEF Next

LEMMA Inductive == Spec => []IInv
<1>1. IInv /\ [Next]_vars => IInv'
  BY INext DEF Step
<1> QED
  BY <1>1, IInit, PTL DEF Spec

(* The settings, the engine, the prompts and the servers keep their types.   *)
THEOREM TypeCorrect == Spec => []SyncType
<1>1. IInv => SyncType
  BY DEF IInv
<1> QED
  BY <1>1, Inductive, PTL

(* The guarded category changes only by the user's edit or to an approved     *)
(* review: what waits for the keyring is dropped when the settings moved.     *)
THEOREM Consenting == Spec => ConsentFirst
<1>1. IInv /\ [Next]_vars =>
        [store'[Guarded] # store[Guarded] =>
           \/ edits' = edits + 1
           \/ op.kind = "approve" /\ op.review.blob[Guarded] = store'[Guarded]]_vars
  BY INext DEF Step, Consent
<1> QED
  BY <1>1, Inductive, PTL DEF Spec, ConsentFirst
=============================================================================
