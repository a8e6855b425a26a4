----------------------------- MODULE ClipCutter -----------------------------
(***************************************************************************)
(* A recording per utterance (transport/stream.rs, ClipCutter, ClipWriter). *)
(* The saved audio is cut in memory as the server's events pass: at a decode *)
(* mark when there was one, at everything buffered when not.  The files are  *)
(* written by a thread of their own, each text once the next event has       *)
(* completed it.  Audio is a sequence of units numbered as captured; a word  *)
(* is the ordinal of the utterance it was spoken in.                         *)
(***************************************************************************)
EXTENDS Integers, Sequences, SequencesExt

CONSTANTS
  MaxAudio,  \* bound on the units captured
  MaxUtter   \* bound on the utterances

ASSUME CutterAssumption == MaxAudio \in Nat /\ MaxUtter \in Nat

Utterances == 1..MaxUtter
None == 0 - 1

VARIABLES
  saved,      \* the buffer
  taken,      \* ClipCutter.taken
  marks,      \* ClipCutter.marks, a set of [n, at]: one per utterance decoded
  pendingTxt, \* ClipCutter.pending_txt: an offset into doc, or None
  doc,        \* the running transcript
  queue,      \* the writer's jobs: [txt, clip, pcm], clip 0 = no clip
  pending,    \* ClipWriter.pending: the clip awaiting its text, 0 = None
  wavs, txts, \* per utterance: the files, <<>> = none
  discarded,  \* DetachedStream::discard
  open        \* the session still runs

(* The server: ordinals decoded and resolved so far, held-back words.       *)
VARIABLES decoded, resolved, holds

(* History: audio in cut order; where utterance n's audio ends; words sent;  *)
(* the last `final`'s ordinal.                                              *)
VARIABLES gone, ends, spoken, latest

cutterVars == <<saved, taken, marks, pendingTxt>>
clipFiles  == <<pending, wavs, txts>>
utterVars  == <<decoded, resolved, holds>>
cutHist    == <<gone, ends, spoken, latest>>
cutVars == <<cutterVars, doc, queue, clipFiles, discarded, open, utterVars, cutHist>>

Units == 1..MaxAudio
Texts == Seq(Utterances)
Job == [has : BOOLEAN, text : Texts, clip : 0..MaxUtter, pcm : Seq(Units)]

CutType ==
  /\ saved \in Seq(Units) /\ gone \in Seq(Units) /\ taken \in 0..MaxAudio
  /\ doc \in Texts /\ pendingTxt \in {None} \cup 0..Len(doc)
  /\ marks \subseteq [n : Utterances, at : 0..MaxAudio]
  /\ queue \in Seq(Job) /\ pending \in 0..MaxUtter
  /\ wavs \in [Utterances -> Seq(Units)] /\ txts \in [Utterances -> Texts]
  /\ decoded \in 0..MaxUtter /\ resolved \in 0..MaxUtter
  /\ holds \in BOOLEAN /\ discarded \in BOOLEAN /\ open \in BOOLEAN
  /\ ends \in [Utterances -> {None} \cup 0..MaxAudio]
  /\ spoken \in [Utterances -> Nat] /\ latest \in 0..MaxUtter

CutInit ==
  /\ saved = <<>> /\ taken = 0 /\ marks = {} /\ pendingTxt = None
  /\ doc = <<>> /\ queue = <<>> /\ pending = 0
  /\ wavs = [n \in Utterances |-> <<>>] /\ txts = [n \in Utterances |-> <<>>]
  /\ discarded = FALSE /\ open = TRUE
  /\ decoded = 0 /\ resolved = 0 /\ holds = FALSE
  /\ gone = <<>> /\ ends = [n \in Utterances |-> None]
  /\ spoken = [n \in Utterances |-> 0] /\ latest = 0

-----------------------------------------------------------------------------
Captured == Len(gone) + Len(saved)

Captures ==
  /\ open /\ Captured < MaxAudio  \* bound
  /\ saved' = Append(saved, Captured + 1)
  /\ UNCHANGED <<taken, marks, pendingTxt, doc, queue, clipFiles, discarded, open,
                 utterVars, cutHist>>

(* take_mark: the mark of n, or none; n's and older ones are retired.       *)
MarkOf(n) ==
  IF \E m \in marks : m.n = n THEN (CHOOSE m \in marks : m.n = n).at ELSE None

MarksAfter(n) == {m \in marks : m.n > n}

(* The first k units leave the buffer (split_at_cut).                       *)
TakesUnits(k) ==
  LET cut == IF k > Len(saved) THEN Len(saved) ELSE k IN
  /\ saved' = SubSeq(saved, cut + 1, Len(saved))
  /\ taken' = taken + cut
  /\ gone' = gone \o SubSeq(saved, 1, cut)

(* How many units belong to n: up to its mark, else everything buffered.    *)
Share(n) ==
  IF MarkOf(n) = None THEN Len(saved)
  ELSE IF MarkOf(n) > taken THEN MarkOf(n) - taken ELSE 0

(* take_txt.                                                               *)
Text == IF pendingTxt = None THEN <<>> ELSE SubSeq(doc, pendingTxt + 1, Len(doc))

NoText == pendingTxt = None

Queues(hasTxt, n, pcm) ==
  queue' = IF ~hasTxt /\ n = 0 THEN queue
           ELSE Append(queue, [has |-> hasTxt, text |-> Text, clip |-> n, pcm |-> pcm])

-----------------------------------------------------------------------------
(* The server's events, in the order of its utterances.                     *)

Decoding ==
  /\ open /\ decoded < MaxUtter /\ Captured > 0
  /\ decoded' = decoded + 1
  /\ marks' = marks \cup {[n |-> decoded + 1, at |-> taken + Len(saved)]}
  /\ ends' = [ends EXCEPT ![decoded + 1] = Captured]
  /\ UNCHANGED <<saved, taken, pendingTxt, doc, queue, clipFiles, discarded, open,
                 resolved, holds, gone, spoken, latest>>

(* The server resolves its next utterance, decoded before or not at all.    *)
Resolves(n) ==
  /\ open /\ n = resolved + 1 /\ n \in Utterances
  /\ resolved' = n
  /\ decoded' = IF decoded < n THEN n ELSE decoded
  /\ ends' = IF decoded < n THEN [ends EXCEPT ![n] = Captured] ELSE ends

(* Mutant: dropped audio does not count as taken.                           *)
DroppedUncounted(n) ==
  /\ Resolves(n)
  /\ IF discarded THEN UNCHANGED <<saved, taken, gone, marks>>
     ELSE /\ saved' = SubSeq(saved, Share(n) + 1, Len(saved))
          /\ gone' = gone \o SubSeq(saved, 1, Share(n))
          /\ marks' = MarksAfter(n) /\ UNCHANGED taken
  /\ UNCHANGED <<pendingTxt, doc, queue, clipFiles, discarded, open, holds,
                 spoken, latest>>

(* A discarded drain only looks at texts (observe_discarded).               *)
Dropped(n) ==
  /\ Resolves(n)
  /\ IF discarded THEN UNCHANGED <<saved, taken, gone, marks>>
     ELSE TakesUnits(Share(n)) /\ marks' = MarksAfter(n)
  /\ UNCHANGED <<pendingTxt, doc, queue, clipFiles, discarded, open, holds,
                 spoken, latest>>

(* Mutant: the new clip's text starts behind the words of its own `final`.  *)
FinalTextLate(n, held) ==
  /\ Resolves(n)
  /\ IF discarded
     THEN Queues(~NoText, 0, <<>>) /\ pendingTxt' = None
          /\ UNCHANGED <<saved, taken, gone, marks>>
     ELSE /\ Queues(~NoText, n, SubSeq(saved, 1, Share(n)))
          /\ TakesUnits(Share(n)) /\ marks' = MarksAfter(n)
          /\ pendingTxt' = Len(doc) + 1
  /\ doc' = Append(doc, n)
  /\ spoken' = [spoken EXCEPT ![n] = 1]
  /\ latest' = n /\ holds' = held
  /\ UNCHANGED <<clipFiles, discarded, open>>

(* The ordinal `final` of n, some of whose words may be held back: it ends   *)
(* the previous clip's text and cuts n's clip; then its words fold in.      *)
Final(n, held) ==
  /\ Resolves(n)
  /\ IF discarded
     THEN Queues(~NoText, 0, <<>>) /\ pendingTxt' = None
          /\ UNCHANGED <<saved, taken, gone, marks>>
     ELSE /\ Queues(~NoText, n, SubSeq(saved, 1, Share(n)))
          /\ TakesUnits(Share(n)) /\ marks' = MarksAfter(n)
          /\ pendingTxt' = Len(doc)
  /\ doc' = Append(doc, n)
  /\ spoken' = [spoken EXCEPT ![n] = 1]
  /\ latest' = n /\ holds' = held
  /\ UNCHANGED <<clipFiles, discarded, open>>

(* A `final` without an ordinal, or the closing one, releases held words.    *)
Releases ==
  /\ open /\ holds
  /\ doc' = Append(doc, latest)
  /\ spoken' = [spoken EXCEPT ![latest] = @ + 1]
  /\ holds' = FALSE
  /\ UNCHANGED <<cutterVars, queue, clipFiles, discarded, open, decoded, resolved,
                 gone, ends, latest>>

(* A hard break closes the document, with nothing held back.                *)
Boundary ==
  /\ open /\ ~holds /\ doc # <<>>
  /\ Queues(~NoText, 0, <<>>)
  /\ pendingTxt' = None
  /\ doc' = <<>>
  /\ UNCHANGED <<saved, taken, marks, clipFiles, discarded, open, utterVars, cutHist>>

(* A Cancel after stop.                                                     *)
Cancels ==
  /\ open /\ ~discarded
  /\ discarded' = TRUE
  /\ UNCHANGED <<cutterVars, doc, queue, clipFiles, open, utterVars, cutHist>>

(* The end of the drain: flush_txt.                                         *)
Flushes ==
  /\ open /\ ~holds
  /\ open' = FALSE
  /\ Queues(~NoText, 0, <<>>)
  /\ pendingTxt' = None
  /\ UNCHANGED <<saved, taken, marks, doc, clipFiles, discarded, utterVars, cutHist>>

-----------------------------------------------------------------------------
(* ClipWriter::write: the previous clip's text, then this clip; an empty or  *)
(* failed .wav takes its text with it.                                      *)
Writes(ok) ==
  /\ queue # <<>>
  /\ LET io    == Head(queue)
         wrote == ok /\ io.clip # 0 /\ io.pcm # <<>> IN
     /\ txts' = IF io.has /\ pending # 0 THEN [txts EXCEPT ![pending] = io.text] ELSE txts
     /\ wavs' = IF wrote THEN [wavs EXCEPT ![io.clip] = io.pcm] ELSE wavs
     /\ pending' = IF io.clip # 0 THEN (IF wrote THEN io.clip ELSE 0)
                   ELSE IF io.has THEN 0 ELSE pending
  /\ queue' = Tail(queue)
  /\ UNCHANGED <<cutterVars, doc, discarded, open, utterVars, cutHist>>

-----------------------------------------------------------------------------
CutNext ==
  \/ Captures
  \/ Decoding
  \/ \E n \in Utterances : Dropped(n) \/ \E held \in BOOLEAN : Final(n, held)
  \/ Releases
  \/ Boundary
  \/ Cancels
  \/ Flushes
  \/ \E ok \in BOOLEAN : Writes(ok)

CutSpec == CutInit /\ [][CutNext]_cutVars

-----------------------------------------------------------------------------
(* Cutting loses and repeats no audio: what was taken, in order, and what is *)
(* buffered are the audio captured, and `taken` is the offset of the buffer. *)
AudioConserved ==
  /\ gone \o saved = [i \in 1..Captured |-> i]
  /\ taken = Len(gone)

(* A clip ends where its utterance's audio does, though later utterances    *)
(* were being decoded, or buffered, when its `final` came; and the text      *)
(* beside it is exactly what was said in it, words released after its        *)
(* `final` included, whatever clip failed to be written and whenever a      *)
(* Cancel came.                                                             *)
ClipIsItsUtterance ==
  \A n \in Utterances :
    /\ wavs[n] # <<>> => Last(wavs[n]) = ends[n]
    /\ ~open /\ queue = <<>> =>
         txts[n] = IF wavs[n] = <<>> THEN <<>> ELSE [i \in 1..spoken[n] |-> n]
=============================================================================
