--------------------------- MODULE FrameRingProofs ---------------------------
(***************************************************************************)
(* Proofs about FrameRing, for every number of slots, words, producers and *)
(* frames.                                                                 *)
(***************************************************************************)
EXTENDS FrameRing, TLAPS

-----------------------------------------------------------------------------
(***************************************************************************)
(* The inductive invariant.                                                *)
(***************************************************************************)

\* The slot the next frame goes to, whichever producer writes it.
Spare == IF latest.no = 0 THEN 0 ELSE (latest.at + 1) % Slots

\* The lock tells who is inside; only a started producer has the state running.
Owners ==
    /\ prod.pc # "none" <=> lock = "producer"
    /\ cons.pc = "unlock" <=> lock = "consumer"
    /\ prod.started => prod.pc # "none" /\ state = "running"

\* The producer's own counts agree with the file, also with one that another
\* producer left behind, and stay below the caps of the two counters.
Counts ==
    /\ latest.no = Len(published)
    /\ latest.no <= pushes
    /\ \A s \in SlotNos : slot[s].seq <= 2 * pushes
    /\ prod.pc # "none" =>
         /\ prod.next_frame = latest.no + 1
         /\ prod.newest = IF latest.no = 0 THEN None ELSE latest.at
         /\ \A s \in SlotNos :
              slot[s].seq =
                IF prod.pc = "write" /\ s = prod.at THEN OrOne(prod.seqs[s])
                ELSE IF prod.pc = "publish" /\ s = prod.at THEN OrOne(prod.seqs[s]) + 1
                ELSE prod.seqs[s]
    /\ prod.pc \in {"write", "publish"} =>
         /\ prod.at = Spare
         /\ latest.no < pushes
         /\ prod.seqs[prod.at] <= 2 * (pushes - 1)

\* The words already stored of the frame being written.
Stored ==
    prod.pc \in {"write", "publish"} =>
        \A w \in AllWords : (prod.pc = "write" /\ w \in prod.left)
            \/ slot[prod.at].w[w] = IF w = "frame_no" THEN prod.next_frame ELSE pushes

\* Only the spare slot may be odd, or hold a frame that was not published; any
\* other frame in a slot is whole.
SlotsWhole ==
    /\ \A s \in SlotNos :
         LET no == slot[s].w["frame_no"] IN
         /\ Odd(slot[s].seq) => s = Spare
         /\ ~Odd(slot[s].seq) =>
              /\ no > latest.no => s = Spare
              /\ no \in 1..latest.no => \A w \in Words : slot[s].w[w] = published[no]
    /\ latest.no # 0 => slot[latest.at].w["frame_no"] = latest.no

\* While a slot's sequence word is the one the consumer saw, the words copied
\* are the slot's.
Copying ==
    /\ cons.last_frame <= latest.no
    /\ cons.pc \in {"seq", "copy"} =>
         cons.latest.no \in 1..latest.no /\ cons.last_frame <= cons.latest.no
    /\ cons.pc # "copy" => cons.got = NoCopy
    /\ cons.pc = "copy" =>
         /\ ~Odd(cons.s1) /\ cons.s1 <= SeqNow
         /\ Unmoved => \A w \in AllWords : cons.got[w] \in {None, WordsNow[w]}

\* What the probe has seen so far is still good for what it was promised.
Probing ==
    /\ watch \subseteq Now
    /\ cons.pc \in {"unlock", "reread"} => "alive" \notin watch
    /\ cons.pc = "final" /\ "empty" \in watch => state # "running"

\* What the writers keep, what a reader adds, and what the probe adds.
FileInv == Counts /\ Stored /\ SlotsWhole
CopyInv == Copying /\ NeverTorn
ProbeInv == Owners /\ Probing /\ ProbeSteady

-----------------------------------------------------------------------------
(***************************************************************************)
(* The constants and the operators on counters.                            *)
(***************************************************************************)
LEMMA Sizes ==
    /\ Slots \in Nat /\ Slots >= 2 /\ 0 \in SlotNos
    /\ READ_TRIES \in Nat /\ MaxPushes \in Nat /\ MaxAttaches \in Nat
    /\ MAX_FRAME_NO \in Nat /\ MAX_SEQ \in Nat
    /\ MaxPushes < MAX_FRAME_NO /\ 2 * MaxPushes <= MAX_SEQ
    /\ "frame_no" \in AllWords /\ Words \subseteq AllWords /\ "frame_no" \notin Words
  BY FrameRingAssumption DEF SlotNos, AllWords

\* Parity, and what push() makes of a sequence word.
LEMMA Parity ==
    ASSUME NEW v \in Nat
    PROVE  /\ OrOne(v) \in Nat /\ v <= OrOne(v) /\ Odd(OrOne(v)) /\ ~Odd(OrOne(v) + 1)
           /\ ~Odd(v) => OrOne(v) = v + 1
           /\ Odd(v) => OrOne(v) = v
           /\ \A n \in Nat : v <= 2 * n => OrOne(v) <= 2 * n + 1
           /\ sane_seq(v) \in Nat
  BY Sizes DEF OrOne, Odd, sane_seq

\* The slot after another one is in the layout, and is not that one.
LEMMA NextSlot ==
    ASSUME NEW s \in SlotNos
    PROVE  (s + 1) % Slots \in SlotNos /\ (s + 1) % Slots # s
<1>1. s \in Nat /\ s < Slots
  BY Sizes DEF SlotNos
<1>2. CASE s + 1 < Slots
  <2>1. (s + 1) % Slots = s + 1
    BY <1>1, <1>2, Sizes
  <2>. QED  BY <1>1, <1>2, <2>1, Sizes DEF SlotNos
<1>3. CASE s + 1 = Slots
  <2>1. (s + 1) % Slots = 0
    BY <1>1, <1>3, Sizes
  <2>. QED  BY <1>1, <1>3, <2>1, Sizes DEF SlotNos
<1>. QED  BY <1>1, <1>2, <1>3, Sizes

-----------------------------------------------------------------------------
(***************************************************************************)
(* Types.                                                                  *)
(***************************************************************************)
LEMMA IdleTypes ==
    ASSUME NEW c \in Consumer
    PROVE  Idle(c) \in Consumer
<1>1. NoCopy \in [AllWords -> Nat \cup {None}]
  BY DEF NoCopy
<1>2. [no |-> 0, at |-> 0] \in [no: Nat, at: SlotNos] /\ 0 \in 0..READ_TRIES
  BY Sizes
<1>3. ASSUME NEW got \in [AllWords -> Nat \cup {None}], NEW l \in [no: Nat, at: SlotNos],
             NEW n \in 0..READ_TRIES
      PROVE  [c EXCEPT !.pc = "idle", !.again = FALSE, !.tries = n, !.s1 = 0,
                       !.latest = l, !.got = got] \in Consumer
  BY DEF Consumer
<1>. QED  BY <1>1, <1>2, <1>3 DEF Idle

(* The absent producer is of the type of a producer.                       *)
LEMMA NoProducerType == NoProducer \in Producer
  BY Sizes DEF NoProducer, Producer, None

(* The new ring file is of its type.                                       *)
LEMMA TypeInit == Init => TypeOK
<1>. SUFFICES ASSUME Init PROVE TypeOK
  OBVIOUS
<1>1. cons \in Consumer
  BY Sizes DEF Init, Consumer, NoCopy, None
<1>2. published \in Seq(Nat)
  BY DEF Init
<1>. QED  BY <1>1, <1>2, NoProducerType, Sizes DEF Init, TypeOK

\* The producer's steps.
LEMMA ProducerTypes ==
    ASSUME TypeOK, ProducerStep
    PROVE  TypeOK'
<1>. USE Sizes
<1>0. /\ slot \in [SlotNos -> [seq: Nat, w: [AllWords -> Nat]]]
      /\ prod \in Producer /\ latest \in [no: Nat, at: SlotNos] /\ pushes \in Nat
  BY DEF TypeOK
<1>1. ASSUME watch' = watch \cap Now'
      PROVE  watch' \subseteq {"alive", "empty"}
  BY <1>1 DEF TypeOK
<1>2. CASE attach
  <2>1. CountsFound \in [SlotNos -> Nat]
    BY <1>0, Parity DEF CountsFound
  <2>2. FrameAfterLatest \in Nat
    BY <1>0 DEF FrameAfterLatest, after
  <2>3. prod' \in Producer
    BY <1>0, <1>2, <2>1, <2>2, NoProducerType DEF attach, Producer, None
  <2>4. attaches' \in 0..MaxAttaches
    <3>1. attaches \in Nat /\ attaches < MaxAttaches /\ attaches' = attaches + 1
      BY <1>2 DEF TypeOK, attach
    <3>. QED  BY <3>1
  <2>. QED  BY <1>1, <1>2, <2>3, <2>4 DEF TypeOK, attach, Watching
<1>3. CASE start
  <2>1. prod' \in Producer
    BY <1>0, <1>3 DEF start, Producer
  <2>. QED  BY <1>1, <1>3, <2>1 DEF TypeOK, start, Watching
<1>4. CASE PushBegin
  <2>1. next_slot \in SlotNos
    BY <1>0, NextSlot DEF next_slot, Producer, None
  <2>2. OrOne(sane_seq(prod.seqs[next_slot])) \in Nat
    BY <1>0, <2>1, Parity DEF Producer
  <2>3. prod' \in Producer
    BY <1>0, <1>4, <2>1 DEF PushBegin, Producer
  <2>4. slot' \in [SlotNos -> [seq: Nat, w: [AllWords -> Nat]]]
    BY <1>0, <1>4, <2>1, <2>2 DEF PushBegin
  <2>5. pushes' \in 0..MaxPushes
    <3>1. pushes < MaxPushes /\ pushes' = pushes + 1
      BY <1>4 DEF PushBegin
    <3>. QED  BY <1>0, <3>1
  <2>. QED  BY <1>1, <1>4, <2>3, <2>4, <2>5 DEF TypeOK, PushBegin, Watching
<1>5. ASSUME NEW w \in AllWords, PushStore(w)
      PROVE  TypeOK'
  <2>1. prod' \in Producer
    BY <1>0, <1>5 DEF PushStore, Producer
  <2>2. slot' \in [SlotNos -> [seq: Nat, w: [AllWords -> Nat]]]
    BY <1>0, <1>5, SMTT(30) DEF PushStore, Producer
  <2>. QED  BY <1>1, <1>5, <2>1, <2>2 DEF TypeOK, PushStore, Watching
<1>6. CASE PushSeal
  <2>1. OrOne(sane_seq(prod.seqs[prod.at])) + 1 \in Nat
    BY <1>0, Parity DEF Producer
  <2>2. prod' \in Producer
    BY <1>0, <1>6 DEF PushSeal, Producer
  <2>3. slot' \in [SlotNos -> [seq: Nat, w: [AllWords -> Nat]]]
    BY <1>0, <1>6, <2>1, SMTT(30) DEF PushSeal, Producer
  <2>. QED  BY <1>1, <1>6, <2>2, <2>3 DEF TypeOK, PushSeal, Watching
<1>7. CASE PushPublish
  <2>1. OrOne(sane_seq(prod.seqs[prod.at])) + 1 \in Nat /\ after(prod.next_frame) \in Nat
    BY <1>0, Parity DEF Producer, after
  <2>2. prod' \in Producer
    BY <1>0, <1>7, <2>1 DEF PushPublish, Producer
  <2>3. latest' \in [no: Nat, at: SlotNos]
    BY <1>0, <1>7 DEF PushPublish, Producer
  <2>4. published' \in Seq(Nat)
    BY <1>0, <1>7 DEF PushPublish, TypeOK
  <2>. QED  BY <1>1, <1>7, <2>2, <2>3, <2>4 DEF TypeOK, PushPublish, Watching
<1>8. CASE end
  <2>1. prod' \in Producer
    BY <1>0, <1>8 DEF end, Producer
  <2>. QED  BY <1>1, <1>8, <2>1 DEF TypeOK, end, Watching
<1>9. CASE Close
  BY <1>1, <1>9, NoProducerType DEF TypeOK, Close, Watching
<1>. QED
  BY <1>2, <1>3, <1>4, <1>5, <1>6, <1>7, <1>8, <1>9 DEF ProducerStep

\* The consumer's steps and the clock's.
ConsumerStep ==
    \/ \E again \in BOOLEAN : ReadBegin(again)
    \/ ReadStep
    \/ Probe \/ ProbeStep
    \/ \E on \in BOOLEAN : set_wanted(on)
    \/ touch \/ drop \/ BeatAges


\* A read that has begun has a try left.
Trying == cons.pc \in {"seq", "copy"} => cons.tries > 0

(* The steps of the consumer keep the types.                               *)
LEMMA ConsumerTypes ==
    ASSUME TypeOK, Trying, ConsumerStep
    PROVE  TypeOK' /\ Trying'
<1>. USE Sizes DEF file, history
<1>0. /\ slot \in [SlotNos -> [seq: Nat, w: [AllWords -> Nat]]]
      /\ cons \in Consumer /\ latest \in [no: Nat, at: SlotNos]
  BY DEF TypeOK
<1>1. Idle(cons) \in Consumer /\ Idle(cons).pc = "idle"
  BY <1>0, IdleTypes DEF Idle, Consumer
<1>2. SeqNow \in Nat /\ WordsNow \in [AllWords -> Nat]
  BY <1>0 DEF SeqNow, WordsNow, Consumer
<1>3. ASSUME Torn, cons.tries > 0
      PROVE  cons' \in Consumer /\ cons'.pc = "latest"
  <2>1. cons.tries - 1 \in 0..READ_TRIES
    BY <1>0, <1>3 DEF Consumer
  <2>. QED  BY <1>0, <1>1, <1>3, <2>1 DEF Torn, Consumer
<1>4. ASSUME NEW a, a \in {"waiting", "running", "ended", "gone"}
      PROVE  Answer(a) \in Consumer /\ Answer(a).pc = "idle"
  BY <1>0, <1>4 DEF Answer, Consumer
<1>5. ASSUME cons' \in Consumer, UNCHANGED <<file, attaches, prod, history>>
      PROVE  TypeOK'
  BY <1>5 DEF TypeOK
<1>6. ASSUME NEW again \in BOOLEAN, ReadBegin(again)
      PROVE  TypeOK' /\ Trying'
  <2>1. cons' \in Consumer /\ cons'.pc = "latest"
    <3>1. READ_TRIES \in 0..READ_TRIES
      OBVIOUS
    <3>. QED  BY <1>0, <1>6, <3>1 DEF ReadBegin, Consumer
  <2>. QED  BY <1>6, <2>1 DEF ReadBegin, TypeOK, Trying
<1>7. CASE ReadNone
  BY <1>1, <1>5, <1>7 DEF ReadNone, Trying
<1>8. CASE ReadLatest
  <2>1. cons' \in Consumer /\ cons'.tries = cons.tries
    BY <1>0, <1>8 DEF ReadLatest, Consumer
  <2>. QED  BY <1>5, <1>8, <2>1 DEF ReadLatest, Trying
<1>9. CASE CopyBegin
  <2>1. CASE Torn
    BY <1>3, <1>5, <1>9, <2>1 DEF CopyBegin, Trying
  <2>2. CASE cons' = [cons EXCEPT !.pc = "copy", !.s1 = SeqNow]
    <3>1. cons' \in Consumer /\ cons'.tries = cons.tries
      BY <1>0, <1>2, <2>2 DEF Consumer
    <3>. QED  BY <1>5, <1>9, <3>1 DEF CopyBegin, Trying
  <2>. QED  BY <1>9, <2>1, <2>2 DEF CopyBegin
<1>10. ASSUME NEW w \in AllWords, CopyWord(w)
       PROVE  TypeOK' /\ Trying'
  <2>1. cons' \in Consumer /\ cons'.tries = cons.tries
    BY <1>0, <1>2, <1>10 DEF CopyWord, Consumer
  <2>. QED  BY <1>5, <1>10, <2>1 DEF CopyWord, Trying
<1>11. CASE CopyStale
  BY <1>3, <1>5, <1>11 DEF CopyStale, Trying
<1>12. CASE CopyInvalid
  <2>1. CASE Torn
    BY <1>3, <1>5, <1>12, <2>1 DEF CopyInvalid, Copied, Trying
  <2>2. CASE cons' = [Idle(cons) EXCEPT !.rejected = TRUE]
    <3>1. cons' \in Consumer /\ cons'.pc = "idle"
      BY <1>1, <2>2 DEF Consumer
    <3>. QED  BY <1>5, <1>12, <3>1 DEF CopyInvalid, Trying
  <2>. QED  BY <1>12, <2>1, <2>2 DEF CopyInvalid
<1>13. CASE CopyEnd
  <2>1. CASE Torn /\ UNCHANGED handed
    BY <1>3, <1>5, <1>13, <2>1 DEF CopyEnd, Copied, Trying
  <2>2. CASE /\ cons' = [Idle(cons) EXCEPT !.last_frame = cons.latest.no]
             /\ handed' = [no |-> cons.latest.no, w |-> cons.got]
    <3>1. cons' \in Consumer /\ cons'.pc = "idle"
      BY <1>0, <1>1, <2>2 DEF Consumer
    <3>2. cons.got \in [AllWords -> Nat \cup {None}] /\ cons.latest.no \in Nat
      BY <1>0 DEF Consumer
    <3>3. cons.got \in [AllWords -> Nat]
      BY <1>13, <3>2 DEF CopyEnd, Copied
    <3>. QED  BY <1>13, <2>2, <3>1, <3>2, <3>3 DEF CopyEnd, TypeOK, Trying
  <2>. QED  BY <1>13, <2>1, <2>2 DEF CopyEnd
<1>14. CASE Probe
  <2>1. cons' \in Consumer /\ cons'.pc \in {"lock", "final"}
    BY <1>0, <1>14 DEF Probe, Consumer
  <2>2. watch' \subseteq {"alive", "empty"}
    BY <1>14 DEF Probe, Now
  <2>. QED  BY <1>14, <2>1, <2>2 DEF Probe, TypeOK, Trying
<1>15. CASE ProbeStep
  <2>1. cons' \in Consumer /\ cons'.pc \in {"unlock", "reread", "final", "idle"}
    <3>1. ASSUME NEW p \in {"unlock", "reread", "final"}
          PROVE  [cons EXCEPT !.pc = p] \in Consumer /\ [cons EXCEPT !.pc = p].pc = p
      BY <1>0, <3>1 DEF Consumer
    <3>2. state \in {"waiting", "running", "ended", "gone"}
      BY DEF TypeOK
    <3>. QED
      BY <1>4, <1>15, <3>1, <3>2, ZenonT(40) DEF ProbeStep, ProbeLock, ProbeUnlock, ProbeReread, ProbeFinal
  <2>. QED
    BY <1>15, <2>1
       DEF ProbeStep, ProbeLock, ProbeUnlock, ProbeReread, ProbeFinal, TypeOK, Trying
<1>16. ASSUME NEW on \in BOOLEAN, set_wanted(on)
       PROVE  TypeOK' /\ Trying'
  <2>1. flags' \subseteq {"wants", "gone"}
    BY <1>16 DEF set_wanted, TypeOK
  <2>. QED  BY <1>16, <2>1 DEF set_wanted, TypeOK, Trying
<1>17. CASE touch \/ BeatAges
  BY <1>17 DEF touch, BeatAges, TypeOK, Trying
<1>18. CASE drop
  <2>1. cons' \in Consumer /\ cons'.pc = "gone"
    BY <1>0, <1>18 DEF drop, Consumer
  <2>. QED  BY <1>18, <2>1 DEF drop, TypeOK, Trying
<1>. QED
  BY <1>6, <1>7, <1>8, <1>9, <1>10, <1>11, <1>12, <1>13, <1>14, <1>15, <1>16, <1>17, <1>18
     DEF ConsumerStep, ReadStep

\* Every step keeps the types.
LEMMA TypeStep == TypeOK /\ Trying /\ [Next]_vars => (TypeOK /\ Trying)'
<1>. SUFFICES ASSUME TypeOK, Trying, [Next]_vars PROVE (TypeOK /\ Trying)'
  OBVIOUS
<1>1. CASE UNCHANGED vars
  BY <1>1 DEF vars, TypeOK, Trying
<1>2. CASE ProducerStep
  <2>1. cons' = cons
    BY <1>2 DEF ProducerStep, attach, start, PushBegin, PushStore, PushSeal, PushPublish, end, Close
  <2>. QED  BY <1>2, <2>1, ProducerTypes DEF Trying
<1>3. CASE ConsumerStep
  BY <1>3, ConsumerTypes
<1>. QED  BY <1>1, <1>2, <1>3 DEF Next, ConsumerStep

(* For every number of slots, words, tries, producers and frames: each     *)
(* word, counter and process state keeps its range, the slot written to is *)
(* one of the layout, and a read never runs out of tries it counts down.   *)
THEOREM TypeCorrect == Spec => []TypeOK
<1>1. Init => TypeOK /\ Trying
  BY TypeInit DEF Init, Trying
<1>. QED  BY <1>1, TypeStep, PTL DEF Spec

-----------------------------------------------------------------------------
(***************************************************************************)
(* The file: what the slots hold, whichever producers wrote them.          *)
(***************************************************************************)

\* The consumer and the clock write nothing a producer counts on.
LEMMA ConsumerLeaves ==
    ASSUME ConsumerStep
    PROVE  UNCHANGED <<slot, latest, state, attaches, prod, pushes, published>>
<1>. USE DEF file, history
<1>1. CASE \E again \in BOOLEAN : ReadBegin(again)
  BY <1>1 DEF ReadBegin
<1>2. CASE ReadStep
  BY <1>2 DEF ReadStep, ReadNone, ReadLatest, CopyBegin, CopyStale, CopyInvalid, CopyEnd, CopyWord
<1>3. CASE Probe \/ ProbeStep
  BY <1>3 DEF Probe, ProbeStep, ProbeLock, ProbeUnlock, ProbeReread, ProbeFinal
<1>4. CASE (\E on \in BOOLEAN : set_wanted(on)) \/ touch \/ drop \/ BeatAges
  BY <1>4 DEF set_wanted, touch, drop, BeatAges
<1>. QED  BY <1>1, <1>2, <1>3, <1>4 DEF ConsumerStep

\* The spare slot is never the one H_LATEST names.
LEMMA SpareFacts ==
    ASSUME TypeOK
    PROVE  Spare \in SlotNos /\ (latest.no # 0 => Spare # latest.at)
<1>1. latest.no \in Nat /\ latest.at \in SlotNos
  BY DEF TypeOK
<1>. QED  BY <1>1, NextSlot, Sizes DEF Spare

\* No sequence word is over the cap, so none is started again from 0.
LEMMA SaneFacts ==
    ASSUME TypeOK, Counts, NEW s \in SlotNos
    PROVE  /\ slot[s].seq \in Nat
           /\ sane_seq(slot[s].seq) = slot[s].seq
           /\ prod.pc # "none" => sane_seq(prod.seqs[s]) = prod.seqs[s]
<1>1. slot[s].seq \in Nat /\ slot[s].seq <= 2 * pushes /\ pushes \in 0..MaxPushes
  BY DEF TypeOK, Counts
<1>2. slot[s].seq <= MAX_SEQ
  BY <1>1, Sizes
<1>3. ASSUME prod.pc # "none"
      PROVE  sane_seq(prod.seqs[s]) = prod.seqs[s]
  <2>1. prod.seqs[s] \in Nat
    BY DEF TypeOK, Producer
  <2>2. slot[s].seq \in {prod.seqs[s], OrOne(prod.seqs[s]), OrOne(prod.seqs[s]) + 1}
    BY <1>3 DEF Counts
  <2>3. prod.seqs[s] <= slot[s].seq
    BY <2>1, <2>2, Parity
  <2>. QED  BY <1>1, <1>2, <2>1, <2>3, Sizes DEF sane_seq
<1>. QED  BY <1>1, <1>2, <1>3, Sizes DEF sane_seq

(* The new ring file has no frame.                                         *)
LEMMA FileInit == Init => FileInv
<1>. SUFFICES ASSUME Init PROVE FileInv
  OBVIOUS
<1>1. Counts
  BY Sizes DEF Init, Counts, NoProducer
<1>2. Stored
  BY DEF Init, Stored, NoProducer
<1>3. SlotsWhole
  BY Sizes DEF Init, SlotsWhole, Odd, Spare
<1>. QED  BY <1>1, <1>2, <1>3 DEF FileInv

\* Attaching, starting, ending and being killed leave the slots alone.
LEMMA QuietFile ==
    ASSUME TypeOK, FileInv, attach \/ start \/ end \/ Close
    PROVE  FileInv'
<1>. USE Sizes
<1>0. /\ prod \in Producer /\ latest.no \in Nat /\ pushes \in 0..MaxPushes
      /\ UNCHANGED <<slot, latest, pushes, published>>
  BY DEF TypeOK, attach, start, end, Close
<1>1. SlotsWhole'
  BY <1>0 DEF FileInv, SlotsWhole, Spare
<1>2. Stored'
  <2>1. prod'.pc \in {"idle", "closing", "none"}
    <3>1. attach => prod'.pc = "idle"
      BY DEF attach, NoProducer
    <3>2. start \/ end => prod'.pc \in {"idle", "closing"}
      BY <1>0 DEF start, end, Producer
    <3>3. Close => prod'.pc = "none"
      BY DEF Close, NoProducer
    <3>. QED  BY <3>1, <3>2, <3>3
  <2>. QED  BY <2>1 DEF Stored
<1>3. CASE attach
  <2>1. /\ prod'.pc = "idle" /\ prod'.seqs = CountsFound /\ prod'.next_frame = FrameAfterLatest
        /\ prod'.newest = IF latest.no # 0 THEN latest.at ELSE None
    BY <1>3 DEF attach, NoProducer
  <2>2. \A s \in SlotNos : CountsFound[s] = slot[s].seq
    BY SaneFacts DEF CountsFound, FileInv
  <2>3. FrameAfterLatest = latest.no + 1
    BY <1>0 DEF FrameAfterLatest, after, FileInv, Counts
  <2>4. Counts'
    BY <1>0, <2>1, <2>2, <2>3 DEF FileInv, Counts
  <2>. QED  BY <1>1, <1>2, <2>4 DEF FileInv
<1>4. CASE start \/ end
  <2>1. /\ prod.pc = "idle" /\ prod'.pc \in {"idle", "closing"} /\ prod'.seqs = prod.seqs
        /\ prod'.next_frame = prod.next_frame /\ prod'.newest = prod.newest
    BY <1>0, <1>4 DEF start, end, Producer
  <2>2. Counts'
    BY <1>0, <2>1 DEF FileInv, Counts
  <2>. QED  BY <1>1, <1>2, <2>2 DEF FileInv
<1>5. CASE Close
  <2>1. prod'.pc = "none"
    BY <1>5 DEF Close, NoProducer
  <2>2. Counts'
    BY <1>0, <2>1 DEF FileInv, Counts
  <2>. QED  BY <1>1, <1>2, <2>2 DEF FileInv
<1>. QED  BY <1>3, <1>4, <1>5

\* A push turns the spare slot odd and leaves its words for the next steps.
LEMMA BeginFile ==
    ASSUME TypeOK, FileInv, PushBegin
    PROVE  FileInv'
<1>. USE Sizes
<1>0. /\ prod \in Producer /\ latest \in [no: Nat, at: SlotNos] /\ pushes \in Nat
      /\ slot \in [SlotNos -> [seq: Nat, w: [AllWords -> Nat]]]
      /\ prod.pc = "idle" /\ UNCHANGED <<latest, published>> /\ pushes' = pushes + 1
  BY DEF TypeOK, PushBegin
<1>1. next_slot = Spare
  <2>1. prod.newest = IF latest.no = 0 THEN None ELSE latest.at
    BY <1>0 DEF FileInv, Counts
  <2>2. latest.at # None
    BY <1>0 DEF SlotNos, None
  <2>. QED  BY <2>1, <2>2 DEF next_slot, Spare
<1>2. Spare \in SlotNos /\ (latest.no # 0 => Spare # latest.at) /\ Spare' = Spare
  BY <1>0, SpareFacts DEF Spare
<1>. DEFINE v == slot[Spare].seq
<1>3. prod.seqs[Spare] = v /\ sane_seq(v) = v /\ v \in Nat /\ v <= 2 * pushes
  BY <1>0, <1>2, SaneFacts DEF FileInv, Counts
<1>4. OrOne(v) \in Nat /\ Odd(OrOne(v)) /\ OrOne(v) <= 2 * pushes + 1
  BY <1>0, <1>3, Parity
<1>5. /\ slot'[Spare].seq = OrOne(v) /\ slot'[Spare].w = slot[Spare].w
      /\ \A s \in SlotNos \ {Spare} : slot'[s] = slot[s]
  BY <1>0, <1>1, <1>2, <1>3 DEF PushBegin
<1>6. /\ prod'.pc = "write" /\ prod'.at = Spare /\ prod'.left = AllWords /\ prod'.seqs = prod.seqs
      /\ prod'.next_frame = prod.next_frame /\ prod'.newest = prod.newest
  BY <1>0, <1>1 DEF PushBegin, Producer
<1>. HIDE DEF v
<1>7. Counts'
  <2>1. \A s \in SlotNos : slot'[s].seq <= 2 * pushes'
    <3>1. \A s \in SlotNos : slot[s].seq \in Nat /\ slot[s].seq <= 2 * pushes
      BY <1>0 DEF FileInv, Counts
    <3>. QED  BY <1>0, <1>4, <1>5, <3>1
  <2>2. \A s \in SlotNos : slot'[s].seq = IF s = Spare THEN OrOne(prod.seqs[s]) ELSE prod.seqs[s]
    BY <1>0, <1>3, <1>5 DEF FileInv, Counts
  <2>3. latest.no = Len(published) /\ latest.no <= pushes
        /\ prod.next_frame = latest.no + 1 /\ prod.newest = IF latest.no = 0 THEN None ELSE latest.at
    BY <1>0 DEF FileInv, Counts
  <2>. QED  BY <1>0, <1>2, <1>3, <1>6, <2>1, <2>2, <2>3 DEF Counts
<1>8. Stored'
  BY <1>6 DEF Stored
<1>9. SlotsWhole'
  BY <1>0, <1>2, <1>4, <1>5 DEF FileInv, SlotsWhole
<1>. QED  BY <1>7, <1>8, <1>9 DEF FileInv

\* A word is stored while the slot is odd.
LEMMA StoreFile ==
    ASSUME TypeOK, FileInv, NEW w \in AllWords, PushStore(w)
    PROVE  FileInv' /\ Odd(slot[prod.at].seq)
<1>. USE Sizes
<1>. DEFINE new == IF w = "frame_no" THEN prod.next_frame ELSE pushes
<1>0. /\ prod \in Producer /\ latest \in [no: Nat, at: SlotNos] /\ pushes \in Nat
      /\ slot \in [SlotNos -> [seq: Nat, w: [AllWords -> Nat]]]
      /\ prod.pc = "write" /\ UNCHANGED <<latest, published, pushes>>
  BY DEF TypeOK, PushStore
<1>1. prod.at = Spare /\ Spare \in SlotNos /\ (latest.no # 0 => Spare # latest.at) /\ Spare' = Spare
  BY <1>0, SpareFacts DEF Spare, FileInv, Counts
<1>2. /\ \A s \in SlotNos : slot'[s].seq = slot[s].seq
      /\ \A s \in SlotNos \ {Spare} : slot'[s] = slot[s]
      /\ slot'[Spare].w = [slot[Spare].w EXCEPT ![w] = new]
  BY <1>0, <1>1 DEF PushStore
<1>3. Odd(slot[Spare].seq)
  <2>1. slot[Spare].seq = OrOne(prod.seqs[Spare]) /\ prod.seqs[Spare] \in Nat
    BY <1>0, <1>1 DEF FileInv, Counts, Producer
  <2>. QED  BY <2>1, Parity
<1>4. /\ prod'.pc = "write" /\ prod'.at = prod.at /\ prod'.seqs = prod.seqs
      /\ prod'.next_frame = prod.next_frame /\ prod'.newest = prod.newest
      /\ prod'.left = prod.left \ {w}
  BY <1>0 DEF PushStore, Producer
<1>5. Counts'
  BY <1>0, <1>1, <1>2, <1>4, SMTT(30) DEF FileInv, Counts
<1>6. Stored'
  <2>1. ASSUME NEW x \in AllWords, x \notin prod'.left
        PROVE  slot'[Spare].w[x] = IF x = "frame_no" THEN prod.next_frame ELSE pushes
    <3>1. CASE x = w
      BY <1>0, <1>1, <1>2, <3>1
    <3>2. CASE x # w
      <4>1. x \notin prod.left
        BY <1>4, <2>1, <3>2
      <4>. QED  BY <1>0, <1>1, <1>2, <3>2, <4>1 DEF FileInv, Stored
    <3>. QED  BY <3>1, <3>2
  <2>. QED  BY <1>0, <1>1, <1>4, <2>1 DEF Stored
<1>7. SlotsWhole'
  BY <1>0, <1>1, <1>2, <1>3 DEF FileInv, SlotsWhole
<1>. QED  BY <1>1, <1>3, <1>5, <1>6, <1>7 DEF FileInv

\* The seal: the spare slot is even again and holds a frame above H_LATEST.
LEMMA SealFile ==
    ASSUME TypeOK, FileInv, PushSeal
    PROVE  FileInv'
<1>. USE Sizes
<1>0. /\ prod \in Producer /\ latest \in [no: Nat, at: SlotNos] /\ pushes \in Nat
      /\ slot \in [SlotNos -> [seq: Nat, w: [AllWords -> Nat]]]
      /\ prod.pc = "write" /\ prod.left = {} /\ UNCHANGED <<latest, published, pushes>>
  BY DEF TypeOK, PushSeal
<1>1. prod.at = Spare /\ Spare \in SlotNos /\ (latest.no # 0 => Spare # latest.at) /\ Spare' = Spare
  BY <1>0, SpareFacts DEF Spare, FileInv, Counts
<1>. DEFINE v == prod.seqs[Spare]
<1>2. sane_seq(v) = v /\ v \in Nat /\ v <= 2 * (pushes - 1)
  BY <1>0, <1>1, SaneFacts DEF FileInv, Counts, Producer
<1>3. pushes - 1 \in Nat /\ OrOne(v) \in Nat /\ ~Odd(OrOne(v) + 1) /\ OrOne(v) <= 2 * (pushes - 1) + 1
  <2>1. latest.no < pushes
    BY <1>0 DEF FileInv, Counts
  <2>2. pushes - 1 \in Nat
    BY <1>0, <2>1
  <2>. QED  BY <1>2, <2>2, Parity
<1>4. /\ \A s \in SlotNos : slot'[s].w = slot[s].w
      /\ \A s \in SlotNos \ {Spare} : slot'[s] = slot[s]
      /\ slot'[Spare].seq = OrOne(v) + 1
  BY <1>0, <1>1, <1>2 DEF PushSeal
<1>5. /\ prod'.pc = "publish" /\ prod'.at = prod.at /\ prod'.seqs = prod.seqs
      /\ prod'.next_frame = prod.next_frame /\ prod'.newest = prod.newest
  BY <1>0 DEF PushSeal, Producer
<1>. HIDE DEF v
<1>6. Counts'
  <2>1. \A s \in SlotNos : slot'[s].seq <= 2 * pushes'
    <3>1. OrOne(v) + 1 <= 2 * pushes
      BY <1>0, <1>3
    <3>2. \A s \in SlotNos : slot[s].seq <= 2 * pushes
      BY DEF FileInv, Counts
    <3>. QED  BY <1>0, <1>4, <3>1, <3>2
  <2>2. \A s \in SlotNos : slot'[s].seq = IF s = Spare THEN OrOne(prod.seqs[s]) + 1 ELSE prod.seqs[s]
    BY <1>0, <1>1, <1>4 DEF FileInv, Counts, v
  <2>. QED  BY <1>0, <1>1, <1>5, <2>1, <2>2 DEF FileInv, Counts
<1>7. \A w \in AllWords : slot[Spare].w[w] = IF w = "frame_no" THEN prod.next_frame ELSE pushes
  BY <1>0, <1>1 DEF FileInv, Stored
<1>8. Stored'
  BY <1>0, <1>1, <1>4, <1>5, <1>7 DEF Stored
<1>9. SlotsWhole'
  <2>1. slot'[Spare].w["frame_no"] = latest.no + 1
    BY <1>0, <1>1, <1>4, <1>7 DEF FileInv, Counts
  <2>2. ~Odd(slot'[Spare].seq)
    BY <1>3, <1>4
  <2>3. ~(latest.no + 1 \in 1..latest.no)
    BY <1>0
  <2>. QED  BY <1>0, <1>1, <1>4, <2>1, <2>2, <2>3 DEF FileInv, SlotsWhole
<1>. QED  BY <1>6, <1>8, <1>9 DEF FileInv

\* The publication moves H_LATEST to the spare slot.
LEMMA PublishFile ==
    ASSUME TypeOK, FileInv, PushPublish
    PROVE  FileInv'
<1>. USE Sizes
<1>0. /\ prod \in Producer /\ latest \in [no: Nat, at: SlotNos] /\ pushes \in 0..MaxPushes
      /\ slot \in [SlotNos -> [seq: Nat, w: [AllWords -> Nat]]] /\ published \in Seq(Nat)
      /\ prod.pc = "publish" /\ UNCHANGED <<slot, pushes>>
  BY DEF TypeOK, PushPublish
<1>1. prod.at = Spare /\ Spare \in SlotNos /\ (latest.no # 0 => Spare # latest.at)
  BY <1>0, SpareFacts DEF FileInv, Counts
<1>2. /\ prod.next_frame = latest.no + 1 /\ latest.no = Len(published) /\ latest.no < pushes
  BY <1>0 DEF FileInv, Counts
<1>3. /\ latest' = [no |-> latest.no + 1, at |-> Spare]
      /\ published' = Append(published, pushes)
  BY <1>1, <1>2 DEF PushPublish
<1>. DEFINE v == prod.seqs[Spare]
<1>4. v \in Nat /\ sane_seq(v) = v /\ slot[Spare].seq = OrOne(v) + 1 /\ ~Odd(OrOne(v) + 1)
  BY <1>0, <1>1, SaneFacts, Parity DEF FileInv, Counts, Producer
<1>5. /\ prod'.pc = "idle" /\ prod'.newest = Spare /\ prod'.next_frame = after(latest.no + 1)
      /\ prod'.seqs = [prod.seqs EXCEPT ![Spare] = OrOne(v) + 1]
  BY <1>0, <1>1, <1>2, <1>4 DEF PushPublish, Producer
<1>6. after(latest.no + 1) = latest.no + 2
  BY <1>0, <1>2 DEF after
<1>7. /\ Len(published') = latest.no + 1
      /\ published'[latest.no + 1] = pushes
      /\ \A n \in 1..latest.no : published'[n] = published[n]
  BY <1>0, <1>2, <1>3
<1>. HIDE DEF v
<1>8. Counts'
  <2>1. \A s \in SlotNos : prod'.seqs[s] = slot[s].seq
    <3>. SUFFICES ASSUME NEW s \in SlotNos PROVE prod'.seqs[s] = slot[s].seq
      OBVIOUS
    <3>1. prod.seqs \in [SlotNos -> Nat]
      BY <1>0 DEF Producer
    <3>2. CASE s = Spare
      BY <1>4, <1>5, <3>1, <3>2
    <3>3. CASE s # Spare
      <4>1. slot[s].seq = prod.seqs[s]
        BY <1>0, <1>1, <3>3 DEF FileInv, Counts
      <4>. QED  BY <1>5, <3>1, <3>3, <4>1
    <3>. QED  BY <3>2, <3>3
  <2>2. latest'.no = latest.no + 1 /\ latest'.at = Spare
    BY <1>3
  <2>3. latest.no + 1 <= pushes /\ latest.no + 1 # 0
    BY <1>0, <1>2
  <2>. QED  BY <1>0, <1>5, <1>6, <1>7, <2>1, <2>2, <2>3 DEF FileInv, Counts
<1>9. Stored'
  BY <1>5 DEF Stored
<1>10. /\ slot[Spare].w["frame_no"] = latest.no + 1
       /\ \A w \in Words : slot[Spare].w[w] = pushes
  BY <1>0, <1>1, <1>2 DEF FileInv, Stored
<1>11. SlotsWhole'
  <2>1. ASSUME NEW s \in SlotNos
        PROVE  /\ ~Odd(slot[s].seq)
               /\ slot[s].w["frame_no"] \in Nat
               /\ ~(slot[s].w["frame_no"] > latest.no + 1)
               /\ slot[s].w["frame_no"] \in 1..(latest.no + 1) =>
                    \A w \in Words : slot[s].w[w] = published'[slot[s].w["frame_no"]]
    <3>1. CASE s = Spare
      BY <1>0, <1>4, <1>7, <1>10, <3>1
    <3>2. CASE s # Spare
      <4>1. /\ ~Odd(slot[s].seq) /\ ~(slot[s].w["frame_no"] > latest.no)
            /\ slot[s].w["frame_no"] \in 1..latest.no =>
                 \A w \in Words : slot[s].w[w] = published[slot[s].w["frame_no"]]
        BY <3>2 DEF FileInv, SlotsWhole
      <4>. QED  BY <1>0, <1>7, <4>1, SMTT(30)
    <3>. QED  BY <3>1, <3>2
  <2>. QED  BY <1>0, <1>3, <1>10, <2>1 DEF SlotsWhole
<1>. QED  BY <1>8, <1>9, <1>11 DEF FileInv

(* Every step keeps the file consistent.                                   *)
LEMMA FileStep == TypeOK /\ FileInv /\ [Next]_vars => FileInv'
<1>. SUFFICES ASSUME TypeOK, FileInv, [Next]_vars PROVE FileInv'
  OBVIOUS
<1>1. CASE UNCHANGED vars \/ ConsumerStep
  <2>1. UNCHANGED <<slot, latest, prod, pushes, published>>
    BY <1>1, ConsumerLeaves DEF vars
  <2>. QED  BY <2>1 DEF FileInv, Counts, Stored, SlotsWhole, Spare
<1>2. CASE ProducerStep
  BY <1>2, QuietFile, BeginFile, StoreFile, SealFile, PublishFile DEF ProducerStep
<1>. QED  BY <1>1, <1>2 DEF Next, ConsumerStep

(* For every number of slots, words, producers and frames: the slot that   *)
(* H_LATEST names is even and holds one whole frame, the one published     *)
(* last, whatever producers were killed between any two of their stores.   *)
THEOREM NewestWhole == Spec => []PublishedWhole
<1>1. Init => TypeOK /\ Trying /\ FileInv
  BY TypeInit, FileInit DEF Init, Trying
<1>2. TypeOK /\ Trying /\ FileInv /\ [Next]_vars => (TypeOK /\ Trying /\ FileInv)'
  BY TypeStep, FileStep
<1>3. ASSUME TypeOK, FileInv
      PROVE  PublishedWhole
  <2>1. latest.no \in Nat /\ latest.at \in SlotNos
    BY <1>3 DEF TypeOK
  <2>2. ASSUME latest.no # 0
        PROVE  ~Odd(slot[latest.at].seq) /\ slot[latest.at].w["frame_no"] \in 1..latest.no
    BY <1>3, <2>1, <2>2, SpareFacts DEF FileInv, SlotsWhole
  <2>. QED  BY <1>3, <2>1, <2>2 DEF PublishedWhole, FileInv, SlotsWhole, Counts
<1>. QED  BY <1>1, <1>2, <1>3, PTL DEF Spec

-----------------------------------------------------------------------------
(***************************************************************************)
(* The copy: what the consumer holds while producers go on writing.        *)
(***************************************************************************)

\* A producer's step leaves the consumer alone.
LEMMA ProducerLeaves ==
    ASSUME ProducerStep
    PROVE  UNCHANGED <<cons, handed>>
  BY DEF ProducerStep, attach, start, PushBegin, PushStore, PushSeal, PushPublish, end, Close

\* What a producer's step does to one slot and to H_LATEST: the sequence word
\* never goes back, and while it stays at an even value so do the words.
LEMMA ProducerMoves ==
    ASSUME TypeOK, FileInv, ProducerStep
    PROVE  /\ \A s \in SlotNos :
                /\ slot'[s].seq >= slot[s].seq
                /\ slot'[s].seq = slot[s].seq /\ ~Odd(slot[s].seq) => slot'[s].w = slot[s].w
           /\ \/ latest' = latest
              \/ latest'.no = latest.no + 1
           /\ \/ published' = published
              \/ published' = Append(published, pushes)
<1>. USE Sizes
<1>0. /\ prod \in Producer /\ slot \in [SlotNos -> [seq: Nat, w: [AllWords -> Nat]]]
  BY DEF TypeOK
<1>1. CASE attach \/ start \/ end \/ Close
  BY <1>0, <1>1 DEF attach, start, end, Close
<1>2. CASE PushBegin
  <2>1. next_slot \in SlotNos
    BY <1>0, NextSlot DEF next_slot, Producer, None
  <2>2. /\ slot[next_slot].seq \in Nat /\ prod.seqs[next_slot] = slot[next_slot].seq
        /\ sane_seq(prod.seqs[next_slot]) = prod.seqs[next_slot]
    BY <1>0, <1>2, <2>1, SaneFacts DEF PushBegin, FileInv, Counts
  <2>3. slot' = [slot EXCEPT ![next_slot].seq = OrOne(slot[next_slot].seq)]
    BY <1>2, <2>2 DEF PushBegin
  <2>4. /\ OrOne(slot[next_slot].seq) \in Nat
        /\ slot[next_slot].seq <= OrOne(slot[next_slot].seq)
    BY <2>2, Parity
  <2>5. \A s \in SlotNos : slot'[s].seq >= slot[s].seq /\ slot'[s].w = slot[s].w
    BY <1>0, <2>1, <2>3, <2>4
  <2>. QED  BY <1>2, <2>5 DEF PushBegin
<1>3. ASSUME NEW w \in AllWords, PushStore(w)
      PROVE  /\ \A s \in SlotNos :
                  /\ slot'[s].seq >= slot[s].seq
                  /\ slot'[s].seq = slot[s].seq /\ ~Odd(slot[s].seq) => slot'[s].w = slot[s].w
             /\ latest' = latest /\ published' = published
  <2>1. Odd(slot[prod.at].seq)
    BY <1>3, StoreFile
  <2>2. \A s \in SlotNos : slot'[s].seq = slot[s].seq /\ (s # prod.at => slot'[s].w = slot[s].w)
    BY <1>0, <1>3 DEF PushStore
  <2>3. \A s \in SlotNos : slot[s].seq \in Nat
    BY <1>0
  <2>. QED  BY <1>3, <2>1, <2>2, <2>3 DEF PushStore
<1>4. CASE PushSeal
  <2>1. prod.at \in SlotNos /\ slot[prod.at].seq = OrOne(prod.seqs[prod.at])
        /\ sane_seq(prod.seqs[prod.at]) = prod.seqs[prod.at]
    BY <1>0, <1>4, SaneFacts DEF PushSeal, FileInv, Counts, Producer
  <2>2. slot' = [slot EXCEPT ![prod.at].seq = slot[prod.at].seq + 1]
    BY <1>4, <2>1 DEF PushSeal
  <2>3. slot[prod.at].seq \in Nat
    BY <1>0, <2>1
  <2>4. \A s \in SlotNos : slot'[s].seq >= slot[s].seq /\ slot'[s].w = slot[s].w
    BY <1>0, <2>1, <2>2, <2>3
  <2>. QED  BY <1>4, <2>4 DEF PushSeal
<1>5. CASE PushPublish
  <2>1. latest'.no = latest.no + 1
    BY <1>5 DEF PushPublish, FileInv, Counts
  <2>2. \A s \in SlotNos : slot[s].seq \in Nat
    BY <1>0
  <2>. QED  BY <1>5, <2>1, <2>2 DEF PushPublish
<1>. QED  BY <1>1, <1>2, <1>3, <1>4, <1>5 DEF ProducerStep

\* A copy whose slot did not move is the frame published under its number.
LEMMA CopyWhole ==
    ASSUME TypeOK, FileInv, Copying, Copied, Unmoved
    PROVE  /\ cons.latest.no \in DOMAIN published
           /\ cons.got["frame_no"] = cons.latest.no
           /\ \A w \in Words : cons.got[w] = published[cons.latest.no]
<1>. USE Sizes
<1>0. /\ cons \in Consumer /\ latest.no \in Nat /\ published \in Seq(Nat)
      /\ cons.latest.at \in SlotNos
  BY DEF TypeOK, Consumer
<1>1. \A w \in AllWords : cons.got[w] = WordsNow[w]
  BY DEF Copying, Copied
<1>2. ~Odd(SeqNow)
  BY DEF Copying, Copied, Unmoved
<1>3. WordsNow["frame_no"] = cons.latest.no /\ cons.latest.no \in 1..latest.no
  BY <1>1 DEF Copied, Copying
<1>4. \A w \in Words : WordsNow[w] = published[cons.latest.no]
  BY <1>0, <1>2, <1>3 DEF FileInv, SlotsWhole, SeqNow, WordsNow
<1>5. latest.no = Len(published)
  BY DEF FileInv, Counts
<1>. QED  BY <1>0, <1>1, <1>3, <1>4, <1>5

(* The steps of the producer spoil no copy that will be taken for whole.   *)
LEMMA ProducerCopy ==
    ASSUME TypeOK, FileInv, CopyInv, ProducerStep
    PROVE  CopyInv'
<1>. USE Sizes
<1>0. /\ cons' = cons /\ handed' = handed
      /\ latest \in [no: Nat, at: SlotNos] /\ published \in Seq(Nat) /\ pushes \in Nat
      /\ slot \in [SlotNos -> [seq: Nat, w: [AllWords -> Nat]]]
  BY ProducerLeaves DEF TypeOK
<1>4. /\ cons.latest.at \in SlotNos
      /\ cons.s1 \in Nat /\ cons.last_frame \in Nat /\ cons.latest.no \in Nat
  BY DEF TypeOK, Consumer
<1>5. slot' \in [SlotNos -> [seq: Nat, w: [AllWords -> Nat]]]
  BY ProducerTypes DEF TypeOK
<1>1. latest'.no \in {latest.no, latest.no + 1} /\ latest.no \in Nat
  BY <1>0, ProducerMoves
<1>2. Copying'
  <2>1. cons.last_frame <= latest'.no
    BY <1>1, <1>4 DEF CopyInv, Copying
  <2>2. ASSUME cons.pc \in {"seq", "copy"}
        PROVE  cons.latest.no \in 1..latest'.no /\ cons.last_frame <= cons.latest.no
    <3>1. cons.latest.no \in 1..latest.no /\ cons.last_frame <= cons.latest.no
      BY <2>2 DEF CopyInv, Copying
    <3>. QED  BY <1>1, <1>4, <3>1
  <2>3. ASSUME cons.pc = "copy"
        PROVE  /\ cons.s1 <= SeqNow'
               /\ SeqNow' = cons.s1 => \A w \in AllWords : cons.got[w] \in {None, WordsNow'[w]}
    <3>1. ~Odd(cons.s1) /\ cons.s1 <= SeqNow
          /\ (SeqNow = cons.s1 => \A w \in AllWords : cons.got[w] \in {None, WordsNow[w]})
      BY <2>3 DEF CopyInv, Copying, Unmoved
    <3>2. /\ SeqNow' >= SeqNow /\ SeqNow \in Nat /\ SeqNow' \in Nat
          /\ SeqNow' = SeqNow /\ ~Odd(SeqNow) => WordsNow' = WordsNow
      BY <1>0, <1>4, <1>5, ProducerMoves DEF SeqNow, WordsNow
    <3>. QED  BY <1>4, <3>1, <3>2
  <2>. QED  BY <1>0, <2>1, <2>2, <2>3 DEF CopyInv, Copying, Unmoved
<1>3. NeverTorn'
  <2>1. ASSUME NEW n \in DOMAIN published
        PROVE  n \in DOMAIN published' /\ published'[n] = published[n]
    <3>1. CASE published' = published
      BY <3>1
    <3>2. CASE published' = Append(published, pushes)
      <4>1. n \in 1..Len(published) /\ Len(published) \in Nat
        BY <1>0
      <4>. QED  BY <1>0, <3>2, <4>1
    <3>. QED  BY <3>1, <3>2, ProducerMoves
  <2>. QED  BY <1>0, <2>1 DEF CopyInv, NeverTorn
<1>. QED  BY <1>2, <1>3 DEF CopyInv

(* The steps of the consumer keep the copy what its sequence number says.  *)
LEMMA ConsumerCopy ==
    ASSUME TypeOK, FileInv, CopyInv, ConsumerStep
    PROVE  CopyInv'
<1>. USE Sizes DEF file, history
<1>0. /\ cons \in Consumer /\ latest \in [no: Nat, at: SlotNos] /\ published \in Seq(Nat)
      /\ cons.latest.at \in SlotNos
      /\ slot \in [SlotNos -> [seq: Nat, w: [AllWords -> Nat]]]
      /\ cons.s1 \in Nat /\ cons.last_frame \in Nat /\ cons.latest.no \in Nat
  BY DEF TypeOK, Consumer
<1>1. UNCHANGED <<slot, latest, published>>
  BY ConsumerLeaves
<1>2. ASSUME cons'.pc \notin {"seq", "copy"}, cons'.last_frame = cons.last_frame,
             cons'.rejected = cons.rejected, cons'.got = NoCopy, handed' = handed
      PROVE  CopyInv'
  BY <1>1, <1>2 DEF CopyInv, Copying, NeverTorn
<1>3. /\ Idle(cons).pc = "idle" /\ Idle(cons).got = NoCopy
      /\ Idle(cons).last_frame = cons.last_frame /\ Idle(cons).rejected = cons.rejected
  BY <1>0 DEF Idle, Consumer
<1>4. ASSUME Torn, handed' = handed
      PROVE  CopyInv'
  <2>1. /\ cons'.pc = "latest" /\ cons'.got = NoCopy
        /\ cons'.last_frame = cons.last_frame /\ cons'.rejected = cons.rejected
    BY <1>0, <1>4 DEF Torn, Idle, Consumer
  <2>. QED  BY <1>2, <1>4, <2>1
<1>5. CASE ReadStep
  <2>1. CASE ReadNone
    BY <1>2, <1>3, <2>1 DEF ReadNone
  <2>2. CASE ReadLatest
    <3>1. /\ cons'.pc = "seq" /\ cons'.latest = latest /\ cons'.last_frame = cons.last_frame
          /\ cons'.rejected = cons.rejected /\ cons'.got = cons.got
      BY <1>0, <2>2 DEF ReadLatest, Consumer
    <3>2. latest.no # 0 /\ cons.pc = "latest" /\ handed' = handed
      BY <2>2 DEF ReadLatest
    <3>. QED  BY <1>0, <1>1, <3>1, <3>2 DEF CopyInv, Copying, NeverTorn
  <2>3. CASE CopyBegin
    <3>1. CASE Odd(SeqNow)
      BY <1>4, <2>3, <3>1 DEF CopyBegin
    <3>2. CASE ~Odd(SeqNow)
      <4>1. cons.pc = "seq" /\ cons' = [cons EXCEPT !.pc = "copy", !.s1 = SeqNow] /\ handed' = handed
        BY <2>3, <3>2 DEF CopyBegin
      <4>2. /\ cons'.pc = "copy" /\ cons'.s1 = SeqNow /\ cons'.latest = cons.latest
            /\ cons'.last_frame = cons.last_frame /\ cons'.rejected = cons.rejected
            /\ cons'.got = cons.got
        BY <1>0, <4>1 DEF Consumer
      <4>3. SeqNow' = SeqNow /\ SeqNow \in Nat
        BY <1>0, <1>1, <4>2 DEF SeqNow
      <4>4. \A w \in AllWords : cons'.got[w] = None
        BY <4>1, <4>2 DEF CopyInv, Copying, NoCopy
      <4>5. Copying'
        BY <1>1, <3>2, <4>1, <4>2, <4>3, <4>4 DEF CopyInv, Copying
      <4>6. NeverTorn'
        BY <1>1, <4>1, <4>2 DEF CopyInv, NeverTorn
      <4>. QED  BY <4>5, <4>6 DEF CopyInv
    <3>. QED  BY <3>1, <3>2
  <2>4. ASSUME NEW w \in AllWords, CopyWord(w)
        PROVE  CopyInv'
    <3>1. cons.pc = "copy" /\ cons' = [cons EXCEPT !.got[w] = WordsNow[w]] /\ handed' = handed
      BY <2>4 DEF CopyWord
    <3>2. /\ cons'.pc = "copy" /\ cons'.s1 = cons.s1 /\ cons'.latest = cons.latest
          /\ cons'.last_frame = cons.last_frame /\ cons'.rejected = cons.rejected
          /\ \A v \in AllWords : cons'.got[v] = IF v = w THEN WordsNow[w] ELSE cons.got[v]
      BY <1>0, <3>1 DEF Consumer
    <3>3. SeqNow' = SeqNow /\ WordsNow' = WordsNow
      BY <1>0, <1>1, <3>2 DEF SeqNow, WordsNow
    <3>4. Copying'
      BY <1>1, <3>1, <3>2, <3>3 DEF CopyInv, Copying, Unmoved
    <3>5. NeverTorn'
      BY <1>1, <3>1, <3>2 DEF CopyInv, NeverTorn
    <3>. QED  BY <3>4, <3>5 DEF CopyInv
  <2>5. CASE CopyStale
    BY <1>4, <2>5 DEF CopyStale
  <2>6. CASE CopyInvalid
    <3>1. Copied /\ Mixed /\ handed' = handed
      BY <2>6 DEF CopyInvalid
    <3>2. ~Unmoved
      <4>. SUFFICES ASSUME Unmoved PROVE FALSE
        OBVIOUS
      <4>1. \A w \in Words : cons.got[w] = published[cons.latest.no]
        BY <3>1, CopyWhole DEF CopyInv
      <4>. QED  BY <3>1, <4>1 DEF Mixed
    <3>. QED  BY <1>4, <2>6, <3>1, <3>2 DEF CopyInvalid
  <2>7. CASE CopyEnd
    <3>1. CASE ~Unmoved
      BY <1>4, <2>7, <3>1 DEF CopyEnd
    <3>2. CASE Unmoved
      <4>1. /\ Copied /\ cons' = [Idle(cons) EXCEPT !.last_frame = cons.latest.no]
            /\ handed' = [no |-> cons.latest.no, w |-> cons.got]
        BY <2>7, <3>2 DEF CopyEnd
      <4>2. /\ cons'.pc = "idle" /\ cons'.got = NoCopy /\ cons'.last_frame = cons.latest.no
            /\ cons'.rejected = cons.rejected
        BY <1>0, <4>1 DEF Idle, Consumer
      <4>3. Copying'
        <5>1. cons.latest.no \in 1..latest.no /\ latest.no \in Nat
          BY <1>0, <4>1 DEF CopyInv, Copying, Copied
        <5>. QED  BY <1>0, <1>1, <4>2, <5>1 DEF Copying
      <4>4. NeverTorn'
        BY <1>1, <3>2, <4>1, <4>2, CopyWhole DEF CopyInv, NeverTorn
      <4>. QED  BY <4>3, <4>4 DEF CopyInv
    <3>. QED  BY <3>1, <3>2
  <2>. QED  BY <1>5, <2>1, <2>2, <2>3, <2>4, <2>5, <2>6, <2>7 DEF ReadStep
<1>6. CASE \/ \E again \in BOOLEAN : ReadBegin(again)
           \/ Probe \/ ProbeStep \/ drop
  <2>1. /\ cons.pc \notin {"seq", "copy"} /\ cons'.pc \notin {"seq", "copy"} /\ cons'.got = cons.got
        /\ cons'.last_frame = cons.last_frame /\ cons'.rejected = cons.rejected /\ handed' = handed
    <3>1. CASE \E again \in BOOLEAN : ReadBegin(again)
      BY <1>0, <3>1 DEF ReadBegin, Consumer
    <3>2. CASE Probe \/ drop
      BY <1>0, <3>2, ZenonT(40) DEF Probe, drop, Consumer
    <3>3. CASE ProbeStep
      BY <1>0, <3>3, ZenonT(40) DEF ProbeStep, ProbeLock, ProbeUnlock, ProbeReread, ProbeFinal, Answer, Consumer
    <3>. QED  BY <1>6, <3>1, <3>2, <3>3
  <2>. QED  BY <1>2, <2>1 DEF CopyInv, Copying
<1>7. CASE (\E on \in BOOLEAN : set_wanted(on)) \/ touch \/ BeatAges
  <2>1. cons' = cons /\ handed' = handed
    BY <1>7 DEF set_wanted, touch, BeatAges
  <2>. QED  BY <1>1, <2>1 DEF CopyInv, Copying, NeverTorn, Unmoved, SeqNow, WordsNow
<1>. QED  BY <1>5, <1>6, <1>7 DEF ConsumerStep

(* Every step keeps the copies whole.                                      *)
LEMMA CopyStep == TypeOK /\ FileInv /\ CopyInv /\ [Next]_vars => CopyInv'
<1>. SUFFICES ASSUME TypeOK, FileInv, CopyInv, [Next]_vars PROVE CopyInv'
  OBVIOUS
<1>1. CASE UNCHANGED vars
  BY <1>1 DEF vars, CopyInv, Copying, NeverTorn, Unmoved, SeqNow, WordsNow
<1>2. CASE ProducerStep
  BY <1>2, ProducerCopy
<1>3. CASE ConsumerStep
  BY <1>3, ConsumerCopy
<1>. QED  BY <1>1, <1>2, <1>3 DEF Next, ConsumerStep

(* Nothing has been copied.                                                *)
LEMMA CopyInit == Init => CopyInv
<1>. SUFFICES ASSUME Init PROVE CopyInv
  OBVIOUS
<1>1. Copying
  BY DEF Init, Copying
<1>2. NeverTorn
  BY DEF Init, NeverTorn
<1>. QED  BY <1>1, <1>2 DEF CopyInv

(* For every number of slots, words, tries, producers and frames: a frame  *)
(* handed to the app is one whole published frame, and a frame caught in   *)
(* the middle of a rewrite is never refused as a bad one.                  *)
THEOREM FramesWhole == Spec => []NeverTorn
<1>1. Init => TypeOK /\ Trying /\ FileInv /\ CopyInv
  BY TypeInit, FileInit, CopyInit DEF Init, Trying
<1>2. TypeOK /\ Trying /\ FileInv /\ CopyInv /\ [Next]_vars
        => (TypeOK /\ Trying /\ FileInv /\ CopyInv)'
  BY TypeStep, FileStep, CopyStep
<1>3. CopyInv => NeverTorn
  BY DEF CopyInv
<1>. QED  BY <1>1, <1>2, <1>3, PTL DEF Spec

(* For every instance: frame numbers only count up, in the file and at the *)
(* consumer, also from one producer to the next.                           *)
THEOREM NumbersOnlyGrow == Spec => NumbersGrow
<1>1. Init => TypeOK /\ Trying /\ FileInv /\ CopyInv
  BY TypeInit, FileInit, CopyInit DEF Init, Trying
<1>2. TypeOK /\ Trying /\ FileInv /\ CopyInv /\ [Next]_vars
        => (TypeOK /\ Trying /\ FileInv /\ CopyInv)'
  BY TypeStep, FileStep, CopyStep
<1>3. ASSUME TypeOK, FileInv, CopyInv, [Next]_vars
      PROVE  /\ latest' # latest => latest'.no > latest.no
             /\ cons'.last_frame >= cons.last_frame
  <2>1. /\ cons \in Consumer /\ latest.no \in Nat /\ cons.last_frame \in Nat
        /\ cons.latest.no \in Nat
    BY <1>3 DEF TypeOK, Consumer
  <2>2. CASE UNCHANGED vars
    BY <2>1, <2>2 DEF vars
  <2>3. CASE ProducerStep
    BY <1>3, <2>1, <2>3, ProducerLeaves, ProducerMoves
  <2>4. CASE ConsumerStep
    <3>1. latest' = latest
      BY <2>4, ConsumerLeaves
    <3>2. CASE CopyEnd /\ Unmoved
      <4>1. cons'.last_frame = cons.latest.no
        BY <2>1, <3>2 DEF CopyEnd, Idle, Consumer
      <4>. QED  BY <1>3, <2>1, <3>1, <3>2, <4>1 DEF CopyInv, Copying, CopyEnd, Copied
    <3>3. CASE ReadStep /\ ~(CopyEnd /\ Unmoved)
      <4>1. cons'.last_frame = cons.last_frame
        BY <2>1, <3>3 DEF ReadStep, ReadNone, ReadLatest, CopyBegin, CopyStale, CopyInvalid, CopyEnd,
                          CopyWord, Torn, Idle, Consumer
      <4>. QED  BY <2>1, <3>1, <4>1
    <3>4. CASE ~ReadStep
      <4>1. cons'.last_frame = cons.last_frame
        BY <2>1, <2>4, <3>4 DEF ConsumerStep, ReadBegin, Probe, ProbeStep, ProbeLock, ProbeUnlock,
                     ProbeReread, ProbeFinal, Answer, set_wanted, touch, drop, BeatAges, Consumer
      <4>. QED  BY <2>1, <3>1, <4>1
    <3>. QED  BY <3>2, <3>3, <3>4 DEF ReadStep
  <2>. QED  BY <1>3, <2>2, <2>3, <2>4 DEF Next, ConsumerStep
<1>. QED  BY <1>1, <1>2, <1>3, PTL DEF Spec, NumbersGrow

-----------------------------------------------------------------------------
(***************************************************************************)
(* The probe: producer().                                                  *)
(***************************************************************************)
LEMMA ProbeInit == Init => ProbeInv
  BY DEF Init, ProbeInv, Owners, Probing, ProbeSteady, NoProducer

\* The producer's steps: a fact the probe relies on goes from `watch` in the
\* step that ends it.
LEMMA ProducerProbe ==
    ASSUME TypeOK, ProbeInv, ProducerStep
    PROVE  ProbeInv'
<1>0. prod \in Producer /\ cons' = cons /\ watch' = watch \cap Now'
      /\ watch \subseteq {"alive", "empty"}
  BY ProducerLeaves
     DEF TypeOK, ProducerStep, attach, start, PushBegin, PushStore, PushSeal, PushPublish, end, Close,
         Watching
<1>1. /\ "alive" \in watch' => "alive" \in watch /\ prod'.pc # "none" /\ prod'.started
      /\ "empty" \in watch' => "empty" \in watch /\ prod'.pc = "none"
  BY <1>0 DEF Now
<1>2. Owners' /\ (state' # state => prod'.pc # "none")
  <2>1. CASE attach
    <3>1. prod'.pc = "idle" /\ ~prod'.started /\ lock = "free" /\ lock' = "producer" /\ state' = state
      BY <2>1 DEF attach, NoProducer
    <3>. QED  BY <1>0, <3>1 DEF ProbeInv, Owners
  <2>2. CASE start \/ end
    <3>1. /\ prod.pc # "none" /\ prod'.pc # "none" /\ lock' = lock
          /\ prod'.started => state' = "running"
      BY <1>0, <2>2 DEF start, end, Producer
    <3>. QED  BY <1>0, <3>1 DEF ProbeInv, Owners
  <2>3. CASE PushBegin \/ (\E w \in AllWords : PushStore(w)) \/ PushSeal \/ PushPublish
    <3>1. /\ prod.pc # "none" /\ prod'.pc # "none" /\ lock' = lock /\ state' = state
          /\ prod'.started = prod.started
      BY <1>0, <2>3 DEF PushBegin, PushStore, PushSeal, PushPublish, Producer
    <3>. QED  BY <1>0, <3>1 DEF ProbeInv, Owners
  <2>4. CASE Close
    <3>1. /\ prod.pc # "none" /\ prod'.pc = "none" /\ ~prod'.started /\ lock' = "free" /\ state' = state
      BY <2>4 DEF Close, NoProducer
    <3>. QED  BY <1>0, <3>1 DEF ProbeInv, Owners
  <2>. QED  BY <2>1, <2>2, <2>3, <2>4 DEF ProducerStep
<1>3. Probing'
  BY <1>0, <1>1, <1>2 DEF ProbeInv, Probing
<1>4. ProbeSteady'
  BY <1>0, <1>1 DEF ProbeInv, ProbeSteady
<1>. QED  BY <1>2, <1>3, <1>4 DEF ProbeInv

\* The consumer's own steps.
LEMMA ConsumerProbe ==
    ASSUME TypeOK, ProbeInv, ConsumerStep
    PROVE  ProbeInv'
<1>. USE DEF file, history
<1>0. cons \in Consumer /\ prod' = prod /\ state' = state
  BY ConsumerLeaves DEF TypeOK
<1>1. Now' = Now
  BY <1>0 DEF Now
<1>2. ASSUME "alive" \in watch
      PROVE  lock = "producer" /\ state = "running"
  BY <1>2 DEF ProbeInv, Probing, Now, Owners
<1>3. ASSUME "empty" \in watch
      PROVE  lock # "producer"
  BY <1>3 DEF ProbeInv, Probing, Now, Owners
<1>4. ASSUME cons.pc \notin {"lock", "unlock", "reread", "final"},
             cons'.pc \notin {"unlock", "reread", "final"},
             cons'.answer \in {"none", cons.answer}, UNCHANGED <<lock, watch>>
      PROVE  ProbeInv'
  BY <1>0, <1>1, <1>4 DEF ProbeInv, Owners, Probing, ProbeSteady
<1>5. CASE \E again \in BOOLEAN : ReadBegin(again)
  BY <1>0, <1>4, <1>5 DEF ReadBegin, Consumer
<1>6. CASE ReadStep
  <2>1. /\ cons.pc \in {"latest", "seq", "copy"} /\ cons'.pc \in {"idle", "latest", "seq", "copy"}
        /\ cons'.answer = cons.answer /\ UNCHANGED <<lock, watch>>
    <3>1. CASE ReadNone \/ ReadLatest \/ (\E w \in AllWords : CopyWord(w))
      BY <1>0, <3>1 DEF ReadNone, ReadLatest, CopyWord, Idle, Consumer
    <3>2. CASE CopyBegin \/ CopyStale
      BY <1>0, <3>2 DEF CopyBegin, CopyStale, Torn, Idle, Consumer
    <3>3. CASE CopyInvalid \/ CopyEnd
      BY <1>0, <3>3, ZenonT(40) DEF CopyInvalid, CopyEnd, Copied, Torn, Idle, Consumer
    <3>. QED  BY <1>6, <3>1, <3>2, <3>3 DEF ReadStep
  <2>. QED  BY <1>4, <2>1
<1>7. CASE Probe
  <2>1. /\ cons.pc = "idle" /\ cons'.answer = "none" /\ watch' = Now /\ lock' = lock
        /\ cons'.pc = IF state = "running" THEN "lock" ELSE "final"
    BY <1>0, <1>7 DEF Probe, Consumer
  <2>. QED  BY <1>0, <1>1, <2>1 DEF ProbeInv, Owners, Probing, ProbeSteady
<1>8. CASE ProbeLock
  <2>1. cons.pc = "lock" /\ watch' = watch
    BY <1>8 DEF ProbeLock
  <2>2. CASE lock = "producer"
    <3>1. lock' = lock /\ cons'.pc = "idle" /\ cons'.answer = "running"
      BY <1>0, <1>8, <2>2 DEF ProbeLock, Answer, Consumer
    <3>. QED  BY <1>0, <1>1, <1>3, <2>1, <2>2, <3>1 DEF ProbeInv, Owners, Probing, ProbeSteady
  <2>3. CASE lock # "producer"
    <3>1. lock' = "consumer" /\ cons'.pc = "unlock" /\ cons'.answer = cons.answer
      BY <1>0, <1>8, <2>3 DEF ProbeLock, Consumer
    <3>. QED  BY <1>0, <1>1, <1>2, <2>1, <2>3, <3>1 DEF ProbeInv, Owners, Probing, ProbeSteady
  <2>. QED  BY <2>2, <2>3
<1>9. CASE ProbeUnlock
  <2>1. /\ cons.pc = "unlock" /\ watch' = watch /\ lock' = "free" /\ cons'.pc = "reread"
        /\ cons'.answer = cons.answer
    BY <1>0, <1>9 DEF ProbeUnlock, Consumer
  <2>. QED  BY <1>0, <1>1, <2>1 DEF ProbeInv, Owners, Probing, ProbeSteady
<1>10. CASE ProbeReread \/ ProbeFinal
  <2>1. /\ cons.pc \in {"reread", "final"} /\ watch' = watch /\ lock' = lock
        /\ \/ cons.pc = "reread" /\ cons'.pc = "idle" /\ cons'.answer = "gone"
           \/ /\ cons.pc = "reread" /\ state # "running"
              /\ cons'.pc = "final" /\ cons'.answer = cons.answer
           \/ cons.pc = "final" /\ cons'.pc = "idle" /\ cons'.answer = state
    BY <1>0, <1>10 DEF ProbeReread, ProbeFinal, Answer, Consumer
  <2>. QED  BY <1>0, <1>1, <1>2, <2>1 DEF ProbeInv, Owners, Probing, ProbeSteady
<1>11. CASE (\E on \in BOOLEAN : set_wanted(on)) \/ touch \/ BeatAges
  <2>1. cons' = cons /\ UNCHANGED <<lock, watch>>
    BY <1>11 DEF set_wanted, touch, BeatAges
  <2>. QED  BY <1>0, <1>1, <2>1 DEF ProbeInv, Owners, Probing, ProbeSteady
<1>12. CASE drop
  BY <1>0, <1>4, <1>12 DEF drop, Consumer
<1>. QED
  BY <1>5, <1>6, <1>7, <1>8, <1>9, <1>10, <1>11, <1>12 DEF ConsumerStep, ProbeStep

(* For every instance: producer() answers running while a started producer *)
(* stays attached, and never when none was attached during the call.       *)
THEOREM ProbeTruthful == Spec => []ProbeSteady
<1>1. Init => TypeOK /\ Trying /\ ProbeInv
  BY TypeInit, ProbeInit DEF Init, Trying
<1>2. TypeOK /\ ProbeInv /\ [Next]_vars => ProbeInv'
  <2>. SUFFICES ASSUME TypeOK, ProbeInv, [Next]_vars PROVE ProbeInv'
    OBVIOUS
  <2>1. CASE UNCHANGED vars
    BY <2>1 DEF vars, ProbeInv, Owners, Probing, ProbeSteady, Now
  <2>. QED  BY <2>1, ProducerProbe, ConsumerProbe DEF Next, ConsumerStep
<1>3. ProbeInv => ProbeSteady
  BY DEF ProbeInv
<1>. QED  BY <1>1, <1>2, <1>3, TypeStep, PTL DEF Spec
=============================================================================
