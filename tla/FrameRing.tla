----------------------------- MODULE FrameRing ------------------------------
(***************************************************************************)
(* kessel-frame-ring: video frames handed from one process to another      *)
(* through a shared-memory file (crates/kessel-frame-ring/src/producer.rs  *)
(* and consumer.rs).                                                       *)
(*                                                                         *)
(* The producer writes each frame into the slot after the newest, under    *)
(* that slot's sequence word, and then publishes it in H_LATEST; it never  *)
(* waits.  The consumer copies the slot H_LATEST names and keeps the copy  *)
(* only if the sequence word did not move.  A producer can be killed       *)
(* between any two stores (the kernel then drops its lock) and another one *)
(* attaches and goes on from what the file holds.                          *)
(*                                                                         *)
(* Every store and load of the shared file that the other side can tell    *)
(* apart is a step.  Between the two fences of a push, and of a copy, the  *)
(* words are stored, and loaded, in any order.  A frame is the number of   *)
(* the push that wrote it: the words of a slot other than its frame number *)
(* hold that number, so a copy is mixed when two of its words differ.      *)
(***************************************************************************)
EXTENDS Integers, Sequences

CONSTANTS
    Slots,          \* Layout.slots
    Words,          \* the words of a slot besides SL_SEQ and SL_FRAME_NO
    READ_TRIES,
    MAX_FRAME_NO,
    MAX_SEQ,
    MaxPushes,      \* bound: frames begun by all producers
    MaxAttaches     \* bound: producers that attach

ASSUME FrameRingAssumption ==
    /\ Slots \in Nat /\ Slots >= 2
    /\ Words # {} /\ "frame_no" \notin Words
    /\ {READ_TRIES, MAX_FRAME_NO, MAX_SEQ, MaxPushes, MaxAttaches} \subseteq Nat
    /\ MaxPushes < MAX_FRAME_NO
    /\ 2 * MaxPushes <= MAX_SEQ

VARIABLES
    slot,       \* the slots: sequence word and contents
    latest,     \* H_LATEST: frame number and slot; number 0 is no frame
    state,      \* H_STATE
    flags,      \* H_FLAGS: what the consumer asks
    fresh,      \* H_BEAT is less than CONSUMER_STALE_NS old
    lock,       \* who holds the advisory lock on the file
    attaches,   \* H_ATTACHES
    prod,       \* the producer process
    cons,       \* the consumer
    pushes,     \* history: frames begun
    published,  \* history: the push published under each frame number
    handed,     \* history: the last frame handed out
    watch       \* history: what stayed true since producer() was called

file == <<slot, latest, state, flags, fresh, lock>>
history == <<pushes, published, handed, watch>>
vars == <<slot, latest, state, flags, fresh, lock, attaches, prod, cons,
          pushes, published, handed, watch>>

SlotNos == 0..(Slots - 1)
AllWords == Words \cup {"frame_no"}
None == -1

Producer ==
    [pc: {"none", "idle", "write", "publish", "closing"},
     seqs: [SlotNos -> Nat],           \* Producer.seqs
     newest: SlotNos \cup {None},      \* Producer.newest
     next_frame: Nat,
     started: BOOLEAN,                 \* start() was called
     at: SlotNos,                      \* the slot being written
     left: SUBSET AllWords]            \* words not stored yet

NoProducer ==
    [pc |-> "none", seqs |-> [s \in SlotNos |-> 0], newest |-> None, next_frame |-> 0,
     started |-> FALSE, at |-> 0, left |-> {}]

Consumer ==
    [pc: {"idle", "latest", "seq", "copy", "lock", "unlock", "reread", "final", "gone"},
     again: BOOLEAN,                   \* read_latest, not try_read
     tries: 0..READ_TRIES,
     latest: [no: Nat, at: SlotNos],   \* the H_LATEST word being followed
     s1: Nat,                          \* the slot's sequence word before the copy
     got: [AllWords -> Nat \cup {None}],
     last_frame: Nat,
     rejected: BOOLEAN,                \* a frame was refused as bad
     answer: {"none", "waiting", "running", "ended", "gone"}]

NoCopy == [w \in AllWords |-> None]

Init ==
    /\ slot = [s \in SlotNos |-> [seq |-> 0, w |-> [w \in AllWords |-> 0]]]
    /\ latest = [no |-> 0, at |-> 0]
    /\ state = "waiting"
    /\ flags = {"wants"}
    /\ fresh = TRUE
    /\ lock = "free"
    /\ attaches = 0
    /\ prod = NoProducer
    /\ cons = [pc |-> "idle", again |-> FALSE, tries |-> 0, latest |-> [no |-> 0, at |-> 0],
               s1 |-> 0, got |-> NoCopy, last_frame |-> 0, rejected |-> FALSE,
               answer |-> "none"]
    /\ pushes = 0
    /\ published = <<>>
    /\ handed = [no |-> 0, w |-> [w \in AllWords |-> 0]]
    /\ watch = {}

-----------------------------------------------------------------------------
(***************************************************************************)
(* The producer.                                                           *)
(***************************************************************************)
after(n) == IF n < MAX_FRAME_NO THEN n + 1 ELSE 1
sane_seq(v) == IF v > MAX_SEQ THEN 0 ELSE v
Odd(v) == v % 2 = 1
OrOne(v) == IF Odd(v) THEN v ELSE v + 1

\* The consumer is there, looked lately and wants frames.
wanted == "wants" \in flags /\ "gone" \notin flags /\ fresh

\* What the probing consumer could have relied on since it called.
Now == {x \in {"alive", "empty"} :
            IF x = "alive" THEN prod.pc # "none" /\ prod.started ELSE prod.pc = "none"}
Watching == watch' = watch \cap Now'

\* Mutant: a new producer counts from 0, not from what the last producer left.
CountsFoundZero == [s \in SlotNos |-> 0]
\* The sequence words a new producer starts from.
CountsFound == [s \in SlotNos |-> sane_seq(slot[s].seq)]

\* Mutant: each producer numbers its frames from 1.
FrameAfterLatestRestarts == 1
FrameAfterLatest == after(latest.no)

attach ==
    /\ prod.pc = "none" /\ lock = "free" /\ "gone" \notin flags
    /\ attaches < MaxAttaches
    /\ lock' = "producer"
    /\ attaches' = attaches + 1
    /\ prod' = [NoProducer EXCEPT !.pc = "idle",
                                  !.seqs = CountsFound,
                                  !.newest = IF latest.no # 0 THEN latest.at ELSE None,
                                  !.next_frame = FrameAfterLatest]
    /\ UNCHANGED <<slot, latest, state, flags, fresh, cons, pushes, published, handed>>
    /\ Watching

start ==
    /\ prod.pc = "idle" /\ ~prod.started
    /\ state' = "running"
    /\ prod' = [prod EXCEPT !.started = TRUE]
    /\ UNCHANGED <<slot, latest, flags, fresh, lock, attaches, cons, pushes, published, handed>>
    /\ Watching

\* Mutant: the newest slot is written again.
next_slotSame == IF prod.newest = None THEN 0 ELSE prod.newest
\* Mutant: the slot number runs past the layout.
next_slotOver == IF prod.newest = None THEN 0 ELSE prod.newest + 1
next_slot == IF prod.newest = None THEN 0 ELSE (prod.newest + 1) % Slots

\* push() of a frame that is wanted and not too soon: its slot turns odd.  (A
\* frame that is dropped changes only a counter.)
PushBegin ==
    /\ prod.pc = "idle"
    /\ wanted
    /\ pushes < MaxPushes
    /\ pushes' = pushes + 1
    /\ slot' = [slot EXCEPT ![next_slot].seq = OrOne(sane_seq(prod.seqs[next_slot]))]
    /\ prod' = [prod EXCEPT !.pc = "write", !.at = next_slot, !.left = AllWords]
    /\ UNCHANGED <<latest, state, flags, fresh, lock, attaches, cons, published, handed>>
    /\ Watching

PushStore(w) ==
    /\ prod.pc = "write" /\ w \in prod.left
    /\ slot' = [slot EXCEPT ![prod.at].w[w] =
                    IF w = "frame_no" THEN prod.next_frame ELSE pushes]
    /\ prod' = [prod EXCEPT !.left = @ \ {w}]
    /\ UNCHANGED <<latest, state, flags, fresh, lock, attaches, cons, pushes, published, handed>>
    /\ Watching

\* Mutant: nothing orders the even word after the frame's words.
PushSealEarly ==
    /\ prod.pc = "write"
    /\ slot' = [slot EXCEPT ![prod.at].seq = OrOne(sane_seq(prod.seqs[prod.at])) + 1]
    /\ prod' = [prod EXCEPT !.pc = "publish", !.left = {}]
    /\ UNCHANGED <<latest, state, flags, fresh, lock, attaches, cons, pushes, published, handed>>
    /\ Watching

\* The slot turns even ...
PushSeal ==
    /\ prod.pc = "write" /\ prod.left = {}
    /\ slot' = [slot EXCEPT ![prod.at].seq = OrOne(sane_seq(prod.seqs[prod.at])) + 1]
    /\ prod' = [prod EXCEPT !.pc = "publish"]
    /\ UNCHANGED <<latest, state, flags, fresh, lock, attaches, cons, pushes, published, handed>>
    /\ Watching

\* ... and is published; the producer's own counts follow.
PushPublish ==
    /\ prod.pc = "publish"
    /\ latest' = [no |-> prod.next_frame, at |-> prod.at]
    /\ prod' = [prod EXCEPT !.pc = "idle",
                            !.seqs[prod.at] = OrOne(sane_seq(@)) + 1,
                            !.newest = prod.at,
                            !.next_frame = after(@),
                            !.at = 0]
    /\ published' = Append(published, pushes)
    /\ UNCHANGED <<slot, state, flags, fresh, lock, attaches, cons, pushes, handed>>
    /\ Watching

\* finish(), or a drop: the state is stored, then the lock released.
end ==
    /\ prod.pc = "idle"
    /\ state' = "ended"
    /\ prod' = [prod EXCEPT !.pc = "closing", !.started = FALSE]
    /\ UNCHANGED <<slot, latest, flags, fresh, lock, attaches, cons, pushes, published, handed>>
    /\ Watching

\* The producer closes the file after end(), or is killed at any point: its
\* lock is released and nothing else happens.
Close ==
    /\ prod.pc # "none"
    /\ lock' = "free"
    /\ prod' = NoProducer
    /\ UNCHANGED <<slot, latest, state, flags, fresh, attaches, cons, pushes, published, handed>>
    /\ Watching

-----------------------------------------------------------------------------
(***************************************************************************)
(* The consumer reads: try_read and read_latest.                           *)
(***************************************************************************)
Idle(c) == [c EXCEPT !.pc = "idle", !.again = FALSE, !.tries = 0, !.s1 = 0,
                     !.latest = [no |-> 0, at |-> 0], !.got = NoCopy]

ReadBegin(again) ==
    /\ cons.pc = "idle"
    /\ fresh' = TRUE
    /\ cons' = [cons EXCEPT !.pc = "latest", !.tries = READ_TRIES, !.again = again,
                            !.answer = "none"]
    /\ UNCHANGED <<slot, latest, state, flags, lock, attaches, prod, history>>

\* Nothing new, or the tries are used up.
ReadNone ==
    /\ cons.pc = "latest"
    /\ \/ cons.tries = 0
       \/ latest.no = 0
       \/ ~cons.again /\ latest.no = cons.last_frame
    /\ cons' = Idle(cons)
    /\ UNCHANGED <<file, attaches, prod, history>>

ReadLatest ==
    /\ cons.pc = "latest" /\ cons.tries > 0
    /\ latest.no # 0 /\ (cons.again \/ latest.no # cons.last_frame)
    /\ cons' = [cons EXCEPT !.pc = "seq", !.latest = latest]
    /\ UNCHANGED <<file, attaches, prod, history>>

\* Skip::Torn: another try.
Torn == cons' = [Idle(cons) EXCEPT !.pc = "latest", !.again = cons.again, !.tries = cons.tries - 1]

SeqNow == slot[cons.latest.at].seq
WordsNow == slot[cons.latest.at].w

CopyBegin ==
    /\ cons.pc = "seq"
    /\ IF Odd(SeqNow) THEN Torn ELSE cons' = [cons EXCEPT !.pc = "copy", !.s1 = SeqNow]
    /\ UNCHANGED <<file, attaches, prod, history>>

CopyWord(w) ==
    /\ cons.pc = "copy" /\ cons.got[w] = None
    /\ cons' = [cons EXCEPT !.got[w] = WordsNow[w]]
    /\ UNCHANGED <<file, attaches, prod, history>>

\* The slot's frame number is not the one H_LATEST named.
CopyStale ==
    /\ cons.pc = "copy" /\ cons.got["frame_no"] \notin {None, cons.latest.no}
    /\ Torn
    /\ UNCHANGED <<file, attaches, prod, history>>

Copied == /\ cons.pc = "copy"
          /\ \A w \in AllWords : cons.got[w] # None
          /\ cons.got["frame_no"] = cons.latest.no
Mixed == \E v, w \in Words : cons.got[v] # cons.got[w]

\* The sequence word did not move while the words were copied.
Unmoved == SeqNow = cons.s1

\* A header mixed from two frames may fail a check: bad_or_torn.
CopyInvalid ==
    /\ Copied /\ Mixed
    /\ IF Unmoved THEN cons' = [Idle(cons) EXCEPT !.rejected = TRUE] ELSE Torn
    /\ UNCHANGED <<file, attaches, prod, history>>

CopyEnd ==
    /\ Copied
    /\ IF Unmoved
         THEN /\ cons' = [Idle(cons) EXCEPT !.last_frame = cons.latest.no]
              /\ handed' = [no |-> cons.latest.no, w |-> cons.got]
         ELSE Torn /\ UNCHANGED handed
    /\ UNCHANGED <<file, attaches, prod, pushes, published, watch>>

-----------------------------------------------------------------------------
(***************************************************************************)
(* The consumer asks what the producer does: producer().                   *)
(***************************************************************************)
Answer(a) == [cons EXCEPT !.pc = "idle", !.answer = a]

\* Mutant: the state is believed without a look at the lock.
ProbeTrusting ==
    /\ cons.pc = "idle"
    /\ cons' = [cons EXCEPT !.pc = "final",
                            !.answer = "none"]
    /\ watch' = Now
    /\ UNCHANGED <<file, attaches, prod, pushes, published, handed>>

Probe ==
    /\ cons.pc = "idle"
    /\ cons' = [cons EXCEPT !.pc = IF state = "running" THEN "lock" ELSE "final",
                            !.answer = "none"]
    /\ watch' = Now
    /\ UNCHANGED <<file, attaches, prod, pushes, published, handed>>

ProbeLock ==
    /\ cons.pc = "lock"
    /\ IF lock # "producer"
         THEN lock' = "consumer" /\ cons' = [cons EXCEPT !.pc = "unlock"]
         ELSE UNCHANGED lock /\ cons' = Answer("running")
    /\ UNCHANGED <<slot, latest, state, flags, fresh, attaches, prod, history>>

ProbeUnlock ==
    /\ cons.pc = "unlock"
    /\ lock' = "free"
    /\ cons' = [cons EXCEPT !.pc = "reread"]
    /\ UNCHANGED <<slot, latest, state, flags, fresh, attaches, prod, history>>

ProbeReread ==
    /\ cons.pc = "reread"
    /\ cons' = IF state = "running" THEN Answer("gone") ELSE [cons EXCEPT !.pc = "final"]
    /\ UNCHANGED <<file, attaches, prod, history>>

ProbeFinal ==
    /\ cons.pc = "final"
    /\ cons' = Answer(state)
    /\ UNCHANGED <<file, attaches, prod, history>>

-----------------------------------------------------------------------------
(***************************************************************************)
(* The consumer's wishes, its end, and the clock.                          *)
(***************************************************************************)
set_wanted(on) ==
    /\ cons.pc = "idle" /\ on # ("wants" \in flags)
    /\ flags' = IF on THEN flags \cup {"wants"} ELSE flags \ {"wants"}
    /\ fresh' = TRUE
    /\ UNCHANGED <<slot, latest, state, lock, attaches, prod, cons, history>>

touch ==
    /\ cons.pc = "idle" /\ ~fresh
    /\ fresh' = TRUE
    /\ UNCHANGED <<slot, latest, state, flags, lock, attaches, prod, cons, history>>

drop ==
    /\ cons.pc = "idle"
    /\ flags' = (flags \ {"wants"}) \cup {"gone"}
    /\ cons' = [cons EXCEPT !.pc = "gone", !.answer = "none"]
    /\ UNCHANGED <<slot, latest, state, fresh, lock, attaches, prod, history>>

\* The consumer has not looked for CONSUMER_STALE_NS (it may be suspended
\* anywhere).
BeatAges ==
    /\ fresh
    /\ fresh' = FALSE
    /\ UNCHANGED <<slot, latest, state, flags, lock, attaches, prod, cons, history>>

ProducerStep ==
    \/ attach \/ start \/ PushBegin \/ PushSeal \/ PushPublish \/ end \/ Close
    \/ \E w \in AllWords : PushStore(w)

ReadStep ==
    \/ ReadNone \/ ReadLatest \/ CopyBegin \/ CopyStale \/ CopyInvalid \/ CopyEnd
    \/ \E w \in AllWords : CopyWord(w)

ProbeStep == ProbeLock \/ ProbeUnlock \/ ProbeReread \/ ProbeFinal

Next ==
    \/ ProducerStep
    \/ \E again \in BOOLEAN : ReadBegin(again)
    \/ ReadStep
    \/ Probe \/ ProbeStep
    \/ \E on \in BOOLEAN : set_wanted(on)
    \/ touch \/ drop \/ BeatAges

Spec == Init /\ [][Next]_vars

\* The app's thread never waits inside a call, and it keeps reading.
FairSpec ==
    /\ Spec
    /\ WF_vars(ReadStep)
    /\ WF_vars(ProbeStep)
    /\ SF_vars(ReadBegin(FALSE))

-----------------------------------------------------------------------------
(***************************************************************************)
(* Properties.                                                             *)
(***************************************************************************)

(* Every word, counter and process state keeps its range; in particular   *)
(* the producer's slot stays inside the layout.                            *)
TypeOK ==
    /\ slot \in [SlotNos -> [seq: Nat, w: [AllWords -> Nat]]]
    /\ latest \in [no: Nat, at: SlotNos]
    /\ state \in {"waiting", "running", "ended"}
    /\ flags \subseteq {"wants", "gone"}
    /\ fresh \in BOOLEAN
    /\ lock \in {"free", "producer", "consumer"}
    /\ attaches \in 0..MaxAttaches
    /\ prod \in Producer
    /\ cons \in Consumer
    /\ pushes \in 0..MaxPushes
    /\ published \in Seq(Nat)
    /\ handed \in [no: Nat, w: [AllWords -> Nat]]
    /\ watch \subseteq {"alive", "empty"}

(* A frame that try_read or read_latest hands out is whole: its number and *)
(* all its words come from the one push that was published under that      *)
(* number, whatever producers were killed, attached or wrote while the     *)
(* consumer was suspended in the copy.  And a header read while it was     *)
(* being rewritten is never taken for a bad frame of the producer.         *)
NeverTorn ==
    /\ handed.no # 0 => /\ handed.no \in DOMAIN published
                        /\ handed.w["frame_no"] = handed.no
                        /\ \A w \in Words : handed.w[w] = published[handed.no]
    /\ ~cons.rejected

(* The slot H_LATEST names is always whole and even, also after a producer *)
(* was killed between any two stores: the newest frame can always be read. *)
PublishedWhole ==
    latest.no # 0 =>
        /\ latest.no = Len(published)
        /\ ~Odd(slot[latest.at].seq)
        /\ slot[latest.at].w["frame_no"] = latest.no
        /\ \A w \in Words : slot[latest.at].w[w] = published[latest.no]

(* Frame numbers only count up, in the file and at the consumer, across    *)
(* producers: no frame is published or handed out as new under a number    *)
(* that was used before.                                                   *)
NumbersGrow ==
    [][/\ latest' # latest => latest'.no > latest.no
       /\ cons'.last_frame >= cons.last_frame]_vars

(* producer() tells the truth about what did not change while it asked: a  *)
(* started producer that stayed attached is Running (its lock is never     *)
(* taken for free), and with no producer attached at any moment of the     *)
(* call the answer is not Running.                                         *)
ProbeSteady ==
    cons.answer # "none" => /\ "alive" \in watch => cons.answer = "running"
                            /\ "empty" \in watch => cons.answer # "running"

(* A consumer that keeps reading gets the newest frame, also when its      *)
(* producer was killed in the middle of the next one.                      *)
NewestReached == []<>(handed.no = latest.no \/ "gone" \in flags)
=============================================================================
