----------------------------- MODULE Federation -----------------------------
(***************************************************************************)
(* Messages between agents of two K2 servers: the sender's outbox, direct  *)
(* dial and drain (k2-core/src/federation/outbox.rs,                       *)
(* k2-daemon/src/federation_routes.rs handle_send and                      *)
(* k2-daemon/src/federation_drain.rs) and the receiver's inbound handler   *)
(* with its replay and duplicate guards (federation_routes.rs              *)
(* handle_inbound, k2-core/src/federation/ingress.rs and seen.rs).         *)
(*                                                                         *)
(* One sender and one receiver.  A message is a number: the order of       *)
(* signal.at, by which the outbox sorts.  handle_send runs on a thread of  *)
(* its own per message; one drain runs per peer at a time; the receiver    *)
(* handles requests concurrently.  Requests may be lost, answers may be    *)
(* late or lost, and either server may be killed between any two steps.    *)
(* Only files survive that: the queue, the dead letters and the seen list. *)
(***************************************************************************)
EXTENDS Integers, FiniteSets, FiniteSetsExt, Sequences, SequencesExt

CONSTANTS
    N,            \* messages
    Kinds,        \* what the receiver may be set up to do with the messages
    Old,          \* messages queued before the sending daemon was started
    Aged,         \* messages that may stay queued for MAX_QUEUED_AGE_DAYS
    MAX_QUEUED,   \* MAX_QUEUED_PER_PEER
    SEEN_CAP,     \* SEEN_PER_PEER_CAP
    MaxFaults     \* bound: losses, timeouts, failed deliveries, crashes, file errors

Msgs == 1..N

ASSUME FederationAssumption ==
    /\ {N, MaxFaults} \subseteq Nat /\ {SEEN_CAP, MAX_QUEUED} \subseteq Nat \ {0}
    /\ Aged \subseteq Msgs /\ Old \subseteq Msgs /\ Cardinality(Old) <= MAX_QUEUED
    /\ Kinds \subseteq [Msgs -> {"live", "tray", "declined", "unknown"}]

VARIABLES
    kind,      \* the signal's kind and the addressed workspace's consent
    queue,     \* outbox files
    dead,      \* messages a dead-letter file was written for
    seals,     \* envelopes sealed for each message: the nonce of the last one
    direct,    \* handle_send of each message
    drain,     \* the running drain: its snapshot and what it waits for
    reqs,      \* POSTs under way, and what the receiver made of them
    nonces,    \* the receiver's NonceCache
    seen,      \* the receiver's federation-seen.json
    faults,    \* faults so far
    drives,    \* history: how often each message reached its chat or tray
    ahead,     \* history: what was queued when a message was enqueued
    excused,   \* history: messages the duplicate check could not hold off
    fate       \* history: why a queued copy was given up

sender == <<queue, dead, seals, direct, drain>>
history == <<drives, ahead, excused, fate>>
vars == <<kind, queue, dead, seals, direct, drain, reqs, nonces, seen, faults,
          drives, ahead, excused, fate>>

\* Evicted from the full outbox; the sender told "declined" or "undelivered";
\* a decline it never heard of, counted as delivered when the retry was
\* answered "duplicate"; a dead letter that could not be written.
Fates == {"none", "evicted", "declined", "undelivered", "unheard", "unwritten"}

Answers == {"ok", "undelivered", "declined", "replayed", "duplicate", "unknown", "error"}

\* `wait`: the nonce of the POST the drain waits for, 0 for none.
NoDrain == [on |-> FALSE, items |-> <<>>, wait |-> 0]

Init ==
    /\ kind \in Kinds
    /\ queue = Old /\ dead = {}
    /\ seals = [m \in Msgs |-> IF m \in Old THEN 1 ELSE 0]
    /\ direct = [m \in Msgs |-> IF m \in Old THEN "done" ELSE "new"]
    /\ drain = NoDrain
    /\ reqs = {} /\ nonces = {} /\ seen = <<>>
    /\ faults = 0
    /\ drives = [m \in Msgs |-> 0]
    /\ ahead = [m \in Msgs |-> {}]
    /\ excused = {}
    /\ fate = [m \in Msgs |-> "none"]

-----------------------------------------------------------------------------
(***************************************************************************)
(* The outbox.                                                             *)
(***************************************************************************)

\* Mutant: the cap is not enforced.
EvictedNone(q) == {}
\* What enqueue leaves out of `q` once it is over the cap: the oldest.
Evicted(q) == IF Cardinality(q) > MAX_QUEUED THEN {Min(q)} ELSE {}

\* The file of m is written (again); the oldest goes when the queue is full.
enqueue(m) ==
    LET q == queue \cup {m} IN
    /\ queue' = q \ Evicted(q)
    /\ fate' = [x \in Msgs |-> IF x \in Evicted(q) /\ fate[x] = "none" THEN "evicted" ELSE fate[x]]

\* `loaded`: the seen list that a handler has read and not written back yet.
Post(m, nonce) ==
    reqs' = reqs \cup {[m |-> m, nonce |-> nonce, st |-> "sent", loaded |-> <<>>]}

ReqOf(m, nonce) == {r \in reqs : r.m = m /\ r.nonce = nonce}
DrainItem == Head(drain.items)

\* Somebody still waits for the answer of r.
Awaited(r) ==
    \/ direct[r.m] = "dial" /\ r.nonce = 1
    \/ drain.on /\ drain.wait = r.nonce /\ DrainItem = r.m

Given(m, why) == fate' = [fate EXCEPT ![m] = IF @ = "none" THEN why ELSE @]

Fault == faults < MaxFaults /\ faults' = faults + 1

-----------------------------------------------------------------------------
(***************************************************************************)
(* handle_send.                                                            *)
(***************************************************************************)

\* The envelope is sealed and enqueued before anything is dialed.
SendEnqueue(m) ==
    /\ direct[m] = "new"
    /\ direct' = [direct EXCEPT ![m] = "queued"]
    /\ seals' = [seals EXCEPT ![m] = 1]
    /\ enqueue(m)
    /\ ahead' = [ahead EXCEPT ![m] = queue]
    /\ UNCHANGED <<kind, dead, drain, reqs, nonces, seen, faults,
                   drives, excused>>

\* Mutant: the in-order guard is gone.
QueuedAheadNone(m) == {}
QueuedAhead(m) == queue \ {m}
\* The in-order guard: behind other messages this one is the drain's.
SendBehind(m) ==
    /\ direct[m] = "queued" /\ QueuedAhead(m) # {}
    /\ direct' = [direct EXCEPT ![m] = "done"]
    /\ UNCHANGED <<kind, queue, dead, seals, drain, reqs, nonces, seen, faults,
                   drives, ahead, excused, fate>>

SendDial(m) ==
    /\ direct[m] = "queued" /\ QueuedAhead(m) = {}
    /\ direct' = [direct EXCEPT ![m] = "dial"]
    /\ Post(m, 1)
    /\ UNCHANGED <<kind, queue, dead, seals, drain, nonces, seen, faults,
                   drives, ahead, excused, fate>>

\* Any 2xx consumes the queued copy, and the sender is told what it says; any
\* other answer leaves it queued.
SendAnswered(m) ==
    /\ direct[m] = "dial"
    /\ \E r \in ReqOf(m, 1) :
         /\ r.st \in Answers
         /\ reqs' = reqs \ {r}
         /\ IF r.st \in {"ok", "declined", "undelivered"}
              THEN /\ queue' = queue \ {m}
                   /\ Given(m, IF r.st = "ok" THEN "none" ELSE r.st)
              ELSE UNCHANGED <<queue, fate>>
    /\ direct' = [direct EXCEPT ![m] = "done"]
    /\ UNCHANGED <<kind, dead, seals, drain, nonces, seen, faults,
                   drives, ahead, excused>>

\* The dial fails or times out: the message stays queued.
SendFails(m) ==
    /\ direct[m] = "dial"
    /\ IF ReqOf(m, 1) = {} THEN UNCHANGED faults ELSE Fault
    /\ reqs' = {r \in reqs : ~(r.m = m /\ r.nonce = 1 /\ r.st \in Answers)}
    /\ direct' = [direct EXCEPT ![m] = "done"]
    /\ UNCHANGED <<kind, queue, dead, seals, drain, nonces, seen, history>>

-----------------------------------------------------------------------------
(***************************************************************************)
(* The drain: one per peer at a time, oldest message first.                *)
(***************************************************************************)
Sorted(q) ==
    CHOOSE s \in [1..Cardinality(q) -> q] : \A i, j \in DOMAIN s : i < j => s[i] < s[j]

\* drain_peer starts with a snapshot of the queue, unless one is under way:
\* from the sweep when the peer's backoff has passed (the first sweep is at
\* boot), from handle_send's kick, or from note_peer_reachable when the
\* peer's own traffic shows that it is up, which it may at any time.
drain_peer ==
    /\ ~drain.on /\ queue # {}
    /\ drain' = [on |-> TRUE, items |-> Sorted(queue), wait |-> 0]
    /\ UNCHANGED <<kind, queue, dead, seals, direct, reqs, nonces, seen, faults, history>>

\* prune_expired of the sweep, beside a drain that a kick started.
SweepExpires(m) ==
    /\ m \in queue \cap Aged
    /\ queue' = queue \ {m}
    /\ dead' = dead \cup {m}
    /\ UNCHANGED <<kind, seals, direct, drain, reqs, nonces, seen, faults, history>>

\* Mutant: the queued envelope is posted again as it is.
NonceOfSame(m) == seals[m]
NonceOf(m) == seals[m] + 1
\* The next item is sealed again under a fresh nonce, its file rewritten,
\* and dialed.
DrainDial ==
    /\ drain.on /\ drain.wait = 0
    /\ LET m == DrainItem
           n == NonceOf(m) IN
       /\ seals' = [seals EXCEPT ![m] = n]
       /\ enqueue(m)
       /\ Post(m, n)
       /\ drain' = [drain EXCEPT !.wait = n]
    /\ UNCHANGED <<kind, dead, direct, nonces, seen, faults,
                   drives, ahead, excused>>

\* classify: what an answer makes of the item.
Disposition(answer) ==
    CASE answer \in {"ok", "replayed", "duplicate"} -> "delivered"
      [] answer \in {"declined", "unknown"} -> "dead_letter"
      [] OTHER -> "retry"

\* A dead letter that cannot be written is logged, and the file removed.
DrainAnswered ==
    /\ drain.on /\ drain.wait # 0
    /\ \E r \in ReqOf(DrainItem, drain.wait), written \in BOOLEAN :
         /\ r.st \in Answers
         /\ reqs' = reqs \ {r}
         /\ LET what == Disposition(r.st) IN
            /\ IF written THEN UNCHANGED faults ELSE what = "dead_letter" /\ Fault
            /\ queue' = IF what = "retry" THEN queue ELSE queue \ {DrainItem}
            /\ dead' = IF what = "dead_letter" /\ written THEN dead \cup {DrainItem} ELSE dead
            /\ Given(DrainItem, IF ~written THEN "unwritten"
                                ELSE IF r.st = "duplicate" /\ kind[r.m] = "declined" THEN "unheard"
                                ELSE "none")
            /\ drain' = IF what = "retry" \/ Len(drain.items) = 1 THEN NoDrain
                        ELSE [drain EXCEPT !.items = Tail(@), !.wait = 0]
    /\ UNCHANGED <<kind, seals, direct, nonces, seen, drives, ahead, excused>>

\* Mutant: the claim on the peer is not released.
DrainFailsStuck ==
    /\ drain.on /\ drain.wait # 0
    /\ IF ReqOf(DrainItem, drain.wait) = {} THEN UNCHANGED faults ELSE Fault
    /\ reqs' = {r \in reqs :
                  ~(r.m = DrainItem /\ r.nonce = drain.wait /\ r.st \in Answers)}
    /\ UNCHANGED <<kind, queue, dead, seals, direct, drain, nonces, seen, history>>

\* Unreachable, or no answer in time: the rest stays queued.
DrainFails ==
    /\ drain.on /\ drain.wait # 0
    /\ IF ReqOf(DrainItem, drain.wait) = {} THEN UNCHANGED faults ELSE Fault
    /\ reqs' = {r \in reqs :
                  ~(r.m = DrainItem /\ r.nonce = drain.wait /\ r.st \in Answers)}
    /\ drain' = NoDrain
    /\ UNCHANGED <<kind, queue, dead, seals, direct, nonces, seen, history>>

-----------------------------------------------------------------------------
(***************************************************************************)
(* The receiver: handle_inbound.                                           *)
(***************************************************************************)
Become(r, st) ==
    reqs' = (reqs \ {r}) \cup (IF st \in Answers /\ ~Awaited(r) THEN {}
                               ELSE {[r EXCEPT !.st = st, !.loaded = <<>>]})

\* Requests of m between the duplicate check and the end of its record.
Unrecorded == {"deliver", "handled", "recording"}
Inside(m) == {r \in reqs : r.m = m /\ r.st \in Unrecorded}

\* load(): the list in the file, or an empty one when the file cannot be read
\* or parsed.
load(list) == \/ list = seen /\ UNCHANGED faults
              \/ list = <<>> /\ seen # <<>> /\ Fault

already_seen(list, m) == Contains(list, m)

\* What seen::record makes of the list it loaded: first in, first out.
record(list, m) ==
    IF Contains(list, m) THEN list
    ELSE IF Len(list) = SEEN_CAP THEN Append(Tail(list), m) ELSE Append(list, m)
\* The gate: the nonce is checked and remembered, then the duplicate check,
\* the address and the consent.
Receive(r) ==
    LET nonce == <<r.m, r.nonce>> IN
    /\ r.st = "sent"
    /\ nonces' = nonces \cup {nonce}
    /\ \/ nonce \in nonces /\ Become(r, "replayed") /\ UNCHANGED <<faults, excused>>
       \/ /\ nonce \notin nonces
          /\ \E list \in {seen, <<>>} :
               /\ load(list)
               /\ \/ already_seen(list, r.m) /\ Become(r, "duplicate") /\ UNCHANGED excused
                  \/ /\ ~already_seen(list, r.m)
                     /\ Become(r, CASE kind[r.m] = "unknown" -> "unknown"
                                    [] kind[r.m] = "declined" -> "handled"
                                    [] OTHER -> "deliver")
                     /\ excused' = IF Inside(r.m) # {} \/ already_seen(seen, r.m)
                                   THEN excused \cup {r.m} ELSE excused
    /\ UNCHANGED <<kind, sender, seen, drives, ahead, fate>>

\* deliver_live types the message into the chat, or the package is written.
Drive(r) ==
    /\ r.st = "deliver"
    /\ Become(r, "handled")
    /\ drives' = [drives EXCEPT ![r.m] = @ + 1]
    /\ UNCHANGED <<kind, sender, nonces, seen, faults, ahead, excused, fate>>

\* The session could not be woken (still 2xx), or the package not written.
DriveFails(r) ==
    /\ r.st = "deliver"
    /\ Fault
    /\ Become(r, IF kind[r.m] = "live" THEN "undelivered" ELSE "error")
    /\ UNCHANGED <<kind, sender, nonces, seen, history>>

\* seen::record reads the file, adds the message and writes the file back;
\* nothing keeps another handler from doing the same in between.
RecordLoad(r) ==
    /\ r.st = "handled"
    /\ \E list \in {seen, <<>>} :
         /\ load(list)
         /\ reqs' = (reqs \ {r}) \cup {[r EXCEPT !.st = "recording", !.loaded = list]}
    /\ UNCHANGED <<kind, sender, nonces, seen, history>>

\* A list that has the message already is not written; what the new file
\* leaves out, because it is full or another handler wrote in between, is
\* forgotten.
RecordSave(r) ==
    /\ r.st = "recording"
    /\ seen' = IF Contains(r.loaded, r.m) THEN seen ELSE record(r.loaded, r.m)
    /\ excused' = excused \cup (ToSet(seen) \ ToSet(seen'))
    /\ Become(r, IF kind[r.m] = "declined" THEN "declined" ELSE "ok")
    /\ UNCHANGED <<kind, sender, nonces, faults, drives, ahead, fate>>

\* save() fails: it is logged, and the message answered for all the same.
RecordSaveFails(r) ==
    /\ r.st = "recording" /\ ~Contains(r.loaded, r.m)
    /\ Fault
    /\ excused' = excused \cup {r.m}
    /\ Become(r, IF kind[r.m] = "declined" THEN "declined" ELSE "ok")
    /\ UNCHANGED <<kind, sender, nonces, seen, drives, ahead, fate>>

-----------------------------------------------------------------------------
(***************************************************************************)
(* Faults.                                                                 *)
(***************************************************************************)
RequestLost(r) ==
    /\ r.st = "sent"
    /\ Fault
    /\ reqs' = reqs \ {r}
    /\ UNCHANGED <<kind, sender, nonces, seen, history>>

\* The sending daemon is killed and restarted: its threads and its backoff
\* are gone, its files and the POSTs already made are not.
SenderCrash ==
    /\ Fault
    /\ direct' = [m \in Msgs |-> IF direct[m] = "new" THEN "new" ELSE "done"]
    /\ drain' = NoDrain
    /\ reqs' = {r \in reqs : r.st \notin Answers}
    /\ UNCHANGED <<kind, queue, dead, seals, nonces, seen, history>>

\* Mutant: the seen list lives in memory only.
ReceiverCrashForgets ==
    /\ Fault
    /\ excused' = excused \cup {r.m : r \in {q \in reqs : q.st \in {"handled", "recording"}}}
    /\ reqs' = {r \in reqs : r.st \in Answers}
    /\ nonces' = {}
    /\ seen' = <<>>
    /\ UNCHANGED <<kind, sender, drives, ahead, fate>>

\* The receiving daemon is killed and restarted: its handlers and its nonces
\* are gone.
ReceiverCrash ==
    /\ Fault
    /\ excused' = excused \cup {r.m : r \in {q \in reqs : q.st \in {"handled", "recording"}}}
    /\ reqs' = {r \in reqs : r.st \in Answers}
    /\ nonces' = {}
    /\ UNCHANGED <<kind, sender, seen, drives, ahead, fate>>

SendStep(m) ==
    SendEnqueue(m) \/ SendBehind(m) \/ SendDial(m) \/ SendAnswered(m) \/ SendFails(m)

DrainStep == DrainDial \/ DrainAnswered \/ DrainFails

ReceiveStep(r) ==
    \/ Receive(r) \/ Drive(r) \/ DriveFails(r)
    \/ RecordLoad(r) \/ RecordSave(r) \/ RecordSaveFails(r)

Next ==
    \/ \E m \in Msgs : SendStep(m) \/ SweepExpires(m)
    \/ drain_peer \/ DrainStep
    \/ \E r \in reqs : ReceiveStep(r) \/ RequestLost(r)
    \/ SenderCrash \/ ReceiverCrash

Spec == Init /\ [][Next]_vars

\* Threads and handlers run, and the sweep ticks.  Faults and new messages
\* are never forced.
Progress ==
    \/ \E m \in Msgs : direct[m] # "new" /\ SendStep(m)
    \/ drain_peer \/ DrainStep
    \/ \E r \in reqs : ReceiveStep(r)

FairSpec == Spec /\ WF_vars(Progress)

-----------------------------------------------------------------------------
(***************************************************************************)
(* Properties.                                                             *)
(***************************************************************************)

(* The queue respects MAX_QUEUED_PER_PEER and every thread and request is  *)
(* in a state of its own.                                                  *)
TypeOK ==
    /\ queue \subseteq Msgs /\ Cardinality(queue) <= MAX_QUEUED
    /\ dead \subseteq Msgs
    /\ seals \in [Msgs -> Nat]
    /\ direct \in [Msgs -> {"new", "queued", "dial", "done"}]
    /\ drain.on \in BOOLEAN /\ drain.wait \in Nat /\ drain.items \in Seq(Msgs)
    /\ drain.on <=> drain.items # <<>>
    /\ drain.wait # 0 => drain.on
    /\ \A r \in reqs : /\ r.m \in Msgs /\ r.nonce \in 1..seals[r.m]
                       /\ r.st \in Answers \cup Unrecorded \cup {"sent"}
    /\ Len(seen) <= SEEN_CAP
    /\ faults \in 0..MaxFaults
    /\ fate \in [Msgs -> Fates]

(* A message reaches its chat once, through retries, reseals, lost         *)
(* answers, duplicate dials and restarts of both servers, unless two       *)
(* requests of it were past the duplicate check at once, the receiver was  *)
(* killed between the delivery and its record, or the seen list failed     *)
(* it: the record was not saved, was overwritten by a handler that had     *)
(* read the list before, or made room for a newer one, or the list could   *)
(* not be read when a second request of the message came.                  *)
DrivenOnce == \A m \in Msgs : drives[m] > 1 => m \in excused

(* A message overtakes none that was queued before it: when it first       *)
(* reaches the chat, every older message queued when it was accepted has   *)
(* been there, or was given up for good.                                   *)
InOrder ==
    [][\A m \in Msgs : drives[m] = 0 /\ drives'[m] = 1 =>
            \A o \in ahead[m] : o < m => drives[o] > 0 \/ o \in dead \/ fate[o] # "none"]_vars

(* A message accepted from a user leaves the queue for a reason the code   *)
(* acts on: it reached the chat or tray, it was dead-lettered, the full    *)
(* queue evicted it, or the sender got an answer to its own dial that said *)
(* that it did not land.  Two ways out leave nothing behind: the answer of *)
(* a decline was lost, and the retry, answered "duplicate", counts as      *)
(* delivered; and a dead letter that could not be written.                 *)
NothingVanishes ==
    \A m \in Msgs : seals[m] > 0 =>
        m \in queue \/ m \in dead \/ drives[m] > 0 \/ fate[m] # "none"

(* Every queued message is eventually delivered or given up, once faults   *)
(* stop.                                                                   *)
QueueEmpties == \A m \in Msgs : m \in queue ~> m \notin queue

(* A message never reaches its chat twice.                                 *)
NeverTwice == \A m \in Msgs : drives[m] <= 1
=============================================================================
