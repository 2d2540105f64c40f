------------------------------- MODULE Delivery -------------------------------
(***************************************************************************)
(* The daemon's delivery lanes, their journal and the take check.          *)
(*                                                                         *)
(* A Thread or project chat post is written to the journal (SQLite) and    *)
(* queued on the lane of the agent it goes to; the post answers and the    *)
(* lane's thread types the line into the agent's terminal later.  A crash  *)
(* loses the lanes, not the journal: at boot the rows that never started   *)
(* are queued again, the ones that started are given up with a notice.  A  *)
(* Thread line that was typed is watched until the agent takes it; a line  *)
(* not taken is posted once more.                                          *)
(*                                                                         *)
(* Posts are numbered in the order they are recorded.  An item is a post   *)
(* (<<j, 0>>) or a retry of its line (<<j, n>>, n > 0).                    *)
(***************************************************************************)
EXTENDS Naturals, Sequences, SequencesExt, FiniteSets

CONSTANTS
    N,            \* posts while the take check is off
    NChecked,     \* posts while it is on
    Lanes,        \* agents
    LaneOf,       \* the agent a post goes to
    Kinds,        \* "thread" or "project", per post
    MaxRetries,   \* retries of one line (one, unless its post was typed in twice)
    MaxCrashes,   \* daemon crashes
    MaxFaults,    \* failed deliveries, writes and spawns, panics, unreadable rows
    MaxTrouble    \* crashes and faults together

Jobs == 1 .. N

ASSUME DeliveryAssumption ==
    /\ N \in Nat \ {0}
    /\ NChecked \in 1 .. N
    /\ LaneOf \in [Jobs -> Lanes]
    /\ Kinds \in [Jobs -> {"thread", "project"}]
    /\ MaxRetries \in Nat \ {0}
    /\ MaxCrashes \in Nat
    /\ MaxFaults \in Nat
    /\ MaxTrouble \in Nat

Checked == {j \in 1 .. NChecked : Kinds[j] = "thread"}
Items == (Jobs \X {0}) \cup (Checked \X (1 .. MaxRetries))
Retry(i) == i[2] > 0
Lane(i) == LaneOf[i[1]]
Kind(i) == Kinds[i[1]]

(***************************************************************************)
(* The threads that run jobs: one per lane, and, where a lane thread could *)
(* not be started, the thread of the post or of boot itself.               *)
(***************************************************************************)
LaneThread(l) == <<"lane", l>>
PostThread(i) == <<"post", i>>
BootThread(i) == <<"boot", i>>
Threads == ({"lane"} \X Lanes) \cup ({"post", "boot"} \X Items)

NoItem == <<0, 0>>
Job == [item : Items, row : BOOLEAN]          \* row: the journal has it
Idle == [at |-> "idle", item |-> NoItem, row |-> FALSE]

Fates == {"failed", "retryFailed", "notTaken", "interrupted", "tooOld", "logged"}

Marks == {"unjournaled", "unmarked", "unfinished", "unread", "cut", "early", "overlapped"}

VARIABLES
    window,       \* the take check is on (take_window is set)
    \* SQLite: survives a crash
    journal,      \* the rows, oldest first
    \* memory of the daemon
    boot,         \* "ready", "replaying", "dropping" (a row given up), "done"
    rows,         \* the snapshot boot is still replaying
    posting,      \* a post between its record and its queue step
    lanes,        \* LANES: a queue per key, present while its thread lives
    running,      \* what each thread is doing
    watches,      \* watches on typed lines, per item
    fired,        \* lines not taken whose retry is not recorded yet
    watchers,     \* watcher threads: looping, and about to leave
    \* the client
    posted,       \* posts recorded so far
    answered,     \* posts that answered
    \* history
    typed,        \* lines typed into terminals, in order
    fate,         \* what else became of an item, told in its Thread or logged
    retries,      \* retries of a line so far
    after,        \* the posts that had answered when a post was recorded
    here,         \* items recorded since the last boot
    marks,        \* what went wrong around an item
    crashes, faults

memory == <<boot, rows, posting, lanes, running, watches, fired, watchers>>
history == <<posted, answered, typed, fate, retries, after, here, marks, crashes, faults>>
vars == <<window, journal, memory, history>>

NoMemory ==
    [boot     |-> "ready",
     rows     |-> << >>,
     posting  |-> [i \in Items |-> "no"],
     lanes    |-> [l \in Lanes |-> [live |-> FALSE, queue |-> << >>]],
     running  |-> [t \in Threads |-> Idle],
     watches  |-> [i \in Items |-> 0],
     fired    |-> {},
     watchers |-> [looping |-> 0, leaving |-> 0]]

Init ==
    /\ window \in BOOLEAN
    /\ journal = << >>
    /\ boot = NoMemory.boot
    /\ rows = NoMemory.rows
    /\ posting = NoMemory.posting
    /\ lanes = NoMemory.lanes
    /\ running = NoMemory.running
    /\ watches = NoMemory.watches
    /\ fired = NoMemory.fired
    /\ watchers = NoMemory.watchers
    /\ posted = 0
    /\ answered = {}
    /\ typed = << >>
    /\ fate = [i \in Items |-> {}]
    /\ retries = [j \in Jobs |-> 0]
    /\ after = [j \in Jobs |-> {}]
    /\ here = {}
    /\ marks = [i \in Items |-> {}]
    /\ crashes = 0
    /\ faults = 0

(***************************************************************************)
(* Helpers.                                                                *)
(***************************************************************************)
Fault == faults < MaxFaults /\ faults + crashes < MaxTrouble /\ faults' = faults + 1
NoFault == UNCHANGED faults

Marked(i, m) == [marks EXCEPT ![i] = @ \cup {m}]
Told(i, f) == [fate EXCEPT ![i] = @ \cup {f}]

RowsOf(s) == {s[n].item : n \in DOMAIN s}
Watched == {i \in Items : watches[i] > 0}
InJournal(i) == i \in RowsOf(journal)

\* Mutant: the update names no row, so every row is marked.
mark_startedAll(i) == [n \in DOMAIN journal |-> [journal[n] EXCEPT !.started = TRUE]]

\* store::mark_started and store::finish, by the row's key: no row, nothing
\* happens.
mark_started(i) ==
    [n \in DOMAIN journal |->
        IF journal[n].item = i THEN [journal[n] EXCEPT !.started = TRUE] ELSE journal[n]]
RowOf(i) == CHOOSE n \in DOMAIN journal : journal[n].item = i
finish(i) == IF InJournal(i) THEN RemoveAt(journal, RowOf(i)) ELSE journal

(***************************************************************************)
(* record: the row of a queued delivery, started_at empty.  When the write *)
(* fails the delivery is in memory only.                                   *)
(***************************************************************************)
record(i) ==
    \/ /\ journal' = Append(journal, [item |-> i, started |-> FALSE, old |-> FALSE])
       /\ posting' = [posting EXCEPT ![i] = "row"]
       /\ here' = here \cup {i}
       /\ marks' = IF boot = "done" THEN marks ELSE Marked(i, "early")
       /\ NoFault
    \/ /\ Fault
       /\ posting' = [posting EXCEPT ![i] = "norow"]
       /\ marks' = [marks EXCEPT ![i] = @ \cup {"unjournaled"}
                                          \cup (IF boot = "done" THEN {} ELSE {"early"})]
       /\ UNCHANGED <<journal, here>>

(***************************************************************************)
(* run_later: on a living lane the job goes to the end of the queue; else  *)
(* the key is inserted and a thread started, all under the lanes lock.     *)
(* When the thread cannot be started the key goes again and the calling    *)
(* thread t runs the job itself.                                           *)
(***************************************************************************)
\* Mutant: the key of a lane whose thread is gone is taken for a living one.
run_laterNoThread(t, i, row) ==
    LET job == [item |-> i, row |-> row] IN
    /\ lanes' = [lanes EXCEPT ![Lane(i)].queue = Append(@, job)]
    /\ NoFault
    /\ UNCHANGED running

run_later(t, i, row) ==
    LET job == [item |-> i, row |-> row] IN
    \/ /\ lanes' = [lanes EXCEPT ![Lane(i)] = [live |-> TRUE, queue |-> Append(@.queue, job)]]
       /\ NoFault
       /\ UNCHANGED running
    \/ /\ ~lanes[Lane(i)].live
       /\ Fault
       /\ running' = [running EXCEPT ![t] = [at |-> "start", item |-> i, row |-> row]]
       /\ UNCHANGED lanes

(***************************************************************************)
(* deliver_thread_later, deliver_thread_in_order and the project chat      *)
(* post: record, then queue_thread_job or queue_poc_job.  A caller that    *)
(* waits for its result (run_in_order) only answers later.                 *)
(***************************************************************************)
Post ==
    LET j == posted + 1 IN
    /\ j <= IF window THEN NChecked ELSE N
    /\ record(<<j, 0>>)
    /\ posted' = j
    /\ after' = [after EXCEPT ![j] = answered]
    /\ UNCHANGED <<window, boot, rows, lanes, running, watches, fired, watchers,
                   answered, typed, fate, retries, crashes>>

\* The not-taken step of a first delivery: the line is posted once more.
PostRetry(i) ==
    /\ i \in fired
    /\ record(i)
    /\ fired' = fired \ {i}
    /\ UNCHANGED <<window, boot, rows, lanes, running, watches, watchers,
                   posted, answered, typed, fate, retries, after, crashes>>

QueueJob(i) ==
    /\ posting[i] # "no"
    /\ run_later(PostThread(i), i, posting[i] = "row")
    /\ posting' = [posting EXCEPT ![i] = "no"]
    /\ answered' = IF running' = running /\ ~Retry(i) THEN answered \cup {i[1]} ELSE answered
    /\ UNCHANGED <<window, journal, boot, rows, watches, fired, watchers,
                   posted, typed, fate, retries, after, here, marks, crashes>>

(***************************************************************************)
(* drain: the lane's thread takes the next job, or finds the queue empty,  *)
(* removes the key and ends.                                               *)
(***************************************************************************)
\* Mutant: the newest job is taken first.
TakeNextNewest(l) ==
    LET t == LaneThread(l)  q == lanes[l].queue IN
    /\ lanes[l].live /\ running[t] = Idle /\ q # << >>
    /\ lanes' = [lanes EXCEPT ![l].queue = SubSeq(q, 1, Len(q) - 1)]
    /\ running' = [running EXCEPT ![t] = [at |-> "start", item |-> q[Len(q)].item, row |-> q[Len(q)].row]]
    /\ UNCHANGED <<window, journal, boot, rows, posting, watches, fired, watchers, history>>

TakeNext(l) ==
    LET t == LaneThread(l)  q == lanes[l].queue IN
    /\ lanes[l].live /\ running[t] = Idle /\ q # << >>
    /\ lanes' = [lanes EXCEPT ![l].queue = Tail(q)]
    /\ running' = [running EXCEPT ![t] = [at |-> "start", item |-> Head(q).item, row |-> Head(q).row]]
    /\ UNCHANGED <<window, journal, boot, rows, posting, watches, fired, watchers, history>>

\* Mutant: the key goes after the lock was released, with what came in.
LaneEndsUnlocked(l) ==
    /\ lanes[l].live /\ running[LaneThread(l)] = Idle
    /\ lanes' = [lanes EXCEPT ![l] = [live |-> FALSE, queue |-> << >>]]
    /\ UNCHANGED <<window, journal, boot, rows, posting, running, watches, fired, watchers, history>>

LaneEnds(l) ==
    /\ lanes[l].live /\ running[LaneThread(l)] = Idle /\ lanes[l].queue = << >>
    /\ lanes' = [lanes EXCEPT ![l].live = FALSE]
    /\ UNCHANGED <<window, journal, boot, rows, posting, running, watches, fired, watchers, history>>

(***************************************************************************)
(* One job on thread t: started, run, finish.                              *)
(***************************************************************************)
\* entry.started: a write that fails is logged, and the line is typed.
Started(t) ==
    LET i == running[t].item IN
    /\ running[t].at = "start"
    /\ \/ /\ journal' = IF running[t].row THEN mark_started(i) ELSE journal
          /\ NoFault
          /\ UNCHANGED marks
       \/ /\ running[t].row
          /\ Fault
          /\ marks' = Marked(i, "unmarked")
          /\ UNCHANGED journal
    /\ running' = [running EXCEPT ![t].at = "run"]
    /\ UNCHANGED <<window, boot, rows, posting, lanes, watches, fired, watchers,
                   posted, answered, typed, fate, retries, after, here, crashes>>

\* The post that ran its own job answers when the job is over.
AnsweredBy(t, i) == IF t[1] = "post" /\ ~Retry(i) THEN answered \cup {i[1]} ELSE answered

\* job.run, the line typed; a checked Thread line joins the watches, and a
\* watch that finds none starts the watcher thread.
Typed(t) ==
    LET i == running[t].item
        check == window /\ Kind(i) = "thread"
    IN
    /\ running[t].at = "run"
    /\ typed' = Append(typed, i)
    /\ watches' = IF check THEN [watches EXCEPT ![i] = @ + 1] ELSE watches
    /\ running' = [running EXCEPT ![t].at = IF check /\ Watched = {} THEN "watch" ELSE "finish"]
    /\ UNCHANGED <<window, journal, boot, rows, posting, lanes, fired, watchers,
                   posted, answered, fate, retries, after, here, marks, crashes, faults>>

\* job.run, not delivered: the Thread turn ends delivery_failed; a retry
\* that fails is a notice.
NotDelivered(t) ==
    LET i == running[t].item IN
    /\ running[t].at = "run"
    /\ Fault
    /\ fate' = Told(i, IF Retry(i) THEN "retryFailed" ELSE "failed")
    /\ running' = [running EXCEPT ![t].at = "finish"]
    /\ UNCHANGED <<window, journal, boot, rows, posting, lanes, watches, fired, watchers,
                   posted, answered, typed, retries, after, here, marks, crashes>>

\* run_one: a job that panics is logged and its thread goes on.  The line
\* may have been typed, the row stays.
Panics(t) ==
    LET i == running[t].item IN
    /\ running[t].at = "run"
    /\ Fault
    /\ typed' \in {typed, Append(typed, i)}
    /\ fate' = Told(i, "logged")
    /\ marks' = Marked(i, "unfinished")
    /\ running' = [running EXCEPT ![t] = Idle]
    /\ answered' = AnsweredBy(t, i)
    /\ UNCHANGED <<window, journal, boot, rows, posting, lanes, watches, fired, watchers,
                   posted, retries, after, here, crashes>>

\* watch: start the watcher, or drop every watch when it cannot start.
StartWatcher(t) ==
    /\ running[t].at = "watch"
    /\ \/ /\ watchers' = [watchers EXCEPT !.looping = @ + 1]
          /\ NoFault
          /\ UNCHANGED watches
       \/ /\ Fault
          /\ watches' = NoMemory.watches
          /\ UNCHANGED watchers
    /\ running' = [running EXCEPT ![t].at = "finish"]
    /\ UNCHANGED <<window, journal, boot, rows, posting, lanes, fired,
                   posted, answered, typed, fate, retries, after, here, marks, crashes>>

\* entry.finish: the row goes.
Finished(t) ==
    LET i == running[t].item IN
    /\ running[t].at = "finish"
    /\ \/ /\ journal' = IF running[t].row THEN finish(i) ELSE journal
          /\ NoFault
          /\ UNCHANGED marks
       \/ /\ running[t].row
          /\ Fault
          /\ marks' = Marked(i, "unfinished")
          /\ UNCHANGED journal
    /\ running' = [running EXCEPT ![t] = Idle]
    /\ answered' = AnsweredBy(t, i)
    /\ UNCHANGED <<window, boot, rows, posting, lanes, watches, fired, watchers,
                   posted, typed, fate, retries, after, here, crashes>>

(***************************************************************************)
(* run_watcher.  A tick settles some watches (tick, decide): taken, on     *)
(* screen or given up are dropped; not taken fires its step.  A thread     *)
(* that saw the list empty leaves only if it still is.                     *)
(***************************************************************************)
FireRetry(S) ==
    /\ \A i \in S : retries[i[1]] < MaxRetries
    /\ fired' = fired \cup {<<i[1], retries[i[1]] + 1>> : i \in S}
    /\ retries' = [j \in Jobs |-> IF \E i \in S : i[1] = j THEN retries[j] + 1 ELSE retries[j]]

NotTaken(S) ==
    /\ FireRetry({i \in S : ~Retry(i)})
    /\ fate' = [i \in Items |-> IF i \in S /\ Retry(i) THEN fate[i] \cup {"notTaken"} ELSE fate[i]]

Tick ==
    /\ watchers.looping > 0
    /\ \E S \in SUBSET Watched : \E missed \in SUBSET S :
          /\ S # {} \/ Watched = {}
          /\ watches' = [i \in Items |-> IF i \in S THEN watches[i] - 1 ELSE watches[i]]
          /\ NotTaken(missed)
    /\ watchers' = IF watches' = NoMemory.watches
                   THEN [looping |-> watchers.looping - 1, leaving |-> watchers.leaving + 1]
                   ELSE watchers
    /\ UNCHANGED <<window, journal, boot, rows, posting, lanes, running,
                   posted, answered, typed, after, here, marks, crashes, faults>>

Leave ==
    /\ watchers.leaving > 0
    /\ watchers' = IF Watched = {}
                   THEN [watchers EXCEPT !.leaving = @ - 1]
                   ELSE [looping |-> watchers.looping + 1, leaving |-> watchers.leaving - 1]
    /\ UNCHANGED <<window, journal, boot, rows, posting, lanes, running, watches, fired, history>>

(***************************************************************************)
(* replay_on_boot: read every row, oldest first, then take them one by     *)
(* one.  Clients may post from "ready" on, so rows of this life may be in  *)
(* the snapshot.  Rows of earlier lives may by now be over                 *)
(* REPLAY_MAX_AGE_MS old, the oldest ones first, and then stay so.  A      *)
(* journal that cannot be read re-sends nothing.                           *)
(***************************************************************************)
EarlierLives == Cardinality({n \in DOMAIN journal : journal[n].item \notin here})

ReplayRead ==
    /\ boot = "ready"
    /\ \/ /\ \E tooOld \in 0 .. EarlierLives :
                journal' = [n \in DOMAIN journal |->
                              [journal[n] EXCEPT !.old = @ \/ n <= tooOld]]
          /\ rows' = journal'
          /\ marks' = [i \in Items |->
                         IF InJournal(i) /\ i \in here THEN marks[i] \cup {"overlapped"} ELSE marks[i]]
          /\ boot' = "replaying"
          /\ NoFault
       \/ /\ Fault
          /\ marks' = [i \in Items |->
                         IF InJournal(i) THEN marks[i] \cup {"unread"} ELSE marks[i]]
          /\ boot' = "done"
          /\ UNCHANGED <<journal, rows>>
    /\ UNCHANGED <<window, posting, lanes, running, watches, fired, watchers,
                   posted, answered, typed, fate, retries, after, here, crashes>>

BootFree == \A i \in Items : running[BootThread(i)] = Idle

\* Mutant: a row that started is sent again.
planAll(row) == ~row.old
\* A row that started, or is too old, is not sent again.
plan(row) == ~row.started /\ ~row.old

ReplayNext(row) == boot = "replaying" /\ BootFree /\ rows # << >> /\ row = Head(rows)

\* requeue_thread_delivery, requeue_poc_delivery: same row, same lane.  A
\* row whose job cannot be read back is dropped with a log line.
Requeue(row) ==
    /\ ReplayNext(row) /\ plan(row)
    /\ \/ /\ run_later(BootThread(row.item), row.item, TRUE)
          /\ UNCHANGED <<journal, fate>>
       \/ /\ Fault
          /\ journal' = finish(row.item)
          /\ fate' = Told(row.item, "logged")
          /\ UNCHANGED <<lanes, running>>
    /\ rows' = Tail(rows)
    /\ UNCHANGED <<window, boot, posting, watches, fired, watchers,
                   posted, answered, typed, retries, after, here, marks, crashes>>

\* abandon_thread_delivery: the Thread is told why; a project chat line, an
\* unreadable row and a notice that cannot be posted are only logged.  Then
\* the row goes.
Abandon(row) ==
    /\ ReplayNext(row) /\ ~plan(row)
    /\ \/ /\ fate' = Told(row.item, IF Kind(row.item) = "project" THEN "logged"
                                    ELSE IF row.started THEN "interrupted" ELSE "tooOld")
          /\ NoFault
       \/ /\ Kind(row.item) = "thread"
          /\ Fault
          /\ fate' = Told(row.item, "logged")
    /\ boot' = "dropping"
    /\ UNCHANGED <<window, journal, rows, posting, lanes, running, watches, fired, watchers,
                   posted, answered, typed, retries, after, here, marks, crashes>>

DropRow ==
    /\ boot = "dropping"
    /\ \/ journal' = finish(Head(rows).item) /\ NoFault /\ UNCHANGED marks
       \/ Fault /\ marks' = Marked(Head(rows).item, "unfinished") /\ UNCHANGED journal
    /\ rows' = Tail(rows)
    /\ boot' = "replaying"
    /\ UNCHANGED <<window, posting, lanes, running, watches, fired, watchers,
                   posted, answered, typed, fate, retries, after, here, crashes>>

ReplayDone ==
    /\ boot = "replaying" /\ BootFree /\ rows = << >>
    /\ boot' = "done"
    /\ UNCHANGED <<window, journal, rows, posting, lanes, running, watches, fired, watchers, history>>

Replay == ReplayRead \/ (\E n \in 1 .. Len(rows) : Requeue(rows[n]) \/ Abandon(rows[n])) \/ DropRow \/ ReplayDone

(***************************************************************************)
(* The daemon crashes (or is restarted) and boots: the journal stays.  A   *)
(* job whose mark was written is cut off.                                  *)
(***************************************************************************)
Crash ==
    /\ crashes < MaxCrashes /\ faults + crashes < MaxTrouble
    /\ crashes' = crashes + 1
    /\ boot' = NoMemory.boot
    /\ rows' = NoMemory.rows
    /\ posting' = NoMemory.posting
    /\ lanes' = NoMemory.lanes
    /\ running' = NoMemory.running
    /\ watches' = NoMemory.watches
    /\ fired' = NoMemory.fired
    /\ watchers' = NoMemory.watchers
    /\ here' = {}
    /\ marks' = [i \in Items |->
                   IF \E t \in Threads : running[t].item = i /\ running[t].at \in {"run", "watch", "finish"}
                   THEN marks[i] \cup {"cut"} ELSE marks[i]]
    /\ UNCHANGED <<window, journal, posted, answered, typed, fate, retries, after, faults>>

RunJob(t) == Started(t) \/ Typed(t) \/ NotDelivered(t) \/ Panics(t) \/ StartWatcher(t) \/ Finished(t)

Daemon ==
    \/ \E i \in Items : QueueJob(i) \/ PostRetry(i)
    \/ \E l \in Lanes : TakeNext(l) \/ LaneEnds(l)
    \/ \E t \in Threads : RunJob(t)
    \/ Tick
    \/ Leave
    \/ Replay

Next == Post \/ Daemon \/ Crash

Spec == Init /\ [][Next]_vars

(***************************************************************************)
(* Threads of a running daemon are scheduled: a post that recorded queues, *)
(* a lane takes its next job, a job ends (its waits are bounded: the       *)
(* inject lock, the wake and the retries), the watcher settles a watch (an *)
(* agent idle for the window, or busy for BUSY_CAP_MS, decides it), boot   *)
(* goes on.  Clients need not post, and nothing forces a crash.            *)
(***************************************************************************)
Fairness ==
    /\ \A i \in Items : WF_vars(QueueJob(i)) /\ WF_vars(PostRetry(i))
    /\ \A l \in Lanes : WF_vars(TakeNext(l))
    /\ \A t \in Threads : WF_vars(RunJob(t))
    /\ WF_vars(Tick)
    /\ WF_vars(Leave)
    /\ WF_vars(Replay)

FairSpec == Spec /\ Fairness
-----------------------------------------------------------------------------
Row == [item : Items, started : BOOLEAN, old : BOOLEAN]

(* Every variable has its type, and a key is present exactly while its     *)
(* lane's thread runs: no queue without a thread (LANES).                  *)
TypeOK ==
    /\ \A n \in DOMAIN journal : journal[n] \in Row
    /\ boot \in {"ready", "replaying", "dropping", "done"}
    /\ \A n \in DOMAIN rows : rows[n] \in Row
    /\ posting \in [Items -> {"no", "row", "norow"}]
    /\ \A l \in Lanes :
          /\ lanes[l].live \in BOOLEAN
          /\ \A n \in DOMAIN lanes[l].queue : lanes[l].queue[n] \in Job
          /\ ~lanes[l].live => lanes[l].queue = << >> /\ running[LaneThread(l)] = Idle
    /\ \A t \in Threads :
          running[t] = Idle \/ running[t] \in [at : {"start", "run", "watch", "finish"}, item : Items, row : BOOLEAN]
    /\ watches \in [Items -> Nat]
    /\ fired \subseteq Items
    /\ watchers \in [looping : Nat, leaving : Nat]
    /\ posted \in 0 .. N
    /\ answered \subseteq 1 .. posted
    /\ \A n \in DOMAIN typed : typed[n] \in Items
    /\ fate \in [Items -> SUBSET Fates]
    /\ retries \in [Jobs -> 0 .. MaxRetries]
    /\ marks \in [Items -> SUBSET Marks]

Times(i) == Cardinality({n \in DOMAIN typed : typed[n] = i})

(* A delivery is never typed in twice, across crashes and replays: a row   *)
(* that started is never typed again; and a line has at most one retry,    *)
(* fired already or still to come: every pending watch may fire one.  The  *)
(* exceptions are a started mark that could not be written, and a post     *)
(* recorded after ready that boot's snapshot of the journal still picked   *)
(* up, though its job was already on a lane.                               *)
TypedOnce ==
    \A i \in Items :
        marks[i] \cap {"unmarked", "overlapped"} = {} =>
            /\ Times(i) <= 1
            /\ ~Retry(i) => watches[i] + retries[i[1]] <= 1

(* Lines reach an agent in the order they were sent: a post that had       *)
(* answered before another post to the same agent was recorded is never    *)
(* typed after it, restarts included.  The exceptions are a later post     *)
(* that came while boot was still replaying older ones, and an earlier one *)
(* whose row a boot could not read or whose started mark could not be      *)
(* written.                                                                *)
InSentOrder ==
    \A b \in DOMAIN typed : \A a \in 1 .. (b - 1) :
        LET first == typed[b]  second == typed[a] IN
        /\ ~Retry(first) /\ ~Retry(second)
        /\ Lane(first) = Lane(second)
        /\ first[1] \in after[second[1]]
        => "early" \in marks[second] \/ marks[first] \cap {"unread", "unmarked"} # {}

(* The notice that K2 restarted while it was typing a line is posted only  *)
(* for a delivery that a crash cut off, whose row could not be removed, or *)
(* whose job panicked; or for one that was running when boot read the      *)
(* journal.                                                                *)
NoticeOnlyWhenCut ==
    \A i \in Items :
        "interrupted" \in fate[i] => marks[i] \cap {"cut", "unfinished", "overlapped"} # {}

(* A delivery that is in the journal is in the end typed, or its failure   *)
(* is told to the Thread or logged, whatever crashes come between; and its *)
(* watch ends.  Rows of a journal boot could not read wait for the next    *)
(* boot.                                                                   *)
Settled ==
    \A i \in Items :
        InJournal(i) ~> ((Times(i) > 0 \/ fate[i] # {}) /\ i \notin Watched) \/ "unread" \in marks[i]
=============================================================================
