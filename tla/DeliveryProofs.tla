--------------------------- MODULE DeliveryProofs ---------------------------
(***************************************************************************)
(* Proofs about Delivery: types and the lanes' keys, true notices, at most *)
(* one typing of a line, and lines in the order they were sent, across     *)
(* crashes and replays.                                                    *)
(***************************************************************************)
EXTENDS Delivery, FiniteSetTheorems, SequenceTheorems, TLAPS

-----------------------------------------------------------------------------
(***************************************************************************)
(* Items, threads and the rows of the journal.                             *)
(***************************************************************************)

(* An item names its post, and has a lane; a retry is one of a checked     *)
(* Thread post.                                                            *)
LEMMA ItemFacts ==
    /\ \A i \in Items : /\ i[1] \in Jobs /\ i[2] \in 0..MaxRetries /\ i = <<i[1], i[2]>>
                        /\ i[1] \in Nat /\ i[1] >= 1 /\ i[1] <= N
                        /\ Lane(i) \in Lanes /\ Retry(i) \in BOOLEAN
                        /\ ~Retry(i) <=> i[2] = 0
    /\ \A j \in Jobs : <<j, 0>> \in Items /\ ~Retry(<<j, 0>>)
    /\ \A j \in Checked : \A n \in 1..MaxRetries : <<j, n>> \in Items /\ Retry(<<j, n>>)
    /\ NoItem \notin Items
<1>1. ASSUME NEW i \in Items
      PROVE  /\ i[1] \in Jobs /\ i[2] \in 0..MaxRetries /\ i = <<i[1], i[2]>>
  BY DeliveryAssumption DEF Items, Jobs, Checked
<1>2. \A j \in Jobs : j \in Nat /\ j >= 1 /\ j <= N
  BY DeliveryAssumption DEF Jobs
<1>3. ASSUME NEW i \in Items PROVE Lane(i) \in Lanes
  BY <1>1, DeliveryAssumption DEF Lane
<1>4. \A i \in Items : Retry(i) \in BOOLEAN /\ (~Retry(i) <=> i[2] = 0)
  BY <1>1, DeliveryAssumption DEF Retry
<1>5. \A j \in Jobs : <<j, 0>> \in Items /\ ~Retry(<<j, 0>>)
  BY DEF Items, Retry
<1>6. \A j \in Checked : \A n \in 1..MaxRetries : <<j, n>> \in Items /\ Retry(<<j, n>>)
  BY DeliveryAssumption DEF Items, Retry
<1>7. NoItem \notin Items
  <2> SUFFICES ASSUME NoItem \in Items PROVE FALSE
    OBVIOUS
  <2>1. NoItem[1] \in Jobs
    BY <1>1
  <2> QED
    BY <2>1, <1>2 DEF NoItem
<1> QED
  BY <1>1, <1>2, <1>3, <1>4, <1>5, <1>6, <1>7

Busy == [at : {"start", "run", "watch", "finish"}, item : Items, row : BOOLEAN]

(* The threads: lanes, posts and boot have their own.                      *)
LEMMA ThreadFacts ==
    /\ \A l \in Lanes : LaneThread(l) \in Threads
    /\ \A i \in Items : PostThread(i) \in Threads /\ BootThread(i) \in Threads
    /\ \A l \in Lanes : \A i \in Items : /\ LaneThread(l) # PostThread(i)
                                         /\ LaneThread(l) # BootThread(i)
    /\ \A i, k \in Items : PostThread(i) # BootThread(k) /\ (PostThread(i) = PostThread(k) => i = k)
    /\ \A l, k \in Lanes : LaneThread(l) = LaneThread(k) => l = k
    /\ Idle \notin Busy
    /\ \A b \in Busy : b.at # "idle" /\ b # Idle
    /\ Idle.at = "idle" /\ Idle.item = NoItem /\ Idle.row = FALSE
<1>1. /\ \A l \in Lanes : LaneThread(l) \in Threads
      /\ \A i \in Items : PostThread(i) \in Threads /\ BootThread(i) \in Threads
  BY DEF LaneThread, PostThread, BootThread, Threads
<1>2. /\ \A l \in Lanes : \A i \in Items : /\ LaneThread(l) # PostThread(i)
                                           /\ LaneThread(l) # BootThread(i)
      /\ \A i, k \in Items : PostThread(i) # BootThread(k) /\ (PostThread(i) = PostThread(k) => i = k)
      /\ \A l, k \in Lanes : LaneThread(l) = LaneThread(k) => l = k
  BY DEF LaneThread, PostThread, BootThread
<1>3. /\ Idle \notin Busy
      /\ \A b \in Busy : b.at # "idle" /\ b # Idle
      /\ Idle.at = "idle" /\ Idle.item = NoItem /\ Idle.row = FALSE
  BY DEF Idle, Busy
<1> QED
  BY <1>1, <1>2, <1>3

(* Removing one element of a sequence closes the gap.                      *)
LEMMA RemoveAtFacts ==
    ASSUME NEW S, NEW s \in Seq(S), NEW k \in DOMAIN s
    PROVE  /\ RemoveAt(s, k) \in Seq(S)
           /\ DOMAIN RemoveAt(s, k) = 1..(Len(s) - 1)
           /\ \A n \in 1..(Len(s) - 1) : RemoveAt(s, k)[n] = IF n < k THEN s[n] ELSE s[n + 1]
<1> DEFINE a == SubSeq(s, 1, k - 1)
           b == SubSeq(s, k + 1, Len(s))
<1>1. Len(s) \in Nat /\ k \in 1..Len(s)
  OBVIOUS
<1>2. a \in Seq(S) /\ Len(a) = k - 1 /\ \A n \in 1..(k - 1) : a[n] = s[n]
  BY <1>1
<1>3. b \in Seq(S) /\ Len(b) = Len(s) - k /\ \A n \in 1..(Len(s) - k) : b[n] = s[k + n]
  BY <1>1
<1> HIDE DEF a, b
<1>4. RemoveAt(s, k) = a \o b
  BY DEF RemoveAt, a, b
<1>5. a \o b \in Seq(S) /\ Len(a \o b) = Len(a) + Len(b)
  BY <1>2, <1>3, ConcatProperties
<1>6. \A n \in 1..(Len(a) + Len(b)) : (a \o b)[n] = IF n <= Len(a) THEN a[n] ELSE b[n - Len(a)]
  BY <1>2, <1>3, ConcatProperties
<1>7. Len(a) + Len(b) = Len(s) - 1
  BY <1>1, <1>2, <1>3
<1>8. ASSUME NEW n \in 1..(Len(s) - 1) PROVE (a \o b)[n] = IF n < k THEN s[n] ELSE s[n + 1]
  <2>1. CASE n < k
    BY <1>1, <1>2, <1>6, <1>7, <2>1
  <2>2. CASE ~(n < k)
    <3>1. n - Len(a) \in 1..(Len(s) - k) /\ k + (n - Len(a)) = n + 1 /\ ~(n <= Len(a))
      BY <1>1, <1>2, <2>2
    <3> QED
      BY <1>3, <1>6, <1>7, <2>2, <3>1
  <2> QED
    BY <2>1, <2>2
<1>9. DOMAIN (a \o b) = 1..(Len(s) - 1)
  BY <1>5, <1>7
<1> QED
  BY <1>4, <1>5, <1>8, <1>9

(* The rows of a sequence of rows have different items.                    *)
Distinct(s) == \A n, k \in DOMAIN s : s[n].item = s[k].item => n = k

(* The rows of posts are in the order of the posts.                        *)
Sorted(s) ==
    \A n, k \in DOMAIN s :
        n < k /\ ~Retry(s[n].item) /\ ~Retry(s[k].item) => s[n].item[1] < s[k].item[1]

(* finish takes no row but one of the item away, and all of them when the  *)
(* items of the journal are different.                                     *)
LEMMA FinishFacts ==
    ASSUME journal \in Seq(Row), NEW i
    PROVE  /\ finish(i) \in Seq(Row)
           /\ \A n \in DOMAIN finish(i) : \E m \in DOMAIN journal : finish(i)[n] = journal[m]
           /\ Distinct(journal) =>
                 /\ Distinct(finish(i))
                 /\ \A n \in DOMAIN finish(i) : finish(i)[n].item # i
           /\ Sorted(journal) => Sorted(finish(i))
<1>1. CASE ~InJournal(i)
  <2>1. finish(i) = journal
    BY <1>1 DEF finish
  <2>2. \A n \in DOMAIN journal : journal[n].item # i
    BY <1>1 DEF InJournal, RowsOf
  <2> QED
    BY <2>1, <2>2
<1>2. CASE InJournal(i)
  <2> DEFINE k == RowOf(i)
             f == RemoveAt(journal, k)
  <2>1. k \in DOMAIN journal /\ journal[k].item = i
    BY <1>2 DEF InJournal, RowsOf, RowOf
  <2>2. finish(i) = f
    BY <1>2 DEF finish
  <2>3. /\ f \in Seq(Row)
        /\ DOMAIN f = 1..(Len(journal) - 1)
        /\ \A n \in 1..(Len(journal) - 1) : f[n] = IF n < k THEN journal[n] ELSE journal[n + 1]
    BY <2>1, RemoveAtFacts
  <2>4. Len(journal) \in Nat /\ DOMAIN journal = 1..Len(journal) /\ k \in 1..Len(journal)
    BY <2>1
  <2> HIDE DEF f, k
  <2>5. ASSUME NEW n \in DOMAIN f
        PROVE  \E m \in DOMAIN journal : /\ f[n] = journal[m] /\ m # k
                                         /\ m = IF n < k THEN n ELSE n + 1
    <3>1. n \in 1..(Len(journal) - 1)
      BY <2>3
    <3>2. CASE n < k
      BY <2>3, <2>4, <3>1, <3>2
    <3>3. CASE ~(n < k)
      BY <2>3, <2>4, <3>1, <3>3
    <3> QED
      BY <3>2, <3>3
  <2>6. ASSUME Distinct(journal) PROVE Distinct(f) /\ \A n \in DOMAIN f : f[n].item # i
    <3>1. \A n \in DOMAIN f : f[n].item # i
      BY <2>1, <2>5, <2>6 DEF Distinct
    <3>2. ASSUME NEW n \in DOMAIN f, NEW p \in DOMAIN f, f[n].item = f[p].item PROVE n = p
      <4>1. PICK m \in DOMAIN journal : f[n] = journal[m] /\ m = IF n < k THEN n ELSE n + 1
        BY <2>5
      <4>2. PICK q \in DOMAIN journal : f[p] = journal[q] /\ q = IF p < k THEN p ELSE p + 1
        BY <2>5
      <4>3. m = q
        BY <2>6, <3>2, <4>1, <4>2 DEF Distinct
      <4>4. n \in Nat /\ p \in Nat
        BY <2>3, <2>4
      <4> QED
        BY <2>4, <4>1, <4>2, <4>3, <4>4
    <3> QED
      BY <3>1, <3>2 DEF Distinct
  <2>7. ASSUME Sorted(journal) PROVE Sorted(f)
    <3> SUFFICES ASSUME NEW n \in DOMAIN f, NEW p \in DOMAIN f, n < p,
                        ~Retry(f[n].item), ~Retry(f[p].item)
                 PROVE  f[n].item[1] < f[p].item[1]
      BY DEF Sorted
    <3>1. PICK m \in DOMAIN journal : f[n] = journal[m] /\ m = IF n < k THEN n ELSE n + 1
      BY <2>5
    <3>2. PICK q \in DOMAIN journal : f[p] = journal[q] /\ q = IF p < k THEN p ELSE p + 1
      BY <2>5
    <3>3. n \in Nat /\ p \in Nat
      BY <2>3, <2>4
    <3>4. m < q
      BY <2>4, <3>1, <3>2, <3>3
    <3> QED
      BY <2>7, <3>1, <3>2, <3>4 DEF Sorted
  <2> QED
    BY <2>2, <2>3, <2>5, <2>6, <2>7
<1> QED
  BY <1>1, <1>2

(* mark_started marks the rows of the item, and nothing else.              *)
LEMMA MarkStartedFacts ==
    ASSUME journal \in Seq(Row), NEW i
    PROVE  /\ mark_started(i) \in Seq(Row)
           /\ DOMAIN mark_started(i) = DOMAIN journal
           /\ \A n \in DOMAIN journal :
                 /\ mark_started(i)[n].item = journal[n].item
                 /\ mark_started(i)[n].started = (journal[n].started \/ journal[n].item = i)
                 /\ mark_started(i)[n].old = journal[n].old
<1> DEFINE m == mark_started(i)
<1>1. \A n \in DOMAIN journal : journal[n] \in Row
  OBVIOUS
<1>2. DOMAIN m = DOMAIN journal
  BY DEF mark_started
<1>3. ASSUME NEW n \in DOMAIN journal
      PROVE  /\ m[n] \in Row /\ m[n].item = journal[n].item
             /\ m[n].started = (journal[n].started \/ journal[n].item = i)
             /\ m[n].old = journal[n].old
  <2>1. m[n] = IF journal[n].item = i THEN [journal[n] EXCEPT !.started = TRUE] ELSE journal[n]
    BY DEF mark_started
  <2>2. journal[n] \in Row /\ journal[n].started \in BOOLEAN
    BY <1>1 DEF Row
  <2>3. CASE journal[n].item = i
    <3>1. m[n] = [journal[n] EXCEPT !.started = TRUE]
      BY <2>1, <2>3
    <3>2. m[n] \in Row /\ m[n].item = journal[n].item /\ m[n].started = TRUE /\ m[n].old = journal[n].old
      BY <2>2, <3>1 DEF Row
    <3> QED
      BY <2>3, <3>2
  <2>4. CASE journal[n].item # i
    BY <2>1, <2>2, <2>4
  <2> QED
    BY <2>3, <2>4
<1>4. m \in Seq(Row)
  <2>1. m = [n \in 1..Len(journal) |-> m[n]]
    BY DEF mark_started
  <2>2. \A n \in 1..Len(journal) : m[n] \in Row
    BY <1>3
  <2>3. Len(journal) \in Nat
    OBVIOUS
  <2> HIDE DEF m
  <2> QED
    BY <2>1, <2>2, <2>3, IsASeq
<1> QED
  BY <1>2, <1>3, <1>4
-----------------------------------------------------------------------------
(***************************************************************************)
(* The type invariant: the types of TypeOK with the sequences as such, and *)
(* what they need to be preserved: whatever is under way was posted, what  *)
(* is watched may be retried, and boot drops a row it has.                 *)
(***************************************************************************)
Posted(i) == i[1] <= posted

Disk ==
    /\ window \in BOOLEAN
    /\ journal \in Seq(Row) /\ \A n \in DOMAIN journal : Posted(journal[n].item)
    /\ boot \in {"ready", "replaying", "dropping", "done"}
    /\ rows \in Seq(Row) /\ \A n \in DOMAIN rows : Posted(rows[n].item)
    /\ boot = "dropping" => rows # << >>

Work ==
    /\ lanes \in [Lanes -> [live : BOOLEAN, queue : Seq(Job)]]
    /\ \A l \in Lanes : \A n \in DOMAIN lanes[l].queue : Posted(lanes[l].queue[n].item)
    /\ \A l \in Lanes : ~lanes[l].live => lanes[l].queue = << >> /\ running[LaneThread(l)] = Idle
    /\ running \in [Threads -> Busy \cup {Idle}]
    /\ \A t \in Threads : running[t] # Idle => Posted(running[t].item)

Waiting ==
    /\ posting \in [Items -> {"no", "row", "norow"}]
    /\ \A i \in Items : posting[i] # "no" => Posted(i)
    /\ fired \subseteq Items /\ \A i \in fired : Posted(i)

Watching ==
    /\ watches \in [Items -> Nat]
    /\ \A i \in Items : watches[i] > 0 => Posted(i) /\ Kind(i) = "thread" /\ window
    /\ watchers \in [looping : Nat, leaving : Nat]
    /\ retries \in [Jobs -> 0 .. MaxRetries]

Chronicle ==
    /\ posted \in 0 .. N /\ (window => posted <= NChecked)
    /\ answered \subseteq 1 .. posted
    /\ typed \in Seq(Items)
    /\ fate \in [Items -> SUBSET Fates]
    /\ after \in [Jobs -> SUBSET Jobs]
    /\ here \subseteq Items
    /\ marks \in [Items -> SUBSET Marks]
    /\ crashes \in Nat /\ faults \in Nat

DelTypes == Disk /\ Work /\ Waiting /\ Watching /\ Chronicle

(* The type invariant is the one the runs check, and more.                 *)
LEMMA TypesMore == DelTypes => TypeOK
<1> SUFFICES ASSUME DelTypes PROVE TypeOK
  OBVIOUS
<1>1. /\ \A n \in DOMAIN journal : journal[n] \in Row
      /\ boot \in {"ready", "replaying", "dropping", "done"}
      /\ \A n \in DOMAIN rows : rows[n] \in Row
  BY DEF DelTypes, Disk
<1>2. ASSUME NEW l \in Lanes
      PROVE  /\ lanes[l].live \in BOOLEAN
             /\ \A n \in DOMAIN lanes[l].queue : lanes[l].queue[n] \in Job
             /\ ~lanes[l].live => lanes[l].queue = << >> /\ running[LaneThread(l)] = Idle
  <2>1. lanes[l].live \in BOOLEAN /\ lanes[l].queue \in Seq(Job)
    BY DEF DelTypes, Work
  <2> QED
    BY <2>1 DEF DelTypes, Work
<1>3. \A t \in Threads : running[t] = Idle \/ running[t] \in Busy
  BY DEF DelTypes, Work
<1>4. typed \in Seq(Items)
  BY DEF DelTypes, Chronicle
<1> QED
  BY <1>1, <1>2, <1>3, <1>4 DEF DelTypes, Waiting, Watching, Chronicle, TypeOK, Busy

(* The empty memory of a daemon that starts.                               *)
LEMMA NoMemoryFacts ==
    /\ NoMemory.boot = "ready" /\ NoMemory.rows = << >>
    /\ NoMemory.posting = [i \in Items |-> "no"]
    /\ NoMemory.lanes = [l \in Lanes |-> [live |-> FALSE, queue |-> << >>]]
    /\ NoMemory.running = [t \in Threads |-> Idle]
    /\ NoMemory.watches = [i \in Items |-> 0]
    /\ NoMemory.fired = {}
    /\ NoMemory.watchers = [looping |-> 0, leaving |-> 0]
    /\ NoMemory.lanes \in [Lanes -> [live : BOOLEAN, queue : Seq(Job)]]
    /\ NoMemory.rows \in Seq(Row)
<1>1. << >> \in Seq(Job) /\ << >> \in Seq(Row)
  OBVIOUS
<1> QED
  BY <1>1 DEF NoMemory

(* Before the first line is posted everything is of its type.              *)
LEMMA TypesInit == Init => DelTypes
<1> SUFFICES ASSUME Init PROVE DelTypes
  OBVIOUS
<1>1. Disk
  BY NoMemoryFacts DEF Init, Disk
<1>2. Work
  <2>1. \A l \in Lanes : lanes[l] = [live |-> FALSE, queue |-> << >>] /\ running[LaneThread(l)] = Idle
    BY NoMemoryFacts, ThreadFacts DEF Init
  <2>2. \A l \in Lanes : lanes[l].queue = << >>
    BY <2>1
  <2> QED
    BY <2>1, <2>2, NoMemoryFacts DEF Init, Work
<1>3. Waiting
  BY NoMemoryFacts DEF Init, Waiting
<1>4. Watching
  BY NoMemoryFacts, DeliveryAssumption DEF Init, Watching
<1>5. Chronicle
  BY DeliveryAssumption DEF Init, Chronicle
<1> QED
  BY <1>1, <1>2, <1>3, <1>4, <1>5 DEF DelTypes

(* What a busy thread holds.                                               *)
LEMMA BusyFacts ==
    ASSUME DelTypes, NEW t \in Threads
    PROVE  /\ running[t] # Idle <=> running[t].at # "idle"
           /\ running[t].at # "idle" => /\ running[t] \in Busy
                                        /\ running[t].item \in Items /\ Posted(running[t].item)
                                        /\ running[t].row \in BOOLEAN
           /\ running[t].at = "idle" => running[t].item \notin Items /\ ~running[t].row
<1>1. running[t] = Idle \/ running[t] \in Busy
  BY DEF DelTypes, Work
<1>2. running[t] # Idle => Posted(running[t].item)
  BY DEF DelTypes, Work
<1> QED
  BY <1>1, <1>2, ThreadFacts, ItemFacts DEF Busy

(* What rows and queued jobs hold.                                         *)
LEMMA HeldFacts ==
    ASSUME DelTypes
    PROVE  /\ \A n \in DOMAIN journal : journal[n] \in Row /\ journal[n].item \in Items /\ journal[n].started \in BOOLEAN
           /\ \A n \in DOMAIN rows : rows[n] \in Row /\ rows[n].item \in Items /\ rows[n].started \in BOOLEAN
           /\ \A l \in Lanes : /\ lanes[l].queue \in Seq(Job) /\ lanes[l].live \in BOOLEAN
                               /\ \A n \in DOMAIN lanes[l].queue :
                                     /\ lanes[l].queue[n].item \in Items
                                     /\ lanes[l].queue[n].row \in BOOLEAN
<1>1. /\ \A n \in DOMAIN journal : journal[n] \in Row
      /\ \A n \in DOMAIN rows : rows[n] \in Row
  BY DEF DelTypes, Disk
<1>2. \A r \in Row : r.item \in Items /\ r.started \in BOOLEAN
  BY DEF Row
<1>3. \A l \in Lanes : lanes[l].queue \in Seq(Job) /\ lanes[l].live \in BOOLEAN
  BY DEF DelTypes, Work
<1>4. \A l \in Lanes : \A n \in DOMAIN lanes[l].queue : lanes[l].queue[n] \in Job
  BY <1>3
<1>5. \A b \in Job : b.item \in Items /\ b.row \in BOOLEAN
  BY DEF Job
<1> QED
  BY <1>1, <1>2, <1>3, <1>4, <1>5

(* record: what it may do to the journal and the posts under way.          *)
LEMMA RecordTypes ==
    ASSUME DelTypes, NEW i \in Items, record(i)
    PROVE  /\ journal' \in Seq(Row)
           /\ \A n \in DOMAIN journal' :
                 journal'[n].item = i \/ \E m \in DOMAIN journal : journal'[n] = journal[m]
           /\ posting' \in [Items -> {"no", "row", "norow"}]
           /\ \A k \in Items : posting'[k] # "no" => k = i \/ posting[k] # "no"
           /\ here' \subseteq Items
           /\ marks' \in [Items -> SUBSET Marks]
           /\ faults' \in Nat
<1> DEFINE row == [item |-> i, started |-> FALSE, old |-> FALSE]
<1>1. journal \in Seq(Row) /\ row \in Row
  BY DEF DelTypes, Disk, Row
<1>2. posting \in [Items -> {"no", "row", "norow"}]
  BY DEF DelTypes, Waiting
<1>3. here \subseteq Items /\ marks \in [Items -> SUBSET Marks] /\ faults \in Nat
  BY DEF DelTypes, Chronicle
<1>4. CASE /\ journal' = Append(journal, row)
           /\ posting' = [posting EXCEPT ![i] = "row"]
           /\ here' = here \cup {i}
           /\ marks' = IF boot = "done" THEN marks ELSE Marked(i, "early")
           /\ NoFault
  <2>1. /\ journal' \in Seq(Row)
        /\ \A n \in DOMAIN journal' :
              journal'[n].item = i \/ \E m \in DOMAIN journal : journal'[n] = journal[m]
    BY <1>1, <1>4, AppendProperties
  <2>2. marks' \in [Items -> SUBSET Marks]
    BY <1>3, <1>4 DEF Marked, Marks
  <2> QED
    BY <1>2, <1>3, <1>4, <2>1, <2>2 DEF NoFault
<1>5. CASE /\ Fault
           /\ posting' = [posting EXCEPT ![i] = "norow"]
           /\ marks' = [marks EXCEPT ![i] = @ \cup {"unjournaled"}
                                          \cup (IF boot = "done" THEN {} ELSE {"early"})]
           /\ UNCHANGED <<journal, here>>
  <2>1. marks' \in [Items -> SUBSET Marks]
    BY <1>3, <1>5 DEF Marks
  <2> QED
    BY <1>1, <1>2, <1>3, <1>5, <2>1 DEF Fault
<1> QED
  BY <1>4, <1>5 DEF record

(* run_later: the job is queued on its lane, whose key is then present, or *)
(* runs on the thread given.                                               *)
LEMMA RunLaterTypes ==
    ASSUME DelTypes, NEW i \in Items, Posted(i), NEW t \in {PostThread(i), BootThread(i)},
           NEW row \in BOOLEAN, run_later(t, i, row), posted' = posted
    PROVE  Work' /\ faults' \in Nat
<1> DEFINE job == [item |-> i, row |-> row]
           l0 == Lane(i)
<1>1. l0 \in Lanes /\ t \in Threads /\ job \in Job
  BY ItemFacts, ThreadFacts DEF Job
<1>2. /\ lanes \in [Lanes -> [live : BOOLEAN, queue : Seq(Job)]]
      /\ running \in [Threads -> Busy \cup {Idle}]
      /\ faults \in Nat
  BY DEF DelTypes, Work, Chronicle
<1>3. CASE /\ lanes' = [lanes EXCEPT ![l0] = [live |-> TRUE, queue |-> Append(@.queue, job)]]
           /\ NoFault
           /\ UNCHANGED running
  <2> DEFINE q == lanes[l0].queue
  <2>1. q \in Seq(Job)
    BY <1>1, <1>2
  <2>2. Append(q, job) \in Seq(Job)
    BY <1>1, <2>1, AppendProperties
  <2>3. lanes' = [lanes EXCEPT ![l0] = [live |-> TRUE, queue |-> Append(q, job)]]
    BY <1>3
  <2>4. [live |-> TRUE, queue |-> Append(q, job)] \in [live : BOOLEAN, queue : Seq(Job)]
    BY <2>2
  <2>5. lanes' \in [Lanes -> [live : BOOLEAN, queue : Seq(Job)]]
    BY <1>2, <2>3, <2>4
  <2>6. lanes'[l0].live /\ lanes'[l0].queue = Append(q, job)
    BY <1>1, <1>2, <2>3
  <2>7. \A l \in Lanes : l # l0 => lanes'[l] = lanes[l]
    BY <1>2, <2>3
  <2>8. \A n \in DOMAIN Append(q, job) : Append(q, job)[n] = job \/ \E m \in DOMAIN q : Append(q, job)[n] = q[m]
    BY <1>1, <2>1, AppendProperties
  <2>9. \A n \in DOMAIN Append(q, job) : Append(q, job)[n].item[1] <= posted
    <3>1. \A m \in DOMAIN q : q[m].item[1] <= posted
      BY <1>1 DEF DelTypes, Work, Posted
    <3>2. job.item[1] <= posted
      BY DEF Posted
    <3> HIDE DEF q, job
    <3> QED
      BY <2>8, <3>1, <3>2
  <2>10. \A l \in Lanes : \A n \in DOMAIN lanes'[l].queue : lanes'[l].queue[n].item[1] <= posted'
    BY <2>6, <2>7, <2>9 DEF DelTypes, Work, Posted
  <2>11. \A l \in Lanes : ~lanes'[l].live => lanes'[l].queue = << >> /\ running'[LaneThread(l)] = Idle
    BY <1>3, <2>6, <2>7 DEF DelTypes, Work
  <2>12. running' \in [Threads -> Busy \cup {Idle}]
    BY <1>2, <1>3
  <2>13. \A u \in Threads : running'[u] # Idle => running'[u].item[1] <= posted'
    BY <1>3 DEF DelTypes, Work, Posted
  <2> QED
    BY <1>2, <1>3, <2>5, <2>10, <2>11, <2>12, <2>13 DEF Work, Posted, NoFault
<1>4. CASE /\ ~lanes[l0].live
           /\ Fault
           /\ running' = [running EXCEPT ![t] = [at |-> "start", item |-> i, row |-> row]]
           /\ UNCHANGED lanes
  <2> DEFINE b == [at |-> "start", item |-> i, row |-> row]
  <2>1. b \in Busy /\ b.item = i
    BY DEF Busy
  <2>2. running' \in [Threads -> Busy \cup {Idle}] /\ running'[t] = b
    BY <1>1, <1>2, <1>4, <2>1
  <2>3. \A u \in Threads : u # t => running'[u] = running[u]
    BY <1>2, <1>4
  <2> HIDE DEF b
  <2>4. \A l \in Lanes : running'[LaneThread(l)] = running[LaneThread(l)]
    BY <2>3, ThreadFacts
  <2>5. \A u \in Threads : running'[u] # Idle => running'[u].item[1] <= posted'
    BY <2>1, <2>2, <2>3 DEF DelTypes, Work, Posted
  <2> QED
    BY <1>2, <1>4, <2>2, <2>4, <2>5 DEF DelTypes, Work, Posted, Fault
<1> QED
  BY <1>3, <1>4 DEF run_later
(* A step of the job on a thread: its next step, or the end of the job.    *)
LEMMA ThreadMoves ==
    ASSUME DelTypes, NEW t \in Threads, running[t].at # "idle",
           NEW s \in {"start", "run", "watch", "finish"},
           \/ running' = [running EXCEPT ![t].at = s]
           \/ running' = [running EXCEPT ![t] = Idle],
           UNCHANGED <<lanes, posted>>
    PROVE  /\ Work'
           /\ \A u \in Threads : u # t => running'[u] = running[u]
           /\ running'[t] = Idle \/ /\ running'[t].item = running[t].item
                                    /\ running'[t].row = running[t].row
                                    /\ running'[t].at = s
<1>1. /\ running \in [Threads -> Busy \cup {Idle}]
      /\ running[t] \in Busy /\ Posted(running[t].item)
  BY BusyFacts DEF DelTypes, Work
<1>2. \A u \in Threads : u # t => running'[u] = running[u]
  BY <1>1
<1>3. \/ running'[t] = Idle
      \/ /\ running'[t] \in Busy /\ running'[t].item = running[t].item
         /\ running'[t].row = running[t].row /\ running'[t].at = s
  <2>1. CASE running' = [running EXCEPT ![t].at = s]
    <3>1. running'[t] = [running[t] EXCEPT !.at = s]
      BY <1>1, <2>1
    <3> QED
      BY <1>1, <3>1 DEF Busy
  <2>2. CASE running' = [running EXCEPT ![t] = Idle]
    BY <1>1, <2>2
  <2> QED
    BY <2>1, <2>2
<1>4. DOMAIN running' = Threads
  BY <1>1
<1>5. running' \in [Threads -> Busy \cup {Idle}]
  <2>1. \A u \in Threads : running'[u] \in Busy \cup {Idle}
    BY <1>1, <1>2, <1>3
  <2>2. running' = [u \in Threads |-> running'[u]]
    BY <1>1
  <2> QED
    BY <2>1, <2>2
<1>6. \A u \in Threads : running'[u] # Idle => running'[u].item[1] <= posted'
  BY <1>1, <1>2, <1>3 DEF DelTypes, Work, Posted
<1>7. \A u \in Threads : running[u] = Idle => running'[u] = Idle
  BY <1>1, <1>2, ThreadFacts
<1>8. \A l \in Lanes : ~lanes[l].live => lanes[l].queue = << >> /\ running'[LaneThread(l)] = Idle
  BY <1>7, ThreadFacts DEF DelTypes, Work
<1>9. \A l \in Lanes : \A n \in DOMAIN lanes[l].queue : lanes[l].queue[n].item[1] <= posted
  BY DEF DelTypes, Work, Posted
<1> QED
  BY <1>2, <1>3, <1>5, <1>6, <1>8, <1>9 DEF DelTypes, Work, Posted

(* Each step keeps the types.  A new line is posted and journaled.         *)
LEMMA PostTypes == DelTypes /\ Post => DelTypes'
<1> SUFFICES ASSUME DelTypes, Post PROVE DelTypes'
  OBVIOUS
<1> DEFINE j == posted + 1
<1>1. /\ posted \in Nat /\ j \in Jobs /\ posted' = j /\ posted' \in 0..N /\ posted < posted'
      /\ window' = window /\ (window => j <= NChecked) /\ answered \subseteq 1..posted
  BY DeliveryAssumption DEF DelTypes, Chronicle, Post, Jobs
<1>2. <<j, 0>> \in Items /\ <<j, 0>>[1] <= posted'
  BY <1>1, ItemFacts
<1>3. record(<<j, 0>>)
  BY DEF Post
<1>4. \A i \in Items : Posted(i) => i[1] <= posted'
  BY <1>1, ItemFacts DEF Posted
<1> HIDE DEF j
<1>5. Disk'
  <2>1. /\ journal' \in Seq(Row)
        /\ \A n \in DOMAIN journal' :
              journal'[n].item = <<j, 0>> \/ \E m \in DOMAIN journal : journal'[n] = journal[m]
    BY <1>2, <1>3, RecordTypes
  <2>2. \A m \in DOMAIN journal : journal[m].item \in Items
    BY HeldFacts
  <2>3. \A n \in DOMAIN journal' : journal'[n].item[1] <= posted'
    BY <1>2, <1>4, <2>1, <2>2 DEF DelTypes, Disk
  <2>4. \A n \in DOMAIN rows : rows[n].item \in Items
    BY HeldFacts
  <2>5. \A n \in DOMAIN rows' : rows'[n].item[1] <= posted'
    BY <1>4, <2>4 DEF DelTypes, Disk, Post
  <2> QED
    BY <2>1, <2>3, <2>5 DEF DelTypes, Disk, Posted, Post
<1>6. Work'
  <2>1. \A l \in Lanes : \A n \in DOMAIN lanes[l].queue : lanes[l].queue[n].item \in Items
    BY HeldFacts
  <2>2. \A l \in Lanes : \A n \in DOMAIN lanes[l].queue : lanes[l].queue[n].item[1] <= posted'
    BY <1>4, <2>1 DEF DelTypes, Work
  <2>3. \A t \in Threads : running[t] # Idle => running[t].item[1] <= posted'
    BY <1>4, BusyFacts
  <2>4. lanes' = lanes /\ running' = running
    BY DEF Post
  <2> QED
    BY <2>2, <2>3, <2>4 DEF DelTypes, Work, Posted
<1>7. Waiting'
  <2>1. /\ posting' \in [Items -> {"no", "row", "norow"}]
        /\ \A k \in Items : posting'[k] # "no" => k = <<j, 0>> \/ posting[k] # "no"
    BY <1>2, <1>3, RecordTypes
  <2>2. \A i \in Items : posting'[i] # "no" => i[1] <= posted'
    BY <1>2, <1>4, <2>1 DEF DelTypes, Waiting
  <2>3. fired' = fired
    BY DEF Post
  <2> QED
    BY <1>4, <2>1, <2>2, <2>3 DEF DelTypes, Waiting, Posted
<1>8. Watching'
  <2>1. watches' = watches /\ watchers' = watchers /\ retries' = retries /\ window' = window
    BY DEF Post
  <2> QED
    BY <1>4, <2>1 DEF DelTypes, Watching, Posted
<1>9. Chronicle'
  <2>1. after' \in [Jobs -> SUBSET Jobs]
    <3>1. answered \in SUBSET Jobs
      <4>1. \A x \in answered : x \in 1..posted
        BY <1>1
      <4>2. posted \in Nat /\ posted <= N /\ N \in Nat
        BY DeliveryAssumption DEF DelTypes, Chronicle
      <4> QED
        BY <4>1, <4>2 DEF Jobs
    <3>2. after' = [after EXCEPT ![j] = answered] /\ after \in [Jobs -> SUBSET Jobs]
      BY DEF DelTypes, Chronicle, Post, j
    <3> QED
      BY <1>1, <3>1, <3>2
  <2>2. answered' \subseteq 1..posted'
    BY <1>1 DEF Post
  <2>3. here' \subseteq Items /\ marks' \in [Items -> SUBSET Marks] /\ faults' \in Nat
    BY <1>2, <1>3, RecordTypes
  <2> QED
    BY <1>1, <2>1, <2>2, <2>3 DEF DelTypes, Chronicle, Post
<1> QED
  BY <1>5, <1>6, <1>7, <1>8, <1>9 DEF DelTypes

(* The retry of an unconfirmed line is posted.                             *)
LEMMA PostRetryTypes ==
    ASSUME DelTypes, NEW i \in Items, PostRetry(i) PROVE DelTypes'
<1>1. record(i) /\ i \in fired /\ Posted(i)
  BY DEF PostRetry, DelTypes, Waiting
<1>2. /\ window' = window /\ boot' = boot /\ rows' = rows /\ lanes' = lanes /\ running' = running
      /\ watches' = watches /\ watchers' = watchers /\ posted' = posted /\ answered' = answered
      /\ typed' = typed /\ fate' = fate /\ retries' = retries /\ after' = after
      /\ crashes' = crashes /\ fired' = fired \ {i}
  BY DEF PostRetry
<1>3. Disk'
  <2>1. /\ journal' \in Seq(Row)
        /\ \A n \in DOMAIN journal' :
              journal'[n].item = i \/ \E m \in DOMAIN journal : journal'[n] = journal[m]
    BY <1>1, RecordTypes
  <2>2. \A n \in DOMAIN journal' : journal'[n].item[1] <= posted
    BY <1>1, <2>1 DEF DelTypes, Disk, Posted
  <2> QED
    BY <1>2, <2>1, <2>2 DEF DelTypes, Disk, Posted
<1>4. Work'
  BY <1>2 DEF DelTypes, Work, Posted
<1>5. Waiting'
  <2>1. /\ posting' \in [Items -> {"no", "row", "norow"}]
        /\ \A k \in Items : posting'[k] # "no" => k = i \/ posting[k] # "no"
    BY <1>1, RecordTypes
  <2> QED
    BY <1>1, <1>2, <2>1 DEF DelTypes, Waiting, Posted
<1>6. Watching'
  BY <1>2 DEF DelTypes, Watching, Posted
<1>7. Chronicle'
  <2>1. here' \subseteq Items /\ marks' \in [Items -> SUBSET Marks] /\ faults' \in Nat
    BY <1>1, RecordTypes
  <2> QED
    BY <1>2, <2>1 DEF DelTypes, Chronicle
<1> QED
  BY <1>3, <1>4, <1>5, <1>6, <1>7 DEF DelTypes

(* A posted line is handed to its lane or to a thread of its own.          *)
LEMMA QueueJobTypes ==
    ASSUME DelTypes, NEW i \in Items, QueueJob(i) PROVE DelTypes'
<1>1. /\ run_later(PostThread(i), i, posting[i] = "row") /\ posting[i] # "no" /\ Posted(i)
      /\ (posting[i] = "row") \in BOOLEAN
  BY DEF QueueJob, DelTypes, Waiting
<1>2. /\ window' = window /\ journal' = journal /\ boot' = boot /\ rows' = rows
      /\ watches' = watches /\ fired' = fired /\ watchers' = watchers /\ posted' = posted
      /\ typed' = typed /\ fate' = fate /\ retries' = retries /\ after' = after
      /\ here' = here /\ marks' = marks /\ crashes' = crashes
      /\ posting' = [posting EXCEPT ![i] = "no"]
      /\ answered' = IF running' = running /\ ~Retry(i) THEN answered \cup {i[1]} ELSE answered
  BY DEF QueueJob
<1>3. Disk'
  BY <1>2 DEF DelTypes, Disk, Posted
<1>4. Work' /\ faults' \in Nat
  BY <1>1, <1>2, RunLaterTypes
<1>5. Waiting'
  <2>1. posting' \in [Items -> {"no", "row", "norow"}] /\ \A k \in Items : posting'[k] # "no" => posting[k] # "no"
    BY <1>2 DEF DelTypes, Waiting
  <2> QED
    BY <1>2, <2>1 DEF DelTypes, Waiting, Posted
<1>6. Watching'
  BY <1>2 DEF DelTypes, Watching, Posted
<1>7. Chronicle'
  <2>1. i[1] \in 1..posted
    BY <1>1, ItemFacts DEF DelTypes, Chronicle, Posted
  <2>2. answered' \subseteq 1..posted'
    BY <1>2, <2>1 DEF DelTypes, Chronicle
  <2> QED
    BY <1>2, <1>4, <2>2 DEF DelTypes, Chronicle
<1> QED
  BY <1>3, <1>4, <1>5, <1>6, <1>7 DEF DelTypes

(* A lane takes the oldest job of its queue.                               *)
LEMMA TakeNextTypes ==
    ASSUME DelTypes, NEW l \in Lanes, TakeNext(l) PROVE DelTypes'
<1> DEFINE t == LaneThread(l)
           q == lanes[l].queue
           b == [at |-> "start", item |-> Head(q).item, row |-> Head(q).row]
<1>1. /\ window' = window /\ journal' = journal /\ boot' = boot /\ rows' = rows
      /\ posting' = posting /\ watches' = watches /\ fired' = fired /\ watchers' = watchers
      /\ UNCHANGED history
      /\ lanes[l].live /\ running[t] = Idle /\ q # << >>
      /\ lanes' = [lanes EXCEPT ![l].queue = Tail(q)]
      /\ running' = [running EXCEPT ![t] = b]
  BY DEF TakeNext
<1>2. /\ posted' = posted /\ answered' = answered /\ typed' = typed /\ fate' = fate
      /\ retries' = retries /\ after' = after /\ here' = here /\ marks' = marks
      /\ crashes' = crashes /\ faults' = faults
  BY <1>1 DEF history
<1>3. Work'
  <2>1. /\ lanes \in [Lanes -> [live : BOOLEAN, queue : Seq(Job)]]
        /\ running \in [Threads -> Busy \cup {Idle}] /\ t \in Threads
    BY ThreadFacts DEF DelTypes, Work
  <2>2. q \in Seq(Job) /\ q # << >>
    BY <1>1, <2>1
  <2>3. /\ Tail(q) \in Seq(Job) /\ Head(q) \in Job /\ Head(q) = q[1] /\ 1 \in DOMAIN q
        /\ \A n \in DOMAIN Tail(q) : n + 1 \in DOMAIN q /\ Tail(q)[n] = q[n + 1]
    BY <2>2, HeadTailProperties
  <2>4. \A n \in DOMAIN q : q[n].item[1] <= posted
    BY DEF DelTypes, Work, Posted
  <2>5. lanes'[l] = [lanes[l] EXCEPT !.queue = Tail(q)]
    BY <1>1, <2>1
  <2>6. \A k \in Lanes : k # l => lanes'[k] = lanes[k]
    BY <1>1, <2>1
  <2>7. lanes[l] \in [live : BOOLEAN, queue : Seq(Job)]
    BY <2>1
  <2>8. b \in Busy /\ b.item = q[1].item
    BY <2>3 DEF Busy, Job
  <2> HIDE DEF q, b
  <2>9. lanes'[l].live /\ lanes'[l].queue = Tail(q) /\ lanes'[l] \in [live : BOOLEAN, queue : Seq(Job)]
    <3> DEFINE a == lanes[l]
               c == lanes'[l]
               w == Tail(q)
               QS == Seq(Job)
    <3>1. a \in [live : BOOLEAN, queue : QS] /\ w \in QS /\ c = [a EXCEPT !.queue = w] /\ a.live
      BY <1>1, <2>3, <2>5, <2>7
    <3> HIDE DEF a, c, w, QS
    <3>2. c.live /\ c.queue = w /\ c \in [live : BOOLEAN, queue : QS]
      BY <3>1
    <3> QED
      BY <3>2 DEF a, c, w, QS
  <2>10. lanes' \in [Lanes -> [live : BOOLEAN, queue : Seq(Job)]]
    <3>1. \A k \in Lanes : lanes'[k] \in [live : BOOLEAN, queue : Seq(Job)]
      BY <2>1, <2>6, <2>9
    <3>2. DOMAIN lanes' = Lanes /\ lanes' = [k \in DOMAIN lanes' |-> lanes'[k]]
      BY <1>1, <2>1
    <3> QED
      BY <3>1, <3>2
  <2>11. \A n \in DOMAIN Tail(q) : Tail(q)[n].item[1] <= posted'
    BY <1>2, <2>3, <2>4
  <2>12. \A k \in Lanes : \A n \in DOMAIN lanes'[k].queue : lanes'[k].queue[n].item[1] <= posted'
    BY <1>2, <2>6, <2>9, <2>11 DEF DelTypes, Work, Posted
  <2>13. running' \in [Threads -> Busy \cup {Idle}] /\ running'[t] = b
         /\ \A u \in Threads : u # t => running'[u] = running[u]
    BY <1>1, <2>1, <2>8
  <2>14. \A u \in Threads : running'[u] # Idle => running'[u].item[1] <= posted'
    BY <1>2, <2>3, <2>4, <2>8, <2>13 DEF DelTypes, Work, Posted
  <2>15. \A k \in Lanes : ~lanes'[k].live => lanes'[k].queue = << >> /\ running'[LaneThread(k)] = Idle
    <3> SUFFICES ASSUME NEW k \in Lanes, ~lanes'[k].live
                 PROVE  lanes'[k].queue = << >> /\ running'[LaneThread(k)] = Idle
      OBVIOUS
    <3>1. k # l
      BY <2>9
    <3>2. lanes'[k] = lanes[k] /\ running'[LaneThread(k)] = running[LaneThread(k)]
      BY <2>6, <2>13, <3>1, ThreadFacts
    <3> QED
      BY <3>2 DEF DelTypes, Work
  <2> QED
    BY <2>10, <2>12, <2>13, <2>14, <2>15 DEF Work, Posted
<1> QED
  BY <1>1, <1>2, <1>3 DEF DelTypes, Disk, Waiting, Watching, Chronicle, Posted

(* A lane with nothing left to do ends.                                    *)
LEMMA LaneEndsTypes ==
    ASSUME DelTypes, NEW l \in Lanes, LaneEnds(l) PROVE DelTypes'
<1>1. /\ window' = window /\ journal' = journal /\ boot' = boot /\ rows' = rows
      /\ posting' = posting /\ watches' = watches /\ fired' = fired /\ watchers' = watchers
      /\ running' = running /\ UNCHANGED history
      /\ running[LaneThread(l)] = Idle /\ lanes[l].queue = << >>
      /\ lanes' = [lanes EXCEPT ![l].live = FALSE]
  BY DEF LaneEnds
<1>2. /\ posted' = posted /\ answered' = answered /\ typed' = typed /\ fate' = fate
      /\ retries' = retries /\ after' = after /\ here' = here /\ marks' = marks
      /\ crashes' = crashes /\ faults' = faults
  BY <1>1 DEF history
<1>3. Work'
  <2>1. lanes \in [Lanes -> [live : BOOLEAN, queue : Seq(Job)]]
    BY DEF DelTypes, Work
  <2>2. /\ lanes' \in [Lanes -> [live : BOOLEAN, queue : Seq(Job)]]
        /\ \A k \in Lanes : lanes'[k].queue = lanes[k].queue /\ (k # l => lanes'[k] = lanes[k])
    BY <1>1, <2>1
  <2> QED
    BY <1>1, <1>2, <2>2 DEF DelTypes, Work, Posted
<1> QED
  BY <1>1, <1>2, <1>3 DEF DelTypes, Disk, Waiting, Watching, Chronicle, Posted
(* What of the type invariant is left alone by a step on a thread.         *)
LEMMA RunJobTypes ==
    ASSUME DelTypes, NEW t \in Threads, RunJob(t) PROVE DelTypes'
<1> DEFINE i == running[t].item
<1>1. running[t].at # "idle" /\ i \in Items /\ Posted(i) /\ running[t].row \in BOOLEAN
  BY BusyFacts DEF RunJob, Started, Typed, NotDelivered, Panics, StartWatcher, Finished
<1>2. AnsweredBy(t, i) \subseteq 1..posted
  <2>1. i[1] \in 1..posted
    BY <1>1, ItemFacts DEF DelTypes, Chronicle, Posted
  <2> QED
    BY <2>1 DEF DelTypes, Chronicle, AnsweredBy
<1>3. \A m \in Marks : Marked(i, m) \in [Items -> SUBSET Marks]
  BY <1>1 DEF DelTypes, Chronicle, Marked
<1>4. \A f \in Fates : Told(i, f) \in [Items -> SUBSET Fates]
  BY <1>1 DEF DelTypes, Chronicle, Told
<1>5. Fault => faults' \in Nat
  BY DEF Fault, DelTypes, Chronicle
<1>6. Append(typed, i) \in Seq(Items)
  BY <1>1, AppendProperties DEF DelTypes, Chronicle
<1> HIDE DEF i
<1>7. CASE Started(t)
  <2>1. /\ running' = [running EXCEPT ![t].at = "run"]
        /\ UNCHANGED <<window, boot, rows, posting, lanes, watches, fired, watchers,
                       posted, answered, typed, fate, retries, after, here, crashes>>
        /\ journal' \in {journal, mark_started(i)}
        /\ marks' \in {marks, Marked(i, "unmarked")}
        /\ faults' = faults \/ Fault
    BY <1>7 DEF Started, NoFault, i
  <2>2. Work'
    BY <1>1, <2>1, ThreadMoves
  <2>3. /\ mark_started(i) \in Seq(Row) /\ DOMAIN mark_started(i) = DOMAIN journal
        /\ \A n \in DOMAIN journal : mark_started(i)[n].item = journal[n].item
    BY MarkStartedFacts DEF DelTypes, Disk
  <2>4. journal' \in Seq(Row) /\ \A n \in DOMAIN journal' : journal'[n].item[1] <= posted
    BY <2>1, <2>3 DEF DelTypes, Disk, Posted
  <2>5. Disk'
    BY <2>1, <2>4 DEF DelTypes, Disk, Posted
  <2>6. marks' \in [Items -> SUBSET Marks] /\ faults' \in Nat
    BY <1>3, <1>5, <2>1 DEF DelTypes, Chronicle, Marks
  <2> QED
    BY <2>1, <2>2, <2>5, <2>6 DEF DelTypes, Waiting, Watching, Chronicle, Posted
<1>8. CASE Typed(t)
  <2> DEFINE check == window /\ Kind(i) = "thread"
  <2>1. /\ running' = [running EXCEPT ![t].at = IF check /\ Watched = {} THEN "watch" ELSE "finish"]
        /\ typed' = Append(typed, i)
        /\ watches' = IF check THEN [watches EXCEPT ![i] = @ + 1] ELSE watches
        /\ UNCHANGED <<window, journal, boot, rows, posting, lanes, fired, watchers,
                       posted, answered, fate, retries, after, here, marks, crashes, faults>>
    BY <1>8 DEF Typed, i
  <2>2. Work'
    BY <1>1, <2>1, ThreadMoves
  <2>3. /\ watches' \in [Items -> Nat]
        /\ \A k \in Items : watches'[k] > 0 => k[1] <= posted /\ Kind(k) = "thread" /\ window
    BY <1>1, <2>1 DEF DelTypes, Watching, Posted
  <2> QED
    BY <1>6, <2>1, <2>2, <2>3 DEF DelTypes, Disk, Waiting, Watching, Chronicle, Posted
<1>9. CASE NotDelivered(t)
  <2>1. /\ running' = [running EXCEPT ![t].at = "finish"]
        /\ fate' = Told(i, IF Retry(i) THEN "retryFailed" ELSE "failed")
        /\ Fault
        /\ UNCHANGED <<window, journal, boot, rows, posting, lanes, watches, fired, watchers,
                       posted, answered, typed, retries, after, here, marks, crashes>>
    BY <1>9 DEF NotDelivered, i
  <2>2. Work'
    BY <1>1, <2>1, ThreadMoves
  <2>3. fate' \in [Items -> SUBSET Fates]
    BY <1>4, <2>1 DEF Fates
  <2> QED
    BY <1>5, <2>1, <2>2, <2>3 DEF DelTypes, Disk, Waiting, Watching, Chronicle, Posted
<1>10. CASE Panics(t)
  <2>1. /\ running' = [running EXCEPT ![t] = Idle]
        /\ Fault
        /\ typed' \in {typed, Append(typed, i)}
        /\ fate' = Told(i, "logged")
        /\ marks' = Marked(i, "unfinished")
        /\ answered' = AnsweredBy(t, i)
        /\ UNCHANGED <<window, journal, boot, rows, posting, lanes, watches, fired, watchers,
                       posted, retries, after, here, crashes>>
    BY <1>10 DEF Panics, i
  <2>2. Work'
    BY <1>1, <2>1, ThreadMoves
  <2>3. fate' \in [Items -> SUBSET Fates] /\ marks' \in [Items -> SUBSET Marks] /\ typed' \in Seq(Items)
    BY <1>3, <1>4, <1>6, <2>1 DEF Fates, Marks, DelTypes, Chronicle
  <2> QED
    BY <1>2, <1>5, <2>1, <2>2, <2>3 DEF DelTypes, Disk, Waiting, Watching, Chronicle, Posted
<1>11. CASE StartWatcher(t)
  <2>1. /\ running' = [running EXCEPT ![t].at = "finish"]
        /\ UNCHANGED <<window, journal, boot, rows, posting, lanes, fired,
                       posted, answered, typed, fate, retries, after, here, marks, crashes>>
        /\ \/ watchers' = [watchers EXCEPT !.looping = @ + 1] /\ NoFault /\ UNCHANGED watches
           \/ Fault /\ watches' = NoMemory.watches /\ UNCHANGED watchers
    BY <1>11 DEF StartWatcher
  <2>2. Work'
    BY <1>1, <2>1, ThreadMoves
  <2>3. /\ watchers' \in [looping : Nat, leaving : Nat] /\ faults' \in Nat
        /\ watches' = watches \/ watches' = [k \in Items |-> 0]
    BY <1>5, <2>1, NoMemoryFacts DEF DelTypes, Watching, Chronicle, NoFault
  <2>4. Watching'
    BY <2>1, <2>3 DEF DelTypes, Watching, Posted
  <2> QED
    BY <2>1, <2>2, <2>3, <2>4 DEF DelTypes, Disk, Waiting, Chronicle, Posted
<1>12. CASE Finished(t)
  <2>1. /\ running' = [running EXCEPT ![t] = Idle]
        /\ answered' = AnsweredBy(t, i)
        /\ UNCHANGED <<window, boot, rows, posting, lanes, watches, fired, watchers,
                       posted, typed, fate, retries, after, here, crashes>>
        /\ journal' \in {journal, finish(i)}
        /\ marks' \in {marks, Marked(i, "unfinished")}
        /\ faults' = faults \/ Fault
    BY <1>12 DEF Finished, NoFault, i
  <2>2. Work'
    BY <1>1, <2>1, ThreadMoves
  <2>3. /\ finish(i) \in Seq(Row)
        /\ \A n \in DOMAIN finish(i) : \E m \in DOMAIN journal : finish(i)[n] = journal[m]
    BY FinishFacts DEF DelTypes, Disk
  <2>4. journal' \in Seq(Row) /\ \A n \in DOMAIN journal' : journal'[n].item[1] <= posted
    BY <2>1, <2>3 DEF DelTypes, Disk, Posted
  <2>5. Disk'
    BY <2>1, <2>4 DEF DelTypes, Disk, Posted
  <2>6. marks' \in [Items -> SUBSET Marks] /\ faults' \in Nat
    BY <1>3, <1>5, <2>1 DEF DelTypes, Chronicle, Marks
  <2> QED
    BY <1>2, <2>1, <2>2, <2>5, <2>6 DEF DelTypes, Waiting, Watching, Chronicle, Posted
<1> QED
  BY <1>7, <1>8, <1>9, <1>10, <1>11, <1>12 DEF RunJob

(* The watchers look at the transcript once more.                          *)
LEMMA TickTypes == DelTypes /\ Tick => DelTypes'
<1> SUFFICES ASSUME DelTypes, Tick PROVE DelTypes'
  OBVIOUS
<1>0. PICK S \in SUBSET Watched : \E missed \in SUBSET S :
         /\ watches' = [i \in Items |-> IF i \in S THEN watches[i] - 1 ELSE watches[i]]
         /\ NotTaken(missed)
  BY DEF Tick
<1>1. PICK missed \in SUBSET S :
         /\ watches' = [i \in Items |-> IF i \in S THEN watches[i] - 1 ELSE watches[i]]
         /\ NotTaken(missed)
  BY <1>0
<1> DEFINE F == {i \in missed : ~Retry(i)}
<1>2. /\ watchers.looping > 0
      /\ watchers' = IF watches' = NoMemory.watches
                     THEN [looping |-> watchers.looping - 1, leaving |-> watchers.leaving + 1]
                     ELSE watchers
      /\ UNCHANGED <<window, journal, boot, rows, posting, lanes, running,
                     posted, answered, typed, after, here, marks, crashes, faults>>
  BY DEF Tick
<1>3. /\ \A i \in F : retries[i[1]] < MaxRetries
      /\ fired' = fired \cup {<<i[1], retries[i[1]] + 1>> : i \in F}
      /\ retries' = [j \in Jobs |-> IF \E i \in F : i[1] = j THEN retries[j] + 1 ELSE retries[j]]
      /\ fate' = [i \in Items |-> IF i \in missed /\ Retry(i) THEN fate[i] \cup {"notTaken"} ELSE fate[i]]
  BY <1>1 DEF NotTaken, FireRetry
<1>4. \A i \in S : i \in Items /\ watches[i] > 0 /\ Posted(i) /\ Kind(i) = "thread" /\ window
  BY DEF Watched, DelTypes, Watching
<1>5. ASSUME NEW i \in F
      PROVE  <<i[1], retries[i[1]] + 1>> \in Items /\ i[1] \in Jobs /\ i[1] <= posted
             /\ retries[i[1]] < MaxRetries
  <2>1. i \in Items /\ Posted(i) /\ Kind(i) = "thread" /\ posted <= NChecked /\ posted \in Nat
    BY <1>4 DEF DelTypes, Chronicle
  <2>2. i[1] \in Checked
    BY <2>1, ItemFacts, DeliveryAssumption DEF Checked, Kind, Posted
  <2>3. retries[i[1]] \in 0..MaxRetries /\ retries[i[1]] < MaxRetries
    BY <1>3, <2>1, ItemFacts DEF DelTypes, Watching
  <2>4. retries[i[1]] + 1 \in 1..MaxRetries
    BY <2>3, DeliveryAssumption
  <2> QED
    BY <2>1, <2>2, <2>3, <2>4, ItemFacts DEF Posted
<1>6. Waiting'
  <2>1. \A k \in fired' : k \in Items /\ k[1] <= posted
    BY <1>3, <1>5 DEF DelTypes, Waiting, Posted
  <2> QED
    BY <1>2, <2>1 DEF DelTypes, Waiting, Posted
<1>7. Watching'
  <2>1. /\ watches' \in [Items -> Nat] /\ \A i \in Items : watches'[i] > 0 => watches[i] > 0
    BY <1>1, <1>4 DEF DelTypes, Watching
  <2>2. watchers' \in [looping : Nat, leaving : Nat]
    BY <1>2 DEF DelTypes, Watching
  <2>3. retries' \in [Jobs -> 0..MaxRetries]
    <3>1. ASSUME NEW j \in Jobs
          PROVE  (IF \E i \in F : i[1] = j THEN retries[j] + 1 ELSE retries[j]) \in 0..MaxRetries
      <4>1. retries[j] \in 0..MaxRetries /\ ((\E i \in F : i[1] = j) => retries[j] < MaxRetries)
        BY <1>5 DEF DelTypes, Watching
      <4> QED
        BY <4>1, DeliveryAssumption
    <3> QED
      BY <1>3, <3>1
  <2> QED
    BY <1>2, <2>1, <2>2, <2>3 DEF DelTypes, Watching, Posted
<1>8. Chronicle'
  <2>1. fate' \in [Items -> SUBSET Fates]
    BY <1>3 DEF DelTypes, Chronicle, Fates
  <2> QED
    BY <1>2, <2>1 DEF DelTypes, Chronicle
<1> QED
  BY <1>2, <1>6, <1>7, <1>8 DEF DelTypes, Disk, Work, Posted

(* The window in which the new daemon still checks for the old one ends.   *)
LEMMA LeaveTypes == DelTypes /\ Leave => DelTypes'
<1> SUFFICES ASSUME DelTypes, Leave PROVE DelTypes'
  OBVIOUS
<1>1. /\ watchers' \in [looping : Nat, leaving : Nat]
      /\ UNCHANGED <<window, journal, boot, rows, posting, lanes, running, watches, fired, history>>
  BY DEF Leave, DelTypes, Watching
<1> QED
  BY <1>1 DEF DelTypes, Disk, Work, Waiting, Watching, Chronicle, Posted, history
(* Boot's read of the journal only finds out which rows are too old.       *)
LEMMA AgedFacts ==
    ASSUME DelTypes, NEW k,
           journal' = [n \in DOMAIN journal |-> [journal[n] EXCEPT !.old = @ \/ n <= k]]
    PROVE  /\ journal' \in Seq(Row)
           /\ DOMAIN journal' = DOMAIN journal
           /\ \A n \in DOMAIN journal : /\ journal'[n].item = journal[n].item
                                        /\ journal'[n].started = journal[n].started
                                        /\ journal[n].old => journal'[n].old
<1>1. ASSUME NEW n \in DOMAIN journal
      PROVE  /\ journal'[n] \in Row
             /\ journal'[n].item = journal[n].item /\ journal'[n].started = journal[n].started
             /\ journal[n].old => journal'[n].old
  <2>1. journal[n] \in Row
    BY HeldFacts
  <2>2. journal'[n] = [journal[n] EXCEPT !.old = (journal[n].old \/ n <= k)]
    OBVIOUS
  <2> DEFINE o == journal[n].old \/ n <= k
  <2>3. o \in BOOLEAN /\ (journal[n].old => o) /\ journal'[n] = [journal[n] EXCEPT !.old = o]
    BY <2>2
  <2> HIDE DEF o
  <2>4. /\ journal'[n] \in Row /\ journal'[n].old = o
        /\ journal'[n].item = journal[n].item /\ journal'[n].started = journal[n].started
    BY <2>1, <2>3 DEF Row
  <2> QED
    BY <2>3, <2>4
<1>2. DOMAIN journal' = DOMAIN journal /\ DOMAIN journal = 1..Len(journal) /\ Len(journal) \in Nat
  BY DEF DelTypes, Disk
<1>3. journal' = [n \in 1..Len(journal) |-> journal'[n]]
  BY <1>2
<1>4. journal' \in Seq(Row)
  <2>1. \A n \in 1..Len(journal) : journal'[n] \in Row
    BY <1>1, <1>2
  <2> QED
    BY <1>2, <1>3, <2>1, IsASeq
<1> QED
  BY <1>1, <1>2, <1>4

(* The row boot is at, and the ones after it.                              *)
LEMMA HeadFacts ==
    ASSUME DelTypes, rows # << >>
    PROVE  /\ Head(rows) = rows[1] /\ 1 \in DOMAIN rows
           /\ Head(rows) \in Row /\ Head(rows).item \in Items /\ Posted(Head(rows).item)
           /\ Tail(rows) \in Seq(Row)
           /\ \A n \in DOMAIN Tail(rows) : n + 1 \in DOMAIN rows /\ Tail(rows)[n] = rows[n + 1]
<1>1. rows \in Seq(Row)
  BY DEF DelTypes, Disk
<1>2. Head(rows) = rows[1] /\ 1 \in DOMAIN rows
  BY <1>1
<1>3. /\ Tail(rows) \in Seq(Row)
      /\ \A n \in DOMAIN Tail(rows) : n + 1 \in DOMAIN rows /\ Tail(rows)[n] = rows[n + 1]
  BY <1>1, HeadTailProperties
<1> QED
  BY <1>2, <1>3, HeldFacts DEF DelTypes, Disk

(* The replay reads the journal, or fails to.                              *)
LEMMA ReplayReadTypes == DelTypes /\ ReplayRead => DelTypes'
<1> SUFFICES ASSUME DelTypes, ReplayRead PROVE DelTypes'
  OBVIOUS
<1>1. UNCHANGED <<window, posting, lanes, running, watches, fired, watchers,
                  posted, answered, typed, fate, retries, after, here, crashes>>
  BY DEF ReplayRead
<1>2. marks' \in [Items -> SUBSET Marks]
  BY DEF ReplayRead, DelTypes, Chronicle, Marks
<1>3. faults' \in Nat
  BY DEF ReplayRead, DelTypes, Chronicle, Fault, NoFault
<1>4. Disk'
  <2>1. CASE /\ \E tooOld \in 0 .. EarlierLives :
                   journal' = [n \in DOMAIN journal |->
                                 [journal[n] EXCEPT !.old = @ \/ n <= tooOld]]
             /\ rows' = journal' /\ boot' = "replaying"
    <3>1. /\ journal' \in Seq(Row) /\ DOMAIN journal' = DOMAIN journal
          /\ \A n \in DOMAIN journal : journal'[n].item = journal[n].item
      BY <2>1, AgedFacts
    <3>2. \A n \in DOMAIN journal' : journal'[n].item[1] <= posted
      BY <3>1 DEF DelTypes, Disk, Posted
    <3> QED
      BY <1>1, <2>1, <3>1, <3>2 DEF DelTypes, Disk, Posted
  <2>2. CASE boot' = "done" /\ UNCHANGED <<journal, rows>>
    BY <1>1, <2>2 DEF DelTypes, Disk, Posted
  <2> QED
    BY <2>1, <2>2 DEF ReplayRead
<1> QED
  BY <1>1, <1>2, <1>3, <1>4 DEF DelTypes, Work, Waiting, Watching, Chronicle, Posted

(* The replay queues a row that never started.                             *)
LEMMA RequeueTypes ==
    ASSUME DelTypes, NEW r, Requeue(r) PROVE DelTypes'
<1>1. /\ UNCHANGED <<window, boot, posting, watches, fired, watchers,
                     posted, answered, typed, retries, after, here, marks, crashes>>
      /\ rows' = Tail(rows) /\ rows # << >> /\ r = Head(rows) /\ boot = "replaying"
  BY DEF Requeue, ReplayNext
<1>2. /\ r.item \in Items /\ Posted(r.item)
      /\ Tail(rows) \in Seq(Row)
      /\ \A n \in DOMAIN Tail(rows) : n + 1 \in DOMAIN rows /\ Tail(rows)[n] = rows[n + 1]
  BY <1>1, HeadFacts
<1>3. rows' \in Seq(Row) /\ \A n \in DOMAIN rows' : rows'[n].item[1] <= posted
  BY <1>1, <1>2 DEF DelTypes, Disk, Posted
<1>4. CASE run_later(BootThread(r.item), r.item, TRUE) /\ UNCHANGED <<journal, fate>>
  <2>1. Work' /\ faults' \in Nat
    BY <1>1, <1>2, <1>4, RunLaterTypes
  <2> QED
    BY <1>1, <1>3, <1>4, <2>1 DEF DelTypes, Disk, Waiting, Watching, Chronicle, Posted
<1>5. CASE /\ Fault
           /\ journal' = finish(r.item)
           /\ fate' = Told(r.item, "logged")
           /\ UNCHANGED <<lanes, running>>
  <2>1. /\ finish(r.item) \in Seq(Row)
        /\ \A n \in DOMAIN finish(r.item) : \E m \in DOMAIN journal : finish(r.item)[n] = journal[m]
    BY FinishFacts DEF DelTypes, Disk
  <2>2. journal' \in Seq(Row) /\ \A n \in DOMAIN journal' : journal'[n].item[1] <= posted
    BY <1>5, <2>1 DEF DelTypes, Disk, Posted
  <2>3. faults' \in Nat /\ fate' \in [Items -> SUBSET Fates]
    BY <1>2, <1>5 DEF DelTypes, Chronicle, Fault, Told, Fates
  <2> QED
    BY <1>1, <1>3, <1>5, <2>2, <2>3 DEF DelTypes, Disk, Work, Waiting, Watching, Chronicle, Posted
<1> QED
  BY <1>4, <1>5 DEF Requeue

(* The replay tells the sender of a row that did start.                    *)
LEMMA AbandonTypes ==
    ASSUME DelTypes, NEW r, Abandon(r) PROVE DelTypes'
<1>1. /\ UNCHANGED <<window, journal, rows, posting, lanes, running, watches, fired, watchers,
                     posted, answered, typed, retries, after, here, marks, crashes>>
      /\ rows # << >> /\ r = Head(rows) /\ boot' = "dropping"
  BY DEF Abandon, ReplayNext
<1>2. r.item \in Items
  BY <1>1, HeadFacts
<1>3. \A f \in Fates : Told(r.item, f) \in [Items -> SUBSET Fates]
  BY <1>2 DEF DelTypes, Chronicle, Told
<1>4. \E f \in Fates : fate' = Told(r.item, f)
  BY DEF Abandon, Fates
<1>5. faults' \in Nat
  BY DEF Abandon, Fault, NoFault, DelTypes, Chronicle
<1> QED
  BY <1>1, <1>3, <1>4, <1>5 DEF DelTypes, Disk, Work, Waiting, Watching, Chronicle, Posted

(* The replay drops a row it cannot use.                                   *)
LEMMA DropRowTypes == DelTypes /\ DropRow => DelTypes'
<1> SUFFICES ASSUME DelTypes, DropRow PROVE DelTypes'
  OBVIOUS
<1> DEFINE i == Head(rows).item
<1>1. /\ UNCHANGED <<window, posting, lanes, running, watches, fired, watchers,
                     posted, answered, typed, fate, retries, after, here, crashes>>
      /\ rows # << >> /\ rows' = Tail(rows) /\ boot' = "replaying"
      /\ journal' \in {journal, finish(i)}
      /\ marks' \in {marks, Marked(i, "unfinished")}
      /\ faults' = faults \/ Fault
  BY DEF DropRow, NoFault, DelTypes, Disk
<1>2. /\ i \in Items
      /\ Tail(rows) \in Seq(Row)
      /\ \A n \in DOMAIN Tail(rows) : n + 1 \in DOMAIN rows /\ Tail(rows)[n] = rows[n + 1]
  BY <1>1, HeadFacts
<1> HIDE DEF i
<1>3. rows' \in Seq(Row) /\ \A n \in DOMAIN rows' : rows'[n].item[1] <= posted
  BY <1>1, <1>2 DEF DelTypes, Disk, Posted
<1>4. /\ finish(i) \in Seq(Row)
      /\ \A n \in DOMAIN finish(i) : \E m \in DOMAIN journal : finish(i)[n] = journal[m]
  BY FinishFacts DEF DelTypes, Disk
<1>5. journal' \in Seq(Row) /\ \A n \in DOMAIN journal' : journal'[n].item[1] <= posted
  BY <1>1, <1>4 DEF DelTypes, Disk, Posted
<1>6. faults' \in Nat /\ marks' \in [Items -> SUBSET Marks]
  BY <1>1, <1>2 DEF DelTypes, Chronicle, Fault, Marked, Marks
<1> QED
  BY <1>1, <1>3, <1>5, <1>6 DEF DelTypes, Disk, Work, Waiting, Watching, Chronicle, Posted

(* The steps of the replay together.                                       *)
LEMMA ReplayTypes == DelTypes /\ Replay => DelTypes'
<1> SUFFICES ASSUME DelTypes, Replay PROVE DelTypes'
  OBVIOUS
<1>1. CASE ReplayDone
  BY <1>1 DEF ReplayDone, history, DelTypes, Disk, Work, Waiting, Watching, Chronicle, Posted
<1> QED
  BY <1>1, ReplayReadTypes, RequeueTypes, AbandonTypes, DropRowTypes DEF Replay

(* A restart empties the memory and keeps the journal.                     *)
LEMMA CrashTypes == DelTypes /\ Crash => DelTypes'
<1> SUFFICES ASSUME DelTypes, Crash PROVE DelTypes'
  OBVIOUS
<1>1. /\ crashes' = crashes + 1
      /\ boot' = "ready" /\ rows' = << >>
      /\ posting' = [i \in Items |-> "no"]
      /\ lanes' = [l \in Lanes |-> [live |-> FALSE, queue |-> << >>]]
      /\ lanes' \in [Lanes -> [live : BOOLEAN, queue : Seq(Job)]]
      /\ running' = [t \in Threads |-> Idle]
      /\ watches' = [i \in Items |-> 0]
      /\ fired' = {} /\ watchers' = [looping |-> 0, leaving |-> 0] /\ here' = {}
      /\ UNCHANGED <<window, journal, posted, answered, typed, fate, retries, after, faults>>
  BY NoMemoryFacts DEF Crash
<1>2. marks' \in [Items -> SUBSET Marks]
  BY DEF Crash, DelTypes, Chronicle, Marks
<1>3. \A l \in Lanes : lanes'[l].queue = << >> /\ running'[LaneThread(l)] = Idle
  BY <1>1, ThreadFacts
<1>4. Work'
  BY <1>1, <1>3 DEF Work
<1>5. Disk'
  <2>1. << >> \in Seq(Row)
    OBVIOUS
  <2> QED
    BY <1>1, <2>1 DEF DelTypes, Disk, Posted
<1>6. Waiting' /\ Watching'
  BY <1>1 DEF DelTypes, Waiting, Watching
<1>7. Chronicle'
  BY <1>1, <1>2 DEF DelTypes, Chronicle
<1> QED
  BY <1>4, <1>5, <1>6, <1>7 DEF DelTypes

(* Every step keeps the types.                                             *)
LEMMA TypesStep == DelTypes /\ [Next]_vars => DelTypes'
<1> SUFFICES ASSUME DelTypes, [Next]_vars PROVE DelTypes'
  OBVIOUS
<1>1. CASE UNCHANGED vars
  BY <1>1 DEF vars, memory, history, DelTypes, Disk, Work, Waiting, Watching, Chronicle, Posted
<1>2. CASE Next
  BY <1>2, PostTypes, PostRetryTypes, QueueJobTypes, TakeNextTypes, LaneEndsTypes, RunJobTypes,
     TickTypes, LeaveTypes, ReplayTypes, CrashTypes DEF Next, Daemon
<1> QED
  BY <1>1, <1>2

(* Every variable keeps its type, and a lane has its key exactly while its *)
(* thread runs, so that no queued line is left without a thread            *)
(* (delivery_queue.rs, LANES, run_later and drain).                        *)
THEOREM TypeCorrect == Spec => []TypeOK
<1>1. Spec => []DelTypes
  BY TypesInit, TypesStep, PTL DEF Spec
<1> QED
  BY <1>1, TypesMore, PTL
-----------------------------------------------------------------------------
(***************************************************************************)
(* What the steps do, in the terms of the invariants below.                *)
(***************************************************************************)

(* record: a row that has not started, or no row.                          *)
LEMMA RecordEffect ==
    ASSUME DelTypes, NEW i \in Items, record(i)
    PROVE  /\ \/ /\ posting'[i] = "row" /\ here' = here \cup {i}
                 /\ Len(journal) \in Nat /\ DOMAIN journal = 1..Len(journal)
                 /\ DOMAIN journal' = 1..(Len(journal) + 1)
                 /\ journal'[Len(journal) + 1].item = i
                 /\ ~journal'[Len(journal) + 1].started
                 /\ \A n \in DOMAIN journal : journal'[n] = journal[n]
              \/ posting'[i] = "norow" /\ here' = here /\ journal' = journal
           /\ \A k \in Items : k # i => posting'[k] = posting[k]
           /\ \A k \in Items : marks[k] \subseteq marks'[k]
<1> DEFINE row == [item |-> i, started |-> FALSE, old |-> FALSE]
<1>1. journal \in Seq(Row) /\ row \in Row
  BY DEF DelTypes, Disk, Row
<1>2. posting \in [Items -> {"no", "row", "norow"}] /\ marks \in [Items -> SUBSET Marks]
  BY DEF DelTypes, Waiting, Chronicle
<1>3. CASE /\ journal' = Append(journal, row)
           /\ posting' = [posting EXCEPT ![i] = "row"]
           /\ here' = here \cup {i}
           /\ marks' = IF boot = "done" THEN marks ELSE Marked(i, "early")
  <2>1. /\ Len(journal) \in Nat /\ DOMAIN journal = 1..Len(journal)
        /\ DOMAIN journal' = 1..(Len(journal) + 1)
        /\ journal'[Len(journal) + 1] = row
        /\ \A n \in DOMAIN journal : journal'[n] = journal[n]
    BY <1>1, <1>3, AppendProperties
  <2>2. \A k \in Items : marks[k] \subseteq marks'[k]
    BY <1>2, <1>3 DEF Marked
  <2> QED
    BY <1>2, <1>3, <2>1, <2>2
<1>4. CASE /\ posting' = [posting EXCEPT ![i] = "norow"]
           /\ marks' = [marks EXCEPT ![i] = @ \cup {"unjournaled"}
                                          \cup (IF boot = "done" THEN {} ELSE {"early"})]
           /\ UNCHANGED <<journal, here>>
  BY <1>2, <1>4
<1> QED
  BY <1>3, <1>4 DEF record

(* run_later: at the end of the lane's queue, or on the thread.            *)
LEMMA RunLaterEffect ==
    ASSUME DelTypes, NEW i \in Items, NEW t \in {PostThread(i), BootThread(i)},
           NEW row \in BOOLEAN, run_later(t, i, row)
    PROVE  /\ \A l \in Lanes : l # Lane(i) => lanes'[l].queue = lanes[l].queue
           /\ LET q == lanes[Lane(i)].queue  w == lanes'[Lane(i)].queue IN
              \/ /\ running' = running /\ Len(q) \in Nat /\ DOMAIN q = 1..Len(q)
                 /\ DOMAIN w = 1..(Len(q) + 1)
                 /\ w[Len(q) + 1].item = i /\ w[Len(q) + 1].row = row
                 /\ \A n \in DOMAIN q : w[n] = q[n]
              \/ /\ lanes' = lanes /\ ~lanes[Lane(i)].live
                 /\ running'[t].at = "start" /\ running'[t].item = i /\ running'[t].row = row
                 /\ \A u \in Threads : u # t => running'[u] = running[u]
<1> DEFINE job == [item |-> i, row |-> row]
           l0 == Lane(i)
<1>1. l0 \in Lanes /\ t \in Threads /\ job \in Job
  BY ItemFacts, ThreadFacts DEF Job
<1>2. /\ lanes \in [Lanes -> [live : BOOLEAN, queue : Seq(Job)]]
      /\ running \in [Threads -> Busy \cup {Idle}]
  BY DEF DelTypes, Work
<1>3. CASE /\ lanes' = [lanes EXCEPT ![l0] = [live |-> TRUE, queue |-> Append(@.queue, job)]]
           /\ UNCHANGED running
  <2> DEFINE q == lanes[l0].queue
  <2>1. q \in Seq(Job)
    BY <1>1, <1>2
  <2>2. /\ lanes'[l0].queue = Append(q, job)
        /\ \A l \in Lanes : l # l0 => lanes'[l] = lanes[l]
    BY <1>1, <1>2, <1>3
  <2>3. /\ Len(q) \in Nat /\ DOMAIN q = 1..Len(q)
        /\ DOMAIN Append(q, job) = 1..(Len(q) + 1)
        /\ Append(q, job)[Len(q) + 1] = job
        /\ \A n \in DOMAIN q : Append(q, job)[n] = q[n]
    BY <1>1, <2>1, AppendProperties
  <2>4. job.item = i /\ job.row = row
    OBVIOUS
  <2> HIDE DEF q, job
  <2> QED
    BY <1>3, <2>2, <2>3, <2>4 DEF q
<1>4. CASE /\ running' = [running EXCEPT ![t] = [at |-> "start", item |-> i, row |-> row]]
           /\ UNCHANGED lanes /\ ~lanes[l0].live
  BY <1>1, <1>2, <1>4
<1> QED
  BY <1>3, <1>4 DEF run_later

(* drain: the head of the queue moves to the lane's thread, which was idle. *)
LEMMA TakeNextEffect ==
    ASSUME DelTypes, NEW l \in Lanes, TakeNext(l)
    PROVE  LET q == lanes[l].queue  w == lanes'[l].queue  t == LaneThread(l) IN
           /\ t \in Threads /\ running[t] = Idle /\ 1 \in DOMAIN q
           /\ running'[t].at = "start" /\ running'[t].item = q[1].item /\ running'[t].row = q[1].row
           /\ \A u \in Threads : u # t => running'[u] = running[u]
           /\ \A k \in Lanes : k # l => lanes'[k] = lanes[k]
           /\ \A n \in DOMAIN w : n \in Nat /\ n >= 1 /\ n + 1 \in DOMAIN q /\ w[n] = q[n + 1]
<1> DEFINE q == lanes[l].queue
           t == LaneThread(l)
           b == [at |-> "start", item |-> Head(q).item, row |-> Head(q).row]
<1>1. /\ lanes \in [Lanes -> [live : BOOLEAN, queue : Seq(Job)]]
      /\ running \in [Threads -> Busy \cup {Idle}] /\ t \in Threads
  BY ThreadFacts DEF DelTypes, Work
<1>2. /\ running[t] = Idle /\ q # << >>
      /\ lanes' = [lanes EXCEPT ![l].queue = Tail(q)]
      /\ running' = [running EXCEPT ![t] = b]
  BY DEF TakeNext
<1>3. q \in Seq(Job)
  BY <1>1
<1>4. /\ Head(q) = q[1] /\ 1 \in DOMAIN q
      /\ \A n \in DOMAIN Tail(q) : n \in Nat /\ n >= 1 /\ n + 1 \in DOMAIN q /\ Tail(q)[n] = q[n + 1]
  BY <1>2, <1>3, HeadTailProperties
<1>5. lanes'[l].queue = Tail(q) /\ \A k \in Lanes : k # l => lanes'[k] = lanes[k]
  BY <1>1, <1>2
<1>6. running'[t] = b /\ \A u \in Threads : u # t => running'[u] = running[u]
  BY <1>1, <1>2
<1>7. b.at = "start" /\ b.item = q[1].item /\ b.row = q[1].row
  BY <1>4
<1> HIDE DEF b
<1> QED
  BY <1>1, <1>2, <1>4, <1>5, <1>6, <1>7

(* A step on a thread moves its job forward.                               *)
LEMMA RunJobEffect ==
    ASSUME DelTypes, NEW t \in Threads, RunJob(t)
    PROVE  /\ running[t].item \in Items /\ running[t] # Idle
           /\ \A u \in Threads : u # t => running'[u] = running[u]
           /\ \/ /\ running'[t].item = running[t].item /\ running'[t].row = running[t].row
                 /\ \/ running[t].at = "start" /\ running'[t].at = "run" /\ Started(t)
                    \/ running[t].at \in {"run", "watch"} /\ running'[t].at \in {"watch", "finish"}
              \/ /\ running[t].at \in {"run", "finish"} /\ running'[t] = Idle
                 /\ Panics(t) \/ Finished(t)
<1>1. running[t].item \in Items /\ running[t] # Idle /\ running[t].at # "idle"
  BY BusyFacts DEF RunJob, Started, Typed, NotDelivered, Panics, StartWatcher, Finished
<1>2. running \in [Threads -> Busy \cup {Idle}] /\ running[t] \in Busy
  BY <1>1, BusyFacts DEF DelTypes, Work
<1>3. ASSUME NEW s \in {"run", "watch", "finish"}, running' = [running EXCEPT ![t].at = s]
      PROVE  /\ \A u \in Threads : u # t => running'[u] = running[u]
             /\ running'[t].item = running[t].item /\ running'[t].row = running[t].row
             /\ running'[t].at = s
  <2>1. running'[t] = [running[t] EXCEPT !.at = s] /\ \A u \in Threads : u # t => running'[u] = running[u]
    BY <1>2, <1>3
  <2> QED
    BY <1>2, <2>1 DEF Busy
<1>4. CASE Started(t)
  BY <1>1, <1>3, <1>4 DEF Started
<1>5. CASE Typed(t)
  BY <1>1, <1>3, <1>5 DEF Typed
<1>6. CASE NotDelivered(t)
  BY <1>1, <1>3, <1>6 DEF NotDelivered
<1>7. CASE Panics(t)
  BY <1>1, <1>2, <1>7 DEF Panics
<1>8. CASE StartWatcher(t)
  BY <1>1, <1>3, <1>8 DEF StartWatcher
<1>9. CASE Finished(t)
  BY <1>1, <1>2, <1>9 DEF Finished
<1> QED
  BY <1>4, <1>5, <1>6, <1>7, <1>8, <1>9 DEF RunJob

(* A crash empties the memory.                                             *)
LEMMA CrashEffect ==
    ASSUME DelTypes, Crash
    PROVE  /\ boot' = "ready" /\ rows' = << >> /\ fired' = {} /\ here' = {}
           /\ \A i \in Items : posting'[i] = "no" /\ watches'[i] = 0
           /\ \A l \in Lanes : lanes'[l].queue = << >>
           /\ \A t \in Threads : running'[t] = Idle /\ running'[t].item = NoItem /\ running'[t].at = "idle"
           /\ UNCHANGED <<window, journal, posted, answered, typed, fate, retries, after, faults>>
           /\ \A i \in Items : marks[i] \subseteq marks'[i]
           /\ \A i \in Items : \A t \in Threads :
                 running[t].item = i /\ running[t].at \in {"run", "watch", "finish"} => "cut" \in marks'[i]
<1>1. /\ boot' = "ready" /\ rows' = << >>
      /\ posting' = [i \in Items |-> "no"]
      /\ lanes' = [l \in Lanes |-> [live |-> FALSE, queue |-> << >>]]
      /\ running' = [t \in Threads |-> Idle]
      /\ watches' = [i \in Items |-> 0]
      /\ fired' = {} /\ here' = {}
      /\ UNCHANGED <<window, journal, posted, answered, typed, fate, retries, after, faults>>
      /\ marks' = [i \in Items |->
                     IF \E t \in Threads : running[t].item = i /\ running[t].at \in {"run", "watch", "finish"}
                     THEN marks[i] \cup {"cut"} ELSE marks[i]]
  BY NoMemoryFacts DEF Crash
<1>2. \A l \in Lanes : lanes'[l].queue = << >>
  BY <1>1
<1>3. \A t \in Threads : running'[t] = Idle
  BY <1>1
<1>4. \A i \in Items : \A t \in Threads :
         running[t].item = i /\ running[t].at \in {"run", "watch", "finish"} => "cut" \in marks'[i]
  BY <1>1
<1> QED
  BY <1>1, <1>2, <1>3, <1>4, ThreadFacts
(* Item i is recorded: a post, or the retry of a line not taken.           *)
Opens(i) == (Post /\ i = <<posted + 1, 0>>) \/ PostRetry(i)

(* A post opens the item of its number; the other steps leave posted.      *)
LEMMA PostOpens ==
    ASSUME DelTypes, Post
    PROVE  /\ <<posted + 1, 0>> \in Items /\ Opens(<<posted + 1, 0>>) /\ record(<<posted + 1, 0>>)
           /\ posted' = posted + 1
<1>1. posted + 1 \in Jobs
  BY DeliveryAssumption DEF DelTypes, Chronicle, Post, Jobs
<1> QED
  BY <1>1, ItemFacts DEF Opens, Post

(* What went wrong around an item is not forgotten.                        *)
LEMMA MarksGrow ==
    ASSUME DelTypes, [Next]_vars
    PROVE  \A i \in Items : marks[i] \subseteq marks'[i]
<1>1. marks \in [Items -> SUBSET Marks]
  BY DEF DelTypes, Chronicle
<1>2. \A i \in Items : \A m : \A k \in Items : marks[k] \subseteq Marked(i, m)[k]
  BY <1>1 DEF Marked
<1>3. CASE Post
  BY <1>3, PostOpens, RecordEffect
<1>4. ASSUME NEW i \in Items, QueueJob(i) \/ PostRetry(i) PROVE \A k \in Items : marks[k] \subseteq marks'[k]
  BY <1>4, RecordEffect DEF QueueJob, PostRetry
<1>5. ASSUME NEW l \in Lanes, TakeNext(l) \/ LaneEnds(l) PROVE \A k \in Items : marks[k] \subseteq marks'[k]
  BY <1>5 DEF TakeNext, LaneEnds, history
<1>6. ASSUME NEW t \in Threads, RunJob(t) PROVE \A k \in Items : marks[k] \subseteq marks'[k]
  <2>1. running[t].item \in Items
    BY <1>6, RunJobEffect
  <2> QED
    BY <1>2, <1>6, <2>1 DEF RunJob, Started, Typed, NotDelivered, Panics, StartWatcher, Finished
<1>7. CASE Tick \/ Leave
  BY <1>7 DEF Tick, Leave, history
<1>8. CASE Replay
  <2>1. CASE ReplayRead
    BY <1>1, <2>1 DEF ReplayRead
  <2>2. ASSUME NEW r, Requeue(r) \/ Abandon(r) PROVE marks' = marks
    BY <2>2 DEF Requeue, Abandon
  <2>3. CASE DropRow
    <3>1. Head(rows).item \in Items
      BY <2>3, HeadFacts DEF DropRow, DelTypes, Disk
    <3> QED
      BY <1>2, <2>3, <3>1 DEF DropRow
  <2>4. CASE ReplayDone
    BY <2>4 DEF ReplayDone, history
  <2> QED
    BY <1>8, <2>1, <2>2, <2>3, <2>4 DEF Replay
<1>9. CASE Crash
  BY <1>9, CrashEffect
<1>10. CASE UNCHANGED vars
  BY <1>10 DEF vars, history
<1> QED
  BY <1>3, <1>4, <1>5, <1>6, <1>7, <1>8, <1>9, <1>10 DEF Next, Daemon

(* But for the row of a new record, the rows of the journal stay what they *)
(* were; a row starts only when the thread of its job starts it.           *)
Begins(i) == \E t \in Threads : Started(t) /\ running[t].row /\ running[t].item = i

RowsStem ==
    \A n \in DOMAIN journal' : \E m \in DOMAIN journal :
        /\ journal'[n].item = journal[m].item
        /\ journal[m].started => journal'[n].started
        /\ journal'[n].started => journal[m].started \/ Begins(journal[m].item)
        /\ journal[m].old => journal'[n].old

Sorts == Sorted(journal) => Sorted(journal')

(* A step records one new item, or every row after it comes from one before. *)
LEMMA JournalSteps ==
    ASSUME DelTypes, Distinct(journal), [Next]_vars
    PROVE  \/ \E i \in Items : Opens(i) /\ record(i)
           \/ RowsStem /\ Distinct(journal') /\ Sorts
<1>1. journal' = journal => RowsStem /\ Distinct(journal') /\ Sorts
  BY DEF RowsStem, Sorts
<1>2. ASSUME NEW i, journal' = finish(i) PROVE RowsStem /\ Distinct(journal') /\ Sorts
  <2>1. /\ \A n \in DOMAIN finish(i) : \E m \in DOMAIN journal : finish(i)[n] = journal[m]
        /\ Distinct(finish(i))
        /\ Sorted(journal) => Sorted(finish(i))
    BY FinishFacts DEF DelTypes, Disk
  <2> QED
    BY <1>2, <2>1 DEF RowsStem, Sorts
<1>3. CASE Post
  BY <1>3, PostOpens
<1>4. ASSUME NEW i \in Items, QueueJob(i) \/ PostRetry(i)
      PROVE  \/ Opens(i) /\ record(i)
             \/ RowsStem /\ Distinct(journal') /\ Sorts
  BY <1>1, <1>4 DEF QueueJob, PostRetry, Opens
<1>5. ASSUME NEW l \in Lanes, TakeNext(l) \/ LaneEnds(l) PROVE RowsStem /\ Distinct(journal') /\ Sorts
  BY <1>1, <1>5 DEF TakeNext, LaneEnds
<1>6. ASSUME NEW t \in Threads, RunJob(t) PROVE RowsStem /\ Distinct(journal') /\ Sorts
  <2>1. CASE Started(t)
    <3> DEFINE i == running[t].item
    <3>1. CASE journal' = journal
      BY <1>1, <3>1
    <3>2. CASE journal' = mark_started(i) /\ running[t].row
      <4>1. /\ DOMAIN journal' = DOMAIN journal
            /\ \A n \in DOMAIN journal :
                  /\ journal'[n].item = journal[n].item
                  /\ journal'[n].started = (journal[n].started \/ journal[n].item = i)
                  /\ journal'[n].old = journal[n].old
        BY <3>2, MarkStartedFacts DEF DelTypes, Disk
      <4>2. Begins(i)
        BY <2>1, <3>2 DEF Begins
      <4>3. \A n \in DOMAIN journal : journal[n].started \in BOOLEAN
        BY HeldFacts
      <4> HIDE DEF i
      <4>4. Sorts
        BY <4>1 DEF Sorted, Sorts
      <4> QED
        BY <4>1, <4>2, <4>3, <4>4 DEF RowsStem, Distinct
    <3> QED
      BY <2>1, <3>1, <3>2 DEF Started
  <2>2. CASE ~Started(t)
    BY <1>1, <1>2, <1>6, <2>2 DEF RunJob, Typed, NotDelivered, Panics, StartWatcher, Finished
  <2> QED
    BY <2>1, <2>2
<1>7. CASE Tick \/ Leave
  BY <1>1, <1>7 DEF Tick, Leave
<1>8. CASE Replay
  <2>1. CASE ReplayRead
    <3>1. CASE \E k \in 0 .. EarlierLives :
                  journal' = [n \in DOMAIN journal |-> [journal[n] EXCEPT !.old = @ \/ n <= k]]
      <4>1. /\ DOMAIN journal' = DOMAIN journal
            /\ \A n \in DOMAIN journal : /\ journal'[n].item = journal[n].item
                                         /\ journal'[n].started = journal[n].started
                                         /\ journal[n].old => journal'[n].old
        BY <3>1, AgedFacts
      <4>2. Sorts
        BY <4>1 DEF Sorted, Sorts
      <4> QED
        BY <4>1, <4>2 DEF RowsStem, Distinct
    <3> QED
      BY <1>1, <2>1, <3>1 DEF ReplayRead
  <2>2. ASSUME NEW r, Requeue(r) \/ Abandon(r) PROVE RowsStem /\ Distinct(journal') /\ Sorts
    BY <1>1, <1>2, <2>2 DEF Requeue, Abandon
  <2>3. CASE DropRow
    BY <1>1, <1>2, <2>3 DEF DropRow
  <2>4. CASE ReplayDone
    BY <1>1, <2>4 DEF ReplayDone
  <2> QED
    BY <1>8, <2>1, <2>2, <2>3, <2>4 DEF Replay
<1>9. CASE Crash
  BY <1>1, <1>9 DEF Crash
<1>10. CASE UNCHANGED vars
  BY <1>1, <1>10 DEF vars
<1> QED
  BY <1>3, <1>4, <1>5, <1>6, <1>7, <1>8, <1>9, <1>10 DEF Next, Daemon
-----------------------------------------------------------------------------
(***************************************************************************)
(* Where items come from.  An item is recorded once, in one life of the    *)
(* daemon or another: until then it is nowhere.  The journal and boot's    *)
(* snapshot hold one row per item, a job waits on its own lane, and what   *)
(* was queued without a row has none.                                      *)
(***************************************************************************)
Begun(i) == IF Retry(i) THEN i[2] <= retries[i[1]] ELSE Posted(i)
Fresh(i) == ~Begun(i) \/ i \in fired

Said(i) == \E n \in DOMAIN typed : typed[n] = i
NotQueued(i) == \A l \in Lanes : \A n \in DOMAIN lanes[l].queue : lanes[l].queue[n].item # i
NotRun(i) == \A t \in Threads : running[t].item # i

Untouched(i) ==
    /\ ~InJournal(i) /\ i \notin RowsOf(rows) /\ posting[i] = "no"
    /\ NotQueued(i) /\ NotRun(i)
    /\ ~Said(i) /\ watches[i] = 0

FreshInv ==
    /\ \A i \in Items : Fresh(i) => Untouched(i)
    /\ \A i \in fired : Retry(i) /\ Begun(i)

PostFree ==
    \A i \in Items : /\ running[PostThread(i)] # Idle => running[PostThread(i)].item = i
                     /\ posting[i] # "no" => running[PostThread(i)] = Idle

RowsInv == Distinct(journal) /\ Distinct(rows) /\ (boot = "ready" => rows = << >>)

OwnLanes == \A l \in Lanes : \A n \in DOMAIN lanes[l].queue : Lane(lanes[l].queue[n].item) = l

Unjournaled ==
    /\ \A i \in Items : posting[i] = "norow" => ~InJournal(i)
    /\ \A l \in Lanes : \A n \in DOMAIN lanes[l].queue :
          ~lanes[l].queue[n].row => ~InJournal(lanes[l].queue[n].item)
    /\ \A t \in Threads : running[t] # Idle /\ ~running[t].row => ~InJournal(running[t].item)

Origins == FreshInv /\ PostFree /\ RowsInv /\ OwnLanes /\ Unjournaled

(* An item is in the journal only if it was, or is recorded now.           *)
LEMMA JournalOnlyOpens ==
    ASSUME DelTypes, Distinct(journal), [Next]_vars, NEW i \in Items, InJournal(i)'
    PROVE  InJournal(i) \/ Opens(i)
<1>1. PICK n \in DOMAIN journal' : journal'[n].item = i
  BY DEF InJournal, RowsOf
<1>2. ASSUME NEW k \in Items, Opens(k), record(k) PROVE InJournal(i) \/ Opens(i)
  <2>1. \/ journal'[n].item = k
        \/ \E m \in DOMAIN journal : journal'[n] = journal[m]
    BY <1>2, RecordTypes
  <2> QED
    BY <1>1, <1>2, <2>1 DEF InJournal, RowsOf
<1>3. CASE RowsStem
  BY <1>1, <1>3 DEF RowsStem, InJournal, RowsOf
<1> QED
  BY <1>2, <1>3, JournalSteps

(* What is nowhere stays nowhere, until it is recorded.                    *)
LEMMA UntouchedStep ==
    ASSUME DelTypes, Distinct(journal), [Next]_vars, NEW i \in Items, Untouched(i), ~Opens(i)
    PROVE  Untouched(i)'
<1>1. ~InJournal(i)'
  BY JournalOnlyOpens DEF Untouched
<1>2. /\ \A n \in DOMAIN rows : rows[n].item # i
      /\ posting[i] = "no" /\ watches[i] = 0
      /\ \A l \in Lanes : \A n \in DOMAIN lanes[l].queue : lanes[l].queue[n].item # i
      /\ \A t \in Threads : running[t].item # i
      /\ \A n \in DOMAIN typed : typed[n] # i
  BY DEF Untouched, RowsOf, NotQueued, NotRun, Said
<1> DEFINE Nowhere == /\ \A n \in DOMAIN rows' : rows'[n].item # i
                      /\ posting'[i] = "no" /\ watches'[i] = 0
                      /\ \A l \in Lanes : \A n \in DOMAIN lanes'[l].queue : lanes'[l].queue[n].item # i
                      /\ \A t \in Threads : running'[t].item # i
                      /\ \A n \in DOMAIN typed' : typed'[n] # i
<1>3. ASSUME NEW k \in Items, Opens(k), record(k) PROVE Nowhere
  <2>1. k # i
    BY <1>3
  <2>2. posting'[i] = posting[i]
    BY <1>3, <2>1, RecordEffect
  <2> QED
    BY <1>2, <1>3, <2>2 DEF Opens, Post, PostRetry
<1>4. ASSUME NEW k \in Items, NEW t \in {PostThread(k), BootThread(k)}, NEW row \in BOOLEAN,
             run_later(t, k, row), k # i
      PROVE  /\ \A l \in Lanes : \A n \in DOMAIN lanes'[l].queue : lanes'[l].queue[n].item # i
             /\ \A u \in Threads : running'[u].item # i
  <2> DEFINE q == lanes[Lane(k)].queue
             w == lanes'[Lane(k)].queue
  <2>1. /\ \A l \in Lanes : l # Lane(k) => lanes'[l].queue = lanes[l].queue
        /\ \/ /\ running' = running /\ Len(q) \in Nat /\ DOMAIN q = 1..Len(q)
              /\ DOMAIN w = 1..(Len(q) + 1)
              /\ w[Len(q) + 1].item = k
              /\ \A n \in DOMAIN q : w[n] = q[n]
           \/ /\ lanes' = lanes
              /\ running'[t].item = k
              /\ \A u \in Threads : u # t => running'[u] = running[u]
    BY <1>4, RunLaterEffect
  <2>2. \A n \in DOMAIN q : q[n].item # i
    BY <1>2, ItemFacts
  <2> HIDE DEF q, w
  <2>3. CASE /\ running' = running /\ Len(q) \in Nat /\ DOMAIN q = 1..Len(q)
             /\ DOMAIN w = 1..(Len(q) + 1)
             /\ w[Len(q) + 1].item = k
             /\ \A n \in DOMAIN q : w[n] = q[n]
    <3>1. \A n \in DOMAIN w : n = Len(q) + 1 \/ n \in DOMAIN q
      BY <2>3
    <3>2. \A n \in DOMAIN w : w[n].item # i
      BY <1>4, <2>2, <2>3, <3>1
    <3> QED
      BY <1>2, <2>1, <2>3, <3>2 DEF w
  <2>4. CASE /\ lanes' = lanes
             /\ running'[t].item = k
             /\ \A u \in Threads : u # t => running'[u] = running[u]
    BY <1>2, <1>4, <2>4
  <2> QED
    BY <2>1, <2>3, <2>4
<1>5. ASSUME NEW k \in Items, QueueJob(k) PROVE Nowhere
  <2>1. k # i /\ run_later(PostThread(k), k, posting[k] = "row") /\ (posting[k] = "row") \in BOOLEAN
    BY <1>2, <1>5 DEF QueueJob
  <2>2. posting'[i] = "no"
    BY <1>2, <1>5, <2>1 DEF QueueJob, DelTypes, Waiting
  <2>3. rows' = rows /\ watches' = watches /\ typed' = typed
    BY <1>5 DEF QueueJob
  <2> QED
    BY <1>2, <1>4, <2>1, <2>2, <2>3
<1>6. ASSUME NEW l \in Lanes, TakeNext(l) PROVE Nowhere
  <2> DEFINE q == lanes[l].queue
             w == lanes'[l].queue
             t == LaneThread(l)
  <2>1. /\ 1 \in DOMAIN q /\ running'[t].item = q[1].item
        /\ \A u \in Threads : u # t => running'[u] = running[u]
        /\ \A k \in Lanes : k # l => lanes'[k] = lanes[k]
        /\ \A n \in DOMAIN w : n + 1 \in DOMAIN q /\ w[n] = q[n + 1]
    BY <1>6, TakeNextEffect
  <2>2. rows' = rows /\ watches' = watches /\ typed' = typed /\ posting' = posting
    BY <1>6 DEF TakeNext, history
  <2>3. \A n \in DOMAIN q : q[n].item # i
    BY <1>2
  <2>4. \A u \in Threads : running'[u].item # i
    BY <1>2, <2>1, <2>3
  <2>5. \A n \in DOMAIN w : w[n].item # i
    BY <2>1, <2>3
  <2> QED
    BY <1>2, <2>1, <2>2, <2>4, <2>5
<1>7. ASSUME NEW l \in Lanes, LaneEnds(l) PROVE Nowhere
  <2>1. \A k \in Lanes : lanes'[k].queue = lanes[k].queue
    BY <1>7 DEF LaneEnds, DelTypes, Work
  <2>2. rows' = rows /\ watches' = watches /\ typed' = typed /\ posting' = posting /\ running' = running
    BY <1>7 DEF LaneEnds, history
  <2> QED
    BY <1>2, <2>1, <2>2
<1>8. ASSUME NEW t \in Threads, RunJob(t) PROVE Nowhere
  <2>1. /\ running[t].item \in Items /\ running[t].item # i
        /\ \A u \in Threads : running'[u].item # i
    <3>1. NoItem # i
      BY ItemFacts
    <3> QED
      BY <1>2, <1>8, <3>1, RunJobEffect, ThreadFacts
  <2>2. rows' = rows /\ posting' = posting /\ lanes' = lanes
    BY <1>8 DEF RunJob, Started, Typed, NotDelivered, Panics, StartWatcher, Finished
  <2>3. \A n \in DOMAIN typed' : typed'[n] # i
    <3>1. \A n \in DOMAIN Append(typed, running[t].item) : Append(typed, running[t].item)[n] # i
      BY <1>2, <2>1, AppendProperties DEF DelTypes, Chronicle
    <3>2. typed' \in {typed, Append(typed, running[t].item)}
      BY <1>8 DEF RunJob, Started, Typed, NotDelivered, Panics, StartWatcher, Finished
    <3> QED
      BY <1>2, <3>1, <3>2
  <2>4. watches'[i] = 0
    <3>1. \/ watches' = watches
          \/ watches' = [watches EXCEPT ![running[t].item] = @ + 1]
          \/ watches' = NoMemory.watches
      BY <1>8 DEF RunJob, Started, Typed, NotDelivered, Panics, StartWatcher, Finished
    <3> QED
      BY <1>2, <2>1, <3>1, NoMemoryFacts DEF DelTypes, Watching
  <2> QED
    BY <1>2, <2>1, <2>2, <2>3, <2>4
<1>9. ASSUME Tick PROVE Nowhere
  <2>1. PICK S \in SUBSET Watched :
           watches' = [k \in Items |-> IF k \in S THEN watches[k] - 1 ELSE watches[k]]
    BY <1>9 DEF Tick
  <2>2. i \notin S
    BY <1>2 DEF Watched
  <2>3. watches'[i] = 0
    BY <1>2, <2>1, <2>2
  <2>4. rows' = rows /\ posting' = posting /\ lanes' = lanes /\ running' = running /\ typed' = typed
    BY <1>9 DEF Tick
  <2> QED
    BY <1>2, <2>3, <2>4
<1>10. ASSUME Leave PROVE Nowhere
  <2>1. rows' = rows /\ posting' = posting /\ lanes' = lanes /\ running' = running /\ typed' = typed
        /\ watches' = watches
    BY <1>10 DEF Leave, history
  <2> QED
    BY <1>2, <2>1
<1>11. ASSUME Replay PROVE Nowhere
  <2>1. ASSUME ReplayRead PROVE Nowhere
    <3>1. posting' = posting /\ lanes' = lanes /\ running' = running /\ typed' = typed
          /\ watches' = watches /\ (rows' = rows \/ rows' = journal')
      BY <2>1 DEF ReplayRead
    <3>2. \A n \in DOMAIN journal' : journal'[n].item # i
      BY <1>1 DEF InJournal, RowsOf
    <3> QED
      BY <1>2, <3>1, <3>2
  <2>2. ASSUME rows # << >> PROVE \A n \in DOMAIN Tail(rows) : Tail(rows)[n].item # i
    BY <1>2, <2>2, HeadFacts
  <2>3. ASSUME NEW r, Requeue(r) PROVE Nowhere
    <3>1. rows # << >> /\ r = Head(rows) /\ rows' = Tail(rows)
          /\ posting' = posting /\ watches' = watches /\ typed' = typed
      BY <2>3 DEF Requeue, ReplayNext
    <3>2. r.item \in Items /\ r.item # i
      BY <1>2, <3>1, HeadFacts
    <3>3. \/ run_later(BootThread(r.item), r.item, TRUE)
          \/ lanes' = lanes /\ running' = running
      BY <2>3 DEF Requeue
    <3> QED
      BY <1>2, <1>4, <2>2, <3>1, <3>2, <3>3
  <2>4. ASSUME NEW r, Abandon(r) PROVE Nowhere
    BY <1>2, <2>4 DEF Abandon
  <2>5. ASSUME DropRow PROVE Nowhere
    <3>1. rows # << >> /\ rows' = Tail(rows) /\ posting' = posting /\ watches' = watches /\ typed' = typed
          /\ lanes' = lanes /\ running' = running
      BY <2>5 DEF DropRow, DelTypes, Disk
    <3> QED
      BY <1>2, <2>2, <3>1
  <2>6. ASSUME ReplayDone PROVE Nowhere
    BY <1>2, <2>6 DEF ReplayDone, history
  <2> QED
    BY <1>11, <2>1, <2>3, <2>4, <2>5, <2>6 DEF Replay
<1>12. ASSUME Crash PROVE Nowhere
  <2>1. NoItem # i
    BY ItemFacts
  <2> QED
    BY <1>2, <1>12, <2>1, CrashEffect
<1>13. ASSUME UNCHANGED vars PROVE Nowhere
  BY <1>2, <1>13 DEF vars, memory, history
<1>14. Nowhere
  <2>1. ASSUME Post PROVE Nowhere
    BY <1>3, <2>1, PostOpens
  <2>2. ASSUME NEW k \in Items, PostRetry(k) PROVE Nowhere
    BY <1>3, <2>2 DEF PostRetry, Opens
  <2> QED
    BY <1>5, <1>6, <1>7, <1>8, <1>9, <1>10, <1>11, <1>12, <1>13, <2>1, <2>2 DEF Next, Daemon
<1> QED
  BY <1>1, <1>14 DEF Untouched, RowsOf, NotQueued, NotRun, Said
(* Where a queued job comes from.                                          *)
QueueStems ==
    \A l \in Lanes : \A n \in DOMAIN lanes'[l].queue :
        LET b == lanes'[l].queue[n] IN
        \/ \E m \in DOMAIN lanes[l].queue : b = lanes[l].queue[m]
        \/ b.item \in Items /\ l = Lane(b.item) /\ QueueJob(b.item) /\ b.row = (posting[b.item] = "row")
        \/ b.item \in Items /\ l = Lane(b.item) /\ b.row /\ \E r : Requeue(r) /\ r.item = b.item

(* Where the job of a thread comes from.                                   *)
RunStems ==
    \A t \in Threads :
        LET b == running'[t] IN
        \/ b = Idle
        \/ running[t] # Idle /\ b.item = running[t].item /\ b.row = running[t].row
        \/ /\ running[t] = Idle
           /\ \E l \in Lanes : /\ t = LaneThread(l) /\ TakeNext(l) /\ 1 \in DOMAIN lanes[l].queue
                               /\ b.item = lanes[l].queue[1].item /\ b.row = lanes[l].queue[1].row
        \/ /\ b.item \in Items /\ t = PostThread(b.item)
           /\ QueueJob(b.item) /\ b.row = (posting[b.item] = "row")
        \/ b.item \in Items /\ t = BootThread(b.item) /\ b.row /\ \E r : Requeue(r) /\ r.item = b.item

(* Every job queued or run after a step is accounted for before it.        *)
LEMMA JobStems ==
    ASSUME DelTypes, [Next]_vars PROVE QueueStems /\ RunStems
<1>1. ASSUME UNCHANGED lanes PROVE QueueStems
  BY <1>1 DEF QueueStems
<1>2. ASSUME UNCHANGED running PROVE RunStems
  BY <1>2 DEF RunStems
<1>3. ASSUME NEW k \in Items, NEW t \in {PostThread(k), BootThread(k)}, NEW row \in BOOLEAN,
             run_later(t, k, row),
             \/ t = PostThread(k) /\ QueueJob(k) /\ row = (posting[k] = "row")
             \/ t = BootThread(k) /\ row /\ \E r : Requeue(r) /\ r.item = k
      PROVE  QueueStems /\ RunStems
  <2> DEFINE q == lanes[Lane(k)].queue
             w == lanes'[Lane(k)].queue
  <2>1. /\ \A l \in Lanes : l # Lane(k) => lanes'[l].queue = lanes[l].queue
        /\ \/ /\ running' = running /\ Len(q) \in Nat /\ DOMAIN q = 1..Len(q)
              /\ DOMAIN w = 1..(Len(q) + 1)
              /\ w[Len(q) + 1].item = k /\ w[Len(q) + 1].row = row
              /\ \A n \in DOMAIN q : w[n] = q[n]
           \/ /\ lanes' = lanes
              /\ running'[t].item = k /\ running'[t].row = row
              /\ \A u \in Threads : u # t => running'[u] = running[u]
    BY <1>3, RunLaterEffect
  <2>2. Lane(k) \in Lanes
    BY ItemFacts
  <2> HIDE DEF q, w
  <2>3. CASE /\ running' = running /\ Len(q) \in Nat /\ DOMAIN q = 1..Len(q)
             /\ DOMAIN w = 1..(Len(q) + 1)
             /\ w[Len(q) + 1].item = k /\ w[Len(q) + 1].row = row
             /\ \A n \in DOMAIN q : w[n] = q[n]
    <3>1. \A n \in DOMAIN w : n = Len(q) + 1 \/ n \in DOMAIN q
      BY <2>3
    <3>2. ASSUME NEW n \in DOMAIN w
          PROVE  \/ \E m \in DOMAIN q : w[n] = q[m]
                 \/ w[n].item = k /\ w[n].row = row
      BY <2>3, <3>1
    <3>3. ASSUME NEW l \in Lanes, NEW n \in DOMAIN lanes'[l].queue, l # Lane(k)
          PROVE  \E m \in DOMAIN lanes[l].queue : lanes'[l].queue[n] = lanes[l].queue[m]
      BY <2>1, <3>3
    <3>4. QueueStems
      BY <1>3, <3>2, <3>3 DEF QueueStems, q, w
    <3> QED
      BY <1>2, <2>3, <3>4
  <2>4. CASE /\ lanes' = lanes
             /\ running'[t].item = k /\ running'[t].row = row
             /\ \A u \in Threads : u # t => running'[u] = running[u]
    <3>1. RunStems
      BY <1>3, <2>4 DEF RunStems
    <3> QED
      BY <1>1, <2>4, <3>1
  <2> QED
    BY <2>1, <2>3, <2>4
<1>4. ASSUME NEW k \in Items, QueueJob(k) PROVE QueueStems /\ RunStems
  <2>1. run_later(PostThread(k), k, posting[k] = "row") /\ (posting[k] = "row") \in BOOLEAN
    BY <1>4 DEF QueueJob
  <2> QED
    BY <1>3, <1>4, <2>1
<1>5. ASSUME NEW l \in Lanes, TakeNext(l) PROVE QueueStems /\ RunStems
  <2>1. LET q == lanes[l].queue  w == lanes'[l].queue  t == LaneThread(l) IN
           /\ t \in Threads /\ running[t] = Idle /\ 1 \in DOMAIN q
           /\ running'[t].item = q[1].item /\ running'[t].row = q[1].row
           /\ \A u \in Threads : u # t => running'[u] = running[u]
           /\ \A k \in Lanes : k # l => lanes'[k] = lanes[k]
           /\ \A n \in DOMAIN w : n + 1 \in DOMAIN q /\ w[n] = q[n + 1]
    BY <1>5, TakeNextEffect
  <2>2. QueueStems
    BY <2>1 DEF QueueStems
  <2>3. RunStems
    BY <1>5, <2>1 DEF RunStems
  <2> QED
    BY <2>2, <2>3
<1>6. ASSUME NEW l \in Lanes, LaneEnds(l) PROVE QueueStems /\ RunStems
  <2>1. \A k \in Lanes : lanes'[k].queue = lanes[k].queue
    BY <1>6 DEF LaneEnds, DelTypes, Work
  <2>2. running' = running
    BY <1>6 DEF LaneEnds
  <2> QED
    BY <1>2, <2>1, <2>2 DEF QueueStems
<1>7. ASSUME NEW t \in Threads, RunJob(t) PROVE QueueStems /\ RunStems
  <2>1. lanes' = lanes
    BY <1>7 DEF RunJob, Started, Typed, NotDelivered, Panics, StartWatcher, Finished
  <2>2. /\ running[t] # Idle
        /\ \A u \in Threads : u # t => running'[u] = running[u]
        /\ \/ running'[t].item = running[t].item /\ running'[t].row = running[t].row
           \/ running'[t] = Idle
    BY <1>7, RunJobEffect
  <2>3. RunStems
    BY <2>2 DEF RunStems
  <2> QED
    BY <1>1, <2>1, <2>3
<1>8. ASSUME NEW r, Requeue(r) PROVE QueueStems /\ RunStems
  <2>1. rows # << >> /\ r = Head(rows)
    BY <1>8 DEF Requeue, ReplayNext
  <2>2. r.item \in Items
    BY <2>1, HeadFacts
  <2>3. \/ run_later(BootThread(r.item), r.item, TRUE)
        \/ lanes' = lanes /\ running' = running
    BY <1>8 DEF Requeue
  <2> QED
    BY <1>1, <1>2, <1>3, <1>8, <2>2, <2>3
<1>9. CASE Crash
  <2>1. /\ \A l \in Lanes : lanes'[l].queue = << >>
        /\ \A t \in Threads : running'[t] = Idle
    BY <1>9, CrashEffect
  <2> QED
    BY <2>1 DEF QueueStems, RunStems
<1>10. CASE Post \/ (\E i \in Items : PostRetry(i)) \/ Tick \/ Leave \/ UNCHANGED vars
  BY <1>1, <1>2, <1>10 DEF Post, PostRetry, Tick, Leave, vars, memory
<1>11. CASE ReplayRead \/ (\E r : Abandon(r)) \/ DropRow \/ ReplayDone
  BY <1>1, <1>2, <1>11 DEF ReplayRead, Abandon, DropRow, ReplayDone
<1> QED
  BY <1>4, <1>5, <1>6, <1>7, <1>8, <1>9, <1>10, <1>11 DEF Next, Daemon, Replay

(* A post is under way from its record to its queue step.                  *)
LEMMA PostingStems ==
    ASSUME DelTypes, [Next]_vars, NEW i \in Items, posting'[i] # "no"
    PROVE  ~QueueJob(i) /\ (Opens(i) \/ posting'[i] = posting[i])
<1>1. ~QueueJob(i)
  BY DEF QueueJob, DelTypes, Waiting
<1>2. ASSUME NEW k \in Items, record(k), k # i PROVE posting'[i] = posting[i]
  BY <1>2, RecordEffect
<1>3. CASE Post
  BY <1>1, <1>2, <1>3, PostOpens
<1>4. ASSUME NEW k \in Items, PostRetry(k) PROVE Opens(i) \/ posting'[i] = posting[i]
  BY <1>2, <1>4 DEF PostRetry, Opens
<1>5. ASSUME NEW k \in Items, QueueJob(k) PROVE posting'[i] = posting[i]
  BY <1>1, <1>5 DEF QueueJob, DelTypes, Waiting
<1>6. ASSUME NEW u \in Threads, RunJob(u) PROVE posting' = posting
  BY <1>6 DEF RunJob, Started, Typed, NotDelivered, Panics, StartWatcher, Finished
<1>7. ASSUME Replay \/ Tick \/ Leave \/ UNCHANGED vars PROVE posting' = posting
  <2>1. ASSUME NEW r, Requeue(r) \/ Abandon(r) PROVE posting' = posting
    BY <2>1 DEF Requeue, Abandon
  <2> QED
    BY <1>7, <2>1 DEF Replay, ReplayRead, DropRow, ReplayDone, Tick, Leave, vars, memory
<1>8. ASSUME NEW l \in Lanes, TakeNext(l) \/ LaneEnds(l) PROVE posting' = posting
  BY <1>8 DEF TakeNext, LaneEnds
<1>9. CASE Crash
  BY <1>9, CrashEffect
<1> QED
  BY <1>1, <1>3, <1>4, <1>5, <1>6, <1>7, <1>8, <1>9 DEF Next, Daemon

(* Posts and retries are only ever added; a retry is fired for a number    *)
(* not yet used.                                                           *)
LEMMA Progress ==
    ASSUME DelTypes, [Next]_vars
    PROVE  /\ posted' \in Nat /\ posted <= posted'
           /\ \A j \in Jobs : retries'[j] \in Nat /\ retries[j] <= retries'[j]
           /\ \A k \in fired' : k \in fired \/ (k \in Items /\ Retry(k) /\ ~Begun(k) /\ Begun(k)')
           /\ ~Tick => retries' = retries /\ fired' \subseteq fired
<1>1. posted \in Nat /\ retries \in [Jobs -> 0..MaxRetries] /\ MaxRetries \in Nat
  BY DeliveryAssumption DEF DelTypes, Chronicle, Watching
<1>2. CASE Tick
  <2>0. PICK S \in SUBSET Watched : \E missed \in SUBSET S : NotTaken(missed)
    BY <1>2 DEF Tick
  <2>1. PICK missed \in SUBSET S : NotTaken(missed)
    BY <2>0
  <2> DEFINE F == {i \in missed : ~Retry(i)}
  <2>2. /\ \A i \in F : retries[i[1]] < MaxRetries
        /\ fired' = fired \cup {<<i[1], retries[i[1]] + 1>> : i \in F}
        /\ retries' = [j \in Jobs |-> IF \E i \in F : i[1] = j THEN retries[j] + 1 ELSE retries[j]]
    BY <2>1 DEF NotTaken, FireRetry
  <2>3. posted' = posted
    BY <1>2 DEF Tick
  <2>4. \A j \in Jobs : retries'[j] \in Nat /\ retries[j] <= retries'[j]
    BY <1>1, <2>2
  <2>5. ASSUME NEW k \in fired', k \notin fired PROVE k \in Items /\ Retry(k) /\ ~Begun(k) /\ Begun(k)'
    <3>1. PICK i \in F : k = <<i[1], retries[i[1]] + 1>>
      BY <2>2, <2>5
    <3>2. i \in Items /\ i[1] \in Jobs
      BY ItemFacts DEF Watched
    <3>3. retries[i[1]] \in Nat /\ retries'[i[1]] = retries[i[1]] + 1
      BY <1>1, <2>2, <3>2
    <3>4. k[1] = i[1] /\ k[2] = retries[i[1]] + 1
      BY <3>1
    <3>5. k \in Items
      BY <1>2, <2>5, TickTypes DEF DelTypes, Waiting
    <3>6. Retry(k) /\ ~(k[2] <= retries[k[1]]) /\ k[2] <= retries'[k[1]]
      BY <3>3, <3>4 DEF Retry
    <3> QED
      BY <3>5, <3>6 DEF Begun, Retry
  <2> QED
    BY <1>1, <1>2, <2>3, <2>4, <2>5
<1>4. ASSUME ~Tick, ~Post PROVE posted' = posted /\ retries' = retries /\ fired' \subseteq fired
  <2>1. CASE Crash
    BY <2>1, CrashEffect
  <2>2. ASSUME NEW t \in Threads, RunJob(t) PROVE posted' = posted /\ retries' = retries /\ fired' = fired
    BY <2>2 DEF RunJob, Started, Typed, NotDelivered, Panics, StartWatcher, Finished
  <2>3. CASE Replay
    BY <2>3 DEF Replay, ReplayRead, Requeue, Abandon, DropRow, ReplayDone, history
  <2>4. ASSUME NEW i \in Items, QueueJob(i) \/ PostRetry(i) PROVE posted' = posted /\ retries' = retries /\ fired' \subseteq fired
    BY <2>4 DEF QueueJob, PostRetry
  <2>5. ASSUME NEW l \in Lanes, TakeNext(l) \/ LaneEnds(l) PROVE posted' = posted /\ retries' = retries /\ fired' = fired
    BY <2>5 DEF TakeNext, LaneEnds, history
  <2>6. CASE Leave \/ UNCHANGED vars
    BY <2>6 DEF Leave, vars, memory, history
  <2> QED
    BY <1>4, <2>1, <2>2, <2>3, <2>4, <2>5, <2>6 DEF Next, Daemon
<1>5. ASSUME ~Tick, retries' = retries, fired' \subseteq fired, posted' \in Nat, posted <= posted'
      PROVE  /\ \A j \in Jobs : retries'[j] \in Nat /\ retries[j] <= retries'[j]
             /\ \A k \in fired' : k \in fired
  BY <1>1, <1>5
<1>6. CASE Post /\ ~Tick
  <2>1. retries' = retries /\ fired' = fired /\ posted' \in Nat /\ posted <= posted'
    BY <1>1, <1>6, PostOpens DEF Post
  <2> QED
    BY <1>5, <1>6, <2>1
<1>7. CASE ~Post /\ ~Tick
  BY <1>1, <1>4, <1>5, <1>7
<1> QED
  BY <1>2, <1>6, <1>7
(* Only an item that is nowhere is recorded.                               *)
LEMMA OpensFresh ==
    ASSUME DelTypes, FreshInv, NEW i \in Items, Opens(i)
    PROVE  Fresh(i) /\ Untouched(i) /\ record(i)
<1>1. CASE Post /\ i = <<posted + 1, 0>>
  <2>1. posted \in Nat /\ ~Retry(i) /\ record(i)
    BY <1>1, PostOpens DEF DelTypes, Chronicle, Retry
  <2>2. ~Posted(i)
    <3>1. i[1] = posted + 1
      BY <1>1
    <3> QED
      BY <2>1, <3>1 DEF Posted
  <2> QED
    BY <2>1, <2>2 DEF Fresh, Begun, FreshInv
<1>2. CASE PostRetry(i)
  BY <1>2 DEF PostRetry, Fresh, FreshInv
<1> QED
  BY <1>1, <1>2 DEF Opens

(* An item that is fresh was so before, and is not recorded by the step.   *)
LEMMA FreshStep ==
    ASSUME DelTypes, FreshInv, [Next]_vars, NEW i \in Items, Fresh(i)'
    PROVE  Fresh(i) /\ ~Opens(i)
<1>1. /\ i[1] \in Jobs /\ i[1] \in Nat /\ i[2] \in Nat /\ posted \in Nat /\ posted' \in Nat
      /\ posted <= posted' /\ retries[i[1]] \in Nat /\ retries'[i[1]] \in Nat
      /\ retries[i[1]] <= retries'[i[1]]
  <2>1. retries[i[1]] \in Nat
    BY ItemFacts, DeliveryAssumption DEF DelTypes, Watching
  <2> QED
    BY <2>1, ItemFacts, Progress, DeliveryAssumption, SMTT(30) DEF DelTypes, Chronicle
<1>2. Begun(i) => Begun(i)'
  BY <1>1 DEF Begun, Posted
<1>3. i \in fired' => i \in fired \/ ~Begun(i)
  BY Progress
<1>4. Fresh(i)
  BY <1>2, <1>3 DEF Fresh
<1>5. ASSUME Opens(i) PROVE FALSE
  <2>1. CASE Post /\ i = <<posted + 1, 0>>
    <3>1. i[1] = posted + 1 /\ ~Retry(i) /\ posted' = posted + 1 /\ fired' = fired
      BY <2>1, PostOpens DEF Retry, Post
    <3>2. Begun(i)'
      BY <1>1, <3>1 DEF Begun, Posted
    <3>3. i \notin fired'
      BY <3>1 DEF FreshInv
    <3> QED
      BY <3>2, <3>3 DEF Fresh
  <2>2. CASE PostRetry(i)
    <3>1. i \in fired /\ i \notin fired'
      BY <2>2 DEF PostRetry
    <3>2. Begun(i)
      BY <3>1 DEF FreshInv
    <3> QED
      BY <1>2, <3>1, <3>2 DEF Fresh
  <2> QED
    BY <1>5, <2>1, <2>2 DEF Opens
<1> QED
  BY <1>4, <1>5

(* An item under way that has no row gets none.                            *)
LEMMA StaysOut ==
    ASSUME DelTypes, FreshInv, Distinct(journal), [Next]_vars,
           NEW i \in Items, ~Untouched(i), ~InJournal(i)
    PROVE  ~InJournal(i)'
BY JournalOnlyOpens, OpensFresh

(* An item not begun stays untouched, and what fired has begun.            *)
LEMMA FreshInvStep ==
    ASSUME DelTypes, Origins, [Next]_vars PROVE FreshInv'
<1>1. FreshInv /\ Distinct(journal)
  BY DEF Origins, RowsInv
<1>2. ASSUME NEW i \in Items, Fresh(i)' PROVE Untouched(i)'
  BY <1>1, <1>2, FreshStep, UntouchedStep DEF FreshInv
<1>3. ASSUME NEW i \in fired' PROVE Retry(i) /\ Begun(i)'
  <2>1. CASE i \notin fired
    BY <2>1, Progress
  <2>2. CASE i \in fired
    <3>1. i \in Items /\ Retry(i) /\ Begun(i)
      BY <1>1, <2>2 DEF FreshInv, DelTypes, Waiting
    <3>2. i[1] \in Jobs /\ i[2] \in Nat /\ retries[i[1]] \in Nat
      BY <3>1, ItemFacts, DeliveryAssumption DEF DelTypes, Watching
    <3>3. retries'[i[1]] \in Nat /\ retries[i[1]] <= retries'[i[1]]
      BY <3>2, Progress
    <3> QED
      BY <3>1, <3>2, <3>3 DEF Begun
  <2> QED
    BY <2>1, <2>2
<1> QED
  BY <1>2, <1>3 DEF FreshInv

(* The thread of a post gets its job from the post's queue step.           *)
LEMMA PostThreadFrom ==
    ASSUME DelTypes, [Next]_vars, NEW i \in Items
    PROVE  LET t == PostThread(i) IN
           \/ running'[t] = Idle
           \/ running[t] # Idle /\ running'[t].item = running[t].item
           \/ running'[t].item = i /\ QueueJob(i)
<1> DEFINE t == PostThread(i)
<1>1. t \in Threads /\ \A l \in Lanes : t # LaneThread(l)
  BY ThreadFacts
<1>2. \A k \in Items : t # BootThread(k) /\ (t = PostThread(k) => k = i)
  BY ThreadFacts
<1> HIDE DEF t
<1>3. RunStems
  BY JobStems
<1>4. \/ running'[t] = Idle
      \/ running[t] # Idle /\ running'[t].item = running[t].item
      \/ \E l \in Lanes : t = LaneThread(l)
      \/ running'[t].item \in Items /\ t = PostThread(running'[t].item) /\ QueueJob(running'[t].item)
      \/ running'[t].item \in Items /\ t = BootThread(running'[t].item)
  BY <1>1, <1>3 DEF RunStems
<1> QED
  BY <1>1, <1>2, <1>4 DEF t

(* The thread of a post runs only its own item.                            *)
LEMMA PostFreeStep ==
    ASSUME DelTypes, Origins, [Next]_vars PROVE PostFree'
<1> SUFFICES ASSUME NEW i \in Items
             PROVE  /\ running'[PostThread(i)] # Idle => running'[PostThread(i)].item = i
                    /\ posting'[i] # "no" => running'[PostThread(i)] = Idle
  BY DEF PostFree
<1> DEFINE t == PostThread(i)
<1>1. t \in Threads /\ (running[t] # Idle => running[t].item = i) /\ (posting[i] # "no" => running[t] = Idle)
  BY ThreadFacts DEF Origins, PostFree
<1>2. \/ running'[t] = Idle
      \/ running[t] # Idle /\ running'[t].item = running[t].item
      \/ running'[t].item = i /\ QueueJob(i)
  BY PostThreadFrom
<1>3. running'[t] # Idle => running'[t].item = i
  BY <1>1, <1>2
<1>4. ASSUME posting'[i] # "no" PROVE running'[t] = Idle
  <2>1. ~QueueJob(i)
    BY <1>4, PostingStems
  <2>2. running[t] = Idle
    <3>1. CASE Opens(i)
      <4>1. running[t].item # i
        BY <1>1, <3>1, OpensFresh DEF Origins, Untouched, NotRun
      <4> QED
        BY <1>1, <4>1
    <3>2. CASE ~Opens(i)
      <4>2. posting[i] # "no"
        BY <1>4, <3>2, PostingStems
      <4> QED
        BY <1>1, <4>2
    <3> QED
      BY <3>1, <3>2
  <2> QED
    BY <1>2, <2>1, <2>2
<1> QED
  BY <1>3, <1>4

(* No item has two rows, in the journal or in what the replay read.        *)
LEMMA RowsInvStep ==
    ASSUME DelTypes, Origins, [Next]_vars PROVE RowsInv'
<1>1. FreshInv /\ Distinct(journal) /\ Distinct(rows) /\ (boot = "ready" => rows = << >>)
  BY DEF Origins, RowsInv
<1>2. Distinct(journal')
  <2>1. ASSUME NEW i \in Items, Opens(i), record(i) PROVE Distinct(journal')
    <3>1. \A n \in DOMAIN journal : journal[n].item # i
      BY <1>1, <2>1, OpensFresh DEF Untouched, InJournal, RowsOf
    <3>2. \/ /\ Len(journal) \in Nat /\ DOMAIN journal = 1..Len(journal)
             /\ DOMAIN journal' = 1..(Len(journal) + 1)
             /\ journal'[Len(journal) + 1].item = i
             /\ \A n \in DOMAIN journal : journal'[n] = journal[n]
          \/ journal' = journal
      BY <2>1, RecordEffect
    <3>3. CASE /\ Len(journal) \in Nat /\ DOMAIN journal = 1..Len(journal)
               /\ DOMAIN journal' = 1..(Len(journal) + 1)
               /\ journal'[Len(journal) + 1].item = i
               /\ \A n \in DOMAIN journal : journal'[n] = journal[n]
      <4>1. \A n \in DOMAIN journal' : n = Len(journal) + 1 \/ n \in DOMAIN journal
        BY <3>3
      <4> QED
        BY <1>1, <3>1, <3>3, <4>1 DEF Distinct
    <3> QED
      BY <1>1, <3>2, <3>3
  <2> QED
    BY <1>1, <2>1, JournalSteps
<1>3. ASSUME rows # << >> PROVE Distinct(Tail(rows))
  <2>1. \A n \in DOMAIN Tail(rows) : n + 1 \in DOMAIN rows /\ Tail(rows)[n] = rows[n + 1]
    BY <1>3, HeadFacts
  <2>2. Tail(rows) \in Seq(Row)
    BY <1>3, HeadFacts
  <2>3. \A n \in DOMAIN Tail(rows) : n \in Nat
    BY <2>2
  <2>4. ASSUME NEW n \in DOMAIN Tail(rows), NEW k \in DOMAIN Tail(rows), Tail(rows)[n].item = Tail(rows)[k].item
        PROVE  n = k
    <3>1. n + 1 = k + 1
      BY <1>1, <2>1, <2>4 DEF Distinct
    <3> QED
      BY <2>3, <3>1
  <2> QED
    BY <2>4 DEF Distinct
<1>4. Distinct(rows') /\ (boot' = "ready" => rows' = << >>)
  <2>1. CASE ReplayRead
    BY <1>1, <1>2, <2>1 DEF ReplayRead
  <2>2. CASE DropRow \/ \E r : Requeue(r)
    <3>1. boot' # "ready" /\ rows # << >> /\ rows' = Tail(rows)
      BY <2>2 DEF DropRow, Requeue, ReplayNext, DelTypes, Disk
    <3> QED
      BY <1>3, <3>1
  <2>3. CASE Crash
    <3>1. rows' = << >>
      BY <2>3, CrashEffect
    <3>2. \A n \in DOMAIN rows' : FALSE
      BY <3>1
    <3> QED
      BY <3>1, <3>2 DEF Distinct
  <2>4. CASE ReplayDone \/ \E r : Abandon(r)
    BY <1>1, <2>4 DEF ReplayDone, Abandon
  <2>5. ASSUME NEW t \in Threads, RunJob(t) PROVE rows' = rows /\ boot' = boot
    BY <2>5 DEF RunJob, Started, Typed, NotDelivered, Panics, StartWatcher, Finished
  <2>6. ASSUME NEW i \in Items, QueueJob(i) \/ PostRetry(i) PROVE rows' = rows /\ boot' = boot
    BY <2>6 DEF QueueJob, PostRetry
  <2>7. ASSUME NEW l \in Lanes, TakeNext(l) \/ LaneEnds(l) PROVE rows' = rows /\ boot' = boot
    BY <2>7 DEF TakeNext, LaneEnds
  <2>8. CASE Post \/ Tick \/ Leave \/ UNCHANGED vars
    BY <1>1, <2>8 DEF Post, Tick, Leave, vars, memory
  <2> QED
    BY <1>1, <2>1, <2>2, <2>3, <2>4, <2>5, <2>6, <2>7, <2>8 DEF Next, Daemon, Replay
<1> QED
  BY <1>2, <1>4 DEF RowsInv

(* A job is only ever queued on the lane of its target.                    *)
LEMMA OwnLanesStep ==
    ASSUME DelTypes, Origins, [Next]_vars PROVE OwnLanes'
<1>1. QueueStems
  BY JobStems
<1> SUFFICES ASSUME NEW l \in Lanes, NEW n \in DOMAIN lanes'[l].queue
             PROVE  Lane(lanes'[l].queue[n].item) = l
  BY DEF OwnLanes
<1>2. \/ \E m \in DOMAIN lanes[l].queue : lanes'[l].queue[n] = lanes[l].queue[m]
      \/ l = Lane(lanes'[l].queue[n].item)
  BY <1>1 DEF QueueStems
<1> QED
  BY <1>2 DEF Origins, OwnLanes

(* An item whose row is gone, or was never written, has none later.        *)
LEMMA UnjournaledStep ==
    ASSUME DelTypes, Origins, [Next]_vars PROVE Unjournaled'
<1>1. FreshInv /\ Distinct(journal) /\ Unjournaled
  BY DEF Origins, RowsInv
<1> DEFINE After(x) == x \in RowsOf(journal')
<1>2. ASSUME NEW i \in Items, ~Untouched(i), ~InJournal(i) PROVE ~After(i)
  <2>1. ~InJournal(i)'
    BY <1>1, <1>2, StaysOut
  <2> QED
    BY <2>1 DEF InJournal
<1> HIDE DEF After
<1>3. ASSUME NEW i \in Items, posting[i] = "norow" PROVE ~After(i)
  BY <1>1, <1>2, <1>3 DEF Untouched, Unjournaled
<1>4. ASSUME NEW l \in Lanes, NEW n \in DOMAIN lanes[l].queue, ~lanes[l].queue[n].row
      PROVE  ~After(lanes[l].queue[n].item)
  <2>1. lanes[l].queue[n].item \in Items
    BY HeldFacts
  <2>2. ~Untouched(lanes[l].queue[n].item) /\ ~InJournal(lanes[l].queue[n].item)
    BY <1>1, <1>4 DEF Untouched, NotQueued, Unjournaled
  <2> QED
    BY <1>2, <2>1, <2>2
<1>5. ASSUME NEW t \in Threads, running[t] # Idle, ~running[t].row
      PROVE  ~After(running[t].item)
  <2>1. running[t].item \in Items
    BY <1>5, BusyFacts
  <2>2. ~Untouched(running[t].item) /\ ~InJournal(running[t].item)
    BY <1>1, <1>5 DEF Untouched, NotRun, Unjournaled
  <2> QED
    BY <1>2, <2>1, <2>2
<1>6. ASSUME NEW i \in Items, posting'[i] = "norow" PROVE ~After(i)
  <2>1. CASE Opens(i)
    <3>1. ~InJournal(i) /\ journal' = journal
      BY <1>1, <1>6, <2>1, OpensFresh, RecordEffect DEF Untouched
    <3> QED
      BY <3>1 DEF After, InJournal
  <2> QED
    BY <1>3, <1>6, <2>1, PostingStems
<1>7. ASSUME NEW l \in Lanes, NEW n \in DOMAIN lanes'[l].queue, ~lanes'[l].queue[n].row
      PROVE  ~After(lanes'[l].queue[n].item)
  <2> DEFINE b == lanes'[l].queue[n]
  <2>1. \/ \E m \in DOMAIN lanes[l].queue : b = lanes[l].queue[m]
        \/ b.item \in Items /\ QueueJob(b.item) /\ b.row = (posting[b.item] = "row")
    BY <1>7, JobStems DEF QueueStems
  <2>2. ASSUME b.item \in Items, QueueJob(b.item), b.row = (posting[b.item] = "row")
        PROVE  posting[b.item] = "norow"
    BY <1>7, <2>2 DEF QueueJob, DelTypes, Waiting
  <2> QED
    BY <1>3, <1>4, <1>7, <2>1, <2>2
<1>8. ASSUME NEW t \in Threads, running'[t] # Idle, ~running'[t].row
      PROVE  ~After(running'[t].item)
  <2> DEFINE b == running'[t]
  <2>1. \/ running[t] # Idle /\ b.item = running[t].item /\ b.row = running[t].row
        \/ \E l \in Lanes : /\ 1 \in DOMAIN lanes[l].queue
                            /\ b.item = lanes[l].queue[1].item /\ b.row = lanes[l].queue[1].row
        \/ b.item \in Items /\ QueueJob(b.item) /\ b.row = (posting[b.item] = "row")
    BY <1>8, JobStems DEF RunStems
  <2>2. ASSUME b.item \in Items, QueueJob(b.item), b.row = (posting[b.item] = "row")
        PROVE  posting[b.item] = "norow"
    BY <1>8, <2>2 DEF QueueJob, DelTypes, Waiting
  <2> HIDE DEF b
  <2>3. ~b.row
    BY <1>8 DEF b
  <2>4. ~After(b.item)
    BY <1>3, <1>4, <1>5, <2>1, <2>2, <2>3
  <2> QED
    BY <2>4 DEF b
<1> QED
  BY <1>6, <1>7, <1>8 DEF Unjournaled, InJournal, After

(* Nothing has been posted: the origins hold.                              *)
LEMMA OriginsInit == Init => Origins
<1> SUFFICES ASSUME Init PROVE Origins
  OBVIOUS
<1>1. /\ \A n \in DOMAIN journal : FALSE
      /\ \A n \in DOMAIN rows : FALSE
      /\ \A n \in DOMAIN typed : FALSE
      /\ rows = << >> /\ fired = {}
      /\ \A i \in Items : posting[i] = "no" /\ watches[i] = 0
      /\ \A l \in Lanes : \A n \in DOMAIN lanes[l].queue : FALSE
      /\ \A t \in Threads : running[t] = Idle
  <2>1. \A l \in Lanes : lanes[l].queue = << >>
    BY NoMemoryFacts DEF Init
  <2> QED
    BY <2>1, NoMemoryFacts DEF Init
<1>2. \A t \in Threads : running[t].item = NoItem
  BY <1>1, ThreadFacts
<1>3. \A i \in Items : Untouched(i)
  BY <1>1, <1>2, ItemFacts DEF Untouched, InJournal, RowsOf, NotQueued, NotRun, Said
<1> QED
  BY <1>1, <1>3, ThreadFacts DEF Origins, FreshInv, PostFree, RowsInv, OwnLanes, Unjournaled, Distinct

(* Every step keeps the origins.                                           *)
LEMMA OriginsStep == DelTypes /\ Origins /\ [Next]_vars => Origins'
BY FreshInvStep, PostFreeStep, RowsInvStep, OwnLanesStep, UnjournaledStep DEF Origins
-----------------------------------------------------------------------------
(***************************************************************************)
(* The notice of an interrupted delivery is true.  A row that started      *)
(* belongs to a thread at work on it, unless something went wrong; in      *)
(* boot's snapshot something did.  Until boot read the journal, every job  *)
(* with a row was recorded in this life.                                   *)
(***************************************************************************)
Excused(i) == marks[i] \cap {"cut", "unfinished", "overlapped"} # {}
AtWork(t, i) == running[t].item = i /\ running[t].row /\ running[t].at \in {"run", "watch", "finish"}

StartedTrue ==
    \A n \in DOMAIN journal :
        journal[n].started => \/ Excused(journal[n].item)
                              \/ \E t \in Threads : AtWork(t, journal[n].item)
SnapshotTrue == \A n \in DOMAIN rows : rows[n].started => Excused(rows[n].item)

OwnLife ==
    boot = "ready" =>
        /\ \A t \in Threads : running[t] # Idle /\ running[t].row => running[t].item \in here
        /\ \A l \in Lanes : \A n \in DOMAIN lanes[l].queue :
              lanes[l].queue[n].row => lanes[l].queue[n].item \in here
        /\ \A i \in Items : posting[i] = "row" => i \in here

NoticeInv == StartedTrue /\ SnapshotTrue /\ OwnLife /\ NoticeOnlyWhenCut

(* A reason for a notice is not taken back.                                *)
LEMMA ExcusedGrows ==
    ASSUME DelTypes, [Next]_vars, NEW i \in Items, Excused(i)
    PROVE  Excused(i)'
BY MarksGrow DEF Excused

(* The steps that give a thread a job find it idle.                        *)
LEMMA WorkKept ==
    ASSUME DelTypes, Origins, [Next]_vars, NEW t \in Threads, running[t] # Idle, ~RunJob(t), ~Crash
    PROVE  running'[t] = running[t]
<1>1. ASSUME NEW k \in Items, NEW u \in {PostThread(k), BootThread(k)}, NEW row \in BOOLEAN,
             run_later(u, k, row), running[u] = Idle
      PROVE  running'[t] = running[t]
  <2>1. t # u
    BY <1>1
  <2>2. running' = running \/ \A v \in Threads : v # u => running'[v] = running[v]
    BY <1>1, RunLaterEffect
  <2> QED
    BY <2>1, <2>2
<1>2. ASSUME NEW k \in Items, QueueJob(k) PROVE running'[t] = running[t]
  <2>1. run_later(PostThread(k), k, posting[k] = "row") /\ (posting[k] = "row") \in BOOLEAN
    BY <1>2 DEF QueueJob
  <2>2. running[PostThread(k)] = Idle
    BY <1>2 DEF QueueJob, Origins, PostFree
  <2> QED
    BY <1>1, <2>1, <2>2
<1>3. ASSUME NEW l \in Lanes, TakeNext(l) PROVE running'[t] = running[t]
  BY <1>3, TakeNextEffect
<1>4. ASSUME NEW u \in Threads, RunJob(u) PROVE running'[t] = running[t]
  <2>1. u # t
    BY <1>4
  <2> QED
    BY <1>4, <2>1, RunJobEffect
<1>5. ASSUME NEW r, Requeue(r) PROVE running'[t] = running[t]
  <2>1. r.item \in Items /\ running[BootThread(r.item)] = Idle
    BY <1>5, HeadFacts DEF Requeue, ReplayNext, BootFree
  <2>2. run_later(BootThread(r.item), r.item, TRUE) \/ running' = running
    BY <1>5 DEF Requeue
  <2> QED
    BY <1>1, <2>1, <2>2
<1>6. ASSUME NEW l \in Lanes, LaneEnds(l) PROVE running' = running
  BY <1>6 DEF LaneEnds
<1>7. CASE Post \/ (\E k \in Items : PostRetry(k)) \/ Tick \/ Leave \/ UNCHANGED vars
  BY <1>7 DEF Post, PostRetry, Tick, Leave, vars, memory
<1>8. CASE ReplayRead \/ (\E r : Abandon(r)) \/ DropRow \/ ReplayDone
  BY <1>8 DEF ReplayRead, Abandon, DropRow, ReplayDone
<1> QED
  BY <1>2, <1>3, <1>4, <1>5, <1>6, <1>7, <1>8 DEF Next, Daemon, Replay

(* A thread that is at work goes on, removes the row, or leaves a mark.    *)
LEMMA WorkEnds ==
    ASSUME DelTypes, Origins, [Next]_vars, NEW t \in Threads, NEW i \in Items, AtWork(t, i)
    PROVE  AtWork(t, i)' \/ Excused(i)' \/ ~InJournal(i)'
<1>1. /\ running[t] # Idle /\ running[t].item = i /\ running[t].row
      /\ running[t].at \in {"run", "watch", "finish"}
  BY BusyFacts DEF AtWork
<1>2. marks \in [Items -> SUBSET Marks]
  BY DEF DelTypes, Chronicle
<1>3. marks' = Marked(i, "unfinished") => Excused(i)'
  BY <1>2 DEF Marked, Excused
<1>4. CASE RunJob(t)
  <2>1. \/ /\ running'[t].item = i /\ running'[t].row
           /\ running'[t].at \in {"watch", "finish"}
        \/ Panics(t) \/ Finished(t)
    BY <1>1, <1>4, RunJobEffect
  <2>2. CASE Panics(t)
    BY <1>1, <1>3, <2>2 DEF Panics
  <2>3. CASE Finished(t)
    <3>1. journal' = finish(i) \/ marks' = Marked(i, "unfinished")
      BY <1>1, <2>3 DEF Finished
    <3>2. \A n \in DOMAIN finish(i) : finish(i)[n].item # i
      BY FinishFacts DEF DelTypes, Disk, Origins, RowsInv
    <3> QED
      BY <1>3, <3>1, <3>2 DEF InJournal, RowsOf
  <2> QED
    BY <2>1, <2>2, <2>3 DEF AtWork
<1>5. CASE Crash
  <2>1. "cut" \in marks'[i]
    BY <1>1, <1>5, CrashEffect
  <2> QED
    BY <2>1 DEF Excused
<1>6. CASE ~RunJob(t) /\ ~Crash
  BY <1>1, <1>6, WorkKept DEF AtWork
<1> QED
  BY <1>4, <1>5, <1>6

(* A started row keeps its reason: a crash that ends the run gives it one. *)
LEMMA StartedTrueStep ==
    ASSUME DelTypes, Origins, NoticeInv, [Next]_vars PROVE StartedTrue'
<1> DEFINE Good(i) == \/ marks'[i] \cap {"cut", "unfinished", "overlapped"} # {}
                      \/ \E t \in Threads : /\ running'[t].item = i /\ running'[t].row
                                            /\ running'[t].at \in {"run", "watch", "finish"}
<1> SUFFICES ASSUME NEW n \in DOMAIN journal', journal'[n].started
             PROVE  Good(journal'[n].item)
  BY DEF StartedTrue, Excused, AtWork
<1>1. ASSUME NEW i \in Items, Excused(i) PROVE Good(i)
  BY <1>1, ExcusedGrows DEF Excused
<1>2. ASSUME NEW m \in DOMAIN journal, journal[m].started, journal'[n].item = journal[m].item
      PROVE  Good(journal[m].item)
  <2> DEFINE i == journal[m].item
  <2>1. i \in Items
    BY HeldFacts
  <2>2. i \in RowsOf(journal')
    BY <1>2 DEF RowsOf
  <2>3. Excused(i) \/ \E t \in Threads : AtWork(t, i)
    BY <1>2 DEF NoticeInv, StartedTrue
  <2> HIDE DEF i
  <2>4. ASSUME NEW t \in Threads, AtWork(t, i) PROVE Good(i)
    <3> SUFFICES ASSUME NEW k \in Items, AtWork(t, k), k \in RowsOf(journal') PROVE Good(k)
      BY <2>1, <2>2, <2>4
    <3>1. AtWork(t, k)' \/ Excused(k)' \/ ~InJournal(k)'
      BY WorkEnds
    <3> QED
      BY <3>1 DEF AtWork, Excused, InJournal
  <2>5. Good(i)
    BY <1>1, <2>1, <2>3, <2>4
  <2> QED
    BY <2>5 DEF i
<1>3. ASSUME NEW i \in Items, Begins(i) PROVE Good(i)
  <2>1. PICK t \in Threads : Started(t) /\ running[t].row /\ running[t].item = i
    BY <1>3 DEF Begins
  <2>2. RunJob(t) /\ running[t].at = "start"
    BY <2>1 DEF RunJob, Started
  <2>3. running'[t].item = i /\ running'[t].row /\ running'[t].at = "run"
    BY <2>1, <2>2, RunJobEffect
  <2> QED
    BY <2>3
<1> HIDE DEF Good
<1>4. ASSUME NEW i \in Items, Opens(i), record(i) PROVE Good(journal'[n].item)
  <2>1. \/ /\ DOMAIN journal = 1..Len(journal) /\ Len(journal) \in Nat
           /\ DOMAIN journal' = 1..(Len(journal) + 1)
           /\ ~journal'[Len(journal) + 1].started
           /\ \A m \in DOMAIN journal : journal'[m] = journal[m]
        \/ journal' = journal
    BY <1>4, RecordEffect
  <2>2. n \in DOMAIN journal /\ journal'[n] = journal[n]
    BY <2>1
  <2> QED
    BY <1>2, <2>2
<1>5. CASE RowsStem
  <2>1. PICK m \in DOMAIN journal :
           /\ journal'[n].item = journal[m].item
           /\ journal[m].started \/ Begins(journal[m].item)
    BY <1>5 DEF RowsStem
  <2>2. journal[m].item \in Items
    BY HeldFacts
  <2> QED
    BY <1>2, <1>3, <2>1, <2>2
<1> QED
  BY <1>4, <1>5, JournalSteps DEF Origins, RowsInv

(* The rows the replay read keep their reasons.                            *)
LEMMA SnapshotTrueStep ==
    ASSUME DelTypes, Origins, NoticeInv, [Next]_vars PROVE SnapshotTrue'
<1> DEFINE Good(i) == marks'[i] \cap {"cut", "unfinished", "overlapped"} # {}
<1> SUFFICES ASSUME NEW n \in DOMAIN rows', rows'[n].started
             PROVE  Good(rows'[n].item)
  BY DEF SnapshotTrue, Excused
<1>1. ASSUME NEW i \in Items, Excused(i) PROVE Good(i)
  BY <1>1, ExcusedGrows DEF Excused
<1>2. ASSUME NEW m \in DOMAIN rows, rows[m].started PROVE Good(rows[m].item)
  BY <1>1, <1>2, HeldFacts DEF NoticeInv, SnapshotTrue
<1>3. ASSUME ReplayRead, rows' # rows PROVE Good(rows'[n].item)
  <2>1. PICK k \in 0 .. EarlierLives :
           journal' = [m \in DOMAIN journal |-> [journal[m] EXCEPT !.old = @ \/ m <= k]]
    BY <1>3 DEF ReplayRead
  <2>2. /\ rows' = journal' /\ boot = "ready"
        /\ marks' = [i \in Items |->
                       IF InJournal(i) /\ i \in here THEN marks[i] \cup {"overlapped"} ELSE marks[i]]
    BY <1>3 DEF ReplayRead
  <2>3. /\ n \in DOMAIN journal /\ rows'[n].item = journal[n].item /\ journal[n].started
    BY <2>1, <2>2, AgedFacts
  <2>4. journal[n].item \in Items /\ InJournal(journal[n].item)
    BY <2>3, HeldFacts DEF InJournal, RowsOf
  <2>5. ASSUME NEW t \in Threads, AtWork(t, journal[n].item) PROVE Good(journal[n].item)
    <3>1. running[t] # Idle /\ running[t].row /\ running[t].item = journal[n].item
      BY <2>5, BusyFacts DEF AtWork
    <3>2. journal[n].item \in here
      BY <2>2, <3>1 DEF NoticeInv, OwnLife
    <3>3. "overlapped" \in marks'[journal[n].item]
      BY <2>2, <2>4, <3>2
    <3> QED
      BY <3>3
  <2> QED
    BY <1>1, <2>3, <2>4, <2>5 DEF NoticeInv, StartedTrue
<1> HIDE DEF Good
<1>4. ASSUME rows' = Tail(rows), rows # << >> PROVE Good(rows'[n].item)
  BY <1>2, <1>4, HeadFacts
<1>5. rows' = rows => Good(rows'[n].item)
  BY <1>2
<1>6. CASE DropRow \/ \E r : Requeue(r)
  <2>1. rows # << >> /\ rows' = Tail(rows)
    BY <1>6 DEF DropRow, Requeue, ReplayNext, DelTypes, Disk
  <2> QED
    BY <1>4, <2>1
<1>7. CASE Crash
  BY <1>7, CrashEffect
<1>8. CASE ReplayDone \/ \E r : Abandon(r)
  BY <1>5, <1>8 DEF ReplayDone, Abandon
<1>9. ASSUME NEW t \in Threads, RunJob(t) PROVE rows' = rows
  BY <1>9 DEF RunJob, Started, Typed, NotDelivered, Panics, StartWatcher, Finished
<1>10. ASSUME NEW i \in Items, QueueJob(i) \/ PostRetry(i) PROVE rows' = rows
  BY <1>10 DEF QueueJob, PostRetry
<1>11. ASSUME NEW l \in Lanes, TakeNext(l) \/ LaneEnds(l) PROVE rows' = rows
  BY <1>11 DEF TakeNext, LaneEnds
<1>12. CASE Post \/ Tick \/ Leave \/ UNCHANGED vars
  BY <1>5, <1>12 DEF Post, Tick, Leave, vars, memory
<1> QED
  BY <1>3, <1>5, <1>6, <1>7, <1>8, <1>9, <1>10, <1>11, <1>12 DEF Next, Daemon, Replay

(* Only a crash forgets what was recorded in this life.                    *)
LEMMA HereGrows ==
    ASSUME DelTypes, [Next]_vars, ~Crash PROVE here \subseteq here'
<1>1. CASE Post
  BY <1>1, PostOpens, RecordEffect
<1>2. ASSUME NEW i \in Items, PostRetry(i) PROVE here \subseteq here'
  BY <1>2, RecordEffect DEF PostRetry
<1>3. ASSUME NEW i \in Items, QueueJob(i) PROVE here' = here
  BY <1>3 DEF QueueJob
<1>4. ASSUME NEW l \in Lanes, TakeNext(l) \/ LaneEnds(l) PROVE here' = here
  BY <1>4 DEF TakeNext, LaneEnds, history
<1>5. ASSUME NEW t \in Threads, RunJob(t) PROVE here' = here
  BY <1>5 DEF RunJob, Started, Typed, NotDelivered, Panics, StartWatcher, Finished
<1>6. ASSUME NEW r, Requeue(r) \/ Abandon(r) PROVE here' = here
  BY <1>6 DEF Requeue, Abandon
<1>7. ASSUME ReplayRead \/ DropRow \/ ReplayDone \/ Tick \/ Leave \/ UNCHANGED vars PROVE here' = here
  BY <1>7 DEF ReplayRead, DropRow, ReplayDone, Tick, Leave, vars, history
<1> QED
  BY <1>1, <1>2, <1>3, <1>4, <1>5, <1>6, <1>7 DEF Next, Daemon, Replay

(* Only a crash makes boot ready again.                                    *)
LEMMA BootGoesOn ==
    ASSUME DelTypes, [Next]_vars, ~Crash, boot' = "ready"
    PROVE  boot = "ready" /\ \A r : ~Requeue(r)
<1>1. \A r : ~Requeue(r)
  BY DEF Requeue, ReplayNext
<1>2. ASSUME NEW t \in Threads, RunJob(t) PROVE boot' = boot
  BY <1>2 DEF RunJob, Started, Typed, NotDelivered, Panics, StartWatcher, Finished
<1>3. ASSUME NEW i \in Items, QueueJob(i) \/ PostRetry(i) PROVE boot' = boot
  BY <1>3 DEF QueueJob, PostRetry
<1>4. ASSUME NEW l \in Lanes, TakeNext(l) \/ LaneEnds(l) PROVE boot' = boot
  BY <1>4 DEF TakeNext, LaneEnds
<1>5. ~ReplayRead /\ ~DropRow /\ ~ReplayDone /\ \A r : ~Abandon(r)
  BY DEF ReplayRead, DropRow, ReplayDone, Abandon
<1>6. ASSUME Post \/ Tick \/ Leave \/ UNCHANGED vars PROVE boot' = boot
  BY <1>6 DEF Post, Tick, Leave, vars, memory
<1> QED
  BY <1>1, <1>2, <1>3, <1>4, <1>5, <1>6 DEF Next, Daemon, Replay

(* What this daemon queues, posts or runs is known to be of its own life.  *)
LEMMA OwnLifeStep ==
    ASSUME DelTypes, Origins, NoticeInv, [Next]_vars PROVE OwnLife'
<1>1. CASE Crash
  <2>1. /\ \A l \in Lanes : lanes'[l].queue = << >>
        /\ \A t \in Threads : running'[t] = Idle
        /\ \A i \in Items : posting'[i] = "no"
    BY <1>1, CrashEffect
  <2> QED
    BY <2>1 DEF OwnLife
<1>2. ASSUME ~Crash, boot' = "ready" PROVE OwnLife'
  <2>1. /\ here \subseteq here' /\ \A r : ~Requeue(r)
        /\ \A t \in Threads : running[t] # Idle /\ running[t].row => running[t].item \in here'
        /\ \A l \in Lanes : \A n \in DOMAIN lanes[l].queue :
              lanes[l].queue[n].row => lanes[l].queue[n].item \in here'
        /\ \A i \in Items : posting[i] = "row" => i \in here'
    BY <1>2, HereGrows, BootGoesOn DEF NoticeInv, OwnLife
  <2>2. ASSUME NEW i \in Items, posting'[i] = "row" PROVE i \in here'
    <3>1. CASE Opens(i)
      BY <2>2, <3>1, OpensFresh, RecordEffect DEF Origins
    <3> QED
      BY <2>1, <2>2, <3>1, PostingStems
  <2>3. ASSUME NEW l \in Lanes, NEW n \in DOMAIN lanes'[l].queue, lanes'[l].queue[n].row
        PROVE  lanes'[l].queue[n].item \in here'
    <3> DEFINE b == lanes'[l].queue[n]
    <3>1. \/ \E m \in DOMAIN lanes[l].queue : b = lanes[l].queue[m]
          \/ b.item \in Items /\ b.row = (posting[b.item] = "row")
      BY <2>1, <2>3, JobStems DEF QueueStems
    <3> QED
      BY <2>1, <2>3, <3>1
  <2>4. ASSUME NEW t \in Threads, running'[t] # Idle, running'[t].row
        PROVE  running'[t].item \in here'
    <3> DEFINE b == running'[t]
    <3>1. \/ running[t] # Idle /\ b.item = running[t].item /\ b.row = running[t].row
          \/ \E l \in Lanes : /\ 1 \in DOMAIN lanes[l].queue
                              /\ b.item = lanes[l].queue[1].item /\ b.row = lanes[l].queue[1].row
          \/ b.item \in Items /\ b.row = (posting[b.item] = "row")
      BY <2>1, <2>4, JobStems DEF RunStems
    <3>2. b.row
      BY <2>4
    <3> HIDE DEF b
    <3>3. b.item \in here'
      BY <2>1, <3>1, <3>2
    <3> QED
      BY <3>3 DEF b
  <2> QED
    BY <2>2, <2>3, <2>4 DEF OwnLife
<1>3. CASE boot' # "ready"
  BY <1>3 DEF OwnLife
<1> QED
  BY <1>1, <1>2, <1>3

(* Only boot posts the notice, for the row it is at.                       *)
LEMMA NoticeStep ==
    ASSUME DelTypes, NoticeInv, [Next]_vars PROVE NoticeOnlyWhenCut'
<1> SUFFICES ASSUME NEW i \in Items, "interrupted" \in fate'[i] PROVE Excused(i)'
  BY DEF NoticeOnlyWhenCut, Excused
<1>1. fate \in [Items -> SUBSET Fates]
  BY DEF DelTypes, Chronicle
<1>2. \A k \in Items : \A f : "interrupted" \in Told(k, f)[i] =>
         "interrupted" \in fate[i] \/ (k = i /\ f = "interrupted")
  BY <1>1 DEF Told
<1>3. ASSUME "interrupted" \in fate[i] PROVE Excused(i)'
  BY <1>3, ExcusedGrows DEF NoticeInv, NoticeOnlyWhenCut, Excused
<1>4. ASSUME NEW r, Abandon(r) PROVE Excused(i)'
  <2>1. rows # << >> /\ r = Head(rows)
    BY <1>4 DEF Abandon, ReplayNext
  <2>2. r = rows[1] /\ 1 \in DOMAIN rows /\ r.item \in Items
    BY <2>1, HeadFacts
  <2>3. "interrupted" \in fate[i] \/ (r.item = i /\ r.started)
    BY <1>2, <1>4, <2>2 DEF Abandon
  <2> QED
    BY <1>3, <2>2, <2>3, ExcusedGrows DEF NoticeInv, SnapshotTrue
<1>5. ASSUME NEW r, Requeue(r) PROVE Excused(i)'
  <2>1. rows # << >> /\ r = Head(rows)
    BY <1>5 DEF Requeue, ReplayNext
  <2>2. r.item \in Items
    BY <2>1, HeadFacts
  <2>3. fate' = fate \/ fate' = Told(r.item, "logged")
    BY <1>5 DEF Requeue
  <2>4. "interrupted" \in fate[i]
    BY <1>2, <2>2, <2>3
  <2> QED
    BY <1>3, <2>4
<1>6. ASSUME NEW t \in Threads, RunJob(t) PROVE Excused(i)'
  <2>1. running[t].item \in Items
    BY <1>6, RunJobEffect
  <2>2. \/ fate' = fate
        \/ \E f \in {"failed", "retryFailed", "logged"} : fate' = Told(running[t].item, f)
    BY <1>6 DEF RunJob, Started, Typed, NotDelivered, Panics, StartWatcher, Finished
  <2>3. "interrupted" \in fate[i]
    BY <1>2, <2>1, <2>2
  <2> QED
    BY <1>3, <2>3
<1>7. CASE Tick
  <2>0. PICK S \in SUBSET Watched : \E missed \in SUBSET S : NotTaken(missed)
    BY <1>7 DEF Tick
  <2>1. PICK missed \in SUBSET S : NotTaken(missed)
    BY <2>0
  <2>2. "interrupted" \in fate[i]
    BY <2>1 DEF NotTaken
  <2> QED
    BY <1>3, <2>2
<1>8. ASSUME NEW k \in Items, QueueJob(k) \/ PostRetry(k) PROVE fate' = fate
  BY <1>8 DEF QueueJob, PostRetry
<1>9. ASSUME NEW l \in Lanes, TakeNext(l) \/ LaneEnds(l) PROVE fate' = fate
  BY <1>9 DEF TakeNext, LaneEnds, history
<1>10. ASSUME Post \/ Leave \/ ReplayRead \/ DropRow \/ ReplayDone \/ Crash \/ UNCHANGED vars PROVE fate' = fate
  BY <1>10 DEF Post, Leave, ReplayRead, DropRow, ReplayDone, Crash, vars, history
<1> QED
  BY <1>3, <1>4, <1>5, <1>6, <1>7, <1>8, <1>9, <1>10 DEF Next, Daemon, Replay

(* Nothing has started: the notices are true.                              *)
LEMMA NoticeInit == Init => NoticeInv
<1> SUFFICES ASSUME Init PROVE NoticeInv
  OBVIOUS
<1>1. /\ \A n \in DOMAIN journal : FALSE
      /\ \A n \in DOMAIN rows : FALSE
      /\ \A i \in Items : posting[i] = "no" /\ fate[i] = {}
      /\ \A l \in Lanes : \A n \in DOMAIN lanes[l].queue : FALSE
      /\ \A t \in Threads : running[t] = Idle
  <2>1. \A l \in Lanes : lanes[l].queue = << >>
    BY NoMemoryFacts DEF Init
  <2> QED
    BY <2>1, NoMemoryFacts DEF Init
<1> QED
  BY <1>1 DEF NoticeInv, StartedTrue, SnapshotTrue, OwnLife, NoticeOnlyWhenCut

(* The notice that K2 restarted while it was typing a line is posted only  *)
(* for a delivery that a crash cut off, whose row could not be removed,    *)
(* whose job panicked, or that was running when boot read the journal      *)
(* (delivery_journal.rs, replay_on_boot and abandon_thread_delivery).      *)
THEOREM NoticesTrue == Spec => []NoticeOnlyWhenCut
<1>1. Init => DelTypes /\ Origins /\ NoticeInv
  BY TypesInit, OriginsInit, NoticeInit
<1>2. DelTypes /\ Origins /\ NoticeInv /\ [Next]_vars => DelTypes' /\ Origins' /\ NoticeInv'
  BY TypesStep, OriginsStep, StartedTrueStep, SnapshotTrueStep, OwnLifeStep, NoticeStep DEF NoticeInv
<1>3. NoticeInv => NoticeOnlyWhenCut
  BY DEF NoticeInv
<1> QED
  BY <1>1, <1>2, <1>3, PTL DEF Spec
-----------------------------------------------------------------------------
(***************************************************************************)
(* At most one copy.  An item that is still to be typed is in one place: a *)
(* post under way, a lane's queue, a thread, or an unstarted row of boot's *)
(* snapshot.  Once typed it is in none, and its row has started.  This     *)
(* holds of an item whose started mark was written and which boot did not  *)
(* pick up while it was already under way.                                 *)
(***************************************************************************)
Clean(i) == marks[i] \cap {"unmarked", "overlapped"} = {}

Queue(i) == lanes[Lane(i)].queue
InQueue(i) == \E n \in DOMAIN Queue(i) : Queue(i)[n].item = i
ToRun(t, i) == running[t].item = i /\ running[t].at \in {"start", "run"}
ToReplay(i) == \E n \in DOMAIN rows : rows[n].item = i /\ ~rows[n].started
RowsStarted(i) == \A n \in DOMAIN journal : journal[n].item = i => journal[n].started

OnePlace(i) ==
    /\ posting[i] # "no" => ~InQueue(i) /\ (\A t \in Threads : ~ToRun(t, i)) /\ ~ToReplay(i) /\ ~Said(i)
    /\ InQueue(i) => (\A t \in Threads : ~ToRun(t, i)) /\ ~ToReplay(i) /\ ~Said(i)
    /\ \A t \in Threads : ToRun(t, i) => ~ToReplay(i) /\ ~Said(i)
    /\ \A t, u \in Threads : ToRun(t, i) /\ ToRun(u, i) => t = u
    /\ ToReplay(i) => ~Said(i)

QueuedOnce(i) == \A n, m \in DOMAIN Queue(i) : Queue(i)[n].item = i /\ Queue(i)[m].item = i => n = m

SaidOnce(i) == \A a, b \in DOMAIN typed : typed[a] = i /\ typed[b] = i => a = b

SaidStarted(i) ==
    /\ Said(i) => RowsStarted(i)
    /\ \A t \in Threads : running[t].item = i /\ running[t].at = "run" => RowsStarted(i)

RetriedOnce(i) ==
    ~Retry(i) => /\ watches[i] + retries[i[1]] <= 1
                 /\ watches[i] + retries[i[1]] > 0 => Said(i)

OneCopy(i) == OnePlace(i) /\ QueuedOnce(i) /\ SaidOnce(i) /\ SaidStarted(i) /\ RetriedOnce(i)

CopyInv == \A i \in Items : Clean(i) => OneCopy(i)

(* The events that move an item from one place to the next.                *)
Takes(i) == \E l \in Lanes : /\ TakeNext(l) /\ 1 \in DOMAIN lanes[l].queue
                             /\ lanes[l].queue[1].item = i
Requeues(i) == \E r : Requeue(r) /\ r.item = i
Says(t) == Typed(t) \/ Panics(t)

(* A queue shifts by one, or grows by one job at its end.                  *)
LEMMA QueueMoves ==
    ASSUME DelTypes, [Next]_vars, NEW l \in Lanes
    PROVE  \E d \in {0, 1} :
              /\ TakeNext(l) => d = 1
              /\ \A n \in DOMAIN lanes'[l].queue :
                    /\ n \in Nat /\ n >= 1
                    /\ \/ n + d \in DOMAIN lanes[l].queue /\ lanes'[l].queue[n] = lanes[l].queue[n + d]
                       \/ /\ n = Len(lanes[l].queue) + 1 /\ running' = running
                          /\ QueueJob(lanes'[l].queue[n].item) \/ Requeues(lanes'[l].queue[n].item)
<1> DEFINE q == lanes[l].queue
           w == lanes'[l].queue
<1>1. /\ q \in Seq(Job) /\ \A n \in DOMAIN q : n \in Nat /\ n >= 1 /\ n + 0 = n
  BY HeldFacts
<1>2. CASE TakeNext(l)
  <2>1. \A n \in DOMAIN w : n \in Nat /\ n >= 1 /\ n + 1 \in DOMAIN q /\ w[n] = q[n + 1]
    BY <1>2, TakeNextEffect
  <2> QED
    BY <2>1
<1> DEFINE Kept == \A n \in DOMAIN w :
                      /\ n \in Nat /\ n >= 1
                      /\ \/ n + 0 \in DOMAIN q /\ w[n] = q[n + 0]
                         \/ /\ n = Len(q) + 1 /\ running' = running
                            /\ QueueJob(w[n].item) \/ Requeues(w[n].item)
<1>3. ASSUME w = q PROVE Kept
  BY <1>1, <1>3
<1>4. ASSUME NEW k \in Items, NEW t \in {PostThread(k), BootThread(k)}, NEW row \in BOOLEAN,
             run_later(t, k, row), QueueJob(k) \/ Requeues(k)
      PROVE  Kept
  <2>1. CASE l # Lane(k)
    BY <1>3, <1>4, <2>1, RunLaterEffect
  <2>2. CASE l = Lane(k)
    <3>1. \/ /\ running' = running /\ Len(q) \in Nat /\ DOMAIN q = 1..Len(q)
             /\ DOMAIN w = 1..(Len(q) + 1)
             /\ w[Len(q) + 1].item = k
             /\ \A n \in DOMAIN q : w[n] = q[n]
          \/ w = q
      BY <1>4, <2>2, RunLaterEffect
    <3> HIDE DEF q, w
    <3>2. CASE /\ running' = running /\ Len(q) \in Nat /\ DOMAIN q = 1..Len(q)
               /\ DOMAIN w = 1..(Len(q) + 1)
               /\ w[Len(q) + 1].item = k
               /\ \A n \in DOMAIN q : w[n] = q[n]
      <4>1. \A n \in DOMAIN w : n \in Nat /\ n >= 1 /\ (n = Len(q) + 1 \/ n \in DOMAIN q)
        BY <3>2
      <4> QED
        BY <1>1, <1>4, <3>2, <4>1
    <3> QED
      BY <1>3, <3>1, <3>2
  <2> QED
    BY <2>1, <2>2
<1>5. ASSUME NEW k \in Items, QueueJob(k) PROVE Kept
  <2>1. run_later(PostThread(k), k, posting[k] = "row") /\ (posting[k] = "row") \in BOOLEAN
    BY <1>5 DEF QueueJob
  <2> QED
    BY <1>4, <1>5, <2>1
<1>6. ASSUME NEW r, Requeue(r) PROVE Kept
  <2>1. rows # << >> /\ r = Head(rows)
    BY <1>6 DEF Requeue, ReplayNext
  <2>2. r.item \in Items /\ Requeues(r.item)
    BY <1>6, <2>1, HeadFacts DEF Requeues
  <2>3. run_later(BootThread(r.item), r.item, TRUE) \/ lanes' = lanes
    BY <1>6 DEF Requeue
  <2> QED
    BY <1>3, <1>4, <2>2, <2>3
<1>7. ASSUME NEW k \in Lanes, TakeNext(k), k # l PROVE Kept
  BY <1>3, <1>7, TakeNextEffect
<1>8. ASSUME NEW k \in Lanes, LaneEnds(k) PROVE Kept
  BY <1>3, <1>8 DEF LaneEnds, DelTypes, Work
<1>9. ASSUME NEW t \in Threads, RunJob(t) PROVE lanes' = lanes
  BY <1>9 DEF RunJob, Started, Typed, NotDelivered, Panics, StartWatcher, Finished
<1>10. ASSUME Crash PROVE Kept
  BY <1>10, CrashEffect
<1>11. ASSUME Post \/ (\E i \in Items : PostRetry(i)) \/ Tick \/ Leave \/ UNCHANGED vars PROVE lanes' = lanes
  BY <1>11 DEF Post, PostRetry, Tick, Leave, vars, memory
<1>12. ASSUME ReplayRead \/ (\E r : Abandon(r)) \/ DropRow \/ ReplayDone PROVE lanes' = lanes
  BY <1>12 DEF ReplayRead, Abandon, DropRow, ReplayDone
<1>13. ASSUME ~TakeNext(l) PROVE Kept
  BY <1>3, <1>5, <1>6, <1>7, <1>8, <1>9, <1>10, <1>11, <1>12, <1>13 DEF Next, Daemon, Replay
<1> QED
  BY <1>2, <1>13
(* What moves an item finds it at the place it leaves.                     *)
LEMMA MovesFrom ==
    ASSUME DelTypes, Origins, NEW i \in Items
    PROVE  /\ QueueJob(i) => posting[i] # "no"
           /\ Takes(i) => InQueue(i)
           /\ Requeues(i) => ToReplay(i)
           /\ \A t \in Threads : running[t].item = i /\ Says(t) => ToRun(t, i)
           /\ Opens(i) => /\ posting[i] = "no" /\ ~InQueue(i) /\ ~ToReplay(i) /\ ~Said(i)
                          /\ ~InJournal(i) /\ \A t \in Threads : ~ToRun(t, i)
<1>1. QueueJob(i) => posting[i] # "no"
  BY DEF QueueJob
<1>2. ASSUME Takes(i) PROVE InQueue(i)
  <2>1. PICK l \in Lanes : 1 \in DOMAIN lanes[l].queue /\ lanes[l].queue[1].item = i
    BY <1>2 DEF Takes
  <2>2. l = Lane(i)
    BY <2>1 DEF Origins, OwnLanes
  <2> QED
    BY <2>1, <2>2 DEF InQueue, Queue
<1>3. ASSUME Requeues(i) PROVE ToReplay(i)
  <2>1. PICK r : Requeue(r) /\ r.item = i
    BY <1>3 DEF Requeues
  <2>2. rows # << >> /\ r = Head(rows) /\ ~r.started
    BY <2>1 DEF Requeue, ReplayNext, plan
  <2>3. r = rows[1] /\ 1 \in DOMAIN rows
    BY <2>2, HeadFacts
  <2> QED
    BY <2>1, <2>2, <2>3 DEF ToReplay
<1>4. \A t \in Threads : running[t].item = i /\ Says(t) => ToRun(t, i)
  BY DEF Says, Typed, Panics, ToRun
<1>5. ASSUME Opens(i)
      PROVE  /\ posting[i] = "no" /\ ~InQueue(i) /\ ~ToReplay(i) /\ ~Said(i)
             /\ ~InJournal(i) /\ \A t \in Threads : ~ToRun(t, i)
  <2>1. Untouched(i)
    BY <1>5, OpensFresh DEF Origins
  <2>2. Lane(i) \in Lanes
    BY ItemFacts
  <2> QED
    BY <2>1, <2>2 DEF Untouched, NotQueued, NotRun, InQueue, Queue, ToReplay, ToRun, RowsOf
<1> QED
  BY <1>1, <1>2, <1>3, <1>4, <1>5

(* How an item gets into its lane's queue.                                 *)
LEMMA InQueueFrom ==
    ASSUME DelTypes, Origins, [Next]_vars, NEW i \in Items, QueuedOnce(i), InQueue(i)'
    PROVE  \/ InQueue(i) /\ ~Takes(i)
           \/ (QueueJob(i) \/ Requeues(i)) /\ running' = running
<1> DEFINE l == Lane(i)
           q == lanes[l].queue
           w == lanes'[l].queue
<1>1. l \in Lanes
  BY ItemFacts
<1>2. PICK n \in DOMAIN w : w[n].item = i
  BY DEF InQueue, Queue
<1>3. PICK d \in {0, 1} :
         /\ TakeNext(l) => d = 1
         /\ n \in Nat /\ n >= 1
         /\ \/ n + d \in DOMAIN q /\ w[n] = q[n + d]
            \/ running' = running /\ (QueueJob(w[n].item) \/ Requeues(w[n].item))
  BY <1>1, QueueMoves
<1>4. ASSUME n + d \in DOMAIN q, w[n] = q[n + d] PROVE InQueue(i) /\ ~Takes(i)
  <2>1. InQueue(i)
    BY <1>2, <1>4 DEF InQueue, Queue
  <2>2. ASSUME Takes(i) PROVE FALSE
    <3>1. PICK k \in Lanes : TakeNext(k) /\ 1 \in DOMAIN lanes[k].queue /\ lanes[k].queue[1].item = i
      BY <2>2 DEF Takes
    <3>2. k = l
      BY <3>1 DEF Origins, OwnLanes
    <3>3. n + d = 1
      BY <1>2, <1>4, <3>1, <3>2 DEF QueuedOnce, Queue
    <3> QED
      BY <1>3, <3>1, <3>2, <3>3
  <2> QED
    BY <2>1, <2>2
<1> QED
  BY <1>2, <1>3, <1>4

(* How a thread gets an item to type.                                      *)
LEMMA ToRunFrom ==
    ASSUME DelTypes, Origins, [Next]_vars, NEW i \in Items, NEW t \in Threads, ToRun(t, i)'
    PROVE  \/ ToRun(t, i) /\ ~Says(t)
           \/ Takes(i) /\ t = LaneThread(Lane(i)) /\ running[t] = Idle
           \/ QueueJob(i) /\ t = PostThread(i) /\ running[t] = Idle
           \/ Requeues(i) /\ t = BootThread(i) /\ running[t] = Idle
<1>1. running'[t].item = i /\ running'[t].at \in {"start", "run"}
  BY DEF ToRun
<1>2. running'[t] # Idle
  BY <1>1, ThreadFacts
<1>3. CASE running[t] # Idle
  <2>1. CASE RunJob(t)
    <3>1. running[t].at = "start" /\ running[t].item = i
      BY <1>1, <1>2, <2>1, RunJobEffect
    <3> QED
      BY <3>1 DEF ToRun, Says, Typed, Panics
  <2>2. CASE ~RunJob(t)
    <3>1. ~Crash
      BY <1>2, CrashEffect
    <3>2. running'[t] = running[t]
      BY <1>3, <2>2, <3>1, WorkKept
    <3> QED
      BY <1>1, <2>2, <3>2 DEF ToRun, Says, RunJob
  <2> QED
    BY <2>1, <2>2
<1>4. CASE running[t] = Idle
  <2>1. \/ \E l \in Lanes : /\ t = LaneThread(l) /\ TakeNext(l) /\ 1 \in DOMAIN lanes[l].queue
                            /\ i = lanes[l].queue[1].item
        \/ t = PostThread(i) /\ QueueJob(i)
        \/ t = BootThread(i) /\ \E r : Requeue(r) /\ r.item = i
    <3> DEFINE b == running'[t]
    <3>1. \/ \E l \in Lanes : /\ t = LaneThread(l) /\ TakeNext(l) /\ 1 \in DOMAIN lanes[l].queue
                              /\ b.item = lanes[l].queue[1].item
          \/ t = PostThread(b.item) /\ QueueJob(b.item)
          \/ t = BootThread(b.item) /\ \E r : Requeue(r) /\ r.item = b.item
      BY <1>2, <1>4, JobStems DEF RunStems
    <3>2. b.item = i
      BY <1>1
    <3> HIDE DEF b
    <3> QED
      BY <3>1, <3>2
  <2>2. ASSUME NEW l \in Lanes, t = LaneThread(l), TakeNext(l), 1 \in DOMAIN lanes[l].queue,
               i = lanes[l].queue[1].item
        PROVE  Takes(i) /\ t = LaneThread(Lane(i))
    BY <2>2 DEF Takes, Origins, OwnLanes
  <2> QED
    BY <1>4, <2>1, <2>2 DEF Requeues
<1> QED
  BY <1>3, <1>4

(* How an item gets into boot's snapshot, not started: boot reads a row of *)
(* an earlier life, which nothing else has under way.                      *)
LEMMA ToReplayFrom ==
    ASSUME DelTypes, Origins, NoticeInv, [Next]_vars, NEW i \in Items,
           Clean(i)', SaidStarted(i), ToReplay(i)'
    PROVE  \/ ToReplay(i) /\ ~Requeues(i)
           \/ /\ posting[i] = "no" /\ ~InQueue(i) /\ ~ToReplay(i) /\ ~Said(i)
              /\ (\A t \in Threads : running[t].item # i)
              /\ ReplayRead /\ running' = running /\ lanes' = lanes
<1>1. PICK n \in DOMAIN rows' : rows'[n].item = i /\ ~rows'[n].started
  BY DEF ToReplay
<1>2. ASSUME rows' = Tail(rows), rows # << >> PROVE ToReplay(i) /\ Head(rows).item # i
  <2>1. /\ n + 1 \in DOMAIN rows /\ rows'[n] = rows[n + 1] /\ Head(rows) = rows[1] /\ 1 \in DOMAIN rows
        /\ Tail(rows) \in Seq(Row)
    BY <1>2, HeadFacts
  <2>2. n \in Nat /\ n >= 1
    BY <1>2, <2>1
  <2>3. n + 1 # 1
    BY <2>2
  <2>4. rows[n + 1].item # rows[1].item
    BY <2>1, <2>3 DEF Origins, RowsInv, Distinct
  <2> QED
    BY <1>1, <2>1, <2>4 DEF ToReplay
<1>3. ASSUME NEW r, Requeue(r) PROVE rows' = Tail(rows) /\ rows # << >> /\ r = Head(rows)
  BY <1>3 DEF Requeue, ReplayNext
<1>4. CASE Requeues(i)
  BY <1>2, <1>3, <1>4 DEF Requeues
<1>5. ASSUME rows' = rows PROVE ToReplay(i)
  BY <1>1, <1>5 DEF ToReplay
<1>6. CASE ReplayRead /\ rows' # rows
  <2>1. PICK k \in 0 .. EarlierLives :
           journal' = [m \in DOMAIN journal |-> [journal[m] EXCEPT !.old = @ \/ m <= k]]
    BY <1>6 DEF ReplayRead
  <2>2. /\ rows' = journal' /\ boot = "ready" /\ running' = running /\ lanes' = lanes
        /\ marks' = [x \in Items |->
                       IF InJournal(x) /\ x \in here THEN marks[x] \cup {"overlapped"} ELSE marks[x]]
    BY <1>6 DEF ReplayRead
  <2>3. n \in DOMAIN journal /\ journal[n].item = i /\ ~journal[n].started
    BY <1>1, <2>1, <2>2, AgedFacts
  <2>4. InJournal(i)
    BY <2>3 DEF InJournal, RowsOf
  <2>5. i \notin here
    <3>1. "overlapped" \notin marks'[i]
      BY DEF Clean
    <3> QED
      BY <2>2, <2>4, <3>1
  <2>6. /\ \A t \in Threads : running[t] # Idle /\ running[t].row => running[t].item # i
        /\ \A l \in Lanes : \A m \in DOMAIN lanes[l].queue :
              lanes[l].queue[m].row => lanes[l].queue[m].item # i
        /\ posting[i] # "row"
    BY <2>2, <2>5 DEF NoticeInv, OwnLife
  <2>7. /\ posting[i] # "norow"
        /\ \A l \in Lanes : \A m \in DOMAIN lanes[l].queue :
              ~lanes[l].queue[m].row => lanes[l].queue[m].item # i
        /\ \A t \in Threads : running[t] # Idle /\ ~running[t].row => running[t].item # i
    BY <2>4 DEF Origins, Unjournaled
  <2>8. posting[i] = "no"
    BY <2>6, <2>7 DEF DelTypes, Waiting
  <2>9. \A t \in Threads : running[t].item # i
    BY <2>6, <2>7, ItemFacts, ThreadFacts
  <2>10. ~InQueue(i)
    BY <2>6, <2>7, ItemFacts DEF InQueue, Queue
  <2>11. ~Said(i)
    BY <2>3 DEF SaidStarted, RowsStarted
  <2>12. ~ToReplay(i)
    BY <2>2 DEF Origins, RowsInv, ToReplay
  <2> QED
    BY <1>6, <2>2, <2>8, <2>9, <2>10, <2>11, <2>12
<1>7. ASSUME DropRow PROVE ToReplay(i)
  BY <1>2, <1>7 DEF DropRow, DelTypes, Disk
<1>8. ASSUME NEW r, Requeue(r) PROVE ToReplay(i)
  BY <1>2, <1>3, <1>8
<1>9. ASSUME Crash PROVE FALSE
  BY <1>1, <1>9, CrashEffect
<1>10. ASSUME NEW t \in Threads, RunJob(t) PROVE rows' = rows
  BY <1>10 DEF RunJob, Started, Typed, NotDelivered, Panics, StartWatcher, Finished
<1>11. ASSUME NEW k \in Items, QueueJob(k) \/ PostRetry(k) PROVE rows' = rows
  BY <1>11 DEF QueueJob, PostRetry
<1>12. ASSUME NEW l \in Lanes, TakeNext(l) \/ LaneEnds(l) PROVE rows' = rows
  BY <1>12 DEF TakeNext, LaneEnds
<1>13. ASSUME Post \/ Tick \/ Leave \/ ReplayDone \/ (\E r : Abandon(r)) \/ UNCHANGED vars PROVE rows' = rows
  BY <1>13 DEF Post, Tick, Leave, ReplayDone, Abandon, vars, memory
<1>14. CASE ~Requeues(i) /\ ~(ReplayRead /\ rows' # rows)
  BY <1>5, <1>7, <1>8, <1>9, <1>10, <1>11, <1>12, <1>13, <1>14 DEF Next, Daemon, Replay
<1> QED
  BY <1>4, <1>6, <1>14
(* What is typed: the item of a thread that runs, at the end.              *)
LEMMA TypedFrom ==
    ASSUME DelTypes, [Next]_vars
    PROVE  \/ typed' = typed
           \/ \E t \in Threads : /\ Says(t) /\ running[t].item \in Items
                                 /\ typed' = Append(typed, running[t].item)
<1>1. ASSUME NEW t \in Threads, RunJob(t)
      PROVE  \/ typed' = typed
             \/ /\ Says(t) /\ running[t].item \in Items
                /\ typed' = Append(typed, running[t].item)
  <2>1. running[t].item \in Items
    BY <1>1, RunJobEffect
  <2> QED
    BY <1>1, <2>1 DEF RunJob, Started, Typed, NotDelivered, Panics, StartWatcher, Finished, Says
<1>2. ASSUME NEW i \in Items, QueueJob(i) \/ PostRetry(i) PROVE typed' = typed
  BY <1>2 DEF QueueJob, PostRetry
<1>3. ASSUME NEW l \in Lanes, TakeNext(l) \/ LaneEnds(l) PROVE typed' = typed
  BY <1>3 DEF TakeNext, LaneEnds, history
<1>4. ASSUME NEW r, Requeue(r) \/ Abandon(r) PROVE typed' = typed
  BY <1>4 DEF Requeue, Abandon
<1>5. ASSUME Post \/ Tick \/ Leave \/ ReplayRead \/ DropRow \/ ReplayDone \/ Crash \/ UNCHANGED vars
      PROVE  typed' = typed
  BY <1>5 DEF Post, Tick, Leave, ReplayRead, DropRow, ReplayDone, Crash, vars, history
<1> QED
  BY <1>1, <1>2, <1>3, <1>4, <1>5 DEF Next, Daemon, Replay

(* A line is in the terminal only by the step of a thread that says it.    *)
LEMMA SaidFrom ==
    ASSUME DelTypes, [Next]_vars, NEW i \in Items, SaidOnce(i)
    PROVE  /\ Said(i) => Said(i)'
           /\ Said(i)' => Said(i) \/ \E t \in Threads : running[t].item = i /\ Says(t)
           /\ (\A t \in Threads : running[t].item = i /\ Says(t) => ~Said(i)) => SaidOnce(i)'
<1>1. CASE typed' = typed
  BY <1>1 DEF Said, SaidOnce
<1>2. ASSUME NEW t \in Threads, Says(t), running[t].item \in Items,
             typed' = Append(typed, running[t].item)
      PROVE  /\ Said(i) => Said(i)'
             /\ Said(i)' => Said(i) \/ running[t].item = i
             /\ (running[t].item = i => ~Said(i)) => SaidOnce(i)'
  <2> DEFINE k == running[t].item
  <2>1. /\ Len(typed) \in Nat /\ DOMAIN typed = 1..Len(typed)
        /\ DOMAIN typed' = 1..(Len(typed) + 1)
        /\ typed'[Len(typed) + 1] = k
        /\ \A n \in DOMAIN typed : typed'[n] = typed[n]
    BY <1>2, AppendProperties DEF DelTypes, Chronicle
  <2>2. \A n \in DOMAIN typed' : n = Len(typed) + 1 \/ n \in DOMAIN typed
    BY <2>1
  <2>3. \A n \in DOMAIN typed : n \in DOMAIN typed'
    BY <2>1
  <2> HIDE DEF k
  <2>4. Said(i) => Said(i)'
    BY <2>1, <2>3 DEF Said
  <2>5. Said(i)' => Said(i) \/ k = i
    BY <2>1, <2>2 DEF Said
  <2>6. (k = i => ~Said(i)) => SaidOnce(i)'
    BY <2>1, <2>2 DEF Said, SaidOnce
  <2> QED
    BY <2>4, <2>5, <2>6 DEF k
<1> QED
  BY <1>1, <1>2, TypedFrom

(* Rows that started stay so, until the item is recorded, which it is once. *)
LEMMA RowsStartedKept ==
    ASSUME DelTypes, Origins, [Next]_vars, NEW i \in Items, ~Opens(i), RowsStarted(i)
    PROVE  RowsStarted(i)'
<1> SUFFICES ASSUME NEW n \in DOMAIN journal', journal'[n].item = i PROVE journal'[n].started
  BY DEF RowsStarted
<1>1. ASSUME NEW k \in Items, Opens(k), record(k) PROVE journal'[n].started
  <2>1. k # i
    BY <1>1
  <2>2. journal'[n].item = k \/ \E m \in DOMAIN journal : journal'[n] = journal[m]
    BY <1>1, RecordTypes
  <2> QED
    BY <2>1, <2>2 DEF RowsStarted
<1>2. CASE RowsStem
  BY <1>2 DEF RowsStem, RowsStarted
<1> QED
  BY <1>1, <1>2, JournalSteps DEF Origins, RowsInv

(* A thread that goes on to run has marked the row, or left a mark.        *)
LEMMA RunsStarted ==
    ASSUME DelTypes, Origins, [Next]_vars, NEW i \in Items, NEW t \in Threads, Clean(i)',
           running'[t].item = i, running'[t].at = "run"
    PROVE  \/ running[t].item = i /\ running[t].at = "run"
           \/ RowsStarted(i)'
<1>1. ToRun(t, i)'
  BY DEF ToRun
<1>2. running[t] # Idle
  <2>1. ASSUME running[t] = Idle PROVE running'[t].at # "run"
    <3>1. ASSUME NEW k \in Items, NEW u \in {PostThread(k), BootThread(k)}, NEW row \in BOOLEAN,
                 run_later(u, k, row)
          PROVE  running'[t] = Idle \/ running'[t].at = "start"
      <4>1. \/ running' = running
            \/ running'[u].at = "start" /\ \A v \in Threads : v # u => running'[v] = running[v]
        BY <3>1, RunLaterEffect
      <4> QED
        BY <2>1, <4>1
    <3>2. ASSUME QueueJob(i) PROVE running'[t].at # "run"
      <4>1. run_later(PostThread(i), i, posting[i] = "row") /\ (posting[i] = "row") \in BOOLEAN
        BY <3>2 DEF QueueJob
      <4> QED
        BY <3>1, <4>1, ThreadFacts
    <3>3. ASSUME Requeues(i) PROVE running'[t].at # "run"
      <4>1. PICK r : Requeue(r) /\ r.item = i
        BY <3>3 DEF Requeues
      <4>2. run_later(BootThread(i), i, TRUE) \/ running' = running
        BY <4>1 DEF Requeue
      <4> QED
        BY <2>1, <3>1, <4>2, ThreadFacts
    <3>4. ASSUME Takes(i), t = LaneThread(Lane(i)) PROVE running'[t].at # "run"
      <4>1. PICK l \in Lanes : TakeNext(l)
        BY <3>4 DEF Takes
      <4>2. /\ running'[LaneThread(l)].at = "start"
            /\ t # LaneThread(l) => running'[t] = running[t]
        BY <4>1, TakeNextEffect
      <4> QED
        BY <2>1, <4>2, ThreadFacts
    <3>5. ~ToRun(t, i)
      BY <2>1, ThreadFacts, ItemFacts DEF ToRun
    <3> QED
      BY <1>1, <3>2, <3>3, <3>4, <3>5, ToRunFrom
  <2> QED
    BY <2>1
<1>3. ~Crash
  BY CrashEffect
<1>4. CASE RunJob(t)
  <2>1. running[t].item = i /\ Started(t)
    <3>1. running'[t] # Idle
      BY ThreadFacts
    <3> QED
      BY <1>4, <3>1, RunJobEffect
  <2>2. CASE running[t].row /\ journal' = mark_started(i)
    <3>1. /\ DOMAIN journal' = DOMAIN journal
          /\ \A n \in DOMAIN journal :
                /\ journal'[n].item = journal[n].item
                /\ journal'[n].started = (journal[n].started \/ journal[n].item = i)
      BY <2>2, MarkStartedFacts DEF DelTypes, Disk
    <3> QED
      BY <3>1 DEF RowsStarted
  <2>3. CASE marks' = Marked(i, "unmarked")
    <3>1. "unmarked" \in marks'[i]
      BY <2>3 DEF Marked, DelTypes, Chronicle
    <3> QED
      BY <3>1 DEF Clean
  <2>4. CASE ~running[t].row /\ journal' = journal
    <3>1. ~InJournal(i)
      BY <1>2, <2>1, <2>4 DEF Origins, Unjournaled
    <3> QED
      BY <2>4, <3>1 DEF InJournal, RowsOf, RowsStarted
  <2> QED
    BY <2>1, <2>2, <2>3, <2>4 DEF Started
<1>5. CASE ~RunJob(t)
  BY <1>2, <1>3, <1>5, WorkKept
<1> QED
  BY <1>4, <1>5

(* A line is watched once it is typed; a watch that ends makes at most one *)
(* retry.                                                                  *)
LEMMA WatchMoves ==
    ASSUME DelTypes, [Next]_vars, NEW i \in Items, ~Retry(i)
    PROVE  /\ watches[i] \in Nat /\ retries[i[1]] \in Nat /\ watches'[i] \in Nat /\ retries'[i[1]] \in Nat
           /\ \/ watches'[i] + retries'[i[1]] <= watches[i] + retries[i[1]]
              \/ /\ watches'[i] + retries'[i[1]] = watches[i] + retries[i[1]] + 1
                 /\ \E t \in Threads : /\ running[t].item = i /\ Says(t)
                                       /\ typed' = Append(typed, i)
<1> DEFINE j == i[1]
<1>1. /\ j \in Jobs /\ watches \in [Items -> Nat] /\ retries \in [Jobs -> Nat]
      /\ watches[i] \in Nat /\ retries[j] \in Nat
  BY ItemFacts, DeliveryAssumption DEF DelTypes, Watching
<1>2. DelTypes'
  BY TypesStep
<1>3. watches'[i] \in Nat /\ retries'[j] \in Nat
  BY <1>1, <1>2, DeliveryAssumption DEF DelTypes, Watching
<1> DEFINE Less == watches'[i] + retries'[j] <= watches[i] + retries[j]
<1>4. ASSUME watches'[i] \in {watches[i], 0}, retries' = retries PROVE Less
  BY <1>1, <1>4
<1>5. ASSUME Tick PROVE Less
  <2>1. PICK S \in SUBSET Watched : \E missed \in SUBSET S :
           /\ watches' = [k \in Items |-> IF k \in S THEN watches[k] - 1 ELSE watches[k]]
           /\ NotTaken(missed)
    BY <1>5 DEF Tick
  <2>2. PICK missed \in SUBSET S : NotTaken(missed)
    BY <2>1
  <2>3. retries' = [p \in Jobs |-> IF \E k \in {x \in missed : ~Retry(x)} : k[1] = p
                                   THEN retries[p] + 1 ELSE retries[p]]
    BY <2>2 DEF NotTaken, FireRetry
  <2>4. ASSUME NEW k \in missed, ~Retry(k), k[1] = j PROVE k = i
    <3>1. k \in Items
      BY DEF Watched
    <3>2. k = <<k[1], k[2]>> /\ i = <<i[1], i[2]>> /\ k[2] = 0 /\ i[2] = 0
      BY <2>4, <3>1, ItemFacts
    <3> QED
      BY <2>4, <3>2
  <2>5. CASE i \in missed
    <3>1. watches'[i] = watches[i] - 1
      BY <2>1, <2>5
    <3>2. retries'[j] \in {retries[j], retries[j] + 1}
      BY <1>1, <2>3
    <3> QED
      BY <1>1, <1>3, <3>1, <3>2
  <2>6. CASE i \notin missed
    <3>1. retries'[j] = retries[j]
      BY <1>1, <2>3, <2>4, <2>6
    <3>2. watches'[i] \in {watches[i], watches[i] - 1}
      BY <2>1
    <3> QED
      BY <1>1, <1>3, <3>1, <3>2
  <2> QED
    BY <2>5, <2>6
<1>6. ASSUME NEW t \in Threads, Typed(t)
      PROVE  \/ Less
             \/ /\ watches'[i] + retries'[j] = watches[i] + retries[j] + 1
                /\ running[t].item = i /\ Says(t) /\ typed' = Append(typed, i)
  <2>1. retries' = retries /\ typed' = Append(typed, running[t].item)
        /\ (watches' = watches \/ watches' = [watches EXCEPT ![running[t].item] = @ + 1])
    BY <1>6 DEF Typed
  <2>2. CASE running[t].item = i
    <3>1. watches'[i] = watches[i] \/ watches'[i] = watches[i] + 1
      BY <1>1, <2>1, <2>2
    <3>2. CASE watches'[i] = watches[i]
      BY <1>4, <2>1, <3>2
    <3>3. CASE watches'[i] = watches[i] + 1
      <4>1. watches'[i] + retries'[j] = watches[i] + retries[j] + 1
        <5>1. \A a, b \in Nat : (a + 1) + b = a + b + 1
          OBVIOUS
        <5>2. retries'[j] = retries[j]
          BY <2>1
        <5> QED
          BY <1>1, <3>3, <5>1, <5>2
      <4> QED
        BY <1>6, <2>1, <2>2, <4>1 DEF Says
    <3> QED
      BY <3>1, <3>2, <3>3
  <2>3. CASE running[t].item # i
    <3>1. watches'[i] = watches[i]
      BY <1>1, <2>1, <2>3
    <3> QED
      BY <1>4, <2>1, <3>1
  <2> QED
    BY <2>2, <2>3
<1>7. ASSUME NEW t \in Threads, RunJob(t), ~Typed(t) PROVE Less
  <2>1. retries' = retries /\ (watches' = watches \/ watches' = NoMemory.watches)
    BY <1>7 DEF RunJob, Started, NotDelivered, Panics, StartWatcher, Finished
  <2> QED
    BY <1>4, <2>1, NoMemoryFacts
<1>8. ASSUME NEW k \in Items, QueueJob(k) \/ PostRetry(k) PROVE watches' = watches /\ retries' = retries
  BY <1>8 DEF QueueJob, PostRetry
<1>9. ASSUME NEW l \in Lanes, TakeNext(l) \/ LaneEnds(l) PROVE watches' = watches /\ retries' = retries
  BY <1>9 DEF TakeNext, LaneEnds, history
<1>10. ASSUME NEW r, Requeue(r) \/ Abandon(r) PROVE watches' = watches /\ retries' = retries
  BY <1>10 DEF Requeue, Abandon
<1>11. ASSUME Post \/ Leave \/ ReplayRead \/ DropRow \/ ReplayDone \/ UNCHANGED vars
       PROVE  watches' = watches /\ retries' = retries
  BY <1>11 DEF Post, Leave, ReplayRead, DropRow, ReplayDone, vars, memory, history
<1>12. ASSUME Crash PROVE Less
  BY <1>4, <1>12, CrashEffect
<1>13. watches' = watches /\ retries' = retries => Less
  BY <1>4
<1>14. \/ Less
       \/ /\ watches'[i] + retries'[j] = watches[i] + retries[j] + 1
          /\ \E t \in Threads : running[t].item = i /\ Says(t) /\ typed' = Append(typed, i)
  BY <1>5, <1>6, <1>7, <1>8, <1>9, <1>10, <1>11, <1>12, <1>13 DEF Next, Daemon, Replay
<1> QED
  BY <1>1, <1>3, <1>14

(* Every step keeps one copy of a line around.                             *)
LEMMA OneCopyStep ==
    ASSUME DelTypes, Origins, NoticeInv, [Next]_vars, NEW i \in Items, OneCopy(i), Clean(i)'
    PROVE  OneCopy(i)'
<1>1. /\ QueueJob(i) => posting[i] # "no"
      /\ Takes(i) => InQueue(i)
      /\ Requeues(i) => ToReplay(i)
      /\ \A t \in Threads : running[t].item = i /\ Says(t) => ToRun(t, i)
      /\ Opens(i) => /\ posting[i] = "no" /\ ~InQueue(i) /\ ~ToReplay(i) /\ ~Said(i)
                     /\ ~InJournal(i) /\ \A t \in Threads : ~ToRun(t, i)
  BY MovesFrom
<1>2. posting'[i] # "no" => Opens(i) \/ (posting[i] # "no" /\ ~QueueJob(i))
  BY PostingStems
<1>3. InQueue(i)' => \/ InQueue(i) /\ ~Takes(i)
                     \/ (QueueJob(i) \/ Requeues(i)) /\ running' = running
  BY InQueueFrom DEF OneCopy
<1>4. \A t \in Threads :
         ToRun(t, i)' => \/ ToRun(t, i) /\ ~Says(t)
                         \/ Takes(i) /\ t = LaneThread(Lane(i)) /\ running[t] = Idle
                         \/ QueueJob(i) /\ t = PostThread(i) /\ running[t] = Idle
                         \/ Requeues(i) /\ t = BootThread(i) /\ running[t] = Idle
  BY ToRunFrom
<1>5. ToReplay(i)' => \/ ToReplay(i) /\ ~Requeues(i)
                      \/ /\ posting[i] = "no" /\ ~InQueue(i) /\ ~ToReplay(i) /\ ~Said(i)
                         /\ (\A t \in Threads : running[t].item # i)
                         /\ ReplayRead /\ running' = running /\ lanes' = lanes
  BY ToReplayFrom DEF OneCopy
<1>6. /\ Said(i)' => Said(i) \/ \E t \in Threads : ToRun(t, i) /\ Says(t)
      /\ SaidOnce(i)' /\ (Said(i) => Said(i)')
  <2>1. \A t \in Threads : running[t].item = i /\ Says(t) => ~Said(i)
    BY <1>1 DEF OneCopy, OnePlace
  <2> QED
    BY <1>1, <2>1, SaidFrom DEF OneCopy
<1>7. \A t \in Threads : running' = running /\ running[t] # Idle /\ ToRun(t, i)' => ToRun(t, i)
  BY DEF ToRun
<1>8. \A t \in Threads : ToRun(t, i)' => ~(running' = running /\ running[t] = Idle)
  BY ItemFacts, ThreadFacts DEF ToRun
<1>9. \A t \in Threads : running[t].item # i => ~ToRun(t, i)
  BY DEF ToRun
<1> DEFINE P == posting[i] # "no"
           R == \E t \in Threads : ToRun(t, i)
<1>10. /\ P => ~InQueue(i) /\ ~R /\ ~ToReplay(i) /\ ~Said(i)
       /\ InQueue(i) => ~R /\ ~ToReplay(i) /\ ~Said(i)
       /\ R => ~ToReplay(i) /\ ~Said(i)
       /\ ToReplay(i) => ~Said(i)
       /\ \A t, u \in Threads : ToRun(t, i) /\ ToRun(u, i) => t = u
  BY DEF OneCopy, OnePlace
<1>11. OnePlace(i)'
  <2>1. posting'[i] # "no" => ~InQueue(i)' /\ (\A t \in Threads : ~ToRun(t, i)') /\ ~ToReplay(i)' /\ ~Said(i)'
    <3>1. posting'[i] # "no" => ~InQueue(i)'
      BY <1>1, <1>2, <1>3, <1>10
    <3>2. posting'[i] # "no" => \A t \in Threads : ~ToRun(t, i)'
      BY <1>1, <1>2, <1>4, <1>10
    <3>3. posting'[i] # "no" => ~ToReplay(i)'
      <4>1. ReplayRead => posting' = posting
        BY DEF ReplayRead
      <4>2. ToReplay(i) => posting'[i] = "no"
        BY <1>1, <1>2, <1>10
      <4> QED
        BY <1>5, <4>1, <4>2
    <3>4. posting'[i] # "no" => ~Said(i)'
      BY <1>1, <1>2, <1>6, <1>10
    <3> QED
      BY <3>1, <3>2, <3>3, <3>4
  <2>2. InQueue(i)' => (\A t \in Threads : ~ToRun(t, i)') /\ ~ToReplay(i)' /\ ~Said(i)'
    <3>1. InQueue(i)' => \A t \in Threads : ~ToRun(t, i)'
      BY <1>1, <1>3, <1>4, <1>8, <1>10
    <3>2. InQueue(i)' => ~ToReplay(i)'
      BY <1>1, <1>3, <1>5, <1>10
    <3>3. InQueue(i)' => ~Said(i)'
      BY <1>1, <1>3, <1>6, <1>10
    <3> QED
      BY <3>1, <3>2, <3>3
  <2>3. \A t \in Threads : ToRun(t, i)' => ~ToReplay(i)' /\ ~Said(i)'
    <3> SUFFICES ASSUME NEW t \in Threads, ToRun(t, i)' PROVE ~ToReplay(i)' /\ ~Said(i)'
      OBVIOUS
    <3>1. ~ToReplay(i)'
      BY <1>1, <1>4, <1>5, <1>9, <1>10
    <3>2. ~Said(i)'
      BY <1>1, <1>4, <1>6, <1>10
    <3> QED
      BY <3>1, <3>2
  <2>4. \A t, u \in Threads : ToRun(t, i)' /\ ToRun(u, i)' => t = u
    <3> SUFFICES ASSUME NEW t \in Threads, NEW u \in Threads, ToRun(t, i)', ToRun(u, i)' PROVE t = u
      OBVIOUS
    <3>1. /\ \/ ToRun(t, i)
             \/ Takes(i) /\ t = LaneThread(Lane(i))
             \/ QueueJob(i) /\ t = PostThread(i)
             \/ Requeues(i) /\ t = BootThread(i)
          /\ \/ ToRun(u, i)
             \/ Takes(i) /\ u = LaneThread(Lane(i))
             \/ QueueJob(i) /\ u = PostThread(i)
             \/ Requeues(i) /\ u = BootThread(i)
      BY <1>4
    <3> QED
      BY <1>1, <1>10, <3>1
  <2>5. ToReplay(i)' => ~Said(i)'
    BY <1>1, <1>5, <1>6, <1>9, <1>10
  <2> QED
    BY <2>1, <2>2, <2>3, <2>4, <2>5 DEF OnePlace
<1>12. QueuedOnce(i)'
  <2> DEFINE l == Lane(i)
             q == lanes[l].queue
             w == lanes'[l].queue
  <2>1. l \in Lanes
    BY ItemFacts
  <2>2. PICK d \in {0, 1} :
           \A n \in DOMAIN w :
              /\ n \in Nat /\ n >= 1
              /\ \/ n + d \in DOMAIN q /\ w[n] = q[n + d]
                 \/ n = Len(q) + 1 /\ (QueueJob(w[n].item) \/ Requeues(w[n].item))
    BY <2>1, QueueMoves
  <2>3. \A n, m \in DOMAIN q : q[n].item = i /\ q[m].item = i => n = m
    BY DEF OneCopy, QueuedOnce, Queue
  <2>4. QueueJob(i) \/ Requeues(i) => \A n \in DOMAIN q : q[n].item # i
    BY <1>1, <1>10 DEF InQueue, Queue
  <2> HIDE DEF l, q, w
  <2>5. ASSUME NEW n \in DOMAIN w, NEW m \in DOMAIN w, w[n].item = i, w[m].item = i PROVE n = m
    <3>1. n \in Nat /\ m \in Nat
      BY <2>2
    <3>2. \/ n + d \in DOMAIN q /\ q[n + d].item = i
          \/ n = Len(q) + 1 /\ (QueueJob(i) \/ Requeues(i))
      BY <2>2, <2>5
    <3>3. \/ m + d \in DOMAIN q /\ q[m + d].item = i
          \/ m = Len(q) + 1 /\ (QueueJob(i) \/ Requeues(i))
      BY <2>2, <2>5
    <3>4. n + d = m + d \/ n = m
      BY <2>3, <2>4, <3>2, <3>3
    <3> QED
      BY <3>1, <3>4
  <2> QED
    BY <2>5 DEF QueuedOnce, Queue, l, w
<1>13. SaidStarted(i)'
  <2>1. (Said(i) \/ \E t \in Threads : running[t].item = i /\ running[t].at = "run") => RowsStarted(i)'
    <3>1. ASSUME Said(i) \/ \E t \in Threads : running[t].item = i /\ running[t].at = "run"
          PROVE  RowsStarted(i) /\ ~Opens(i)
      BY <1>1, <3>1 DEF OneCopy, SaidStarted, ToRun
    <3> QED
      BY <3>1, RowsStartedKept
  <2>2. Said(i)' => RowsStarted(i)'
    <3>1. \A t \in Threads : ToRun(t, i) /\ Says(t) => running[t].item = i /\ running[t].at = "run"
      BY DEF ToRun, Says, Typed, Panics
    <3> QED
      BY <1>6, <2>1, <3>1
  <2>3. \A t \in Threads : running'[t].item = i /\ running'[t].at = "run" => RowsStarted(i)'
    BY <2>1, RunsStarted
  <2> QED
    BY <2>2, <2>3 DEF SaidStarted
<1>14. RetriedOnce(i)'
  <2> SUFFICES ASSUME ~Retry(i)
               PROVE  /\ watches'[i] + retries'[i[1]] <= 1
                      /\ watches'[i] + retries'[i[1]] > 0 => Said(i)'
    BY DEF RetriedOnce
  <2>1. /\ watches[i] + retries[i[1]] <= 1
        /\ watches[i] + retries[i[1]] > 0 => Said(i)
    BY DEF OneCopy, RetriedOnce
  <2>2. /\ watches[i] \in Nat /\ retries[i[1]] \in Nat /\ watches'[i] \in Nat /\ retries'[i[1]] \in Nat
        /\ \/ watches'[i] + retries'[i[1]] <= watches[i] + retries[i[1]]
           \/ /\ watches'[i] + retries'[i[1]] = watches[i] + retries[i[1]] + 1
              /\ \E t \in Threads : /\ running[t].item = i /\ Says(t)
                                    /\ typed' = Append(typed, i)
    BY WatchMoves
  <2>3. CASE watches'[i] + retries'[i[1]] <= watches[i] + retries[i[1]]
    <3> DEFINE a == watches[i] + retries[i[1]]
               b == watches'[i] + retries'[i[1]]
    <3>1. a \in Nat /\ b \in Nat /\ b <= a /\ a <= 1 /\ (a > 0 => Said(i))
      BY <2>1, <2>2, <2>3, SMTT(30)
    <3> HIDE DEF a, b
    <3>2. b <= 1 /\ (b > 0 => Said(i)')
      BY <1>6, <3>1
    <3> QED
      BY <3>2 DEF b
  <2>4. ASSUME watches'[i] + retries'[i[1]] = watches[i] + retries[i[1]] + 1,
               NEW t \in Threads, running[t].item = i, Says(t), typed' = Append(typed, i)
        PROVE  watches'[i] + retries'[i[1]] <= 1 /\ Said(i)'
    <3>1. ~Said(i)
      BY <1>1, <1>10, <2>4
    <3>2. watches[i] + retries[i[1]] = 0
      BY <2>1, <2>2, <3>1
    <3>3. Len(typed) + 1 \in DOMAIN typed' /\ typed'[Len(typed) + 1] = i
      BY <2>4, AppendProperties DEF DelTypes, Chronicle
    <3>4. Said(i)'
      BY <3>3 DEF Said
    <3> QED
      BY <2>4, <3>2, <3>4
  <2> QED
    BY <2>2, <2>3, <2>4
<1> QED
  BY <1>6, <1>11, <1>12, <1>13, <1>14 DEF OneCopy

(* The same for all items.                                                 *)
LEMMA CopyStep == DelTypes /\ Origins /\ NoticeInv /\ CopyInv /\ [Next]_vars => CopyInv'
<1> SUFFICES ASSUME DelTypes, Origins, NoticeInv, CopyInv, [Next]_vars, NEW i \in Items, Clean(i)'
             PROVE  OneCopy(i)'
  BY DEF CopyInv
<1>1. Clean(i)
  BY MarksGrow DEF Clean
<1> QED
  BY <1>1, OneCopyStep DEF CopyInv

(* Nothing is queued, run or said.                                         *)
LEMMA CopyInit == Init => CopyInv
<1> SUFFICES ASSUME Init, NEW i \in Items PROVE OneCopy(i)
  BY DEF CopyInv
<1>1. /\ \A n \in DOMAIN journal : FALSE
      /\ \A n \in DOMAIN rows : FALSE
      /\ \A n \in DOMAIN typed : FALSE
      /\ posting[i] = "no" /\ watches[i] = 0 /\ retries[i[1]] = 0
      /\ \A l \in Lanes : \A n \in DOMAIN lanes[l].queue : FALSE
      /\ \A t \in Threads : running[t] = Idle
  <2>1. \A l \in Lanes : lanes[l].queue = << >>
    BY NoMemoryFacts DEF Init
  <2> QED
    BY <2>1, NoMemoryFacts, ItemFacts DEF Init
<1>2. \A t \in Threads : running[t].item # i
  BY <1>1, ThreadFacts, ItemFacts
<1>3. Lane(i) \in Lanes
  BY ItemFacts
<1> QED
  BY <1>1, <1>2, <1>3 DEF OneCopy, OnePlace, QueuedOnce, SaidOnce, SaidStarted, RetriedOnce,
     InQueue, Queue, ToRun, ToReplay, Said, RowsStarted

(* One place at most gives one typing at most, and one retry.              *)
LEMMA CopyGivesOnce == DelTypes /\ CopyInv => TypedOnce
<1> SUFFICES ASSUME DelTypes, CopyInv, NEW i \in Items, Clean(i)
             PROVE  Times(i) <= 1 /\ (~Retry(i) => watches[i] + retries[i[1]] <= 1)
  BY DEF TypedOnce, Clean
<1>1. OneCopy(i)
  BY DEF CopyInv
<1>2. Times(i) <= 1
  <2> DEFINE T == {n \in DOMAIN typed : typed[n] = i}
  <2>1. \A a, b \in T : a = b
    BY <1>1 DEF OneCopy, SaidOnce
  <2>2. T = {} \/ \E a : T = {a}
    BY <2>1
  <2> HIDE DEF T
  <2>3. Cardinality(T) \in {0, 1}
    BY <2>2, FS_EmptySet, FS_Singleton
  <2> QED
    BY <2>3 DEF Times, T
<1>3. ASSUME ~Retry(i) PROVE watches[i] + retries[i[1]] <= 1
  BY <1>1, <1>3 DEF OneCopy, RetriedOnce
<1> QED
  BY <1>2, <1>3

(* A line is typed into its terminal at most once and retried at most      *)
(* once, across crashes and replays, but for a started mark that could not *)
(* be written and a post that boot's snapshot picked up while it was       *)
(* already on a lane (delivery_queue.rs, delivery_journal.rs,              *)
(* delivery_take.rs).                                                      *)
THEOREM LinesTypedOnce == Spec => []TypedOnce
<1>1. Init => DelTypes /\ Origins /\ NoticeInv /\ CopyInv
  BY TypesInit, OriginsInit, NoticeInit, CopyInit
<1>2. DelTypes /\ Origins /\ NoticeInv /\ CopyInv /\ [Next]_vars
         => DelTypes' /\ Origins' /\ NoticeInv' /\ CopyInv'
  BY TypesStep, OriginsStep, StartedTrueStep, SnapshotTrueStep, OwnLifeStep, NoticeStep, CopyStep DEF NoticeInv
<1> QED
  BY <1>1, <1>2, CopyGivesOnce, PTL DEF Spec
-----------------------------------------------------------------------------
(***************************************************************************)
(* The order of the lines.  A row boot would send again is due; an item    *)
(* that is due, queued, on a thread or in boot's snapshot nowhere is dead: *)
(* it is not typed again.                                                  *)
(***************************************************************************)
Due(i) == \E n \in DOMAIN journal : journal[n].item = i /\ plan(journal[n])
Replayable(i) == \E n \in DOMAIN rows : rows[n].item = i /\ plan(rows[n])
Runs(i) == \E t \in Threads : ToRun(t, i)
AtStart(i) == \E t \in Threads : running[t].item = i /\ running[t].at = "start"
Dead(i) == ~InQueue(i) /\ ~Runs(i) /\ ~Replayable(i) /\ ~Due(i)

(* Only the steps of the replay and a crash touch boot and its snapshot.   *)
LEMMA BootSteps ==
    ASSUME [Next]_vars
    PROVE  \/ UNCHANGED <<boot, rows>>
           \/ ReplayRead \/ (\E r : Requeue(r)) \/ (\E r : Abandon(r)) \/ DropRow \/ ReplayDone
           \/ Crash
<1>1. ASSUME NEW t \in Threads, RunJob(t) PROVE UNCHANGED <<boot, rows>>
  BY <1>1 DEF RunJob, Started, Typed, NotDelivered, Panics, StartWatcher, Finished
<1>2. ASSUME NEW i \in Items, QueueJob(i) \/ PostRetry(i) PROVE UNCHANGED <<boot, rows>>
  BY <1>2 DEF QueueJob, PostRetry
<1>3. ASSUME NEW l \in Lanes, TakeNext(l) \/ LaneEnds(l) PROVE UNCHANGED <<boot, rows>>
  BY <1>3 DEF TakeNext, LaneEnds
<1>4. ASSUME Post \/ Tick \/ Leave \/ UNCHANGED vars PROVE UNCHANGED <<boot, rows>>
  BY <1>4 DEF Post, Tick, Leave, vars, memory
<1> QED
  BY <1>1, <1>2, <1>3, <1>4 DEF Next, Daemon, Replay

(* An item is due only if it was, or is recorded now.                      *)
LEMMA DueFrom ==
    ASSUME DelTypes, Distinct(journal), [Next]_vars, NEW i \in Items, Due(i)'
    PROVE  Opens(i) \/ Due(i)
<1>1. PICK n \in DOMAIN journal' : /\ journal'[n].item = i
                                   /\ ~journal'[n].started /\ ~journal'[n].old
  BY DEF Due, plan
<1>2. ASSUME NEW k \in Items, Opens(k), record(k) PROVE Opens(i) \/ Due(i)
  <2>1. journal'[n].item = k \/ \E m \in DOMAIN journal : journal'[n] = journal[m]
    BY <1>2, RecordTypes
  <2> QED
    BY <1>1, <1>2, <2>1 DEF Due, plan
<1>3. ASSUME RowsStem PROVE Due(i)
  <2>1. PICK m \in DOMAIN journal : /\ journal'[n].item = journal[m].item
                                    /\ journal[m].started => journal'[n].started
                                    /\ journal[m].old => journal'[n].old
    BY <1>3 DEF RowsStem
  <2> QED
    BY <1>1, <2>1 DEF Due, plan
<1> QED
  BY <1>2, <1>3, JournalSteps

(* Boot queues the first row of its snapshot, or drops it unread.          *)
LEMMA RequeuesFacts ==
    ASSUME DelTypes, NEW i \in Items, Requeues(i)
    PROVE  /\ boot = "replaying" /\ boot' = "replaying" /\ BootFree
           /\ rows # << >> /\ rows' = Tail(rows)
           /\ 1 \in DOMAIN rows /\ rows[1].item = i /\ Replayable(i)
           /\ posting' = posting
           /\ \/ run_later(BootThread(i), i, TRUE)
              \/ journal' = finish(i) /\ lanes' = lanes /\ running' = running
<1>1. PICK r : Requeue(r) /\ r.item = i
  BY DEF Requeues
<1>2. rows # << >> /\ r = Head(rows) /\ plan(r)
  BY <1>1 DEF Requeue, ReplayNext
<1>3. r = rows[1] /\ 1 \in DOMAIN rows
  BY <1>2, HeadFacts
<1>4. Replayable(i)
  BY <1>1, <1>2, <1>3 DEF Replayable
<1> QED
  BY <1>1, <1>2, <1>3, <1>4 DEF Requeue, ReplayNext

(* Boot would send an item again: it is in the snapshot, or was just read. *)
LEMMA ReplayableFrom ==
    ASSUME DelTypes, Origins, [Next]_vars, NEW i \in Items, Replayable(i)'
    PROVE  \/ Replayable(i) /\ ~Requeues(i)
           \/ ReplayRead /\ boot = "ready" /\ Due(i)
<1>1. PICK n \in DOMAIN rows' : /\ rows'[n].item = i
                                /\ ~rows'[n].started /\ ~rows'[n].old
  BY DEF Replayable, plan
<1>2. ASSUME rows' = Tail(rows), rows # << >> PROVE Replayable(i) /\ rows[1].item # i
  <2>1. /\ n + 1 \in DOMAIN rows /\ rows'[n] = rows[n + 1] /\ 1 \in DOMAIN rows
        /\ Tail(rows) \in Seq(Row)
    BY <1>2, HeadFacts
  <2>2. n \in Nat /\ n >= 1
    BY <1>2, <2>1
  <2>3. n + 1 # 1
    BY <2>2
  <2>4. rows[n + 1].item # rows[1].item
    BY <2>1, <2>3 DEF Origins, RowsInv, Distinct
  <2> QED
    BY <1>1, <2>1, <2>4 DEF Replayable, plan
<1>3. ASSUME NEW r, Requeue(r) PROVE rows' = Tail(rows) /\ rows # << >>
  BY <1>3 DEF Requeue, ReplayNext
<1>4. CASE Requeues(i)
  BY <1>2, <1>4, RequeuesFacts
<1>5. ASSUME rows' = rows PROVE Replayable(i)
  BY <1>1, <1>5 DEF Replayable, plan
<1>6. CASE ReplayRead /\ rows' # rows
  <2>1. PICK k \in 0 .. EarlierLives :
           journal' = [m \in DOMAIN journal |-> [journal[m] EXCEPT !.old = @ \/ m <= k]]
    BY <1>6 DEF ReplayRead
  <2>2. rows' = journal' /\ boot = "ready"
    BY <1>6 DEF ReplayRead
  <2>3. /\ n \in DOMAIN journal /\ journal[n].item = i
        /\ ~journal[n].started /\ ~journal[n].old
    BY <1>1, <2>1, <2>2, AgedFacts
  <2> QED
    BY <1>6, <2>2, <2>3 DEF Due, plan
<1>7. ASSUME DropRow PROVE Replayable(i)
  BY <1>2, <1>7 DEF DropRow, DelTypes, Disk
<1>8. ASSUME NEW r, Requeue(r) PROVE Replayable(i)
  BY <1>2, <1>3, <1>8
<1>9. ASSUME Crash PROVE FALSE
  BY <1>1, <1>9, CrashEffect
<1>10. ASSUME ReplayDone \/ (\E r : Abandon(r)) PROVE rows' = rows
  BY <1>10 DEF ReplayDone, Abandon
<1>11. CASE ~Requeues(i) /\ ~(ReplayRead /\ rows' # rows)
  BY <1>5, <1>7, <1>8, <1>9, <1>10, <1>11, BootSteps
<1> QED
  BY <1>4, <1>6, <1>11

(* A job is in its lane's queue if it was, or is put there now.            *)
LEMMA InQueueStem ==
    ASSUME DelTypes, Origins, [Next]_vars, NEW i \in Items, InQueue(i)'
    PROVE  InQueue(i) \/ QueueJob(i) \/ Requeues(i)
<1> DEFINE l == Lane(i)
           w == lanes'[l].queue
<1>1. l \in Lanes
  BY ItemFacts
<1>2. PICK n \in DOMAIN w : w[n].item = i
  BY DEF InQueue, Queue
<1>3. \/ \E m \in DOMAIN lanes[l].queue : w[n] = lanes[l].queue[m]
      \/ QueueJob(w[n].item)
      \/ \E r : Requeue(r) /\ r.item = w[n].item
  BY <1>1, JobStems DEF QueueStems
<1> HIDE DEF w
<1> QED
  BY <1>2, <1>3 DEF InQueue, Queue, Requeues

(* What is dead and not under way stays dead: nothing brings it back.      *)
LEMMA DeadKept ==
    ASSUME DelTypes, Origins, [Next]_vars, NEW i \in Items,
           Dead(i), posting[i] = "no", ~Opens(i)
    PROVE  Dead(i)'
<1>1. ~QueueJob(i) /\ ~Requeues(i) /\ ~Takes(i)
  BY MovesFrom, RequeuesFacts DEF Dead
<1>2. ~InQueue(i)'
  BY <1>1, InQueueStem DEF Dead
<1>3. ~Runs(i)'
  <2> SUFFICES ASSUME NEW t \in Threads, ToRun(t, i)' PROVE FALSE
    BY DEF Runs
  <2> QED
    BY <1>1, ToRunFrom DEF Dead, Runs
<1>4. ~Replayable(i)'
  BY ReplayableFrom DEF Dead
<1>5. ~Due(i)'
  BY DueFrom DEF Dead, Origins, RowsInv
<1> QED
  BY <1>2, <1>3, <1>4, <1>5 DEF Dead
(***************************************************************************)
(* Boot.  Rows are in the order of their posts, in the journal and in the  *)
(* snapshot; boot drops only a row it would not send; before it reads and  *)
(* after it is done it has no rows and runs nothing.                       *)
(***************************************************************************)
BootInv ==
    /\ Sorted(journal) /\ Sorted(rows)
    /\ boot = "dropping" => ~plan(rows[1])
    /\ boot \in {"ready", "done"} => rows = << >> /\ BootFree

(* A new row is the last one and has the highest number.                   *)
LEMMA SortedStep ==
    ASSUME DelTypes, Origins, Sorted(journal), [Next]_vars PROVE Sorted(journal')
<1>1. ASSUME NEW i \in Items, Opens(i), record(i) PROVE Sorted(journal')
  <2>1. \/ /\ Len(journal) \in Nat /\ DOMAIN journal = 1..Len(journal)
           /\ DOMAIN journal' = 1..(Len(journal) + 1)
           /\ journal'[Len(journal) + 1].item = i
           /\ \A n \in DOMAIN journal : journal'[n] = journal[n]
        \/ journal' = journal
    BY <1>1, RecordEffect
  <2>2. ASSUME ~Retry(i), NEW n \in DOMAIN journal PROVE journal[n].item[1] < i[1]
    <3>1. i = <<posted + 1, 0>>
      BY <1>1, <2>2 DEF Opens, PostRetry, Origins, FreshInv
    <3>2. i[1] = posted + 1
      BY <3>1
    <3>3. journal[n].item[1] <= posted /\ journal[n].item \in Items
      BY HeldFacts DEF DelTypes, Disk, Posted
    <3>4. journal[n].item[1] \in Nat /\ posted \in Nat
      BY <3>3, ItemFacts DEF DelTypes, Chronicle
    <3> QED
      BY <3>2, <3>3, <3>4
  <2>3. CASE /\ Len(journal) \in Nat /\ DOMAIN journal = 1..Len(journal)
             /\ DOMAIN journal' = 1..(Len(journal) + 1)
             /\ journal'[Len(journal) + 1].item = i
             /\ \A n \in DOMAIN journal : journal'[n] = journal[n]
    <3>1. ASSUME NEW n \in DOMAIN journal', NEW k \in DOMAIN journal', n < k
          PROVE  n \in DOMAIN journal /\ (k \in DOMAIN journal \/ k = Len(journal) + 1)
      BY <2>3, <3>1
    <3>2. ASSUME NEW n \in DOMAIN journal', NEW k \in DOMAIN journal', n < k,
                 ~Retry(journal'[n].item), ~Retry(journal'[k].item)
          PROVE  journal'[n].item[1] < journal'[k].item[1]
      BY <2>2, <2>3, <3>1, <3>2 DEF Sorted
    <3> QED
      BY <3>2 DEF Sorted
  <2> QED
    BY <2>1, <2>3
<1> QED
  BY <1>1, JournalSteps DEF Sorts, Origins, RowsInv

(* The thread of boot gets its job from the replay.                        *)
LEMMA BootFreeKept ==
    ASSUME DelTypes, [Next]_vars, BootFree, \A i \in Items : ~Requeues(i) PROVE BootFree'
<1> SUFFICES ASSUME NEW i \in Items PROVE running'[BootThread(i)] = Idle
  BY DEF BootFree
<1> DEFINE t == BootThread(i)
<1>1. t \in Threads /\ running[t] = Idle /\ \A l \in Lanes : t # LaneThread(l)
  BY ThreadFacts DEF BootFree
<1>2. \A k \in Items : t # PostThread(k)
  BY ThreadFacts
<1> HIDE DEF t
<1>3. RunStems
  BY JobStems
<1>4. \/ running'[t] = Idle
      \/ \E l \in Lanes : t = LaneThread(l)
      \/ running'[t].item \in Items /\ t = PostThread(running'[t].item)
      \/ running'[t].item \in Items /\ \E r : Requeue(r) /\ r.item = running'[t].item
  BY <1>1, <1>3 DEF RunStems
<1>5. running'[t] = Idle
  BY <1>1, <1>2, <1>4 DEF Requeues
<1> QED
  BY <1>5 DEF t

(* The rest of a sorted snapshot is sorted.                                *)
LEMMA TailSorted ==
    ASSUME DelTypes, Sorted(rows), rows # << >> PROVE Sorted(Tail(rows))
<1>1. \A n \in DOMAIN Tail(rows) : n + 1 \in DOMAIN rows /\ Tail(rows)[n] = rows[n + 1]
  BY HeadFacts
<1>2. Tail(rows) \in Seq(Row)
  BY HeadFacts
<1>3. \A n \in DOMAIN Tail(rows) : n \in Nat
  BY <1>2
<1>4. \A n, k \in DOMAIN Tail(rows) : n < k => n + 1 < k + 1
  BY <1>3
<1> QED
  BY <1>1, <1>4 DEF Sorted

(* Every step keeps what is known of boot.                                 *)
LEMMA BootInvStep ==
    ASSUME DelTypes, Origins, BootInv, [Next]_vars PROVE BootInv'
<1>1. /\ Sorted(journal) /\ Sorted(rows)
      /\ boot = "dropping" => ~plan(rows[1])
      /\ boot \in {"ready", "done"} => rows = << >> /\ BootFree
  BY DEF BootInv
<1>2. Sorted(journal')
  BY <1>1, SortedStep
<1> DEFINE Goal == /\ Sorted(rows')
                   /\ boot' = "dropping" => ~plan(rows'[1])
                   /\ boot' \in {"ready", "done"} => rows' = << >> /\ BootFree'
<1>3. ASSUME UNCHANGED <<boot, rows>> PROVE Goal
  <2>1. ASSUME boot \in {"ready", "done"} PROVE BootFree'
    <3>1. \A i \in Items : ~Requeues(i)
      BY <2>1, RequeuesFacts
    <3> QED
      BY <1>1, <2>1, <3>1, BootFreeKept
  <2> QED
    BY <1>1, <1>3, <2>1
<1>4. ASSUME ReplayRead PROVE Goal
  <2>1. running' = running /\ boot = "ready" /\ boot' \in {"replaying", "done"}
        /\ ((rows' = journal' /\ boot' = "replaying") \/ rows' = rows)
    BY <1>4 DEF ReplayRead
  <2>2. BootFree => BootFree'
    BY <2>1 DEF BootFree
  <2> QED
    BY <1>1, <1>2, <2>1, <2>2
<1>5. ASSUME NEW r, Requeue(r) PROVE Goal
  <2>1. boot' = "replaying" /\ rows' = Tail(rows) /\ rows # << >>
    BY <1>5 DEF Requeue, ReplayNext
  <2> QED
    BY <1>1, <2>1, TailSorted
<1>6. ASSUME NEW r, Abandon(r) PROVE Goal
  <2>1. boot' = "dropping" /\ rows' = rows /\ rows # << >> /\ r = Head(rows) /\ ~plan(r)
    BY <1>6 DEF Abandon, ReplayNext
  <2> QED
    BY <1>1, <2>1, HeadFacts
<1>7. ASSUME DropRow PROVE Goal
  <2>1. boot' = "replaying" /\ rows' = Tail(rows) /\ rows # << >>
    BY <1>7 DEF DropRow, DelTypes, Disk
  <2> QED
    BY <1>1, <2>1, TailSorted
<1>8. ASSUME ReplayDone PROVE Goal
  <2>1. boot' = "done" /\ rows' = rows /\ rows = << >> /\ BootFree /\ running' = running
    BY <1>8 DEF ReplayDone
  <2> QED
    BY <1>1, <2>1 DEF BootFree
<1>9. ASSUME Crash PROVE Goal
  <2>1. rows' = << >> /\ boot' = "ready" /\ \A t \in Threads : running'[t] = Idle
    BY <1>9, CrashEffect
  <2>2. \A n \in DOMAIN rows' : FALSE
    BY <2>1
  <2>3. BootFree'
    BY <2>1, ThreadFacts DEF BootFree
  <2> QED
    BY <2>1, <2>2, <2>3 DEF Sorted
<1>10. Goal
  BY <1>3, <1>4, <1>5, <1>6, <1>7, <1>8, <1>9, BootSteps
<1> QED
  BY <1>2, <1>10 DEF BootInv
(***************************************************************************)
(* Answers.  A post that answered is past its queue step and its thread is *)
(* free; the posts that had answered when a post was recorded have lower   *)
(* numbers.  A lane's thread runs only jobs of its lane.                   *)
(***************************************************************************)
AnswerInv ==
    /\ \A j \in Jobs : after[j] \subseteq answered /\ \A k \in after[j] : k < j
    /\ \A j \in answered : posting[<<j, 0>>] = "no" /\ running[PostThread(<<j, 0>>)] = Idle

LaneOwn ==
    \A l \in Lanes : running[LaneThread(l)] # Idle => Lane(running[LaneThread(l)].item) = l

(* Who answered stays so; who answers now is over with the queue step.     *)
LEMMA AnsweredFrom ==
    ASSUME DelTypes, Origins, [Next]_vars
    PROVE  /\ answered \subseteq answered'
           /\ \A j \in answered' \ answered :
                 posting'[<<j, 0>>] = "no" /\ running'[PostThread(<<j, 0>>)] = Idle
<1> DEFINE Fine(j) == posting'[<<j, 0>>] = "no" /\ running'[PostThread(<<j, 0>>)] = Idle
<1>1. ASSUME NEW i \in Items, QueueJob(i)
      PROVE  answered \subseteq answered' /\ \A j \in answered' \ answered : Fine(j)
  <2>1. answered' = answered \/ (running' = running /\ ~Retry(i) /\ answered' = answered \cup {i[1]})
    BY <1>1 DEF QueueJob
  <2>2. posting'[i] = "no" /\ running[PostThread(i)] = Idle
    BY <1>1 DEF QueueJob, DelTypes, Waiting, Origins, PostFree
  <2>3. ~Retry(i) => i = <<i[1], 0>>
    BY ItemFacts
  <2> QED
    BY <2>1, <2>2, <2>3
<1>2. ASSUME NEW t \in Threads, Panics(t) \/ Finished(t)
      PROVE  answered \subseteq answered' /\ \A j \in answered' \ answered : Fine(j)
  <2> DEFINE i == running[t].item
  <2>1. answered' = AnsweredBy(t, i) /\ posting' = posting
    BY <1>2 DEF Panics, Finished
  <2>2. RunJob(t)
    BY <1>2 DEF RunJob
  <2>3. running[t] # Idle /\ i \in Items
    BY <2>2, RunJobEffect
  <2>4. running'[t] = Idle
    <3>1. running \in [Threads -> Busy \cup {Idle}]
      BY DEF DelTypes, Work
    <3> QED
      BY <1>2, <3>1 DEF Panics, Finished
  <2>5. ASSUME t[1] = "post", ~Retry(i) PROVE Fine(i[1])
    <3>1. PICK k \in Items : t = PostThread(k)
      BY <2>5 DEF Threads, PostThread
    <3>2. i = k /\ posting[k] = "no"
      BY <2>3, <3>1 DEF Origins, PostFree
    <3>3. i = <<i[1], 0>>
      BY <2>3, <2>5, ItemFacts
    <3> HIDE DEF i
    <3> QED
      BY <2>1, <2>4, <3>1, <3>2, <3>3
  <2> HIDE DEF i, Fine
  <2> QED
    BY <2>1, <2>5 DEF AnsweredBy
<1>3. ASSUME NEW t \in Threads, RunJob(t), ~Panics(t), ~Finished(t) PROVE answered' = answered
  BY <1>3 DEF RunJob, Started, Typed, NotDelivered, StartWatcher
<1>4. ASSUME NEW l \in Lanes, TakeNext(l) \/ LaneEnds(l) PROVE answered' = answered
  BY <1>4 DEF TakeNext, LaneEnds, history
<1>5. ASSUME NEW i \in Items, PostRetry(i) PROVE answered' = answered
  BY <1>5 DEF PostRetry
<1>6. ASSUME NEW r, Requeue(r) \/ Abandon(r) PROVE answered' = answered
  BY <1>6 DEF Requeue, Abandon
<1>7. ASSUME Post \/ Tick \/ Leave \/ ReplayRead \/ DropRow \/ ReplayDone \/ Crash \/ UNCHANGED vars
      PROVE  answered' = answered
  BY <1>7 DEF Post, Tick, Leave, ReplayRead, DropRow, ReplayDone, Crash, vars, history
<1> HIDE DEF Fine
<1>8. answered \subseteq answered' /\ \A j \in answered' \ answered : Fine(j)
  BY <1>1, <1>2, <1>3, <1>4, <1>5, <1>6, <1>7 DEF Next, Daemon, Replay
<1> QED
  BY <1>8 DEF Fine

(* Only a post writes down who had answered before it.                     *)
LEMMA AfterFrom ==
    ASSUME DelTypes, [Next]_vars, NEW j \in Jobs
    PROVE  \/ after'[j] = after[j]
           \/ Post /\ j = posted + 1 /\ after'[j] = answered
<1>1. ASSUME NEW t \in Threads, RunJob(t) PROVE after' = after
  BY <1>1 DEF RunJob, Started, Typed, NotDelivered, Panics, StartWatcher, Finished
<1>2. ASSUME NEW l \in Lanes, TakeNext(l) \/ LaneEnds(l) PROVE after' = after
  BY <1>2 DEF TakeNext, LaneEnds, history
<1>3. ASSUME NEW i \in Items, QueueJob(i) \/ PostRetry(i) PROVE after' = after
  BY <1>3 DEF QueueJob, PostRetry
<1>4. ASSUME NEW r, Requeue(r) \/ Abandon(r) PROVE after' = after
  BY <1>4 DEF Requeue, Abandon
<1>5. ASSUME Tick \/ Leave \/ ReplayRead \/ DropRow \/ ReplayDone \/ Crash \/ UNCHANGED vars
      PROVE  after' = after
  BY <1>5 DEF Tick, Leave, ReplayRead, DropRow, ReplayDone, Crash, vars, history
<1>6. CASE Post
  BY <1>6 DEF Post, DelTypes, Chronicle
<1> QED
  BY <1>1, <1>2, <1>3, <1>4, <1>5, <1>6 DEF Next, Daemon, Replay

(* A post is recorded once: not after it answered.                         *)
LEMMA AnsweredShut ==
    ASSUME DelTypes, Origins, NEW j \in answered
    PROVE  <<j, 0>> \in Items /\ ~Opens(<<j, 0>>)
<1>1. j \in 1..posted /\ posted \in 0..N
  BY DEF DelTypes, Chronicle
<1>2. j \in Jobs /\ j # posted + 1
  BY <1>1, DeliveryAssumption DEF Jobs
<1>3. <<j, 0>> \in Items /\ ~Retry(<<j, 0>>)
  BY <1>2, ItemFacts
<1>4. ~PostRetry(<<j, 0>>)
  BY <1>3 DEF PostRetry, Origins, FreshInv
<1>5. <<j, 0>> # <<posted + 1, 0>>
  BY <1>2
<1> QED
  BY <1>3, <1>4, <1>5 DEF Opens

(* Every step keeps what is known of the answers.                          *)
LEMMA AnswerStep ==
    ASSUME DelTypes, Origins, AnswerInv, [Next]_vars PROVE AnswerInv'
<1>1. answered \subseteq answered'
  BY AnsweredFrom
<1>2. ASSUME NEW j \in Jobs PROVE after'[j] \subseteq answered' /\ \A k \in after'[j] : k < j
  <2>1. CASE after'[j] = after[j]
    BY <1>1, <2>1 DEF AnswerInv
  <2>2. CASE j = posted + 1 /\ after'[j] = answered
    <3>1. \A k \in answered : k \in 1..posted /\ posted \in Nat
      BY DeliveryAssumption DEF DelTypes, Chronicle
    <3> QED
      BY <1>1, <2>2, <3>1
  <2> QED
    BY <2>1, <2>2, AfterFrom
<1>3. ASSUME NEW j \in answered
      PROVE  posting'[<<j, 0>>] = "no" /\ running'[PostThread(<<j, 0>>)] = Idle
  <2> DEFINE i == <<j, 0>>
  <2>1. i \in Items /\ ~Opens(i) /\ posting[i] = "no" /\ running[PostThread(i)] = Idle
    BY AnsweredShut DEF AnswerInv
  <2> HIDE DEF i
  <2>2. posting'[i] = "no"
    BY <2>1, PostingStems
  <2>3. ~QueueJob(i)
    BY <2>1 DEF QueueJob
  <2>4. running'[PostThread(i)] = Idle
    BY <2>1, <2>3, PostThreadFrom
  <2> QED
    BY <2>2, <2>4 DEF i
<1>4. ASSUME NEW j \in answered'
      PROVE  posting'[<<j, 0>>] = "no" /\ running'[PostThread(<<j, 0>>)] = Idle
  BY <1>3, AnsweredFrom
<1> QED
  BY <1>2, <1>4 DEF AnswerInv

(* A lane's thread takes its jobs from the lane's queue.                   *)
LEMMA LaneOwnStep ==
    ASSUME DelTypes, Origins, LaneOwn, [Next]_vars PROVE LaneOwn'
<1> SUFFICES ASSUME NEW l \in Lanes, running'[LaneThread(l)] # Idle
             PROVE  Lane(running'[LaneThread(l)].item) = l
  BY DEF LaneOwn
<1> DEFINE t == LaneThread(l)
<1>1. t \in Threads /\ running'[t] # Idle /\ (running[t] # Idle => Lane(running[t].item) = l)
  BY ThreadFacts DEF LaneOwn
<1>2. /\ \A k \in Lanes : t = LaneThread(k) => k = l
      /\ \A i \in Items : t # PostThread(i) /\ t # BootThread(i)
  BY ThreadFacts
<1>3. RunStems
  BY JobStems
<1> HIDE DEF t
<1>4. \/ running[t] # Idle /\ running'[t].item = running[t].item
      \/ \E k \in Lanes : /\ t = LaneThread(k) /\ 1 \in DOMAIN lanes[k].queue
                          /\ running'[t].item = lanes[k].queue[1].item
      \/ running'[t].item \in Items /\ t = PostThread(running'[t].item)
      \/ running'[t].item \in Items /\ t = BootThread(running'[t].item)
  BY <1>1, <1>3 DEF RunStems
<1>5. Lane(running'[t].item) = l
  BY <1>1, <1>2, <1>4 DEF Origins, OwnLanes
<1> QED
  BY <1>5 DEF t

(***************************************************************************)
(* Early posts.  What is under way while boot still replays, or before it  *)
(* read the journal, carries the mark early.                               *)
(***************************************************************************)
EarlyInv ==
    \A i \in Items :
        /\ boot # "done" /\ posting[i] # "no" => "early" \in marks[i]
        /\ boot = "ready" /\ (InQueue(i) \/ Runs(i)) => "early" \in marks[i]

(* Boot that is done stays done until a crash.                             *)
LEMMA BootDone ==
    ASSUME [Next]_vars, ~Crash, boot = "done" PROVE boot' = "done"
<1>1. ~ReplayRead /\ ~DropRow /\ ~ReplayDone /\ \A r : ~Requeue(r) /\ ~Abandon(r)
  BY DEF ReplayRead, DropRow, ReplayDone, Requeue, Abandon, ReplayNext
<1> QED
  BY <1>1, BootSteps

(* Every step keeps the early marks.                                       *)
LEMMA EarlyStep ==
    ASSUME DelTypes, Origins, EarlyInv, [Next]_vars PROVE EarlyInv'
<1> SUFFICES ASSUME NEW i \in Items
             PROVE  /\ boot' # "done" /\ posting'[i] # "no" => "early" \in marks'[i]
                    /\ boot' = "ready" /\ (InQueue(i) \/ Runs(i))' => "early" \in marks'[i]
  BY DEF EarlyInv
<1>1. marks[i] \subseteq marks'[i]
  BY MarksGrow
<1>2. CASE Crash
  <2>1. /\ posting'[i] = "no"
        /\ \A l \in Lanes : lanes'[l].queue = << >>
        /\ \A t \in Threads : running'[t].at = "idle"
    BY <1>2, CrashEffect
  <2>2. \A n \in DOMAIN << >> : FALSE
    OBVIOUS
  <2>3. ~InQueue(i)' /\ ~Runs(i)'
    BY <2>1, <2>2, ItemFacts DEF InQueue, Queue, Runs, ToRun
  <2> QED
    BY <2>1, <2>3
<1>3. CASE ~Crash
  <2>1. ASSUME boot' # "done", posting'[i] # "no" PROVE "early" \in marks'[i]
    <3>1. boot # "done"
      BY <1>3, <2>1, BootDone
    <3>2. CASE Opens(i)
      <4>1. record(i)
        BY <3>2, OpensFresh DEF Origins
      <4> QED
        BY <3>1, <4>1 DEF record, Marked, DelTypes, Chronicle
    <3>3. CASE ~Opens(i)
      BY <1>1, <2>1, <3>1, <3>3, PostingStems DEF EarlyInv
    <3> QED
      BY <3>2, <3>3
  <2>2. ASSUME boot' = "ready", InQueue(i)' \/ Runs(i)' PROVE "early" \in marks'[i]
    <3>1. boot = "ready" /\ ~Requeues(i)
      BY <1>3, <2>2, BootGoesOn DEF Requeues
    <3>2. InQueue(i)' => InQueue(i) \/ QueueJob(i)
      BY <3>1, InQueueStem
    <3>3. Runs(i)' => Runs(i) \/ InQueue(i) \/ QueueJob(i)
      <4> SUFFICES ASSUME NEW t \in Threads, ToRun(t, i)' PROVE Runs(i) \/ InQueue(i) \/ QueueJob(i)
        BY DEF Runs
      <4> QED
        BY <3>1, ToRunFrom, MovesFrom DEF Runs
    <3>4. QueueJob(i) => posting[i] # "no"
      BY DEF QueueJob
    <3> QED
      BY <1>1, <2>2, <3>1, <3>2, <3>3, <3>4 DEF EarlyInv
  <2> QED
    BY <2>1, <2>2
<1> QED
  BY <1>2, <1>3
(***************************************************************************)
(* Due rows are held.  A row boot would send again belongs to a post under *)
(* way, a job on a lane or about to start, or a row of the snapshot;       *)
(* before boot has read the journal, to nobody.  A row that was not read   *)
(* or whose mark was not written is lost to this.                          *)
(***************************************************************************)
Lost(i) == marks[i] \cap {"unread", "unmarked"} # {}

DueHeld ==
    \A i \in Items :
        Due(i) => \/ posting[i] # "no" \/ InQueue(i) \/ Replayable(i) \/ AtStart(i)
                  \/ boot = "ready" \/ Lost(i)

(* A job leaves its queue only when its lane takes it, or in a crash.      *)
LEMMA QueueKeeps ==
    ASSUME DelTypes, Origins, [Next]_vars, ~Crash, NEW i \in Items, InQueue(i), ~Takes(i)
    PROVE  InQueue(i)'
<1> DEFINE l == Lane(i)
           q == lanes[l].queue
           w == lanes'[l].queue
<1>1. l \in Lanes /\ q \in Seq(Job)
  BY ItemFacts, HeldFacts
<1>2. PICK n \in DOMAIN q : q[n].item = i
  BY DEF InQueue, Queue
<1> DEFINE There == \E m \in DOMAIN w : w[m].item = i
<1>3. ASSUME w = q PROVE There
  BY <1>2, <1>3
<1>4. ASSUME TakeNext(l) PROVE There
  <2>1. n # 1
    BY <1>1, <1>2, <1>4 DEF Takes
  <2>2. w = Tail(q) /\ q # << >>
    BY <1>1, <1>4 DEF TakeNext, DelTypes, Work
  <2>3. /\ Len(q) \in Nat /\ DOMAIN q = 1..Len(q)
        /\ Len(Tail(q)) = Len(q) - 1 /\ DOMAIN Tail(q) = 1..Len(Tail(q))
        /\ \A m \in 1..Len(Tail(q)) : Tail(q)[m] = q[m + 1]
    <3> HIDE DEF q
    <3> QED
      BY <1>1, <2>2, HeadTailProperties
  <2> HIDE DEF q, w
  <2>4. n - 1 \in 1..Len(Tail(q)) /\ (n - 1) + 1 = n
    BY <2>1, <2>3
  <2>5. n - 1 \in DOMAIN w /\ w[n - 1].item = i
    BY <1>2, <2>2, <2>3, <2>4
  <2> QED
    BY <2>5
<1>5. ASSUME NEW k \in Items, NEW t \in {PostThread(k), BootThread(k)}, NEW row \in BOOLEAN,
             run_later(t, k, row)
      PROVE  There
  <2>1. CASE l # Lane(k)
    BY <1>1, <1>3, <1>5, <2>1, RunLaterEffect
  <2>2. CASE l = Lane(k)
    <3>1. \/ /\ Len(q) \in Nat /\ DOMAIN q = 1..Len(q)
             /\ DOMAIN w = 1..(Len(q) + 1)
             /\ \A m \in DOMAIN q : w[m] = q[m]
          \/ w = q
      BY <1>5, <2>2, RunLaterEffect
    <3> HIDE DEF q, w
    <3>2. n \in DOMAIN w /\ w[n] = q[n]
      BY <1>2, <3>1
    <3> QED
      BY <1>2, <3>2
  <2> QED
    BY <2>1, <2>2
<1>6. ASSUME NEW k \in Items, QueueJob(k) PROVE There
  <2>1. run_later(PostThread(k), k, posting[k] = "row") /\ (posting[k] = "row") \in BOOLEAN
    BY <1>6 DEF QueueJob
  <2> QED
    BY <1>5, <2>1
<1>7. ASSUME NEW r, Requeue(r) PROVE There
  <2>1. r.item \in Items
    BY <1>7, HeadFacts DEF Requeue, ReplayNext
  <2>2. run_later(BootThread(r.item), r.item, TRUE) \/ lanes' = lanes
    BY <1>7 DEF Requeue
  <2> QED
    BY <1>3, <1>5, <2>1, <2>2
<1>8. ASSUME NEW k \in Lanes, TakeNext(k), k # l PROVE There
  BY <1>1, <1>3, <1>8, TakeNextEffect
<1>9. ASSUME NEW k \in Lanes, LaneEnds(k) PROVE There
  BY <1>1, <1>3, <1>9 DEF LaneEnds, DelTypes, Work
<1>10. ASSUME NEW t \in Threads, RunJob(t) PROVE lanes' = lanes
  BY <1>10 DEF RunJob, Started, Typed, NotDelivered, Panics, StartWatcher, Finished
<1>11. ASSUME Post \/ (\E k \in Items : PostRetry(k)) \/ Tick \/ Leave \/ UNCHANGED vars PROVE lanes' = lanes
  BY <1>11 DEF Post, PostRetry, Tick, Leave, vars, memory
<1>12. ASSUME ReplayRead \/ (\E r : Abandon(r)) \/ DropRow \/ ReplayDone PROVE lanes' = lanes
  BY <1>12 DEF ReplayRead, Abandon, DropRow, ReplayDone
<1>13. There
  BY <1>3, <1>4, <1>6, <1>7, <1>8, <1>9, <1>10, <1>11, <1>12 DEF Next, Daemon, Replay
<1> QED
  BY <1>13 DEF InQueue, Queue

(* A post is under way until its queue step, or a crash.                   *)
LEMMA PostingKeeps ==
    ASSUME DelTypes, Origins, [Next]_vars, ~Crash, NEW i \in Items, posting[i] # "no", ~QueueJob(i)
    PROVE  posting'[i] # "no"
<1>1. ASSUME NEW k \in Items, Opens(k) PROVE posting'[i] = posting[i]
  <2>1. record(k) /\ posting[k] = "no"
    BY <1>1, OpensFresh DEF Origins, Untouched
  <2> QED
    BY <2>1, RecordEffect
<1>2. CASE Post
  BY <1>1, <1>2, PostOpens
<1>3. ASSUME NEW k \in Items, PostRetry(k) PROVE posting'[i] = posting[i]
  BY <1>1, <1>3 DEF Opens
<1>4. ASSUME NEW k \in Items, QueueJob(k) PROVE posting'[i] = posting[i]
  BY <1>4 DEF QueueJob, DelTypes, Waiting
<1>5. ASSUME NEW u \in Threads, RunJob(u) PROVE posting' = posting
  BY <1>5 DEF RunJob, Started, Typed, NotDelivered, Panics, StartWatcher, Finished
<1>6. ASSUME NEW r, Requeue(r) \/ Abandon(r) PROVE posting' = posting
  BY <1>6 DEF Requeue, Abandon
<1>7. ASSUME ReplayRead \/ DropRow \/ ReplayDone \/ Tick \/ Leave \/ UNCHANGED vars PROVE posting' = posting
  BY <1>7 DEF ReplayRead, DropRow, ReplayDone, Tick, Leave, vars, memory
<1>8. ASSUME NEW l \in Lanes, TakeNext(l) \/ LaneEnds(l) PROVE posting' = posting
  BY <1>8 DEF TakeNext, LaneEnds
<1> QED
  BY <1>2, <1>3, <1>4, <1>5, <1>6, <1>7, <1>8 DEF Next, Daemon, Replay

(* A row boot would send leaves the snapshot only by its queue step.       *)
LEMMA ReplayableKeeps ==
    ASSUME DelTypes, Origins, BootInv, [Next]_vars, ~Crash, NEW i \in Items,
           Replayable(i), ~Requeues(i)
    PROVE  Replayable(i)'
<1>1. PICK n \in DOMAIN rows : rows[n].item = i /\ plan(rows[n])
  BY DEF Replayable
<1>2. ASSUME rows' = rows PROVE Replayable(i)'
  BY <1>1, <1>2 DEF Replayable, plan
<1>3. rows # << >>
  BY <1>1
<1>4. ASSUME rows' = Tail(rows), n # 1 PROVE Replayable(i)'
  <2>1. rows \in Seq(Row)
    BY DEF DelTypes, Disk
  <2>2. /\ Len(rows) \in Nat /\ DOMAIN rows = 1..Len(rows)
        /\ Len(Tail(rows)) = Len(rows) - 1 /\ DOMAIN Tail(rows) = 1..Len(Tail(rows))
        /\ \A m \in 1..Len(Tail(rows)) : Tail(rows)[m] = rows[m + 1]
    BY <1>3, <2>1, HeadTailProperties
  <2>3. n - 1 \in 1..Len(Tail(rows)) /\ (n - 1) + 1 = n
    BY <1>4, <2>2
  <2>4. n - 1 \in DOMAIN rows' /\ rows'[n - 1] = rows[n]
    BY <1>4, <2>2, <2>3
  <2> QED
    BY <1>1, <2>4 DEF Replayable, plan
<1>5. ASSUME NEW r, Requeue(r) PROVE Replayable(i)'
  <2>1. rows' = Tail(rows) /\ r = rows[1]
    BY <1>3, <1>5, HeadFacts DEF Requeue, ReplayNext
  <2>2. n # 1
    BY <1>1, <1>5, <2>1 DEF Requeues
  <2> QED
    BY <1>4, <2>1, <2>2
<1>6. ASSUME DropRow PROVE Replayable(i)'
  <2>1. rows' = Tail(rows) /\ ~plan(rows[1])
    BY <1>6 DEF DropRow, BootInv
  <2> QED
    BY <1>1, <1>4, <2>1
<1>7. ASSUME NEW r, Abandon(r) PROVE rows' = rows
  BY <1>7 DEF Abandon
<1>8. ~ReplayRead /\ (ReplayDone => rows' = rows)
  BY <1>3 DEF ReplayRead, ReplayDone, BootInv
<1> QED
  BY <1>2, <1>5, <1>6, <1>7, <1>8, BootSteps

(* run_later: the job is queued, or about to start.                        *)
LEMMA LaterHeld ==
    ASSUME DelTypes, NEW i \in Items, NEW t \in {PostThread(i), BootThread(i)},
           NEW row \in BOOLEAN, run_later(t, i, row)
    PROVE  InQueue(i)' \/ AtStart(i)'
<1> DEFINE q == lanes[Lane(i)].queue
           w == lanes'[Lane(i)].queue
<1>1. \/ /\ Len(q) \in Nat /\ DOMAIN w = 1..(Len(q) + 1) /\ w[Len(q) + 1].item = i
      \/ running'[t].at = "start" /\ running'[t].item = i
  BY RunLaterEffect
<1>2. t \in Threads
  BY ThreadFacts
<1>3. ASSUME Len(q) \in Nat, DOMAIN w = 1..(Len(q) + 1), w[Len(q) + 1].item = i PROVE InQueue(i)'
  <2> HIDE DEF q, w
  <2>1. Len(q) + 1 \in DOMAIN w
    BY <1>3
  <2>2. \E m \in DOMAIN w : w[m].item = i
    BY <1>3, <2>1
  <2> QED
    BY <2>2 DEF InQueue, Queue, w
<1>4. ASSUME running'[t].at = "start", running'[t].item = i PROVE AtStart(i)'
  BY <1>2, <1>4 DEF AtStart
<1> QED
  BY <1>1, <1>3, <1>4

(* A job that starts has its row marked, or the row is lost.               *)
LEMMA StartEnds ==
    ASSUME DelTypes, Origins, NEW t \in Threads, NEW i \in Items,
           running[t].item = i, Started(t), InJournal(i)
    PROVE  ~Due(i)' \/ Lost(i)'
<1>1. running[t] # Idle
  BY BusyFacts DEF Started
<1>2. running[t].row
  BY <1>1 DEF Origins, Unjournaled
<1>3. journal' = mark_started(i) \/ marks' = Marked(i, "unmarked")
  BY <1>2 DEF Started
<1>4. ASSUME journal' = mark_started(i) PROVE ~Due(i)'
  <2>1. /\ DOMAIN journal' = DOMAIN journal
        /\ \A n \in DOMAIN journal :
              /\ journal'[n].item = journal[n].item
              /\ journal[n].item = i => journal'[n].started
    BY <1>4, MarkStartedFacts DEF DelTypes, Disk
  <2> QED
    BY <2>1 DEF Due, plan
<1>5. ASSUME marks' = Marked(i, "unmarked") PROVE Lost(i)'
  BY <1>1, <1>5 DEF Marked, Lost, DelTypes, Chronicle
<1> QED
  BY <1>3, <1>4, <1>5

(* Boot reads every due row into its snapshot, or all of them are lost.    *)
LEMMA ReadHolds ==
    ASSUME DelTypes, NEW i \in Items, InJournal(i), Due(i)', ReplayRead
    PROVE  Replayable(i)' \/ Lost(i)'
<1>1. \/ rows' = journal'
      \/ marks' = [k \in Items |-> IF InJournal(k) THEN marks[k] \cup {"unread"} ELSE marks[k]]
  BY DEF ReplayRead
<1>2. rows' = journal' => Replayable(i)'
  BY DEF Due, Replayable, plan
<1>3. ASSUME marks' = [k \in Items |-> IF InJournal(k) THEN marks[k] \cup {"unread"} ELSE marks[k]]
      PROVE  Lost(i)'
  <2>1. "unread" \in marks'[i]
    BY <1>3
  <2> QED
    BY <2>1 DEF Lost
<1> QED
  BY <1>1, <1>2, <1>3

(* Every step hands a due row on, removes it, or loses it.                 *)
LEMMA DueHeldStep ==
    ASSUME DelTypes, Origins, BootInv, DueHeld, [Next]_vars PROVE DueHeld'
<1> SUFFICES ASSUME NEW i \in Items, Due(i)', posting'[i] = "no", boot' # "ready", ~Lost(i)'
             PROVE  InQueue(i)' \/ Replayable(i)' \/ AtStart(i)'
  BY DEF DueHeld
<1>1. ~Crash /\ ~Opens(i)
  <2>1. ~Crash
    BY CrashEffect
  <2>2. Opens(i) => posting'[i] # "no"
    BY OpensFresh, RecordEffect DEF Origins
  <2> QED
    BY <2>1, <2>2
<1>2. Due(i)
  BY <1>1, DueFrom DEF Origins, RowsInv
<1>3. InJournal(i)
  BY <1>2 DEF Due, InJournal, RowsOf
<1>4. ~Lost(i)
  BY MarksGrow DEF Lost
<1>5. CASE posting[i] # "no"
  <2>1. QueueJob(i)
    BY <1>1, <1>5, PostingKeeps
  <2>2. run_later(PostThread(i), i, posting[i] = "row") /\ (posting[i] = "row") \in BOOLEAN
    BY <2>1 DEF QueueJob
  <2> QED
    BY <2>2, LaterHeld
<1>6. CASE InQueue(i)
  <2>1. CASE Takes(i)
    <3>1. PICK l \in Lanes : TakeNext(l) /\ lanes[l].queue[1].item = i
      BY <2>1 DEF Takes
    <3>2. /\ LaneThread(l) \in Threads
          /\ running'[LaneThread(l)].at = "start" /\ running'[LaneThread(l)].item = i
      BY <3>1, TakeNextEffect
    <3> QED
      BY <3>2 DEF AtStart
  <2> QED
    BY <1>1, <1>6, <2>1, QueueKeeps
<1>7. CASE Replayable(i)
  <2>1. CASE Requeues(i)
    <3>1. run_later(BootThread(i), i, TRUE) \/ journal' = finish(i)
      BY <2>1, RequeuesFacts
    <3>2. ASSUME journal' = finish(i) PROVE FALSE
      <4>1. \A n \in DOMAIN finish(i) : finish(i)[n].item # i
        BY FinishFacts DEF DelTypes, Disk, Origins, RowsInv
      <4> QED
        BY <3>2, <4>1 DEF Due
    <3> QED
      BY <3>1, <3>2, LaterHeld
  <2> QED
    BY <1>1, <1>7, <2>1, ReplayableKeeps
<1>8. CASE boot = "ready"
  <2>1. ReplayRead
    <3>1. ~DropRow /\ ~ReplayDone /\ \A r : ~Requeue(r) /\ ~Abandon(r)
      BY <1>8 DEF DropRow, ReplayDone, Requeue, Abandon, ReplayNext
    <3> QED
      BY <1>1, <1>8, <3>1, BootSteps
  <2> QED
    BY <1>3, <2>1, ReadHolds
<1>9. CASE AtStart(i)
  <2>1. PICK t \in Threads : running[t].item = i /\ running[t].at = "start"
    BY <1>9 DEF AtStart
  <2>2. running[t] # Idle
    BY <2>1, ThreadFacts
  <2>3. CASE RunJob(t)
    <3>1. Started(t)
      BY <2>1, <2>3 DEF RunJob, Typed, NotDelivered, Panics, StartWatcher, Finished
    <3> QED
      BY <1>3, <2>1, <3>1, StartEnds
  <2>4. CASE ~RunJob(t)
    <3>1. running'[t] = running[t]
      BY <1>1, <2>2, <2>4, WorkKept
    <3> QED
      BY <2>1, <3>1 DEF AtStart
  <2> QED
    BY <2>3, <2>4
<1> QED
  BY <1>2, <1>4, <1>5, <1>6, <1>7, <1>8, <1>9 DEF DueHeld
(***************************************************************************)
(* A pair: a post p that had answered when the post q to the same agent    *)
(* was recorded.  While q is under way boot has nothing of p; on the       *)
(* lane's queue p is before q; and once q is on a thread or typed, p is    *)
(* dead.                                                                   *)
(***************************************************************************)
Pair(p, q) ==
    /\ ~Retry(p) /\ ~Retry(q) /\ Lane(p) = Lane(q) /\ p[1] \in after[q[1]]
    /\ "early" \notin marks[q] /\ ~Lost(p)

Active(i) == posting[i] # "no" \/ InQueue(i) \/ Runs(i)

BootPast(p) == ~Replayable(p) /\ \A i \in Items : ~ToRun(BootThread(i), p)

Before(p, q) == \A n, k \in DOMAIN Queue(p) : Queue(p)[n].item = p /\ Queue(p)[k].item = q => n < k

PairInv ==
    \A p, q \in Items :
        Pair(p, q) => /\ Active(q) => BootPast(p)
                      /\ Before(p, q)
                      /\ Runs(q) \/ Said(q) => Dead(p)

OrderInv == BootInv /\ AnswerInv /\ LaneOwn /\ EarlyInv /\ DueHeld

(* The first of a pair is over with its post.                              *)
LEMMA PairFacts ==
    ASSUME DelTypes, Origins, AnswerInv, NEW p \in Items, NEW q \in Items, Pair(p, q)
    PROVE  /\ p[1] < q[1] /\ p # q /\ posting[p] = "no" /\ running[PostThread(p)] = Idle
           /\ ~Opens(p) /\ ~QueueJob(p)
<1>1. p = <<p[1], 0>> /\ q[1] \in Jobs /\ p[1] \in Nat /\ q[1] \in Nat
  BY ItemFacts DEF Pair
<1>2. p[1] \in answered /\ p[1] < q[1]
  BY <1>1 DEF Pair, AnswerInv
<1>3. posting[<<p[1], 0>>] = "no" /\ running[PostThread(<<p[1], 0>>)] = Idle /\ ~Opens(<<p[1], 0>>)
  BY <1>2, AnsweredShut DEF AnswerInv
<1>4. posting[p] = "no" /\ running[PostThread(p)] = Idle /\ ~Opens(p)
  BY <1>1, <1>3
<1> QED
  BY <1>1, <1>2, <1>4 DEF QueueJob

(* A pair was one before, unless its second is recorded now.               *)
LEMMA PairBefore ==
    ASSUME DelTypes, [Next]_vars, NEW p \in Items, NEW q \in Items, Pair(p, q)', ~Opens(q)
    PROVE  Pair(p, q)
<1>1. marks[p] \subseteq marks'[p] /\ marks[q] \subseteq marks'[q]
  BY MarksGrow
<1>2. q = <<q[1], 0>> /\ q[1] \in Jobs
  BY ItemFacts DEF Pair
<1>3. after'[q[1]] = after[q[1]]
  BY <1>2, AfterFrom DEF Opens
<1> QED
  BY <1>1, <1>3 DEF Pair, Lost

(* The second of a pair is new: boot is over, and only its post is there.  *)
LEMMA PairNew ==
    ASSUME DelTypes, Origins, BootInv, [Next]_vars, NEW p \in Items, NEW q \in Items,
           Pair(p, q)', Opens(q)
    PROVE  BootPast(p)' /\ Before(p, q)' /\ ~Runs(q)' /\ ~Said(q)'
<1>1. Untouched(q) /\ record(q)
  BY OpensFresh DEF Origins
<1>2. Post
  BY DEF Opens, PostRetry, Pair, Origins, FreshInv
<1>3. boot = "done"
  <2>1. "early" \notin marks'[q]
    BY DEF Pair
  <2> QED
    BY <1>1, <2>1 DEF record, Marked, DelTypes, Chronicle
<1>4. rows = << >> /\ BootFree
  BY <1>3 DEF BootInv
<1>5. rows' = rows /\ lanes' = lanes /\ running' = running /\ typed' = typed
  BY <1>2 DEF Post
<1>6. ~Replayable(p)'
  BY <1>4, <1>5 DEF Replayable
<1>7. \A i \in Items : ~ToRun(BootThread(i), p)'
  BY <1>4, <1>5, ThreadFacts DEF ToRun, BootFree
<1>8. \A n \in DOMAIN lanes'[Lane(p)].queue : lanes'[Lane(p)].queue[n].item # q
  BY <1>1, <1>5, ItemFacts DEF Untouched, NotQueued
<1>9. Before(p, q)'
  BY <1>8 DEF Before, Queue
<1>10. ~Runs(q)' /\ ~Said(q)'
  BY <1>1, <1>5 DEF Untouched, NotRun, Runs, ToRun, Said
<1> QED
  BY <1>6, <1>7, <1>9, <1>10 DEF BootPast

(* An item comes under way by its record or by the replay.                 *)
LEMMA ActiveFrom ==
    ASSUME DelTypes, Origins, [Next]_vars, NEW i \in Items, Active(i)', ~Opens(i)
    PROVE  Active(i) \/ Requeues(i)
<1>1. posting'[i] # "no" => posting[i] # "no"
  BY PostingStems
<1>2. InQueue(i)' => Active(i) \/ Requeues(i)
  BY InQueueStem, MovesFrom DEF Active
<1>3. ASSUME NEW t \in Threads, ToRun(t, i)' PROVE Active(i) \/ Requeues(i)
  BY <1>3, ToRunFrom, MovesFrom DEF Active, Runs
<1>4. Runs(i)' => Active(i) \/ Requeues(i)
  BY <1>3 DEF Runs
<1> QED
  BY <1>1, <1>2, <1>4 DEF Active

(* What is under way before boot reads the journal is early.               *)
LEMMA NotReady ==
    ASSUME EarlyInv, NEW i \in Items, Active(i), "early" \notin marks[i]
    PROVE  boot # "ready"
BY DEF EarlyInv, Active

(* Boot takes the rows in the order of the posts.                          *)
LEMMA HeadFirst ==
    ASSUME DelTypes, Origins, BootInv, AnswerInv, NEW p \in Items, NEW q \in Items,
           Pair(p, q), Requeues(q)
    PROVE  ~Replayable(p)
<1> SUFFICES ASSUME Replayable(p) PROVE FALSE
  OBVIOUS
<1>1. PICK n \in DOMAIN rows : rows[n].item = p
  BY DEF Replayable
<1>2. 1 \in DOMAIN rows /\ rows[1].item = q
  BY RequeuesFacts
<1>3. p[1] < q[1] /\ p # q /\ p[1] \in Nat /\ q[1] \in Nat
  BY PairFacts, ItemFacts
<1>4. n # 1
  BY <1>1, <1>2, <1>3
<1>5. n \in Nat /\ n >= 1
  BY <1>1 DEF DelTypes, Disk
<1>6. 1 < n
  BY <1>4, <1>5
<1>7. q[1] < p[1]
  BY <1>1, <1>2, <1>6 DEF BootInv, Sorted, Pair
<1> QED
  BY <1>3, <1>7
(* While the second of a pair is under way boot gets nothing of the first. *)
LEMMA BootPastStep ==
    ASSUME DelTypes, Origins, OrderInv, PairInv, [Next]_vars, NEW p \in Items, NEW q \in Items,
           Pair(p, q), ~Opens(q), Active(q)'
    PROVE  BootPast(p)'
<1>1. Active(q) \/ Requeues(q)
  BY ActiveFrom
<1>2. ~Replayable(p) /\ \A i \in Items : ~ToRun(BootThread(i), p)
  <2>1. CASE Active(q)
    BY <2>1 DEF PairInv, BootPast
  <2>2. CASE Requeues(q)
    <3>1. ~Replayable(p) /\ BootFree
      BY <2>2, HeadFirst, RequeuesFacts DEF OrderInv
    <3> QED
      BY <3>1, ThreadFacts DEF BootFree, ToRun
  <2> QED
    BY <1>1, <2>1, <2>2
<1>3. boot # "ready"
  BY <1>1, NotReady, RequeuesFacts DEF OrderInv, Pair
<1>4. ~Replayable(p)'
  BY <1>2, <1>3, ReplayableFrom
<1>5. ~Requeues(p)
  BY <1>2, RequeuesFacts
<1>6. ASSUME NEW i \in Items, ToRun(BootThread(i), p)' PROVE FALSE
  <2> DEFINE t == BootThread(i)
  <2>1. t \in Threads /\ t # LaneThread(Lane(p)) /\ t # PostThread(p) /\ ~ToRun(t, p)
    BY <1>2, ThreadFacts, ItemFacts
  <2> QED
    BY <1>5, <1>6, <2>1, ToRunFrom
<1> QED
  BY <1>4, <1>6 DEF BootPast

(* On the queue the first of a pair stays before the second.               *)
LEMMA BeforeStep ==
    ASSUME DelTypes, Origins, OrderInv, PairInv, [Next]_vars, NEW p \in Items, NEW q \in Items,
           Pair(p, q), ~Opens(q)
    PROVE  Before(p, q)'
<1> DEFINE l == Lane(p)
           v == lanes[l].queue
           w == lanes'[l].queue
<1> SUFFICES ASSUME NEW n \in DOMAIN w, NEW k \in DOMAIN w, w[n].item = p, w[k].item = q
             PROVE  n < k
  BY DEF Before, Queue
<1>1. l \in Lanes /\ l = Lane(q) /\ v \in Seq(Job)
  BY ItemFacts, HeldFacts DEF Pair
<1>2. PICK d \in {0, 1} : \A m \in DOMAIN w :
         /\ m \in Nat /\ m >= 1
         /\ \/ m + d \in DOMAIN v /\ w[m] = v[m + d]
            \/ m = Len(v) + 1 /\ (QueueJob(w[m].item) \/ Requeues(w[m].item))
  BY <1>1, QueueMoves
<1>3. Before(p, q) /\ p # q /\ ~QueueJob(p)
  BY PairFacts DEF OrderInv, PairInv
<1>4. \A a, b \in DOMAIN v : v[a].item = p /\ v[b].item = q => a < b
  BY <1>3 DEF Before, Queue
<1>5. ASSUME k + d \in DOMAIN v, w[k] = v[k + d] PROVE ~Requeues(p)
  <2>1. InQueue(q)
    BY <1>1, <1>5 DEF InQueue, Queue
  <2>2. ~Replayable(p)
    BY <2>1 DEF PairInv, Active, BootPast
  <2> QED
    BY <2>2, RequeuesFacts
<1>6. Len(v) \in Nat /\ DOMAIN v = 1..Len(v) /\ n \in Nat /\ k \in Nat /\ n # k
  BY <1>1, <1>2, <1>3
<1>7. \/ n + d \in DOMAIN v /\ w[n] = v[n + d]
      \/ n = Len(v) + 1 /\ Requeues(p)
  BY <1>2, <1>3
<1>8. \/ k + d \in DOMAIN v /\ w[k] = v[k + d]
      \/ k = Len(v) + 1
  BY <1>2
<1> HIDE DEF v, w
<1>9. CASE n + d \in DOMAIN v /\ w[n] = v[n + d]
  <2>1. CASE k + d \in DOMAIN v /\ w[k] = v[k + d]
    <3>1. n + d < k + d
      BY <1>4, <1>9, <2>1
    <3> QED
      BY <1>6, <3>1
  <2>2. CASE k = Len(v) + 1
    BY <1>6, <1>9, <2>2
  <2> QED
    BY <1>8, <2>1, <2>2
<1>10. CASE n = Len(v) + 1 /\ Requeues(p)
  BY <1>5, <1>6, <1>8, <1>10
<1> QED
  BY <1>7, <1>9, <1>10

(* An item gets a thread from its lane's queue, or when the lane is not    *)
(* alive: the lane's thread is idle and nothing is queued before it.       *)
LEMMA RunsNew ==
    ASSUME DelTypes, Origins, [Next]_vars, NEW i \in Items, Runs(i)', ~Runs(i)
    PROVE  /\ Takes(i) \/ QueueJob(i) \/ Requeues(i)
           /\ running[LaneThread(Lane(i))] = Idle
           /\ Takes(i) \/ Queue(i) = << >>
<1>1. PICK t \in Threads : ToRun(t, i)'
  BY DEF Runs
<1>2. Lane(i) \in Lanes
  BY ItemFacts
<1>3. ASSUME NEW u \in {PostThread(i), BootThread(i)}, NEW row \in BOOLEAN, run_later(u, i, row),
             t = u, running[u] = Idle
      PROVE  running[LaneThread(Lane(i))] = Idle /\ Queue(i) = << >>
  <2>1. running'[t] # running[t]
    BY <1>1, <1>3, ThreadFacts DEF ToRun
  <2>2. ~lanes[Lane(i)].live
    BY <1>3, <2>1, RunLaterEffect
  <2> QED
    BY <1>2, <2>2 DEF DelTypes, Work, Queue
<1>4. CASE Takes(i) /\ t = LaneThread(Lane(i)) /\ running[t] = Idle
  BY <1>4
<1>5. CASE QueueJob(i) /\ t = PostThread(i) /\ running[t] = Idle
  <2>1. run_later(PostThread(i), i, posting[i] = "row") /\ (posting[i] = "row") \in BOOLEAN
    BY <1>5 DEF QueueJob
  <2> QED
    BY <1>3, <1>5, <2>1
<1>6. CASE Requeues(i) /\ t = BootThread(i) /\ running[t] = Idle
  <2>1. run_later(BootThread(i), i, TRUE) \/ running' = running
    BY <1>6, RequeuesFacts
  <2>2. running' # running
    BY <1>1, <1>6, ThreadFacts DEF ToRun
  <2> QED
    BY <1>3, <1>6, <2>1, <2>2
<1> QED
  BY <1>1, <1>4, <1>5, <1>6, ToRunFrom DEF Runs

(* Every thread is a lane's, a post's or boot's.                           *)
LEMMA ThreadOwners ==
    ASSUME NEW t \in Threads
    PROVE  \/ \E l \in Lanes : t = LaneThread(l)
           \/ \E i \in Items : t = PostThread(i)
           \/ \E i \in Items : t = BootThread(i)
BY DEF Threads, LaneThread, PostThread, BootThread

(* When the second of a pair gets its thread, nothing is left of the first. *)
LEMMA DeadWhenTaken ==
    ASSUME DelTypes, Origins, OrderInv, PairInv, [Next]_vars, NEW p \in Items, NEW q \in Items,
           Pair(p, q), Runs(q)', ~Runs(q)
    PROVE  Dead(p)
<1>1. /\ Takes(q) \/ QueueJob(q) \/ Requeues(q)
      /\ running[LaneThread(Lane(q))] = Idle
      /\ Takes(q) \/ Queue(q) = << >>
  BY RunsNew
<1>2. Active(q) \/ Requeues(q)
  BY <1>1, MovesFrom DEF Active
<1>3. ~Replayable(p) /\ \A i \in Items : ~ToRun(BootThread(i), p)
  <2>1. CASE Active(q)
    BY <2>1 DEF PairInv, BootPast
  <2>2. CASE Requeues(q)
    <3>1. ~Replayable(p) /\ BootFree
      BY <2>2, HeadFirst, RequeuesFacts DEF OrderInv
    <3> QED
      BY <3>1, ThreadFacts DEF BootFree, ToRun
  <2> QED
    BY <1>2, <2>1, <2>2
<1>4. boot # "ready"
  BY <1>2, NotReady, RequeuesFacts DEF OrderInv, Pair
<1>5. Lane(p) = Lane(q) /\ Lane(p) \in Lanes
  BY ItemFacts DEF Pair
<1>6. ~InQueue(p)
  <2>1. CASE Takes(q)
    <3>1. PICK l \in Lanes : 1 \in DOMAIN lanes[l].queue /\ lanes[l].queue[1].item = q
      BY <2>1 DEF Takes
    <3>2. l = Lane(p)
      BY <1>5, <3>1 DEF Origins, OwnLanes
    <3>3. ASSUME NEW n \in DOMAIN lanes[l].queue, lanes[l].queue[n].item = p PROVE FALSE
      <4>1. n < 1
        BY <3>1, <3>2, <3>3 DEF PairInv, Before, Queue
      <4>2. n \in Nat /\ n >= 1
        BY <3>3, HeldFacts
      <4> QED
        BY <4>1, <4>2
    <3> QED
      BY <3>2, <3>3 DEF InQueue, Queue
  <2>2. CASE Queue(q) = << >>
    BY <1>5, <2>2 DEF InQueue, Queue
  <2> QED
    BY <1>1, <2>1, <2>2
<1>7. ASSUME NEW t \in Threads, ToRun(t, p) PROVE FALSE
  <2>1. running[t] # Idle /\ running[t].item = p
    BY <1>7, ThreadFacts DEF ToRun
  <2>2. ASSUME NEW l \in Lanes, t = LaneThread(l) PROVE FALSE
    BY <1>1, <1>5, <2>1, <2>2 DEF OrderInv, LaneOwn
  <2>3. ASSUME NEW i \in Items, t = PostThread(i) PROVE FALSE
    <3>1. i = p
      BY <2>1, <2>3 DEF Origins, PostFree
    <3> QED
      BY <2>1, <2>3, <3>1, PairFacts DEF OrderInv
  <2> QED
    BY <1>3, <1>7, <2>2, <2>3, ThreadOwners
<1>8. ~Runs(p) /\ ~AtStart(p)
  BY <1>7 DEF Runs, AtStart, ToRun
<1>9. ~Due(p)
  <2>1. posting[p] = "no" /\ ~Lost(p)
    BY PairFacts DEF OrderInv, Pair
  <2> QED
    BY <1>3, <1>4, <1>6, <1>8, <2>1 DEF OrderInv, DueHeld
<1> QED
  BY <1>3, <1>6, <1>8, <1>9 DEF Dead

(* A line that is typed was on a thread.                                   *)
LEMMA SaidStem ==
    ASSUME DelTypes, [Next]_vars, NEW i \in Items, Said(i)' PROVE Said(i) \/ Runs(i)
<1>1. CASE typed' = typed
  BY <1>1 DEF Said
<1>2. ASSUME NEW t \in Threads, Says(t), typed' = Append(typed, running[t].item)
      PROVE  Said(i) \/ Runs(i)
  <2>1. typed \in Seq(Items) /\ running[t].item \in Items
    BY <1>2, BusyFacts DEF Says, Typed, Panics, DelTypes, Chronicle
  <2>2. \A n \in DOMAIN typed' : typed'[n] = running[t].item \/ (n \in DOMAIN typed /\ typed'[n] = typed[n])
    BY <1>2, <2>1, AppendProperties
  <2>3. running[t].at = "run"
    BY <1>2 DEF Says, Typed, Panics
  <2> QED
    BY <2>2, <2>3 DEF Said, Runs, ToRun
<1> QED
  BY <1>1, <1>2, TypedFrom

(* Every step keeps the pairs in order.                                    *)
LEMMA PairStep ==
    ASSUME DelTypes, Origins, OrderInv, PairInv, [Next]_vars PROVE PairInv'
<1> SUFFICES ASSUME NEW p \in Items, NEW q \in Items, Pair(p, q)'
             PROVE  /\ Active(q)' => BootPast(p)'
                    /\ Before(p, q)'
                    /\ Runs(q)' \/ Said(q)' => Dead(p)'
  BY DEF PairInv
<1>1. CASE Opens(q)
  BY <1>1, PairNew DEF OrderInv
<1>2. CASE ~Opens(q)
  <2>1. Pair(p, q)
    BY <1>2, PairBefore
  <2>2. Active(q)' => BootPast(p)'
    BY <1>2, <2>1, BootPastStep
  <2>3. Before(p, q)'
    BY <1>2, <2>1, BeforeStep
  <2>4. ASSUME Runs(q)' \/ Said(q)' PROVE Dead(p)'
    <3>1. Dead(p)
      <4>1. CASE Runs(q) \/ Said(q)
        BY <2>1, <4>1 DEF PairInv
      <4>2. CASE ~Runs(q) /\ ~Said(q)
        BY <2>1, <2>4, <4>2, SaidStem, DeadWhenTaken
      <4> QED
        BY <4>1, <4>2
    <3>2. posting[p] = "no" /\ ~Opens(p)
      BY <2>1, PairFacts DEF OrderInv
    <3> QED
      BY <3>1, <3>2, DeadKept
  <2> QED
    BY <2>2, <2>3, <2>4
<1> QED
  BY <1>1, <1>2

(* Before the first post there is nothing to keep in order.                *)
LEMMA OrderInit == Init => OrderInv /\ PairInv /\ InSentOrder
<1> SUFFICES ASSUME Init PROVE OrderInv /\ PairInv /\ InSentOrder
  OBVIOUS
<1>1. /\ \A n \in DOMAIN journal : FALSE
      /\ \A n \in DOMAIN rows : FALSE
      /\ \A n \in DOMAIN typed : FALSE
      /\ boot = "ready" /\ rows = << >> /\ answered = {}
      /\ \A j \in Jobs : after[j] = {}
      /\ \A i \in Items : posting[i] = "no"
      /\ \A l \in Lanes : \A n \in DOMAIN lanes[l].queue : FALSE
      /\ \A t \in Threads : running[t] = Idle
  <2>1. \A l \in Lanes : lanes[l].queue = << >>
    BY NoMemoryFacts DEF Init
  <2> QED
    BY <2>1, NoMemoryFacts DEF Init
<1>2. BootInv
  BY <1>1, ThreadFacts DEF BootInv, Sorted, BootFree
<1>3. AnswerInv
  BY <1>1 DEF AnswerInv
<1>4. LaneOwn
  BY <1>1, ThreadFacts DEF LaneOwn
<1>5. \A i \in Items : ~InQueue(i) /\ ~Runs(i) /\ ~Due(i)
  BY <1>1, ThreadFacts, ItemFacts DEF InQueue, Queue, Runs, ToRun, Due
<1>6. EarlyInv /\ DueHeld
  BY <1>1, <1>5 DEF EarlyInv, DueHeld
<1>7. \A p, q \in Items : ~Pair(p, q)
  BY <1>1, ItemFacts DEF Pair
<1> QED
  BY <1>1, <1>2, <1>3, <1>4, <1>6, <1>7 DEF OrderInv, PairInv, InSentOrder

(* A step types nothing after a line it should have come before.           *)
LEMMA InSentStep ==
    ASSUME DelTypes, Origins, PairInv, InSentOrder, [Next]_vars PROVE InSentOrder'
<1>1. typed \in Seq(Items) /\ typed' \in Seq(Items)
  BY TypesStep DEF DelTypes, Chronicle
<1>2. ASSUME NEW b \in DOMAIN typed', NEW a \in 1 .. (b - 1)
      PROVE  b \in Nat /\ a \in Nat /\ a < b /\ a \in DOMAIN typed' /\ typed'[a] \in Items /\ typed'[b] \in Items
  <2>1. b \in Nat /\ DOMAIN typed' = 1..Len(typed') /\ Len(typed') \in Nat
    BY <1>1
  <2>2. a \in Nat /\ a < b /\ a \in DOMAIN typed'
    BY <2>1
  <2> QED
    BY <1>1, <2>1, <2>2
<1>3. ASSUME NEW b \in DOMAIN typed', NEW a \in 1 .. (b - 1), NEW p \in Items, NEW q \in Items,
             typed'[b] = p, typed'[a] = q, Pair(p, q)'
      PROVE  FALSE
  <2>1. b \in Nat /\ a \in Nat /\ a < b /\ a \in DOMAIN typed'
    BY <1>2
  <2>2. ASSUME b \in DOMAIN typed, a \in DOMAIN typed, typed[b] = p, typed[a] = q PROVE FALSE
    <3>1. ~Opens(q)
      BY <2>2, OpensFresh DEF Origins, Untouched, Said
    <3>2. Pair(p, q)
      BY <1>3, <3>1, PairBefore
    <3>3. a \in 1 .. (b - 1)
      BY <1>3
    <3> QED
      BY <2>2, <3>2, <3>3 DEF InSentOrder, Pair, Lost
  <2>3. CASE typed' = typed
    BY <1>3, <2>1, <2>2, <2>3
  <2>4. ASSUME NEW t \in Threads, Says(t), typed' = Append(typed, running[t].item) PROVE FALSE
    <3>1. running[t].item \in Items /\ running[t].at = "run"
      BY <2>4, BusyFacts DEF Says, Typed, Panics
    <3>2. /\ Len(typed) \in Nat /\ DOMAIN typed = 1..Len(typed)
          /\ DOMAIN typed' = 1..(Len(typed) + 1)
          /\ typed'[Len(typed) + 1] = running[t].item
          /\ \A n \in DOMAIN typed : typed'[n] = typed[n]
      BY <1>1, <2>4, <3>1, AppendProperties
    <3>3. a \in DOMAIN typed /\ (b \in DOMAIN typed \/ b = Len(typed) + 1)
      BY <2>1, <3>2
    <3>4. typed[a] = q /\ (b \in DOMAIN typed => typed[b] = p) /\ (b = Len(typed) + 1 => running[t].item = p)
      BY <1>3, <3>2, <3>3
    <3>5. CASE b \in DOMAIN typed
      BY <2>2, <3>3, <3>4, <3>5
    <3>6. CASE b = Len(typed) + 1
      <4>1. Runs(p)
        BY <3>1, <3>4, <3>6 DEF Runs, ToRun
      <4>2. Said(q)
        BY <3>3, <3>4 DEF Said
      <4>3. Pair(p, q)
        BY <1>3, <4>2, OpensFresh, PairBefore DEF Origins, Untouched
      <4> QED
        BY <4>1, <4>2, <4>3 DEF PairInv, Dead
    <3> QED
      BY <3>3, <3>5, <3>6
  <2> QED
    BY <2>3, <2>4, TypedFrom
<1>4. ASSUME NEW b \in DOMAIN typed', NEW a \in 1 .. (b - 1), NEW p \in Items, NEW q \in Items,
             typed'[b] = p, typed'[a] = q,
             ~Retry(p) /\ ~Retry(q) /\ Lane(p) = Lane(q) /\ p[1] \in after'[q[1]]
      PROVE  "early" \in marks'[q] \/ marks'[p] \cap {"unread", "unmarked"} # {}
  BY <1>3, <1>4 DEF Pair, Lost
<1> QED
  BY <1>2, <1>4 DEF InSentOrder

(* Lines reach an agent in the order they were sent, restarts included: a  *)
(* post that had answered before another post to the same agent was        *)
(* recorded is never typed after it, but for a later post that came while  *)
(* boot was still replaying, and an earlier one whose row a boot could not *)
(* read or whose started mark could not be written (delivery_queue.rs,     *)
(* run_later and drain; delivery_journal.rs, replay_on_boot).              *)
THEOREM LinesInOrder == Spec => []InSentOrder
<1> DEFINE Inv == DelTypes /\ Origins /\ OrderInv /\ PairInv /\ InSentOrder
<1>1. Init => Inv
  BY TypesInit, OriginsInit, OrderInit
<1>2. Inv /\ [Next]_vars => Inv'
  <2> SUFFICES ASSUME Inv, [Next]_vars PROVE Inv'
    OBVIOUS
  <2>1. DelTypes' /\ Origins'
    BY TypesStep, OriginsStep
  <2>2. OrderInv'
    BY BootInvStep, AnswerStep, LaneOwnStep, EarlyStep, DueHeldStep DEF OrderInv
  <2>3. PairInv' /\ InSentOrder'
    BY PairStep, InSentStep
  <2> QED
    BY <2>1, <2>2, <2>3
<1> QED
  BY <1>1, <1>2, PTL DEF Spec
=============================================================================
