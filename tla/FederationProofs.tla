-------------------------- MODULE FederationProofs --------------------------
(***************************************************************************)
(* Proofs about Federation: types and the outbox cap, no message lost      *)
(* without a trace, at most one delivery, and delivery in order.           *)
(***************************************************************************)
EXTENDS Federation, FiniteSetTheorems, SequenceTheorems, TLAPS

-----------------------------------------------------------------------------
(***************************************************************************)
(* The snapshot of the drain and the cap of the outbox.                    *)
(***************************************************************************)

(* A set of messages is finite, and no larger than Msgs.                   *)
LEMMA MsgsFinite ==
    /\ IsFiniteSet(Msgs) /\ Cardinality(Msgs) = N
    /\ \A q \in SUBSET Msgs : IsFiniteSet(q) /\ Cardinality(q) \in Nat
<1>1. IsFiniteSet(Msgs) /\ Cardinality(Msgs) = N
  BY FS_Interval, FederationAssumption DEF Msgs
<1> QED
  BY <1>1, FS_Subset, FS_CardinalityType

(* The number of members up to one of them ranks the members of a set: the *)
(* ranks are 1 .. Cardinality(q), each of them taken.                      *)
Rank(q) == [e \in q |-> Cardinality({x \in q : x <= e})]

(* The rank of an element is a position, and grows with the element.       *)
LEMMA RankFacts ==
    ASSUME NEW q \in SUBSET Msgs
    PROVE  /\ Rank(q) \in Surjection(q, 1..Cardinality(q))
           /\ \A e, f \in q : e < f => Rank(q)[e] < Rank(q)[f]
<1> DEFINE upto(e) == {x \in q : x <= e}
<1>1. \A x \in q : x \in Int
  BY FederationAssumption DEF Msgs
<1>2. \A e \in q : /\ Cardinality(upto(e)) \in 1..Cardinality(q)
                   /\ IsFiniteSet(upto(e)) /\ upto(e) \in SUBSET Msgs
  <2> TAKE e \in q
  <2>1. IsFiniteSet(q) /\ upto(e) \in SUBSET q /\ upto(e) # {} /\ upto(e) \in SUBSET Msgs
    BY <1>1, MsgsFinite
  <2>2. /\ Cardinality(upto(e)) <= Cardinality(q) /\ IsFiniteSet(upto(e))
        /\ Cardinality(upto(e)) # 0
    BY <2>1, FS_Subset, FS_EmptySet
  <2>3. Cardinality(upto(e)) \in Nat /\ Cardinality(q) \in Nat
    BY <2>1, <2>2, FS_CardinalityType
  <2> QED
    BY <2>1, <2>2, <2>3
<1>3. ASSUME NEW e \in q, NEW f \in q, e < f
      PROVE  Cardinality(upto(e)) < Cardinality(upto(f))
  <2>1. upto(e) \in SUBSET upto(f) /\ f \notin upto(e) /\ f \in upto(f)
    BY <1>1, <1>3
  <2>2. Cardinality(upto(e)) <= Cardinality(upto(f)) /\ Cardinality(upto(e)) # Cardinality(upto(f))
    <3> HIDE DEF upto
    <3> QED
      BY <1>2, <2>1, FS_Subset
  <2> QED
    BY <1>2, <2>2
<1>4. Rank(q) \in [q -> 1..Cardinality(q)] /\ \A e \in q : Rank(q)[e] = Cardinality(upto(e))
  BY <1>2 DEF Rank
<1>5. \A e, f \in q : e < f => Rank(q)[e] < Rank(q)[f]
  BY <1>3, <1>4
<1>6. \A e, f \in q : Rank(q)[e] = Rank(q)[f] => e = f
  <2> SUFFICES ASSUME NEW e \in q, NEW f \in q, e # f PROVE Rank(q)[e] # Rank(q)[f]
    OBVIOUS
  <2>1. e < f \/ f < e
    BY <1>1
  <2>2. Rank(q)[e] \in Int /\ Rank(q)[f] \in Int
    BY <1>4, MsgsFinite
  <2> QED
    BY <1>5, <2>1, <2>2
<1>7. Rank(q) \in Injection(q, 1..Cardinality(q))
  <2>1. DOMAIN Rank(q) = q
    BY <1>4
  <2> QED
    BY <1>4, <1>6, <2>1 DEF Injection, IsInjective
<1>8. /\ IsFiniteSet(1..Cardinality(q)) /\ Cardinality(1..Cardinality(q)) = Cardinality(q)
  <2>1. Cardinality(q) \in Nat
    BY MsgsFinite
  <2> QED
    BY <2>1, FS_Interval
<1> QED
  BY <1>5, <1>7, <1>8, FS_Injection

(* drain_peer's snapshot holds what is queued, oldest first.               *)
LEMMA SortedFacts ==
    ASSUME NEW q \in SUBSET Msgs
    PROVE  /\ Sorted(q) \in Seq(Msgs)
           /\ DOMAIN Sorted(q) = 1..Cardinality(q)
           /\ \A k \in DOMAIN Sorted(q) : Sorted(q)[k] \in q
           /\ \A m \in q : \E k \in DOMAIN Sorted(q) : Sorted(q)[k] = m
           /\ \A i, j \in DOMAIN Sorted(q) : i < j => Sorted(q)[i] < Sorted(q)[j]
<1> DEFINE n == Cardinality(q)
           Up(s) == \A i, j \in DOMAIN s : i < j => s[i] < s[j]
<1>1. \A x \in q : x \in Int
  BY FederationAssumption DEF Msgs
<1>2. n \in Nat /\ IsFiniteSet(q)
  BY MsgsFinite
<1>3. \E s \in [1..n -> q] : Up(s)
  <2> DEFINE at == [k \in 1..n |-> CHOOSE e \in q : Rank(q)[e] = k]
  <2>1. \A k \in 1..n : at[k] \in q /\ Rank(q)[at[k]] = k
    <3>1. \A k \in 1..n : \E e \in q : Rank(q)[e] = k
      BY RankFacts DEF Surjection
    <3> QED
      BY <3>1
  <2>2. at \in [1..n -> q]
    BY <2>1
  <2>3. ASSUME NEW i \in 1..n, NEW j \in 1..n, i < j PROVE at[i] < at[j]
    <3> HIDE DEF at
    <3>1. /\ at[i] \in q /\ at[j] \in q /\ Rank(q)[at[i]] = i /\ Rank(q)[at[j]] = j
      BY <2>1
    <3>2. at[i] # at[j] /\ ~(at[j] < at[i])
      BY <3>1, <2>3, RankFacts
    <3> QED
      BY <1>1, <3>1, <3>2
  <2> HIDE DEF at
  <2>4. DOMAIN at = 1..n
    BY <2>2
  <2> QED
    BY <2>2, <2>3, <2>4
<1>4. Sorted(q) \in [1..n -> q] /\ Up(Sorted(q))
  BY <1>3 DEF Sorted
<1> HIDE DEF n
<1> DEFINE s == Sorted(q)
<1>5. s \in [1..n -> q] /\ DOMAIN s = 1..n /\ Up(s)
  BY <1>4
<1> HIDE DEF s
<1>6. s \in Injection(1..n, q)
  <2>1. ASSUME NEW i \in 1..n, NEW j \in 1..n, i # j PROVE s[i] # s[j]
    <3>1. i < j \/ j < i
      BY <1>2, <2>1
    <3>2. s[i] \in Int /\ s[j] \in Int
      BY <1>1, <1>5
    <3> QED
      BY <1>5, <3>1, <3>2
  <2> QED
    BY <1>5, <2>1 DEF Injection, IsInjective
<1>7. s \in Surjection(1..n, q)
  <2>1. Cardinality(1..n) = n /\ IsFiniteSet(1..n)
    BY <1>2, FS_Interval
  <2>2. Cardinality(1..n) = Cardinality(q)
    BY <2>1 DEF n
  <2> QED
    BY <1>2, <1>6, <2>2, FS_Injection
<1>8. s \in Seq(Msgs)
  <2>1. s \in Seq(q)
    BY <1>2, <1>5
  <2> QED
    BY <2>1
<1>9. \A m \in q : \E k \in 1..n : s[k] = m
  BY <1>7 DEF Surjection
<1> QED
  BY <1>5, <1>8, <1>9 DEF s, n

(* enqueue keeps the queue under MAX_QUEUED_PER_PEER: what a full queue    *)
(* leaves out is one of its members, the oldest.                           *)
LEMMA EnqueueFacts ==
    ASSUME NEW old \in SUBSET Msgs, NEW m \in Msgs, Cardinality(old) <= MAX_QUEUED
    PROVE  LET q == old \cup {m} IN
           /\ q \ Evicted(q) \in SUBSET Msgs
           /\ Cardinality(q \ Evicted(q)) <= MAX_QUEUED
<1> DEFINE q == old \cup {m}
<1>1. q \in SUBSET Msgs /\ q # {} /\ m \in q
  OBVIOUS
<1>2. IsFiniteSet(old) /\ IsFiniteSet(q) /\ Cardinality(old) \in Nat /\ Cardinality(q) \in Nat
  BY <1>1, MsgsFinite
<1>3. Cardinality(q) <= Cardinality(old) + 1
  BY <1>2, FS_AddElement
<1> HIDE DEF q
<1>4. CASE Cardinality(q) > MAX_QUEUED
  <2> DEFINE s == Sorted(q)
  <2>1. 1 \in DOMAIN s /\ DOMAIN s = 1..Cardinality(q)
    BY <1>1, <1>2, <1>4, SortedFacts, FederationAssumption
  <2>2. s[1] \in q /\ \A y \in q : s[1] <= y
    <3>1. \A y \in q : y \in Int
      BY <1>1, FederationAssumption DEF Msgs
    <3> SUFFICES ASSUME NEW y \in q PROVE s[1] \in q /\ s[1] <= y
      BY <1>1
    <3>2. PICK k \in DOMAIN s : s[k] = y
      BY <1>1, SortedFacts
    <3>3. s[1] \in q
      BY <1>1, <2>1, SortedFacts
    <3>4. k = 1 \/ s[1] < s[k]
      BY <1>1, <1>2, <2>1, SortedFacts
    <3> QED
      BY <3>1, <3>2, <3>3, <3>4
  <2> HIDE DEF s
  <2>3. Min(q) \in q
    BY <2>2 DEF Min
  <2>4. Evicted(q) = {Min(q)}
    BY <1>4 DEF Evicted
  <2>5. Cardinality(q \ {Min(q)}) = Cardinality(q) - 1
    BY <1>2, <2>3, FS_RemoveElement
  <2>6. Cardinality(q \ Evicted(q)) <= MAX_QUEUED /\ q \ Evicted(q) \in SUBSET Msgs
    BY <1>1, <1>2, <1>3, <2>4, <2>5, FederationAssumption
  <2> QED
    BY <2>6 DEF q
<1>5. CASE ~(Cardinality(q) > MAX_QUEUED)
  <2>1. Evicted(q) = {} /\ q \ Evicted(q) = q
    BY <1>5 DEF Evicted
  <2> QED
    BY <1>1, <1>2, <1>5, <2>1, FederationAssumption DEF q
<1> QED
  BY <1>4, <1>5

-----------------------------------------------------------------------------
(***************************************************************************)
(* Types.                                                                  *)
(***************************************************************************)
States == Answers \cup Unrecorded \cup {"sent"}
Reqs == [m : Msgs, nonce : Nat \ {0}, st : States, loaded : Seq(Msgs)]

ReqsTyped ==
    /\ reqs \subseteq Reqs
    /\ \A r \in reqs : Len(r.loaded) <= SEEN_CAP /\ r.nonce \in 1..seals[r.m]

(* A message is sealed when it is enqueued first and never before: all     *)
(* that is queued, in a drain's snapshot or ahead of another was.          *)
Sealed ==
    /\ \A m \in Msgs : direct[m] = "new" <=> seals[m] = 0
    /\ \A m \in queue : seals[m] > 0
    /\ \A k \in DOMAIN drain.items : seals[drain.items[k]] > 0
    /\ \A m \in Msgs : \A o \in ahead[m] : seals[o] > 0

(* TypeOK and what it leaves out: an inductive type invariant.             *)
FedTypes ==
    /\ queue \subseteq Msgs /\ Cardinality(queue) <= MAX_QUEUED
    /\ dead \subseteq Msgs
    /\ seals \in [Msgs -> Nat]
    /\ direct \in [Msgs -> {"new", "queued", "dial", "done"}]
    /\ drain \in [on : BOOLEAN, items : Seq(Msgs), wait : Nat]
    /\ drain.on <=> drain.items # <<>>
    /\ drain.wait # 0 => drain.on
    /\ ReqsTyped
    /\ seen \in Seq(Msgs) /\ Len(seen) <= SEEN_CAP
    /\ faults \in 0..MaxFaults
    /\ fate \in [Msgs -> Fates]
    /\ kind \in [Msgs -> {"live", "tray", "declined", "unknown"}]
    /\ drives \in [Msgs -> Nat] /\ ahead \in [Msgs -> SUBSET Msgs]

(* A fresh POST is a request.                                              *)
LEMMA PostFacts ==
    ASSUME NEW m \in Msgs, NEW n \in Nat \ {0}, Post(m, n)
    PROVE  \E w \in Reqs : /\ reqs' = reqs \cup {w}
                           /\ w.m = m /\ w.nonce = n /\ w.st = "sent" /\ w.loaded = <<>>
<1> DEFINE w == [m |-> m, nonce |-> n, st |-> "sent", loaded |-> <<>>]
<1>1. <<>> \in Seq(Msgs) /\ "sent" \in States
  BY DEF States
<1>2. w \in Reqs /\ w.m = m /\ w.nonce = n /\ w.st = "sent" /\ w.loaded = <<>>
  BY <1>1 DEF Reqs
<1>3. reqs' = reqs \cup {w}
  BY DEF Post
<1> HIDE DEF w
<1> QED
  BY <1>2, <1>3

(* A request r goes on as w, or ends: its message and its nonce stay.      *)
Turns(r, w) ==
    /\ w \in Reqs /\ w.m = r.m /\ w.nonce = r.nonce
    /\ reqs \ {r} \subseteq reqs' /\ reqs' \subseteq (reqs \ {r}) \cup {w}

(* Become turns a request; one that was answered and nobody waits for is   *)
(* gone.                                                                   *)
LEMMA BecomeFacts ==
    ASSUME NEW r \in reqs, r \in Reqs, NEW st \in States, Become(r, st)
    PROVE  \E w : /\ Turns(r, w) /\ w.st = st /\ w.loaded = <<>>
                  /\ st \notin Answers => w \in reqs'
<1> DEFINE w == [r EXCEPT !.st = st, !.loaded = <<>>]
<1>1. w \in Reqs /\ w.m = r.m /\ w.nonce = r.nonce /\ w.st = st /\ w.loaded = <<>>
  <2>1. <<>> \in Seq(Msgs)
    OBVIOUS
  <2> QED
    BY <2>1 DEF Reqs
<1>2. \/ reqs' = reqs \ {r} /\ st \in Answers
      \/ reqs' = (reqs \ {r}) \cup {w}
  BY DEF Become
<1> HIDE DEF w
<1> QED
  BY <1>1, <1>2 DEF Turns

(* The items of a running drain.                                           *)
LEMMA DrainFacts ==
    ASSUME FedTypes, drain.on
    PROVE  /\ drain.items \in Seq(Msgs) /\ drain.items # <<>> /\ Len(drain.items) \in Nat \ {0}
           /\ DrainItem = drain.items[1] /\ DrainItem \in Msgs
  BY DEF FedTypes, DrainItem

(* What Append and Tail hold.                                              *)
LEMMA AppendFacts ==
    ASSUME NEW s, s \in Seq(Msgs), NEW m \in Msgs
    PROVE  /\ Append(s, m) \in Seq(Msgs)
           /\ Len(s) \in Nat /\ DOMAIN s = 1..Len(s)
           /\ Len(Append(s, m)) = Len(s) + 1
           /\ DOMAIN Append(s, m) = 1..(Len(s) + 1)
           /\ Append(s, m)[Len(s) + 1] = m
           /\ \A n \in 1..Len(s) : Append(s, m)[n] = s[n]
           /\ \A n \in 1..(Len(s) + 1) : n \in 1..Len(s) \/ n = Len(s) + 1
  OBVIOUS

(* What is left of a list without its first element.                       *)
LEMMA TailFacts ==
    ASSUME NEW s, s \in Seq(Msgs), s # <<>>
    PROVE  /\ Tail(s) \in Seq(Msgs)
           /\ Len(s) \in Nat \ {0} /\ DOMAIN s = 1..Len(s)
           /\ Len(Tail(s)) = Len(s) - 1
           /\ DOMAIN Tail(s) = 1..(Len(s) - 1)
           /\ \A n \in 1..(Len(s) - 1) : Tail(s)[n] = s[n + 1] /\ n + 1 \in 1..Len(s)
  OBVIOUS

(* seen::record adds the message to what it loaded, within the cap.        *)
LEMMA RecordFacts ==
    ASSUME NEW list, list \in Seq(Msgs), NEW m \in Msgs, Len(list) <= SEEN_CAP
    PROVE  /\ record(list, m) \in Seq(Msgs)
           /\ Len(record(list, m)) <= SEEN_CAP
           /\ \A n \in DOMAIN record(list, m) :
                 \/ record(list, m)[n] = m
                 \/ \E k \in DOMAIN list : record(list, m)[n] = list[k]
<1>1. SEEN_CAP \in Nat \ {0}
  BY FederationAssumption
<1>2. CASE Contains(list, m)
  BY <1>2 DEF record
<1>3. CASE ~Contains(list, m) /\ Len(list) = SEEN_CAP
  <2>1. list # <<>>
    BY <1>1, <1>3
  <2> DEFINE t == Tail(list)
             s == Append(t, m)
  <2>2. /\ t \in Seq(Msgs) /\ Len(t) = SEEN_CAP - 1 /\ DOMAIN list = 1..SEEN_CAP
        /\ \A n \in 1..(SEEN_CAP - 1) : t[n] = list[n + 1] /\ n + 1 \in 1..SEEN_CAP
    BY <1>3, <2>1, TailFacts
  <2>3. record(list, m) = s
    BY <1>3 DEF record
  <2> HIDE DEF t
  <2>4. /\ s \in Seq(Msgs) /\ Len(s) = Len(t) + 1
        /\ DOMAIN s = 1..(Len(t) + 1)
        /\ s[Len(t) + 1] = m
        /\ \A n \in 1..Len(t) : s[n] = t[n]
        /\ \A n \in 1..(Len(t) + 1) : n \in 1..Len(t) \/ n = Len(t) + 1
    BY <2>2, AppendFacts
  <2> HIDE DEF s
  <2>5. Len(s) <= SEEN_CAP
    BY <1>1, <2>2, <2>4
  <2>6. \A n \in DOMAIN s : s[n] = m \/ (n + 1 \in DOMAIN list /\ s[n] = list[n + 1])
    BY <2>2, <2>4
  <2> QED
    BY <2>3, <2>4, <2>5, <2>6
<1>4. CASE ~Contains(list, m) /\ Len(list) # SEEN_CAP
  <2> DEFINE s == Append(list, m)
  <2>1. record(list, m) = s
    BY <1>4 DEF record
  <2>2. /\ s \in Seq(Msgs) /\ Len(s) = Len(list) + 1 /\ Len(list) \in Nat
        /\ DOMAIN s = 1..(Len(list) + 1) /\ DOMAIN list = 1..Len(list)
        /\ s[Len(list) + 1] = m
        /\ \A n \in 1..Len(list) : s[n] = list[n]
        /\ \A n \in 1..(Len(list) + 1) : n \in 1..Len(list) \/ n = Len(list) + 1
    BY AppendFacts
  <2> HIDE DEF s
  <2>3. \A n \in DOMAIN s : s[n] = m \/ (n \in DOMAIN list /\ s[n] = list[n])
    BY <2>2
  <2>4. Len(s) <= SEEN_CAP
    <3>1. Len(list) \in Nat /\ Len(list) <= SEEN_CAP /\ Len(s) = Len(list) + 1
      BY <2>2
    <3> QED
      BY <1>1, <1>4, <3>1
  <2> QED
    BY <2>1, <2>2, <2>3, <2>4
<1> QED
  BY <1>2, <1>3, <1>4

(* Before the first send everything is of its type.                        *)
LEMMA FedTypesInit == Init => FedTypes /\ Sealed
<1> SUFFICES ASSUME Init PROVE FedTypes /\ Sealed
  OBVIOUS
<1>1. /\ queue \subseteq Msgs /\ Cardinality(queue) <= MAX_QUEUED
      /\ kind \in [Msgs -> {"live", "tray", "declined", "unknown"}]
  BY FederationAssumption DEF Init
<1>2. /\ seals \in [Msgs -> Nat]
      /\ direct \in [Msgs -> {"new", "queued", "dial", "done"}]
      /\ fate \in [Msgs -> Fates]
      /\ drives \in [Msgs -> Nat] /\ ahead \in [Msgs -> SUBSET Msgs]
  BY DEF Init, Fates
<1>3. /\ drain \in [on : BOOLEAN, items : Seq(Msgs), wait : Nat]
      /\ drain.on = FALSE /\ drain.items = <<>> /\ drain.wait = 0
  BY DEF Init, NoDrain
<1>4. seen = <<>> /\ seen \in Seq(Msgs) /\ Len(seen) = 0 /\ reqs = {} /\ dead = {} /\ faults = 0
  BY DEF Init
<1>5. Sealed
  BY <1>3, FederationAssumption DEF Init, Sealed
<1> QED
  BY <1>1, <1>2, <1>3, <1>4, <1>5, FederationAssumption DEF FedTypes, ReqsTyped

(* The types the proof uses give the type invariant of the specification.  *)
LEMMA FedTypesOK == FedTypes => TypeOK
<1> SUFFICES ASSUME FedTypes PROVE TypeOK
  OBVIOUS
<1>1. \A r \in reqs : r.m \in Msgs /\ r.st \in Answers \cup Unrecorded \cup {"sent"}
  BY DEF FedTypes, ReqsTyped, Reqs, States
<1>2. drain.on \in BOOLEAN /\ drain.wait \in Nat /\ drain.items \in Seq(Msgs)
  BY DEF FedTypes
<1> QED
  BY <1>1, <1>2 DEF FedTypes, TypeOK, ReqsTyped

(* What enqueue leaves: a queue under the cap, and fates.                  *)
LEMMA EnqueueTypes ==
    ASSUME FedTypes, NEW m \in Msgs, enqueue(m)
    PROVE  /\ queue' \subseteq Msgs /\ Cardinality(queue') <= MAX_QUEUED
           /\ fate' \in [Msgs -> Fates]
           /\ \A x \in Msgs : fate[x] # "none" => fate'[x] # "none"
           /\ \A x \in Msgs : x = m \/ x \in queue => x \in queue' \/ fate'[x] # "none"
           /\ queue' \subseteq queue \cup {m}
<1>1. queue \in SUBSET Msgs /\ Cardinality(queue) <= MAX_QUEUED
      /\ fate \in [Msgs -> Fates]
  BY DEF FedTypes
<1> DEFINE q == queue \cup {m}
<1>2. queue' = q \ Evicted(q)
      /\ fate' = [x \in Msgs |-> IF x \in Evicted(q) /\ fate[x] = "none" THEN "evicted" ELSE fate[x]]
  BY DEF enqueue
<1>3. queue' \subseteq Msgs /\ Cardinality(queue') <= MAX_QUEUED
  BY <1>1, <1>2, EnqueueFacts
<1>4. fate' \in [Msgs -> Fates]
  BY <1>1, <1>2 DEF Fates
<1>5. \A x \in Msgs : /\ fate[x] # "none" => fate'[x] # "none"
                      /\ x \in Evicted(q) => fate'[x] # "none"
  BY <1>1, <1>2
<1> QED
  BY <1>1, <1>2, <1>3, <1>4, <1>5

(* A fate is one of the fates, and stays one.                              *)
LEMMA GivenFacts ==
    ASSUME FedTypes, NEW m \in Msgs, NEW why \in Fates, Given(m, why)
    PROVE  /\ fate' \in [Msgs -> Fates]
           /\ \A x \in Msgs : fate[x] # "none" => fate'[x] # "none"
           /\ why # "none" => fate'[m] # "none"
  BY DEF Given, FedTypes

(* What leaves the queue makes it no longer.                               *)
LEMMA RemoveFacts ==
    ASSUME NEW q \in SUBSET Msgs, NEW m, Cardinality(q) <= MAX_QUEUED
    PROVE  Cardinality(q \ {m}) <= MAX_QUEUED
<1>1. IsFiniteSet(q) /\ Cardinality(q) \in Nat
  BY MsgsFinite
<1>2. Cardinality(q \ {m}) = IF m \in q THEN Cardinality(q) - 1 ELSE Cardinality(q)
  BY <1>1, FS_RemoveElement
<1> QED
  BY <1>1, <1>2, FederationAssumption

(* What the gate of handle_inbound makes of a request.                     *)
LEMMA ReceiveFacts ==
    ASSUME NEW r \in reqs, Receive(r)
    PROVE  /\ \/ /\ <<r.m, r.nonce>> \in nonces
                 /\ Become(r, "replayed") /\ excused' = excused
              \/ /\ Contains(seen, r.m)
                 /\ Become(r, "duplicate") /\ excused' = excused
              \/ /\ <<r.m, r.nonce>> \notin nonces
                 /\ excused' = IF Inside(r.m) # {} \/ Contains(seen, r.m)
                               THEN excused \cup {r.m} ELSE excused
                 /\ \/ kind[r.m] = "unknown" /\ Become(r, "unknown")
                    \/ kind[r.m] = "declined" /\ Become(r, "handled")
                    \/ kind[r.m] \notin {"unknown", "declined"} /\ Become(r, "deliver")
           /\ r.st = "sent"
           /\ nonces' = nonces \cup {<<r.m, r.nonce>>}
           /\ faults' = faults \/ Fault
           /\ UNCHANGED <<kind, queue, dead, seals, direct, drain, seen, drives, ahead, fate>>
<1>1. CASE <<r.m, r.nonce>> \in nonces
  BY <1>1 DEF Receive, sender
<1>2. CASE <<r.m, r.nonce>> \notin nonces
  <2>1. PICK list \in {seen, <<>>} :
          /\ load(list)
          /\ \/ already_seen(list, r.m) /\ Become(r, "duplicate") /\ UNCHANGED excused
             \/ /\ ~already_seen(list, r.m)
                /\ Become(r, CASE kind[r.m] = "unknown" -> "unknown"
                               [] kind[r.m] = "declined" -> "handled"
                               [] OTHER -> "deliver")
                /\ excused' = IF Inside(r.m) # {} \/ already_seen(seen, r.m)
                              THEN excused \cup {r.m} ELSE excused
    BY <1>2 DEF Receive
  <2>2. faults' = faults \/ Fault
    BY <2>1 DEF load
  <2>3. CASE already_seen(list, r.m)
    <3>1. ~Contains(<<>>, r.m)
      BY DEF Contains
    <3>2. Contains(seen, r.m)
      BY <2>1, <2>3, <3>1 DEF already_seen
    <3> QED
      BY <1>2, <2>1, <2>2, <2>3, <3>2 DEF Receive, sender
  <2>4. CASE ~already_seen(list, r.m)
    <3>1. excused' = IF Inside(r.m) # {} \/ Contains(seen, r.m) THEN excused \cup {r.m} ELSE excused
      BY <2>1, <2>4 DEF already_seen
    <3>2. CASE kind[r.m] = "unknown"
      BY <1>2, <2>1, <2>2, <2>4, <3>1, <3>2 DEF Receive, sender
    <3>3. CASE kind[r.m] = "declined"
      BY <1>2, <2>1, <2>2, <2>4, <3>1, <3>3 DEF Receive, sender
    <3>4. CASE kind[r.m] \notin {"unknown", "declined"}
      BY <1>2, <2>1, <2>2, <2>4, <3>1, <3>4 DEF Receive, sender
    <3> QED
      BY <3>2, <3>3, <3>4
  <2> QED
    BY <2>3, <2>4
<1> QED
  BY <1>1, <1>2

(* What DrainAnswered makes of the answer r of the drain's item: `written` *)
(* tells whether a dead letter, if there is one, was.                      *)
Answered(r, written) ==
    LET what == Disposition(r.st) IN
    /\ drain.on /\ drain.wait # 0 /\ r \in reqs /\ r.m = DrainItem /\ DrainItem \in Msgs
    /\ r.st \in Answers /\ what \in {"retry", "dead_letter", "delivered"}
    /\ faults' = faults \/ Fault
    /\ ~written => what = "dead_letter"
    /\ queue' = IF what = "retry" THEN queue ELSE queue \ {DrainItem}
    /\ dead' = IF what = "dead_letter" /\ written THEN dead \cup {DrainItem} ELSE dead
    /\ fate' \in [Msgs -> Fates]
    /\ \A x \in Msgs : fate[x] # "none" => fate'[x] # "none"
    /\ ~written \/ (r.st = "duplicate" /\ kind[r.m] = "declined") => fate'[DrainItem] # "none"
    /\ \/ drain' = NoDrain
       \/ /\ what # "retry" /\ Len(drain.items) # 1
          /\ drain' = [drain EXCEPT !.items = Tail(@), !.wait = 0]
    /\ reqs' \subseteq reqs
    /\ \A q \in reqs : q.st \notin Answers => q \in reqs'
    /\ UNCHANGED <<kind, seals, direct, nonces, seen, drives, ahead, excused>>

(* DrainAnswered is as described.                                          *)
LEMMA AnsweredFacts ==
    ASSUME FedTypes, DrainAnswered
    PROVE  \E r, written : Answered(r, written)
<1>1. PICK r \in ReqOf(DrainItem, drain.wait), written \in BOOLEAN :
         /\ r.st \in Answers
         /\ reqs' = reqs \ {r}
         /\ IF written THEN UNCHANGED faults ELSE Disposition(r.st) = "dead_letter" /\ Fault
         /\ queue' = IF Disposition(r.st) = "retry" THEN queue ELSE queue \ {DrainItem}
         /\ dead' = IF Disposition(r.st) = "dead_letter" /\ written THEN dead \cup {DrainItem} ELSE dead
         /\ Given(DrainItem, IF ~written THEN "unwritten"
                             ELSE IF r.st = "duplicate" /\ kind[r.m] = "declined" THEN "unheard"
                             ELSE "none")
         /\ drain' = IF Disposition(r.st) = "retry" \/ Len(drain.items) = 1 THEN NoDrain
                     ELSE [drain EXCEPT !.items = Tail(@), !.wait = 0]
  BY DEF DrainAnswered
<1>2. /\ drain.on /\ drain.wait # 0
      /\ UNCHANGED <<kind, seals, direct, nonces, seen, drives, ahead, excused>>
  BY DEF DrainAnswered
<1>3. r \in reqs /\ r.m = DrainItem /\ DrainItem \in Msgs
  BY <1>1, <1>2, DrainFacts DEF ReqOf
<1>4. Disposition(r.st) \in {"retry", "dead_letter", "delivered"}
  BY <1>1 DEF Disposition, Answers
<1>5. PICK why \in Fates : /\ Given(DrainItem, why)
                           /\ ~written \/ (r.st = "duplicate" /\ kind[r.m] = "declined") => why # "none"
  BY <1>1 DEF Fates
<1>6. /\ fate' \in [Msgs -> Fates]
      /\ \A x \in Msgs : fate[x] # "none" => fate'[x] # "none"
      /\ why # "none" => fate'[DrainItem] # "none"
  BY <1>3, <1>5, GivenFacts
<1> QED
  BY <1>1, <1>2, <1>3, <1>4, <1>5, <1>6 DEF Answered

(* Every step keeps the types.                                             *)
LEMMA FedTypesStep == FedTypes /\ Sealed /\ [Next]_vars => FedTypes' /\ Sealed'
<1> SUFFICES ASSUME FedTypes, Sealed, [Next]_vars PROVE FedTypes' /\ Sealed'
  OBVIOUS
<1> USE FederationAssumption DEF sender, history
<1>a. ASSUME faults' = faults \/ Fault PROVE faults' \in 0..MaxFaults
  BY <1>a DEF Fault, FedTypes
<1>b. ASSUME reqs' \subseteq reqs, seals' = seals PROVE ReqsTyped'
  BY <1>b DEF FedTypes, ReqsTyped
<1>c. ASSUME drain' = NoDrain
      PROVE  /\ drain' \in [on : BOOLEAN, items : Seq(Msgs), wait : Nat]
             /\ drain'.on <=> drain'.items # <<>>
             /\ drain'.wait # 0 => drain'.on
  BY <1>c DEF NoDrain
<1>d. ASSUME NEW r \in reqs, NEW st \in States, Become(r, st), seals' = seals PROVE ReqsTyped'
  <2>1. r \in Reqs /\ r.m \in Msgs /\ r.nonce \in 1..seals[r.m]
    BY DEF FedTypes, ReqsTyped, Reqs
  <2>2. \A q \in reqs' : \/ q \in reqs
                         \/ /\ q \in Reqs /\ q.m = r.m /\ q.nonce = r.nonce /\ q.loaded = <<>>
    BY <1>d, <2>1, BecomeFacts DEF Turns
  <2> QED
    BY <1>d, <2>1, <2>2, SMTT(30) DEF FedTypes, ReqsTyped
<1>e. ASSUME NEW m \in Msgs, NEW n \in Nat \ {0}, Post(m, n), n <= seals'[m],
             seals' \in [Msgs -> Nat], \A x \in Msgs : seals[x] <= seals'[x]
      PROVE  ReqsTyped'
  <2>1. \A q \in reqs' : \/ q \in reqs
                         \/ /\ q \in Reqs /\ q.m = m /\ q.nonce = n /\ q.loaded = <<>>
    BY <1>e, PostFacts
  <2>2. \A q \in reqs : q \in Reqs /\ q.m \in Msgs /\ q.nonce \in 1..seals[q.m] /\ Len(q.loaded) <= SEEN_CAP
    BY DEF FedTypes, ReqsTyped, Reqs
  <2>3. ASSUME NEW q \in reqs' PROVE q \in Reqs /\ Len(q.loaded) <= SEEN_CAP /\ q.nonce \in 1..seals'[q.m]
    <3>1. CASE q \in reqs
      <4>1. seals[q.m] \in Nat /\ seals'[q.m] \in Nat /\ seals[q.m] <= seals'[q.m]
        BY <1>e, <2>2, <3>1 DEF FedTypes
      <4> QED
        BY <2>2, <3>1, <4>1
    <3>2. CASE q \in Reqs /\ q.m = m /\ q.nonce = n /\ q.loaded = <<>>
      BY <1>e, <3>2
    <3> QED
      BY <2>1, <3>1, <3>2
  <2> QED
    BY <2>3 DEF ReqsTyped
<1>f. \A r \in reqs : r \in Reqs /\ r.m \in Msgs /\ r.loaded \in Seq(Msgs) /\ Len(r.loaded) <= SEEN_CAP
  BY DEF FedTypes, ReqsTyped, Reqs
<1>g. ASSUME NEW m \in Msgs, enqueue(m), seals' \in [Msgs -> Nat],
             seals'[m] > 0, \A x \in Msgs : seals[x] <= seals'[x]
      PROVE  \A x \in queue' : seals'[x] > 0
  <2>1. \A x \in queue' : x \in queue \/ x = m
    BY <1>g, EnqueueTypes
  <2>2. \A x \in queue : x \in Msgs /\ seals[x] > 0
    BY DEF FedTypes, Sealed
  <2>3. \A x \in Msgs : seals[x] \in Nat /\ seals'[x] \in Nat
    BY <1>g DEF FedTypes
  <2> QED
    BY <1>g, <2>1, <2>2, <2>3
<1>1. ASSUME NEW m \in Msgs, SendEnqueue(m) PROVE FedTypes' /\ Sealed'
  <2>1. seals' \in [Msgs -> Nat] /\ seals'[m] = 1 /\ seals[m] = 0 /\ \A x \in Msgs : x # m => seals'[x] = seals[x]
    BY <1>1 DEF SendEnqueue, FedTypes, Sealed
  <2>2. \A x \in Msgs : seals[x] \in Nat /\ seals'[x] \in Nat /\ seals[x] <= seals'[x]
    <3>1. \A x \in Msgs : seals[x] \in Nat /\ seals'[x] \in Nat
      BY <2>1 DEF FedTypes
    <3> QED
      BY <2>1, <3>1
  <2>3. /\ direct' \in [Msgs -> {"new", "queued", "dial", "done"}] /\ ahead' \in [Msgs -> SUBSET Msgs]
        /\ direct'[m] = "queued" /\ ahead'[m] = queue
        /\ \A x \in Msgs : x # m => direct'[x] = direct[x] /\ ahead'[x] = ahead[x]
    BY <1>1 DEF SendEnqueue, FedTypes
  <2>4. ReqsTyped'
    <3>1. \A q \in reqs : q.m \in Msgs /\ seals[q.m] \in Nat /\ seals'[q.m] \in Nat /\ seals[q.m] <= seals'[q.m]
      BY <2>1, <2>2 DEF FedTypes, ReqsTyped, Reqs
    <3>2. reqs' = reqs
      BY <1>1 DEF SendEnqueue
    <3>3. \A q \in reqs : q \in Reqs /\ Len(q.loaded) <= SEEN_CAP /\ q.nonce \in 1..seals[q.m]
      BY DEF FedTypes, ReqsTyped
    <3> QED
      BY <3>1, <3>2, <3>3 DEF ReqsTyped
  <2>5. enqueue(m) /\ UNCHANGED <<kind, dead, drain, seen, faults, drives>>
    BY <1>1 DEF SendEnqueue
  <2>6. FedTypes'
    BY <2>1, <2>3, <2>4, <2>5, EnqueueTypes DEF FedTypes
  <2>7. \A x \in queue' : seals'[x] > 0
    BY <1>g, <2>1, <2>2, <2>5
  <2>8. Sealed'
    <3>1. \A x \in Msgs : direct'[x] = "new" <=> seals'[x] = 0
      BY <2>1, <2>3 DEF Sealed
    <3>2. \A k \in DOMAIN drain'.items : seals'[drain'.items[k]] > 0
      <4>1. \A k \in DOMAIN drain.items : drain.items[k] \in Msgs
        BY DEF FedTypes
      <4> QED
        BY <2>1, <2>2, <2>5, <4>1 DEF FedTypes, Sealed
    <3>3. \A x \in Msgs : \A o \in ahead'[x] : seals'[o] > 0
      <4>1. \A x \in Msgs : \A o \in ahead'[x] : o \in Msgs /\ seals[o] > 0
        BY <2>3 DEF FedTypes, Sealed
      <4> QED
        BY <2>2, <4>1
    <3> QED
      BY <2>7, <3>1, <3>2, <3>3 DEF Sealed
  <2> QED
    BY <2>6, <2>8
<1>h. ASSUME seals' = seals, ahead' = ahead, queue' \subseteq queue,
             \A m \in Msgs : direct[m] = "new" <=> direct'[m] = "new",
             drain' = drain \/ drain' = NoDrain
      PROVE  Sealed'
  <2>1. \A k \in DOMAIN drain'.items : seals'[drain'.items[k]] > 0
    BY <1>h DEF Sealed, NoDrain
  <2> QED
    BY <1>h, <2>1 DEF Sealed
<1>2. ASSUME NEW m \in Msgs, SendBehind(m) PROVE FedTypes' /\ Sealed'
  <2>1. direct' \in [Msgs -> {"new", "queued", "dial", "done"}]
    BY <1>2 DEF SendBehind, FedTypes
  <2>2. \A x \in Msgs : direct[x] = "new" <=> direct'[x] = "new"
    BY <1>2 DEF SendBehind, FedTypes
  <2> QED
    BY <1>2, <1>b, <1>h, <2>1, <2>2 DEF SendBehind, FedTypes
<1>3. ASSUME NEW m \in Msgs, SendDial(m) PROVE FedTypes' /\ Sealed'
  <2>1. direct' \in [Msgs -> {"new", "queued", "dial", "done"}]
    BY <1>3 DEF SendDial, FedTypes
  <2>2. (\A x \in Msgs : direct[x] = "new" <=> direct'[x] = "new") /\ seals[m] # 0 /\ seals[m] \in Nat
    BY <1>3 DEF SendDial, FedTypes, Sealed
  <2>3. ReqsTyped'
    <3>1. Post(m, 1) /\ seals' = seals
      BY <1>3 DEF SendDial
    <3>2. seals' \in [Msgs -> Nat] /\ 1 <= seals'[m] /\ \A x \in Msgs : seals[x] <= seals'[x]
      BY <2>2, <3>1, SMTT(30) DEF FedTypes
    <3> QED
      BY <1>e, <3>1, <3>2
  <2> QED
    BY <1>3, <1>h, <2>1, <2>2, <2>3 DEF SendDial, FedTypes
<1>4. ASSUME NEW m \in Msgs, SendAnswered(m) PROVE FedTypes' /\ Sealed'
  <2>1. direct' \in [Msgs -> {"new", "queued", "dial", "done"}]
    BY <1>4 DEF SendAnswered, FedTypes
  <2>2. \A x \in Msgs : direct[x] = "new" <=> direct'[x] = "new"
    BY <1>4 DEF SendAnswered, FedTypes
  <2>3. fate' \in [Msgs -> Fates]
    <3>1. fate' = fate \/ \E why \in Fates : Given(m, why)
      BY <1>4 DEF SendAnswered, Fates, Answers
    <3> QED
      BY <3>1, GivenFacts DEF FedTypes
  <2>4. (queue' = queue \/ queue' = queue \ {m}) /\ reqs' \subseteq reqs
    BY <1>4 DEF SendAnswered
  <2>5. queue' \subseteq queue /\ Cardinality(queue') <= MAX_QUEUED
    BY <2>4, RemoveFacts DEF FedTypes
  <2> QED
    BY <1>4, <1>b, <1>h, <2>1, <2>2, <2>3, <2>4, <2>5 DEF SendAnswered, FedTypes
<1>5. ASSUME NEW m \in Msgs, SendFails(m) PROVE FedTypes' /\ Sealed'
  <2>1. direct' \in [Msgs -> {"new", "queued", "dial", "done"}]
    BY <1>5 DEF SendFails, FedTypes
  <2>2. \A x \in Msgs : direct[x] = "new" <=> direct'[x] = "new"
    BY <1>5 DEF SendFails, FedTypes
  <2>3. faults' \in 0..MaxFaults /\ reqs' \subseteq reqs
    BY <1>5, <1>a DEF SendFails
  <2> QED
    BY <1>5, <1>b, <1>h, <2>1, <2>2, <2>3 DEF SendFails, FedTypes
<1>6. ASSUME drain_peer PROVE FedTypes' /\ Sealed'
  <2>1. queue \in SUBSET Msgs /\ queue # {}
    BY <1>6 DEF drain_peer, FedTypes
  <2> DEFINE s == Sorted(queue)
  <2>2. /\ s \in Seq(Msgs) /\ s # <<>> /\ \A k \in DOMAIN s : s[k] \in queue
    BY <2>1, SortedFacts
  <2>3. drain' = [on |-> TRUE, items |-> s, wait |-> 0]
    BY <1>6 DEF drain_peer
  <2> HIDE DEF s
  <2>4. /\ drain' \in [on : BOOLEAN, items : Seq(Msgs), wait : Nat]
        /\ drain'.on = TRUE /\ drain'.items = s /\ drain'.wait = 0
    BY <2>2, <2>3
  <2>5. FedTypes'
    BY <1>6, <1>b, <2>2, <2>4 DEF drain_peer, FedTypes
  <2> QED
    BY <1>6, <2>2, <2>4, <2>5 DEF drain_peer, Sealed
<1>7. ASSUME NEW m \in Msgs, SweepExpires(m) PROVE FedTypes' /\ Sealed'
  <2>1. queue' = queue \ {m} /\ queue' \subseteq queue
    BY <1>7 DEF SweepExpires
  <2>2. Cardinality(queue') <= MAX_QUEUED
    BY <2>1, RemoveFacts DEF FedTypes
  <2> QED
    BY <1>7, <1>b, <1>h, <2>1, <2>2 DEF SweepExpires, FedTypes
<1>8. ASSUME DrainDial PROVE FedTypes' /\ Sealed'
  <2> DEFINE m == DrainItem
             n == NonceOf(m)
  <2>1. m \in Msgs /\ seals[m] \in Nat /\ seals[m] > 0 /\ n = seals[m] + 1
    <3>1. drain.on /\ m = drain.items[1] /\ m \in Msgs /\ 1 \in DOMAIN drain.items
      BY <1>8, DrainFacts DEF DrainDial
    <3> QED
      BY <3>1 DEF FedTypes, Sealed, NonceOf
  <2>2. /\ seals' = [seals EXCEPT ![m] = n] /\ enqueue(m) /\ Post(m, n)
        /\ drain' = [drain EXCEPT !.wait = n] /\ drain.on
        /\ UNCHANGED <<kind, dead, direct, nonces, seen, faults, drives, ahead, excused>>
    BY <1>8 DEF DrainDial
  <2> HIDE DEF m, n
  <2>3. /\ seals' \in [Msgs -> Nat] /\ seals'[m] = n
        /\ \A x \in Msgs : x # m => seals'[x] = seals[x]
        /\ n \in Nat \ {0}
    BY <2>1, <2>2, SMTT(30) DEF FedTypes
  <2>4. \A x \in Msgs : seals[x] \in Nat /\ seals'[x] \in Nat /\ seals[x] <= seals'[x]
    <3>1. \A x \in Msgs : seals[x] \in Nat /\ seals'[x] \in Nat
      BY <2>3 DEF FedTypes
    <3> QED
      BY <2>1, <2>3, <3>1
  <2>5. ReqsTyped'
    BY <1>e, <2>1, <2>2, <2>3, <2>4
  <2>6. /\ drain' \in [on : BOOLEAN, items : Seq(Msgs), wait : Nat]
        /\ drain'.on = drain.on /\ drain'.items = drain.items /\ drain'.wait = n
    BY <2>2, <2>3 DEF FedTypes
  <2>7. FedTypes'
    BY <2>1, <2>2, <2>3, <2>5, <2>6, EnqueueTypes DEF FedTypes
  <2>8. \A x \in queue' : seals'[x] > 0
    BY <1>g, <2>1, <2>2, <2>3, <2>4
  <2>9. Sealed'
    <3>1. \A x \in Msgs : direct'[x] = "new" <=> seals'[x] = 0
      BY <2>1, <2>2, <2>3 DEF Sealed
    <3>2. \A k \in DOMAIN drain'.items : seals'[drain'.items[k]] > 0
      <4>1. \A k \in DOMAIN drain.items : drain.items[k] \in Msgs /\ seals[drain.items[k]] > 0
        BY DEF FedTypes, Sealed
      <4>2. \A x \in Msgs : seals[x] > 0 => seals'[x] > 0
        BY <2>4
      <4> QED
        BY <2>6, <4>1, <4>2
    <3>3. \A x \in Msgs : \A o \in ahead'[x] : seals'[o] > 0
      <4>1. \A x \in Msgs : \A o \in ahead'[x] : o \in Msgs /\ seals[o] > 0
        BY <2>2 DEF FedTypes, Sealed
      <4> QED
        BY <2>4, <4>1
    <3> QED
      BY <2>8, <3>1, <3>2, <3>3 DEF Sealed
  <2> QED
    BY <2>7, <2>9
<1>9. ASSUME DrainAnswered PROVE FedTypes' /\ Sealed'
  <2> DEFINE m == DrainItem
  <2>1. /\ drain.on /\ reqs' \subseteq reqs /\ queue' \in {queue, queue \ {m}}
        /\ dead' \in {dead, dead \cup {m}} /\ fate' \in [Msgs -> Fates]
        /\ faults' = faults \/ Fault
        /\ \/ drain' = NoDrain
           \/ Len(drain.items) # 1 /\ drain' = [drain EXCEPT !.items = Tail(@), !.wait = 0]
        /\ UNCHANGED <<kind, seals, direct, nonces, seen, drives, ahead, excused>>
    BY <1>9, AnsweredFacts DEF Answered
  <2>2. m \in Msgs /\ drain.items \in Seq(Msgs) /\ drain.items # <<>>
    BY <2>1, DrainFacts
  <2> HIDE DEF m
  <2>3. queue' \subseteq queue /\ Cardinality(queue') <= MAX_QUEUED
    BY <2>1, RemoveFacts DEF FedTypes
  <2>4. ReqsTyped' /\ faults' \in 0..MaxFaults
    BY <1>a, <1>b, <2>1
  <2>5. CASE drain' = NoDrain
    BY <1>c, <1>h, <2>1, <2>2, <2>3, <2>4, <2>5 DEF FedTypes
  <2>6. CASE Len(drain.items) # 1 /\ drain' = [drain EXCEPT !.items = Tail(@), !.wait = 0]
    <3> DEFINE t == Tail(drain.items)
    <3>1. /\ t \in Seq(Msgs) /\ t # <<>>
          /\ \A k \in DOMAIN t : k + 1 \in DOMAIN drain.items /\ t[k] = drain.items[k + 1]
      <4>1. /\ t \in Seq(Msgs) /\ Len(drain.items) \in Nat \ {0} /\ DOMAIN drain.items = 1..Len(drain.items)
            /\ Len(t) = Len(drain.items) - 1
            /\ DOMAIN t = 1..(Len(drain.items) - 1)
            /\ \A k \in 1..(Len(drain.items) - 1) :
                  t[k] = drain.items[k + 1] /\ k + 1 \in 1..Len(drain.items)
        BY <2>2, TailFacts
      <4> HIDE DEF t
      <4>2. Len(t) # 0
        BY <2>6, <4>1
      <4>3. t # <<>>
        BY <4>2
      <4> QED
        BY <4>1, <4>3
    <3> HIDE DEF t
    <3>2. /\ drain' \in [on : BOOLEAN, items : Seq(Msgs), wait : Nat]
          /\ drain'.on = drain.on /\ drain'.items = t /\ drain'.wait = 0
      BY <2>6, <3>1 DEF FedTypes, t
    <3>3. FedTypes'
      BY <2>1, <2>2, <2>3, <2>4, <3>1, <3>2 DEF FedTypes
    <3>4. \A k \in DOMAIN drain'.items : seals'[drain'.items[k]] > 0
      BY <2>1, <3>1, <3>2 DEF Sealed
    <3> QED
      BY <2>1, <2>3, <3>3, <3>4 DEF Sealed
  <2> QED
    BY <2>1, <2>5, <2>6
<1>10. ASSUME DrainFails PROVE FedTypes' /\ Sealed'
  <2>1. faults' \in 0..MaxFaults /\ reqs' \subseteq reqs
    BY <1>10, <1>a DEF DrainFails
  <2> QED
    BY <1>10, <1>b, <1>c, <1>h, <2>1 DEF DrainFails, FedTypes
<1>11. ASSUME NEW r \in reqs, Receive(r) PROVE FedTypes' /\ Sealed'
  <2>0. {"replayed", "duplicate", "unknown", "handled", "deliver"} \subseteq States
    BY DEF States, Answers, Unrecorded
  <2>1. PICK st \in States : Become(r, st)
    <3> HIDE DEF sender, history
    <3> QED
      BY <1>11, <2>0, ReceiveFacts
  <2>2. faults' \in 0..MaxFaults
        /\ UNCHANGED <<kind, queue, dead, seals, direct, drain, seen, drives, ahead, fate>>
    <3> HIDE DEF sender, history
    <3> QED
      BY <1>11, <1>a, ReceiveFacts
  <2>3. ReqsTyped'
    BY <1>d, <2>1, <2>2
  <2> QED
    BY <1>h, <2>2, <2>3 DEF FedTypes
<1>12. ASSUME NEW r \in reqs, Drive(r) PROVE FedTypes' /\ Sealed'
  <2>1. "handled" \in States /\ Become(r, "handled")
    BY <1>12 DEF Drive, States, Unrecorded
  <2>2. ReqsTyped'
    BY <1>12, <1>d, <2>1 DEF Drive
  <2>3. drives' \in [Msgs -> Nat]
    BY <1>12, <1>f, SMTT(30) DEF Drive, FedTypes
  <2> QED
    BY <1>12, <1>h, <2>2, <2>3 DEF Drive, FedTypes
<1>13. ASSUME NEW r \in reqs, DriveFails(r) PROVE FedTypes' /\ Sealed'
  <2>1. PICK st \in States : Become(r, st)
    BY <1>13 DEF DriveFails, States, Answers
  <2>2. ReqsTyped' /\ faults' \in 0..MaxFaults
    BY <1>13, <1>a, <1>d, <2>1 DEF DriveFails
  <2> QED
    BY <1>13, <1>h, <2>2 DEF DriveFails, FedTypes
<1>14. ASSUME NEW r \in reqs, RecordLoad(r) PROVE FedTypes' /\ Sealed'
  <2>0. PICK list \in {seen, <<>>} :
          load(list) /\ reqs' = (reqs \ {r}) \cup {[r EXCEPT !.st = "recording", !.loaded = list]}
    BY <1>14 DEF RecordLoad
  <2> DEFINE w == [r EXCEPT !.st = "recording", !.loaded = list]
  <2>1. list \in Seq(Msgs) /\ Len(list) <= SEEN_CAP
    <3>1. CASE list = seen
      BY <3>1 DEF FedTypes
    <3>2. CASE list = <<>>
      BY <3>2
    <3> QED
      BY <3>1, <3>2
  <2>2. w \in Reqs /\ w.m = r.m /\ w.nonce = r.nonce /\ w.loaded = list
    <3>1. "recording" \in States
      BY DEF States, Unrecorded
    <3> QED
      BY <1>f, <2>1, <3>1 DEF Reqs
  <2>3. reqs' = (reqs \ {r}) \cup {w} /\ seals' = seals
    BY <1>14, <2>0 DEF RecordLoad
  <2> HIDE DEF w
  <2>4. ReqsTyped'
    BY <2>1, <2>2, <2>3 DEF FedTypes, ReqsTyped
  <2>5. faults' \in 0..MaxFaults
    BY <1>a, <2>0 DEF load
  <2> QED
    BY <1>14, <1>h, <2>4, <2>5 DEF RecordLoad, FedTypes
<1>15. ASSUME NEW r \in reqs, RecordSave(r) PROVE FedTypes' /\ Sealed'
  <2>1. PICK st \in States : Become(r, st)
    BY <1>15 DEF RecordSave, States, Answers
  <2>2. ReqsTyped'
    BY <1>15, <1>d, <2>1 DEF RecordSave
  <2>3. seen' \in Seq(Msgs) /\ Len(seen') <= SEEN_CAP
    <3>1. seen' = seen \/ seen' = record(r.loaded, r.m)
      BY <1>15 DEF RecordSave
    <3>2. record(r.loaded, r.m) \in Seq(Msgs) /\ Len(record(r.loaded, r.m)) <= SEEN_CAP
      BY <1>f, RecordFacts
    <3> QED
      BY <3>1, <3>2 DEF FedTypes
  <2> QED
    BY <1>15, <1>h, <2>2, <2>3 DEF RecordSave, FedTypes
<1>20. ASSUME NEW r \in reqs, RecordSaveFails(r) PROVE FedTypes' /\ Sealed'
  <2>1. PICK st \in States : Become(r, st)
    BY <1>20 DEF RecordSaveFails, States, Answers
  <2>2. ReqsTyped' /\ faults' \in 0..MaxFaults
    BY <1>20, <1>a, <1>d, <2>1 DEF RecordSaveFails
  <2> QED
    BY <1>20, <1>h, <2>2 DEF RecordSaveFails, FedTypes
<1>16. ASSUME NEW r \in reqs, RequestLost(r) PROVE FedTypes' /\ Sealed'
  <2>1. faults' \in 0..MaxFaults /\ reqs' \subseteq reqs
    BY <1>16, <1>a DEF RequestLost
  <2> QED
    BY <1>16, <1>b, <1>h, <2>1 DEF RequestLost, FedTypes
<1>17. ASSUME SenderCrash PROVE FedTypes' /\ Sealed'
  <2>1. faults' \in 0..MaxFaults /\ reqs' \subseteq reqs
    BY <1>17, <1>a DEF SenderCrash
  <2>2. /\ direct' \in [Msgs -> {"new", "queued", "dial", "done"}]
        /\ \A x \in Msgs : direct[x] = "new" <=> direct'[x] = "new"
    BY <1>17 DEF SenderCrash, FedTypes
  <2> QED
    BY <1>17, <1>b, <1>c, <1>h, <2>1, <2>2 DEF SenderCrash, FedTypes
<1>18. ASSUME ReceiverCrash PROVE FedTypes' /\ Sealed'
  <2>1. faults' \in 0..MaxFaults /\ reqs' \subseteq reqs
    BY <1>18, <1>a DEF ReceiverCrash
  <2> QED
    BY <1>18, <1>b, <1>h, <2>1 DEF ReceiverCrash, FedTypes
<1>19. ASSUME UNCHANGED vars PROVE FedTypes' /\ Sealed'
  BY <1>19, <1>b, <1>h DEF vars, FedTypes
<1> QED
  BY <1>1, <1>2, <1>3, <1>4, <1>5, <1>6, <1>7, <1>8, <1>9, <1>10, <1>11, <1>12, <1>13, <1>14,
     <1>15, <1>16, <1>17, <1>18, <1>19, <1>20
  DEF Next, SendStep, DrainStep, ReceiveStep

(* Every variable has its type, the queue respects MAX_QUEUED_PER_PEER,    *)
(* and a request was sealed before it was posted.                          *)
THEOREM TypeCorrect == Spec => []TypeOK
<1>1. Spec => [](FedTypes /\ Sealed)
  BY FedTypesInit, FedTypesStep, PTL DEF Spec
<1> QED
  BY <1>1, FedTypesOK, PTL

-----------------------------------------------------------------------------
(***************************************************************************)
(* Steps, as the proofs below tell them apart: a step posts, a step of     *)
(* handle_inbound turns a request, and every other step is quiet.          *)
(***************************************************************************)
Quiet ==
    /\ reqs' \subseteq reqs /\ nonces' \subseteq nonces
    /\ UNCHANGED <<kind, seals, seen, drives, ahead>>
    /\ \A m \in Msgs : direct'[m] \in {"new", "queued"} => direct[m] \in {"new", "queued"}

Posting(m, n) ==
    /\ m \in Msgs /\ n \in Nat \ {0} /\ n <= seals'[m]
    /\ \/ direct[m] = "queued" /\ direct'[m] = "dial" /\ n = 1 /\ seals' = seals
       \/ /\ n = seals[m] + 1 /\ direct' = direct /\ seals[m] > 0
          /\ seals' = [seals EXCEPT ![m] = n]
    /\ \A x \in Msgs : x # m => direct'[x] = direct[x]
    /\ \E w \in Reqs : /\ reqs' = reqs \cup {w}
                       /\ w.m = m /\ w.nonce = n /\ w.st = "sent" /\ w.loaded = <<>>
    /\ UNCHANGED <<kind, nonces, seen, drives, ahead>>

(* w.st is what handle_inbound has come to with the request r.             *)
Handles(r, w) ==
    /\ Turns(r, w)
    /\ UNCHANGED <<kind, queue, dead, seals, direct, drain, ahead, fate>>
    /\ \/ /\ r.st = "sent" /\ nonces' = nonces \cup {<<r.m, r.nonce>>}
          /\ \/ w.st = "replayed" /\ <<r.m, r.nonce>> \in nonces /\ excused' = excused
             \/ w.st = "duplicate" /\ Contains(seen, r.m) /\ excused' = excused
             \/ /\ excused' = IF Inside(r.m) # {} \/ Contains(seen, r.m)
                              THEN excused \cup {r.m} ELSE excused
                /\ \/ w.st = "unknown"
                   \/ w.st = "handled" /\ kind[r.m] = "declined"
                   \/ w.st = "deliver" /\ kind[r.m] \notin {"unknown", "declined"}
          /\ w.loaded = <<>> /\ UNCHANGED <<seen, drives>>
       \/ /\ r.st = "deliver" /\ w.st = "handled" /\ w \in reqs'
          /\ drives' = [drives EXCEPT ![r.m] = @ + 1]
          /\ w.loaded = <<>> /\ UNCHANGED <<nonces, seen, excused>>
       \/ /\ r.st = "deliver" /\ w.st \in {"undelivered", "error"}
          /\ w.loaded = <<>> /\ UNCHANGED <<nonces, seen, drives, excused>>
       \/ /\ r.st = "handled" /\ w.st = "recording" /\ w \in reqs'
          /\ w.loaded \in {seen, <<>>} /\ UNCHANGED <<nonces, seen, drives, excused>>
       \/ /\ r.st = "recording" /\ w.loaded = <<>>
          /\ w.st = IF kind[r.m] = "declined" THEN "declined" ELSE "ok"
          /\ \/ seen' = seen /\ excused' = excused \cup {r.m}
             \/ Contains(r.loaded, r.m) /\ UNCHANGED <<seen, excused>>
             \/ /\ ~Contains(r.loaded, r.m) /\ seen' = record(r.loaded, r.m)
                /\ excused' = excused \cup (ToSet(seen) \ ToSet(seen'))
          /\ UNCHANGED <<nonces, drives>>

(* Every step of the receiving daemon is of one kind.                      *)
LEMMA HandleSteps ==
    ASSUME FedTypes, NEW r \in reqs, ReceiveStep(r)
    PROVE  \E w : Handles(r, w)
<1> USE DEF sender, history
<1>0. r \in Reqs
  BY DEF FedTypes, ReqsTyped
<1>1. CASE Receive(r)
  <2>1. {"replayed", "duplicate", "unknown", "handled", "deliver"} \subseteq States
    BY DEF States, Answers, Unrecorded
  <2>2. PICK st \in {"replayed", "duplicate", "unknown", "handled", "deliver"} :
          /\ Become(r, st)
          /\ \/ st = "replayed" /\ <<r.m, r.nonce>> \in nonces /\ excused' = excused
             \/ st = "duplicate" /\ Contains(seen, r.m) /\ excused' = excused
             \/ /\ excused' = IF Inside(r.m) # {} \/ Contains(seen, r.m)
                              THEN excused \cup {r.m} ELSE excused
                /\ \/ st = "unknown"
                   \/ st = "handled" /\ kind[r.m] = "declined"
                   \/ st = "deliver" /\ kind[r.m] \notin {"unknown", "declined"}
    BY <1>1, ReceiveFacts
  <2>3. PICK w : Turns(r, w) /\ w.st = st /\ w.loaded = <<>>
    BY <1>0, <2>1, <2>2, BecomeFacts
  <2>4. Handles(r, w)
    BY <1>1, <2>2, <2>3, ReceiveFacts DEF Handles
  <2> QED
    BY <2>4
<1>2. CASE Drive(r)
  <2>1. "handled" \in States /\ "handled" \notin Answers
    BY DEF States, Answers, Unrecorded
  <2>2. PICK w : Turns(r, w) /\ w.st = "handled" /\ w.loaded = <<>> /\ w \in reqs'
    BY <1>0, <1>2, <2>1, BecomeFacts DEF Drive
  <2>3. Handles(r, w)
    BY <1>2, <2>2 DEF Handles, Drive
  <2> QED
    BY <2>3
<1>3. CASE DriveFails(r)
  <2>1. {"undelivered", "error"} \subseteq States
    BY DEF States, Answers
  <2>2. PICK w : Turns(r, w) /\ w.st \in {"undelivered", "error"} /\ w.loaded = <<>>
    BY <1>0, <1>3, <2>1, BecomeFacts DEF DriveFails
  <2>3. Handles(r, w)
    BY <1>3, <2>2 DEF Handles, DriveFails
  <2> QED
    BY <2>3
<1>4. CASE RecordLoad(r)
  <2>0. PICK list \in {seen, <<>>} :
          reqs' = (reqs \ {r}) \cup {[r EXCEPT !.st = "recording", !.loaded = list]}
    BY <1>4 DEF RecordLoad
  <2> DEFINE w == [r EXCEPT !.st = "recording", !.loaded = list]
  <2>1. w \in Reqs /\ w.m = r.m /\ w.nonce = r.nonce /\ w.loaded = list /\ w.st = "recording"
    <3>1. "recording" \in States
      BY DEF States, Unrecorded
    <3>2. seen \in Seq(Msgs) /\ <<>> \in Seq(Msgs)
      BY DEF FedTypes
    <3>3. list \in Seq(Msgs)
      BY <3>2
    <3> QED
      BY <1>0, <3>1, <3>3 DEF Reqs
  <2>2. reqs' = (reqs \ {r}) \cup {w}
    BY <2>0
  <2> HIDE DEF w
  <2>3. Handles(r, w)
    BY <1>4, <2>0, <2>1, <2>2 DEF Handles, RecordLoad, Turns
  <2> QED
    BY <2>3
<1>5. CASE RecordSave(r)
  <2>1. {"declined", "ok"} \subseteq States
    BY DEF States, Answers
  <2>2. PICK w : /\ Turns(r, w) /\ w.loaded = <<>>
                 /\ w.st = IF kind[r.m] = "declined" THEN "declined" ELSE "ok"
    BY <1>0, <1>5, <2>1, BecomeFacts DEF RecordSave
  <2>3. \/ Contains(r.loaded, r.m) /\ UNCHANGED <<seen, excused>>
        \/ /\ ~Contains(r.loaded, r.m) /\ seen' = record(r.loaded, r.m)
           /\ excused' = excused \cup (ToSet(seen) \ ToSet(seen'))
    <3>1. CASE Contains(r.loaded, r.m)
      BY <1>5, <3>1 DEF RecordSave
    <3>2. CASE ~Contains(r.loaded, r.m)
      BY <1>5, <3>2 DEF RecordSave
    <3> QED
      BY <3>1, <3>2
  <2>4. Handles(r, w)
    BY <1>5, <2>2, <2>3 DEF Handles, RecordSave
  <2> QED
    BY <2>4
<1>6. CASE RecordSaveFails(r)
  <2>1. {"declined", "ok"} \subseteq States
    BY DEF States, Answers
  <2>2. PICK w : /\ Turns(r, w) /\ w.loaded = <<>>
                 /\ w.st = IF kind[r.m] = "declined" THEN "declined" ELSE "ok"
    BY <1>0, <1>6, <2>1, BecomeFacts DEF RecordSaveFails
  <2>3. Handles(r, w)
    BY <1>6, <2>2 DEF Handles, RecordSaveFails
  <2> QED
    BY <2>3
<1> QED
  BY <1>1, <1>2, <1>3, <1>4, <1>5, <1>6 DEF ReceiveStep

(* Every step is of one of four kinds.                                     *)
LEMMA StepKinds ==
    ASSUME FedTypes, Sealed, [Next]_vars
    PROVE  \/ Quiet
           \/ \E m \in Msgs : SendEnqueue(m)
           \/ \E m, n : Posting(m, n)
           \/ \E r \in reqs : \E w : Handles(r, w)
<1> USE DEF sender, history
<1>1. ASSUME NEW m \in Msgs, SendBehind(m) \/ SendAnswered(m) \/ SendFails(m) \/ SweepExpires(m)
      PROVE  Quiet
  <2>1. direct' = [direct EXCEPT ![m] = "done"] \/ direct' = direct
    BY <1>1 DEF SendBehind, SendAnswered, SendFails, SweepExpires
  <2>2. \A x \in Msgs : direct'[x] \in {"new", "queued"} => direct[x] \in {"new", "queued"}
    BY <2>1 DEF FedTypes
  <2>3. /\ reqs' \subseteq reqs /\ nonces' = nonces
        /\ UNCHANGED <<kind, seals, seen, drives, ahead>>
    BY <1>1 DEF SendBehind, SendAnswered, SendFails, SweepExpires
  <2> QED
    BY <2>2, <2>3 DEF Quiet
<1>2. ASSUME drain_peer \/ DrainAnswered \/ DrainFails PROVE Quiet
  BY <1>2, AnsweredFacts DEF drain_peer, Answered, DrainFails, Quiet
<1>3. ASSUME SenderCrash PROVE Quiet
  BY <1>3 DEF SenderCrash, Quiet
<1>4. ASSUME ReceiverCrash \/ UNCHANGED vars PROVE Quiet
  BY <1>4 DEF ReceiverCrash, Quiet, vars
<1>5. ASSUME NEW r \in reqs, RequestLost(r) PROVE Quiet
  BY <1>5 DEF RequestLost, Quiet
<1>6. ASSUME NEW m \in Msgs, SendDial(m) PROVE Posting(m, 1)
  <2>1. /\ direct[m] = "queued" /\ direct'[m] = "dial" /\ seals' = seals
        /\ \A x \in Msgs : x # m => direct'[x] = direct[x]
        /\ 1 <= seals'[m]
    BY <1>6 DEF SendDial, FedTypes, Sealed
  <2>2. \E w \in Reqs : /\ reqs' = reqs \cup {w}
                        /\ w.m = m /\ w.nonce = 1 /\ w.st = "sent" /\ w.loaded = <<>>
    BY <1>6, PostFacts DEF SendDial
  <2> QED
    BY <1>6, <2>1, <2>2 DEF SendDial, Posting
<1>7. ASSUME DrainDial PROVE Posting(DrainItem, NonceOf(DrainItem))
  <2> DEFINE m == DrainItem
             n == NonceOf(m)
  <2>1. m \in Msgs /\ seals[m] \in Nat /\ seals[m] > 0 /\ n = seals[m] + 1
    <3>1. drain.on /\ m = drain.items[1] /\ m \in Msgs /\ 1 \in DOMAIN drain.items
      BY <1>7, DrainFacts DEF DrainDial
    <3> QED
      BY <3>1 DEF FedTypes, Sealed, NonceOf
  <2>2. /\ seals' = [seals EXCEPT ![m] = n] /\ Post(m, n)
        /\ UNCHANGED <<kind, direct, nonces, seen, drives, ahead>>
    BY <1>7 DEF DrainDial
  <2> HIDE DEF m, n
  <2>3. n \in Nat \ {0} /\ seals'[m] = n
    BY <2>1, <2>2 DEF FedTypes
  <2>4. \E w \in Reqs : /\ reqs' = reqs \cup {w}
                        /\ w.m = m /\ w.nonce = n /\ w.st = "sent" /\ w.loaded = <<>>
    BY <2>1, <2>2, <2>3, PostFacts
  <2>5. Posting(m, n)
    BY <2>1, <2>2, <2>3, <2>4 DEF Posting
  <2> QED
    BY <2>5 DEF m, n
<1> QED
  BY <1>1, <1>2, <1>3, <1>4, <1>5, <1>6, <1>7, HandleSteps DEF Next, SendStep, DrainStep

-----------------------------------------------------------------------------
(***************************************************************************)
(* Nonces: an envelope is posted once under each nonce, so the replay      *)
(* guard of the receiver never fires for an honest sender.  Without this   *)
(* a drained message could be answered "replayed", which the drain takes   *)
(* for delivered, though no handler ever had it.                           *)
(***************************************************************************)
NonceInv ==
    /\ \A m \in Msgs : \A n \in Nat : <<m, n>> \in nonces => n <= seals[m]
    /\ \A r \in reqs : r.st # "replayed"
    /\ \A r \in reqs : r.st = "sent" => <<r.m, r.nonce>> \notin nonces
    /\ \A r, q \in reqs : r.m = q.m /\ r.nonce = q.nonce => r = q
    /\ \A m \in Msgs : direct[m] \in {"new", "queued"} =>
          <<m, 1>> \notin nonces /\ \A r \in reqs : r.m = m => r.nonce # 1

(* No request is under way.                                                *)
LEMMA NonceInvInit == Init => NonceInv
  BY DEF Init, NonceInv

(* Every step keeps the nonces told apart.                                 *)
LEMMA NonceInvStep == FedTypes /\ Sealed /\ NonceInv /\ [Next]_vars => NonceInv'
<1> SUFFICES ASSUME FedTypes, Sealed, NonceInv, [Next]_vars PROVE NonceInv'
  OBVIOUS
<1>0. /\ seals \in [Msgs -> Nat]
      /\ \A r \in reqs : r \in Reqs /\ r.m \in Msgs /\ r.nonce \in Nat \ {0} /\ r.nonce <= seals[r.m]
  BY DEF FedTypes, ReqsTyped, Reqs
<1>1. CASE Quiet
  BY <1>1 DEF Quiet, NonceInv
<1>2. CASE \E m \in Msgs : SendEnqueue(m)
  <2>1. PICK m \in Msgs : SendEnqueue(m)
    BY <1>2
  <2>2. seals' = [seals EXCEPT ![m] = 1] /\ seals[m] = 0 /\ direct[m] = "new"
        /\ direct' = [direct EXCEPT ![m] = "queued"] /\ reqs' = reqs /\ nonces' = nonces
    BY <2>1 DEF SendEnqueue, FedTypes, Sealed
  <2>3. \A x \in Msgs : direct'[x] \in {"new", "queued"} => direct[x] \in {"new", "queued"}
    BY <2>2 DEF FedTypes
  <2>4. \A x \in Msgs : \A n \in Nat : n <= seals[x] => n <= seals'[x]
    BY <1>0, <2>2
  <2> QED
    BY <2>2, <2>3, <2>4 DEF NonceInv
<1>3. CASE \E m, n : Posting(m, n)
  <2>1. PICK m, n : Posting(m, n)
    BY <1>3
  <2>2. PICK w \in Reqs : /\ reqs' = reqs \cup {w}
                          /\ w.m = m /\ w.nonce = n /\ w.st = "sent" /\ w.loaded = <<>>
    BY <2>1 DEF Posting
  <2>3. m \in Msgs /\ n \in Nat \ {0} /\ nonces' = nonces
    BY <2>1 DEF Posting
  <2>4. <<m, n>> \notin nonces /\ \A r \in reqs : r.m = m => r.nonce # n
    <3>1. CASE direct[m] = "queued" /\ n = 1
      BY <2>3, <3>1 DEF NonceInv
    <3>2. CASE n = seals[m] + 1
      <4>1. seals[m] \in Nat /\ ~(n <= seals[m])
        BY <1>0, <2>3, <3>2
      <4> QED
        BY <1>0, <2>3, <4>1 DEF NonceInv
    <3> QED
      BY <2>1, <3>1, <3>2 DEF Posting
  <2>5. \A x \in Msgs : \A k \in Nat : k <= seals[x] => k <= seals'[x]
    BY <1>0, <2>1 DEF Posting
  <2>6. \A x \in Msgs : direct'[x] \in {"new", "queued"} =>
          direct[x] \in {"new", "queued"} /\ (x = m => n # 1)
    <3>1. CASE direct[m] = "queued" /\ direct'[m] = "dial"
      BY <2>1, <3>1 DEF Posting
    <3>2. CASE n = seals[m] + 1 /\ direct' = direct /\ seals[m] > 0
      BY <1>0, <2>3, <3>2
    <3> QED
      BY <2>1, <3>1, <3>2 DEF Posting
  <2>7. \A x \in Msgs : \A k \in Nat : <<x, k>> \in nonces' => k <= seals'[x]
    BY <2>3, <2>5 DEF NonceInv
  <2>8. /\ \A r \in reqs' : r.st # "replayed"
        /\ \A r \in reqs' : r.st = "sent" => <<r.m, r.nonce>> \notin nonces'
        /\ \A r, q \in reqs' : r.m = q.m /\ r.nonce = q.nonce => r = q
    BY <2>2, <2>3, <2>4 DEF NonceInv
  <2>9. \A x \in Msgs : direct'[x] \in {"new", "queued"} =>
          <<x, 1>> \notin nonces' /\ \A r \in reqs' : r.m = x => r.nonce # 1
    BY <2>2, <2>3, <2>6 DEF NonceInv
  <2> QED
    BY <2>7, <2>8, <2>9 DEF NonceInv
<1>4. CASE \E r \in reqs : \E w : Handles(r, w)
  <2>0. PICK r \in reqs : \E w : Handles(r, w)
    BY <1>4
  <2>1. PICK w : Handles(r, w)
    BY <2>0
  <2>2. /\ w.m = r.m /\ w.nonce = r.nonce /\ reqs' \subseteq (reqs \ {r}) \cup {w}
        /\ seals' = seals /\ direct' = direct
    BY <2>1 DEF Handles, Turns
  <2>3. /\ w.st # "sent" /\ (w.st = "replayed" => r.st = "sent" /\ <<r.m, r.nonce>> \in nonces)
        /\ nonces' \in {nonces, nonces \cup {<<r.m, r.nonce>>}}
    BY <2>1 DEF Handles
  <2>4. w.st # "replayed"
    BY <2>3 DEF NonceInv
  <2>5. \A q \in reqs' : q = w \/ (q \in reqs /\ ~(q.m = r.m /\ q.nonce = r.nonce))
    BY <2>2 DEF NonceInv
  <2>6. /\ \A q \in reqs' : q.st # "replayed"
        /\ \A p, q \in reqs' : p.m = q.m /\ p.nonce = q.nonce => p = q
    BY <2>2, <2>4, <2>5 DEF NonceInv
  <2>7. \A q \in reqs' : q.st = "sent" => <<q.m, q.nonce>> \notin nonces'
    BY <2>3, <2>5 DEF NonceInv
  <2>8. \A x \in Msgs : \A k \in Nat : <<x, k>> \in nonces' => k <= seals'[x]
    BY <1>0, <2>2, <2>3 DEF NonceInv
  <2>9. \A x \in Msgs : direct'[x] \in {"new", "queued"} =>
          <<x, 1>> \notin nonces' /\ \A q \in reqs' : q.m = x => q.nonce # 1
    BY <2>2, <2>3, <2>5 DEF NonceInv
  <2> QED
    BY <2>6, <2>7, <2>8, <2>9 DEF NonceInv
<1> QED
  BY <1>1, <1>2, <1>3, <1>4, StepKinds

-----------------------------------------------------------------------------
(***************************************************************************)
(* No message is lost without a trace.                                     *)
(***************************************************************************)

(* What became of a message for good.                                      *)
Gone(m) == drives[m] > 0 \/ m \in dead \/ fate[m] # "none"

(* A handler may record m: it was delivered, or is to be declined.         *)
Handled(m) == drives[m] > 0 \/ kind[m] = "declined"

(* What the receiver says of a message is so: the seen list, which answers *)
(* "duplicate", and an answer that lets the sender drop its copy.          *)
Truthful ==
    /\ \A n \in DOMAIN seen : Handled(seen[n])
    /\ \A r \in reqs : \A n \in DOMAIN r.loaded : Handled(r.loaded[n])
    /\ \A r \in reqs : r.st \in {"handled", "recording", "duplicate"} => Handled(r.m)
    /\ \A r \in reqs : r.st = "ok" => drives[r.m] > 0

(* What became of a message stays.                                         *)
LEMMA Lasting ==
    ASSUME FedTypes, Sealed, [Next]_vars
    PROVE  /\ \A m \in Msgs : drives[m] > 0 => drives'[m] > 0
           /\ \A m \in Msgs : fate[m] # "none" => fate'[m] # "none"
           /\ dead \subseteq dead' /\ kind' = kind
           /\ \A m \in Msgs : seals[m] > 0 => seals'[m] > 0
<1> USE DEF sender, history
<1>1. \A m \in Msgs : drives[m] > 0 => drives'[m] > 0
  <2>1. ASSUME NEW r \in reqs, NEW w, Handles(r, w) PROVE \A m \in Msgs : drives[m] > 0 => drives'[m] > 0
    <3>1. r.m \in Msgs
      BY DEF FedTypes, ReqsTyped, Reqs
    <3>2. drives' = drives \/ drives' = [drives EXCEPT ![r.m] = @ + 1]
      BY <2>1 DEF Handles
    <3>3. \A m \in Msgs : drives[m] \in Nat /\ (drives'[m] = drives[m] \/ drives'[m] = drives[m] + 1)
      BY <3>1, <3>2 DEF FedTypes
    <3> QED
      BY <3>3
  <2> QED
    BY <2>1, StepKinds DEF Quiet, SendEnqueue, Posting
<1>2. \A m \in Msgs : fate[m] # "none" => fate'[m] # "none"
  <2>1. ASSUME NEW m \in Msgs, enqueue(m) PROVE \A x \in Msgs : fate[x] # "none" => fate'[x] # "none"
    BY <2>1, EnqueueTypes
  <2>2. ASSUME NEW m \in Msgs, SendStep(m) \/ SweepExpires(m)
        PROVE  \A x \in Msgs : fate[x] # "none" => fate'[x] # "none"
    <3>1. SendAnswered(m) => fate' = fate \/ \E why \in Fates : Given(m, why)
      BY DEF SendAnswered, Fates, Answers
    <3>2. \/ \E why \in Fates : Given(m, why)
          \/ enqueue(m)
          \/ fate' = fate
      BY <2>2, <3>1 DEF SendStep, SendEnqueue, SendBehind, SendDial, SendFails, SweepExpires
    <3> QED
      BY <2>1, <3>2, GivenFacts
  <2>3. ASSUME drain_peer \/ DrainStep
        PROVE  \A x \in Msgs : fate[x] # "none" => fate'[x] # "none"
    <3>1. DrainDial => \E m \in Msgs : enqueue(m)
      BY DrainFacts DEF DrainDial
    <3>2. DrainAnswered => \A x \in Msgs : fate[x] # "none" => fate'[x] # "none"
      BY AnsweredFacts DEF Answered
    <3> QED
      BY <2>1, <2>3, <3>1, <3>2 DEF drain_peer, DrainStep, DrainFails
  <2>4. ASSUME NEW r \in reqs, ReceiveStep(r) \/ RequestLost(r)
        PROVE  \A x \in Msgs : fate[x] # "none" => fate'[x] # "none"
    BY <2>4 DEF ReceiveStep, Receive, Drive, DriveFails, RecordLoad, RecordSave, RecordSaveFails, RequestLost
  <2>5. ASSUME SenderCrash \/ ReceiverCrash \/ UNCHANGED vars PROVE fate' = fate
    BY <2>5 DEF SenderCrash, ReceiverCrash, vars
  <2> QED
    BY <2>2, <2>3, <2>4, <2>5 DEF Next
<1>3. dead \subseteq dead' /\ kind' = kind
  <2>1. ASSUME NEW m \in Msgs, SendStep(m) \/ SweepExpires(m) PROVE dead \subseteq dead' /\ kind' = kind
    BY <2>1 DEF SendStep, SendEnqueue, SendBehind, SendDial, SendAnswered, SendFails, SweepExpires
  <2>2. ASSUME drain_peer \/ DrainStep PROVE dead \subseteq dead' /\ kind' = kind
    BY <2>2, AnsweredFacts DEF drain_peer, DrainStep, DrainDial, Answered, DrainFails
  <2>3. ASSUME NEW r \in reqs, ReceiveStep(r) \/ RequestLost(r) PROVE dead \subseteq dead' /\ kind' = kind
    BY <2>3 DEF ReceiveStep, Receive, Drive, DriveFails, RecordLoad, RecordSave, RecordSaveFails, RequestLost
  <2>4. ASSUME SenderCrash \/ ReceiverCrash \/ UNCHANGED vars PROVE dead \subseteq dead' /\ kind' = kind
    BY <2>4 DEF SenderCrash, ReceiverCrash, vars
  <2> QED
    BY <2>1, <2>2, <2>3, <2>4 DEF Next
<1>4. \A m \in Msgs : seals[m] > 0 => seals'[m] > 0
  <2>1. \A m \in Msgs : SendEnqueue(m) => seals' = [seals EXCEPT ![m] = 1]
    BY DEF SendEnqueue
  <2>2. \A m, n : Posting(m, n) => seals' = seals \/ (n \in Nat \ {0} /\ seals' = [seals EXCEPT ![m] = n])
    BY DEF Posting
  <2>3. Quiet => seals' = seals
    BY DEF Quiet
  <2>4. \A r \in reqs : \A w : Handles(r, w) => seals' = seals
    BY DEF Handles
  <2>5. \/ seals' = seals
        \/ \E m \in Msgs : \E n \in Nat \ {0} : seals' = [seals EXCEPT ![m] = n]
    <3>1. \A m, n : Posting(m, n) => m \in Msgs
      BY DEF Posting
    <3> QED
      BY <2>1, <2>2, <2>3, <2>4, <3>1, StepKinds
  <2>6. ASSUME NEW m \in Msgs, NEW n \in Nat \ {0}, seals' = [seals EXCEPT ![m] = n]
        PROVE  \A x \in Msgs : seals[x] > 0 => seals'[x] > 0
    <3>1. seals \in [Msgs -> Nat] /\ n > 0
      BY DEF FedTypes
    <3>2. \A x \in Msgs : seals'[x] = seals[x] \/ seals'[x] = n
      BY <2>6, <3>1
    <3> QED
      BY <3>1, <3>2
  <2> QED
    BY <2>5, <2>6
<1> QED
  BY <1>1, <1>2, <1>3, <1>4

(* Nothing has been answered.                                              *)
LEMMA TruthfulInit == Init => Truthful
  BY DEF Init, Truthful

(* Every step keeps the answers true.                                      *)
LEMMA TruthfulStep == FedTypes /\ Sealed /\ Truthful /\ [Next]_vars => Truthful'
<1> SUFFICES ASSUME FedTypes, Sealed, Truthful, [Next]_vars PROVE Truthful'
  OBVIOUS
<1> DEFINE H1(m) == drives'[m] > 0 \/ kind'[m] = "declined"
<1>0. /\ \A m \in Msgs : Handled(m) => H1(m)
      /\ \A m \in Msgs : drives[m] > 0 => drives'[m] > 0
      /\ kind' = kind
  BY Lasting DEF Handled
<1>1. /\ \A n \in DOMAIN seen : seen[n] \in Msgs /\ Handled(seen[n])
      /\ \A r \in reqs : /\ r.m \in Msgs /\ r.loaded \in Seq(Msgs) /\ Len(r.loaded) <= SEEN_CAP
                         /\ \A n \in DOMAIN r.loaded : r.loaded[n] \in Msgs /\ Handled(r.loaded[n])
  <2>1. seen \in Seq(Msgs) /\ \A r \in reqs : r.m \in Msgs /\ r.loaded \in Seq(Msgs) /\ Len(r.loaded) <= SEEN_CAP
    BY DEF FedTypes, ReqsTyped, Reqs
  <2> QED
    BY <2>1 DEF Truthful, Handled
<1>2. ASSUME NEW r \in reqs
      PROVE  /\ \A n \in DOMAIN r.loaded : H1(r.loaded[n])
             /\ r.st \in {"handled", "recording", "duplicate"} => H1(r.m)
             /\ r.st = "ok" => drives'[r.m] > 0
  BY <1>0, <1>1 DEF Truthful, Handled
<1>3. ASSUME seen' = seen PROVE \A n \in DOMAIN seen' : H1(seen'[n])
  BY <1>0, <1>1, <1>3
<1>4. CASE Quiet
  <2>1. reqs' \subseteq reqs /\ seen' = seen
    BY <1>4 DEF Quiet
  <2> QED
    BY <1>2, <1>3, <2>1 DEF Truthful, Handled
<1>5. CASE \E m \in Msgs : SendEnqueue(m)
  <2>1. reqs' = reqs /\ seen' = seen
    BY <1>5 DEF SendEnqueue
  <2> QED
    BY <1>2, <1>3, <2>1 DEF Truthful, Handled
<1>6. CASE \E m, n : Posting(m, n)
  <2>1. seen' = seen /\ \A q \in reqs' : q \in reqs \/ (q.st = "sent" /\ q.loaded = <<>>)
    BY <1>6 DEF Posting
  <2> QED
    BY <1>2, <1>3, <2>1 DEF Truthful, Handled
<1>7. CASE \E r \in reqs : \E w : Handles(r, w)
  <2>0. PICK r \in reqs : \E w : Handles(r, w)
    BY <1>7
  <2>1. PICK w : Handles(r, w)
    BY <2>0
  <2>2. w.m = r.m /\ r.m \in Msgs /\ \A q \in reqs' : q \in reqs \/ q = w
    BY <1>1, <2>1 DEF Handles, Turns
  <2>3. \A n \in DOMAIN w.loaded : H1(w.loaded[n])
    <3>1. w.loaded = <<>> \/ w.loaded = seen
      BY <2>1 DEF Handles
    <3> QED
      BY <1>0, <1>1, <3>1
  <2>4. w.st \in {"handled", "recording"} => H1(w.m)
    <3>1. CASE kind[r.m] = "declined"
      BY <1>0, <2>2, <3>1 DEF Handled
    <3>2. CASE r.st = "deliver" /\ drives' = [drives EXCEPT ![r.m] = @ + 1]
      <4>1. drives'[r.m] = drives[r.m] + 1 /\ drives[r.m] \in Nat
        BY <2>2, <3>2 DEF FedTypes
      <4>2. drives'[r.m] > 0
        BY <4>1
      <4> QED
        BY <2>2, <4>2 DEF Handled
    <3>3. CASE r.st = "handled"
      BY <1>2, <2>2, <3>3
    <3> QED
      BY <2>1, <3>1, <3>2, <3>3 DEF Handles
  <2>5. w.st = "duplicate" => H1(w.m)
    <3>1. w.st = "duplicate" => Contains(seen, r.m)
      BY <2>1 DEF Handles
    <3>2. Contains(seen, r.m) => \E n \in DOMAIN seen : seen[n] = r.m
      BY DEF Contains, FedTypes
    <3> QED
      BY <1>0, <1>1, <2>2, <3>1, <3>2
  <2>6. w.st = "ok" => drives'[w.m] > 0
    <3>1. w.st = "ok" => r.st = "recording" /\ kind[r.m] # "declined"
      BY <2>1 DEF Handles
    <3> QED
      BY <1>0, <1>2, <2>2, <3>1
  <2>7. \A n \in DOMAIN seen' : H1(seen'[n])
    <3>1. CASE seen' = seen
      BY <1>3, <3>1
    <3>2. CASE r.st = "recording" /\ seen' = record(r.loaded, r.m)
      <4>1. \A n \in DOMAIN seen' : seen'[n] = r.m \/ \E k \in DOMAIN r.loaded : seen'[n] = r.loaded[k]
        BY <1>1, <3>2, RecordFacts
      <4> QED
        BY <1>2, <3>2, <4>1
    <3> QED
      BY <2>1, <3>1, <3>2 DEF Handles
  <2> QED
    BY <1>2, <2>2, <2>3, <2>4, <2>5, <2>6, <2>7 DEF Truthful, Handled
<1> QED
  BY <1>4, <1>5, <1>6, <1>7, StepKinds

(* What the drain takes out of the queue has met its fate.                 *)
LEMMA AnsweredGone ==
    ASSUME FedTypes, Sealed, NonceInv, Truthful, [Next]_vars, NEW r, NEW written, Answered(r, written),
           Disposition(r.st) # "retry", NEW m, m = DrainItem
    PROVE  Gone(m)'
<1>1. /\ r \in reqs /\ r.m = DrainItem /\ DrainItem \in Msgs /\ r.st \in Answers
      /\ Disposition(r.st) \in {"dead_letter", "delivered"}
  BY DEF Answered
<1> SUFFICES drives'[m] > 0 \/ m \in dead' \/ fate'[m] # "none"
  BY DEF Gone
<1>2. CASE ~written
  BY <1>2 DEF Answered
<1>3. CASE written /\ Disposition(r.st) = "dead_letter"
  BY <1>3 DEF Answered
<1>4. CASE written /\ Disposition(r.st) = "delivered"
  <2>1. r.st \in {"ok", "duplicate"}
    <3>1. r.st # "replayed"
      BY <1>1 DEF NonceInv
    <3> QED
      BY <1>1, <1>4, <3>1 DEF Disposition, Answers
  <2>2. drives[m] > 0 \/ (r.st = "duplicate" /\ kind[r.m] = "declined")
    BY <1>1, <2>1 DEF Truthful, Handled
  <2>3. r.st = "duplicate" /\ kind[r.m] = "declined" => fate'[m] # "none"
    BY DEF Answered
  <2> QED
    BY <1>1, <2>2, <2>3, Lasting
<1> QED
  BY <1>1, <1>2, <1>3, <1>4

(* A message leaves the queue only when something became of it.            *)
LEMMA LeavesQueue ==
    ASSUME FedTypes, Sealed, NonceInv, Truthful, [Next]_vars, NEW m \in Msgs,
           m \in queue \/ (seals[m] = 0 /\ seals'[m] > 0)
    PROVE  m \in queue' \/ Gone(m)'
<1> USE DEF sender, history
<1>1. ASSUME NEW x \in Msgs, enqueue(x), m \in queue \/ x = m PROVE m \in queue' \/ Gone(m)'
  BY <1>1, EnqueueTypes DEF Gone
<1>2. ASSUME NEW x \in Msgs, SendEnqueue(x) PROVE m \in queue' \/ Gone(m)'
  <2>1. enqueue(x) /\ seals' = [seals EXCEPT ![x] = 1]
    BY <1>2 DEF SendEnqueue
  <2>2. x # m => m \in queue
    BY <2>1 DEF FedTypes
  <2> QED
    BY <1>1, <2>1, <2>2
<1>3. ASSUME seals' = seals, queue' = queue PROVE m \in queue' \/ Gone(m)'
  BY <1>3 DEF FedTypes
<1>4. ASSUME NEW x \in Msgs, SendBehind(x) \/ SendDial(x) \/ SendFails(x) PROVE m \in queue' \/ Gone(m)'
  BY <1>3, <1>4 DEF SendBehind, SendDial, SendFails
<1>5. ASSUME NEW x \in Msgs, SendAnswered(x) PROVE m \in queue' \/ Gone(m)'
  <2>1. PICK r \in ReqOf(x, 1) :
          /\ IF r.st \in {"ok", "declined", "undelivered"}
               THEN queue' = queue \ {x} /\ Given(x, IF r.st = "ok" THEN "none" ELSE r.st)
               ELSE UNCHANGED <<queue, fate>>
    BY <1>5 DEF SendAnswered
  <2>2. r \in reqs /\ r.m = x
    BY <2>1 DEF ReqOf
  <2>3. m \in queue
    BY <1>5 DEF SendAnswered, FedTypes
  <2>4. CASE r.st \in {"declined", "undelivered"}
    <3>1. r.st \in Fates /\ r.st # "none" /\ Given(x, r.st) /\ queue' = queue \ {x}
      BY <2>1, <2>4 DEF Fates
    <3>2. fate'[x] # "none"
      BY <3>1, GivenFacts
    <3> QED
      BY <2>3, <3>1, <3>2 DEF Gone
  <2>5. CASE r.st = "ok"
    <3>1. drives[x] > 0 /\ queue' = queue \ {x}
      BY <2>1, <2>2, <2>5 DEF Truthful
    <3> QED
      BY <2>3, <3>1, Lasting DEF Gone
  <2>6. CASE r.st \notin {"ok", "declined", "undelivered"}
    BY <2>1, <2>3, <2>6
  <2> QED
    BY <2>4, <2>5, <2>6
<1>6. ASSUME NEW x \in Msgs, SweepExpires(x) PROVE m \in queue' \/ Gone(m)'
  <2>1. queue' = queue \ {x} /\ dead' = dead \cup {x} /\ seals' = seals
    BY <1>6 DEF SweepExpires
  <2> QED
    BY <2>1 DEF Gone, FedTypes
<1>7. ASSUME drain_peer \/ DrainFails PROVE m \in queue' \/ Gone(m)'
  BY <1>3, <1>7 DEF drain_peer, DrainFails
<1>8. ASSUME DrainDial PROVE m \in queue' \/ Gone(m)'
  <2>1. enqueue(DrainItem) /\ DrainItem \in Msgs /\ seals' = [seals EXCEPT ![DrainItem] = NonceOf(DrainItem)]
        /\ seals[DrainItem] > 0
    BY <1>8, DrainFacts DEF DrainDial, FedTypes, Sealed
  <2>2. m \in queue
    BY <2>1 DEF FedTypes
  <2> QED
    BY <1>1, <2>1, <2>2
<1>9. ASSUME DrainAnswered PROVE m \in queue' \/ Gone(m)'
  <2>0. PICK r : \E written : Answered(r, written)
    BY <1>9, AnsweredFacts
  <2>1. PICK written : Answered(r, written)
    BY <2>0
  <2>2. m \in queue
    BY <2>1 DEF Answered, FedTypes
  <2>3. CASE Disposition(r.st) = "retry"
    BY <2>1, <2>2, <2>3 DEF Answered
  <2>4. CASE Disposition(r.st) # "retry" /\ m # DrainItem
    BY <2>1, <2>2, <2>4 DEF Answered
  <2>5. CASE Disposition(r.st) # "retry" /\ m = DrainItem
    BY <2>1, <2>5, AnsweredGone
  <2> QED
    BY <2>3, <2>4, <2>5
<1>10. ASSUME NEW r \in reqs, ReceiveStep(r) \/ RequestLost(r) PROVE m \in queue' \/ Gone(m)'
  BY <1>3, <1>10 DEF ReceiveStep, Receive, Drive, DriveFails, RecordLoad, RecordSave, RecordSaveFails, RequestLost
<1>11. ASSUME SenderCrash \/ ReceiverCrash \/ UNCHANGED vars PROVE m \in queue' \/ Gone(m)'
  BY <1>3, <1>11 DEF SenderCrash, ReceiverCrash, vars
<1> QED
  BY <1>2, <1>4, <1>5, <1>6, <1>7, <1>8, <1>9, <1>10, <1>11 DEF Next, SendStep, DrainStep

(* A sealed message that leaves the queue has met its fate.                *)
LEMMA NothingVanishesStep ==
    FedTypes /\ Sealed /\ NonceInv /\ Truthful /\ NothingVanishes /\ [Next]_vars => NothingVanishes'
<1> SUFFICES ASSUME FedTypes, Sealed, NonceInv, Truthful, NothingVanishes, [Next]_vars,
                    NEW m \in Msgs, seals'[m] > 0
             PROVE  m \in queue' \/ Gone(m)'
  BY DEF NothingVanishes, Gone
<1>1. CASE seals[m] = 0 \/ m \in queue
  BY <1>1, LeavesQueue
<1>2. CASE seals[m] # 0 /\ m \notin queue
  <2>1. seals[m] > 0
    BY <1>2 DEF FedTypes
  <2>2. Gone(m)
    BY <1>2, <2>1 DEF NothingVanishes, Gone
  <2> QED
    BY <2>2, Lasting DEF Gone
<1> QED
  BY <1>1, <1>2

(* A message accepted from a user is queued, or reached the chat, or was   *)
(* dead-lettered or evicted, or its sender was told by the peer's own      *)
(* answer that it did not land, or met one of the two ends that leave      *)
(* nothing behind: a decline whose answer was lost, and a dead letter that *)
(* could not be written.  Nothing else that handle_send, the drain, the    *)
(* sweep, lost answers, file errors and restarts do loses one.             *)
THEOREM NoneLost == Spec => []NothingVanishes
<1> DEFINE Inv == FedTypes /\ Sealed /\ NonceInv /\ Truthful /\ NothingVanishes
<1>1. Init => Inv
  <2>1. Init => NothingVanishes
    BY FederationAssumption DEF Init, NothingVanishes
  <2> QED
    BY <2>1, FedTypesInit, NonceInvInit, TruthfulInit
<1>2. Inv /\ [Next]_vars => Inv'
  BY FedTypesStep, NonceInvStep, TruthfulStep, NothingVanishesStep
<1> QED
  BY <1>1, <1>2, PTL DEF Spec

-----------------------------------------------------------------------------
(***************************************************************************)
(* Messages arrive in the order in which they were queued.                 *)
(***************************************************************************)
Earlier(m) == {o \in ahead[m] : o < m}

(* Nothing is posted before what was queued ahead of it is gone for good,  *)
(* and what is not gone yet comes first in the drain's snapshot.           *)
InLine ==
    /\ \A r \in reqs : \A o \in Earlier(r.m) : Gone(o)
    /\ \A k \in DOMAIN drain.items : \A o \in Earlier(drain.items[k]) :
          Gone(o) \/ \E l \in 1..(k - 1) : drain.items[l] = o

(* Nothing is queued.                                                      *)
LEMMA InLineInit == Init => InLine
  BY DEF Init, InLine, NoDrain

(* Every step keeps what is ahead in line.                                 *)
LEMMA InLineStep ==
    FedTypes /\ Sealed /\ NonceInv /\ Truthful /\ NothingVanishes /\ InLine /\ [Next]_vars => InLine'
<1> SUFFICES ASSUME FedTypes, Sealed, NonceInv, Truthful, NothingVanishes, InLine, [Next]_vars PROVE InLine'
  OBVIOUS
<1> USE DEF sender, history
<1> DEFINE G1(o) == drives'[o] > 0 \/ o \in dead' \/ fate'[o] # "none"
           E1(m) == {o \in ahead'[m] : o < m}
           Line1 == \A k \in DOMAIN drain'.items : \A o \in E1(drain'.items[k]) :
                       G1(o) \/ \E l \in 1..(k - 1) : drain'.items[l] = o
<1>0. /\ \A o \in Msgs : Gone(o) => G1(o)
      /\ \A m \in Msgs : Earlier(m) \subseteq Msgs
      /\ \A r \in reqs : r.m \in Msgs
      /\ \A k \in DOMAIN drain.items : drain.items[k] \in Msgs
  BY Lasting, SMTT(30) DEF Gone, Earlier, FedTypes, ReqsTyped, Reqs
<1>1. ASSUME ahead' = ahead, \A q \in reqs' : \E r \in reqs : q.m = r.m
      PROVE  \A q \in reqs' : \A o \in E1(q.m) : G1(o)
  BY <1>0, <1>1 DEF InLine, Earlier
<1>2. ASSUME ahead' = ahead, drain'.items = drain.items PROVE Line1
  BY <1>0, <1>2 DEF InLine, Earlier
<1>3. ASSUME drain' = NoDrain PROVE Line1
  BY <1>3 DEF NoDrain
<1> SUFFICES (\A q \in reqs' : \A o \in E1(q.m) : G1(o)) /\ Line1
  BY DEF InLine, Gone, Earlier
<1>4. ASSUME NEW m \in Msgs, SendEnqueue(m) PROVE (\A q \in reqs' : \A o \in E1(q.m) : G1(o)) /\ Line1
  <2>1. reqs' = reqs /\ drain' = drain /\ ahead' = [ahead EXCEPT ![m] = queue] /\ seals[m] = 0
    BY <1>4 DEF SendEnqueue, Sealed
  <2>2. (\A r \in reqs : r.m # m) /\ \A k \in DOMAIN drain.items : drain.items[k] # m
    <3>1. \A r \in reqs : r.nonce \in 1..seals[r.m]
      BY DEF FedTypes, ReqsTyped
    <3> QED
      BY <2>1, <3>1 DEF Sealed
  <2>3. \A x \in Msgs : x # m => E1(x) = Earlier(x)
    BY <2>1 DEF FedTypes, Earlier
  <2>4. \A q \in reqs' : \A o \in E1(q.m) : G1(o)
    BY <1>0, <2>1, <2>2, <2>3 DEF InLine
  <2>5. Line1
    BY <1>0, <2>1, <2>2, <2>3 DEF InLine
  <2> QED
    BY <2>4, <2>5
<1>5. ASSUME NEW m \in Msgs, SendBehind(m) \/ SendAnswered(m) \/ SendFails(m) \/ SweepExpires(m)
      PROVE  (\A q \in reqs' : \A o \in E1(q.m) : G1(o)) /\ Line1
  BY <1>1, <1>2, <1>5 DEF SendBehind, SendAnswered, SendFails, SweepExpires
<1>6. ASSUME NEW m \in Msgs, SendDial(m) PROVE (\A q \in reqs' : \A o \in E1(q.m) : G1(o)) /\ Line1
  <2>1. Line1 /\ ahead' = ahead
    BY <1>2, <1>6 DEF SendDial
  <2>2. \A q \in reqs' : q \in reqs \/ q.m = m
    BY <1>6, PostFacts DEF SendDial
  <2>3. \A o \in Earlier(m) : Gone(o)
    <3> SUFFICES ASSUME NEW o \in Earlier(m) PROVE Gone(o)
      OBVIOUS
    <3>1. o \in Msgs /\ o < m /\ m \in Int /\ o \in ahead[m]
      <4>1. \A x \in Msgs : x \in Int
        BY FederationAssumption DEF Msgs
      <4>2. o \in ahead[m] /\ o < m /\ ahead[m] \in SUBSET Msgs
        BY DEF Earlier, FedTypes
      <4> QED
        BY <4>1, <4>2
    <3>2. o \notin queue
      <4>1. o # m
        BY <3>1
      <4> QED
        BY <1>6, <4>1 DEF SendDial, QueuedAhead
    <3>3. seals[o] > 0
      BY <3>1 DEF Sealed
    <3> QED
      BY <3>1, <3>2, <3>3 DEF NothingVanishes, Gone
  <2>4. \A q \in reqs' : \A o \in E1(q.m) : G1(o)
    BY <1>0, <2>1, <2>2, <2>3 DEF InLine, Earlier
  <2> QED
    BY <2>1, <2>4
<1>7. ASSUME drain_peer PROVE (\A q \in reqs' : \A o \in E1(q.m) : G1(o)) /\ Line1
  <2>1. reqs' = reqs /\ ahead' = ahead /\ queue \in SUBSET Msgs
    BY <1>7 DEF drain_peer, FedTypes
  <2> DEFINE s == Sorted(queue)
  <2>2. drain'.items = s
    BY <1>7 DEF drain_peer
  <2>3. /\ DOMAIN s = 1..Cardinality(queue) /\ Cardinality(queue) \in Nat
        /\ \A k \in DOMAIN s : s[k] \in queue
        /\ \A x \in queue : \E k \in DOMAIN s : s[k] = x
        /\ \A i, j \in DOMAIN s : i < j => s[i] < s[j]
    BY <2>1, SortedFacts, MsgsFinite
  <2> HIDE DEF s
  <2>4. Line1
    <3> SUFFICES ASSUME NEW k \in DOMAIN s, NEW o \in Earlier(s[k])
                 PROVE  G1(o) \/ \E l \in 1..(k - 1) : s[l] = o
      BY <2>1, <2>2 DEF Earlier
    <3>1. s[k] \in Msgs /\ o \in Msgs /\ o < s[k] /\ o \in ahead[s[k]] /\ k \in Int /\ \A x \in Msgs : x \in Int
      <4>1. \A x \in Msgs : x \in Int
        BY FederationAssumption DEF Msgs
      <4>2. s[k] \in Msgs
        BY <2>1, <2>3
      <4>3. o \in ahead[s[k]] /\ o < s[k] /\ ahead[s[k]] \in SUBSET Msgs
        BY <4>2 DEF Earlier, FedTypes
      <4>4. k \in Int
        BY <2>3
      <4> QED
        BY <4>1, <4>2, <4>3, <4>4
    <3>2. CASE o \in queue
      <4>1. PICK l \in DOMAIN s : s[l] = o
        BY <2>3, <3>2
      <4>2. ~(k < l) /\ k # l
        BY <2>3, <3>1, <4>1
      <4>3. l \in 1..(k - 1)
        BY <2>3, <3>1, <4>2
      <4> QED
        BY <4>1, <4>3
    <3>3. CASE o \notin queue
      <4>1. seals[o] > 0
        BY <3>1 DEF Sealed
      <4>2. Gone(o)
        BY <3>1, <3>3, <4>1 DEF NothingVanishes, Gone
      <4> QED
        BY <1>0, <3>1, <4>2
    <3> QED
      BY <3>2, <3>3
  <2> QED
    BY <1>1, <2>1, <2>4
<1>8. ASSUME DrainDial PROVE (\A q \in reqs' : \A o \in E1(q.m) : G1(o)) /\ Line1
  <2>1. drain.on /\ ahead' = ahead /\ drain' = [drain EXCEPT !.wait = NonceOf(DrainItem)]
    BY <1>8 DEF DrainDial
  <2>2. drain'.items = drain.items
    BY <2>1 DEF FedTypes
  <2>3. Line1
    BY <1>2, <2>1, <2>2
  <2> DEFINE m == DrainItem
  <2>4. m \in Msgs /\ 1 \in DOMAIN drain.items /\ m = drain.items[1]
    BY <2>1, DrainFacts
  <2>5. \A q \in reqs' : q \in reqs \/ q.m = m
    BY <1>8 DEF DrainDial, Post
  <2>6. \A o \in Earlier(m) : Gone(o)
    BY <2>4 DEF InLine
  <2> HIDE DEF m
  <2>7. \A q \in reqs' : \A o \in E1(q.m) : G1(o)
    BY <1>0, <2>1, <2>4, <2>5, <2>6 DEF InLine, Earlier
  <2> QED
    BY <2>3, <2>7
<1>9. ASSUME DrainAnswered PROVE (\A q \in reqs' : \A o \in E1(q.m) : G1(o)) /\ Line1
  <2>0. PICK r : \E written : Answered(r, written)
    BY <1>9, AnsweredFacts
  <2>1. PICK written : Answered(r, written)
    BY <2>0
  <2>2. /\ reqs' \subseteq reqs /\ ahead' = ahead /\ drain.on
        /\ \/ drain' = NoDrain
           \/ Disposition(r.st) # "retry" /\ drain' = [drain EXCEPT !.items = Tail(@), !.wait = 0]
    BY <2>1 DEF Answered
  <2>4. CASE drain' = NoDrain
    BY <1>1, <1>3, <2>2, <2>4
  <2>5. CASE Disposition(r.st) # "retry" /\ drain' = [drain EXCEPT !.items = Tail(@), !.wait = 0]
    <3> DEFINE s == drain.items
               t == Tail(drain.items)
    <3>1. drain'.items = t /\ s \in Seq(Msgs) /\ s # <<>> /\ DrainItem = s[1]
      BY <2>2, <2>5, DrainFacts DEF FedTypes
    <3>2. /\ Len(s) \in Nat \ {0} /\ DOMAIN s = 1..Len(s) /\ DOMAIN t = 1..(Len(s) - 1)
          /\ \A n \in 1..(Len(s) - 1) : t[n] = s[n + 1] /\ n + 1 \in 1..Len(s)
      BY <3>1, TailFacts
    <3>3. \A o : o = s[1] => G1(o)
      <4> SUFFICES ASSUME NEW o, o = s[1] PROVE G1(o)
        OBVIOUS
      <4>1. Gone(o)'
        BY <2>1, <2>5, <3>1, AnsweredGone
      <4> QED
        BY <4>1 DEF Gone
    <3>4. Line1
      <4> HIDE DEF t
      <4> SUFFICES ASSUME NEW k \in DOMAIN t, NEW o \in Earlier(t[k])
                   PROVE  G1(o) \/ \E l \in 1..(k - 1) : t[l] = o
        BY <2>2, <3>1 DEF Earlier
      <4>1. k \in 1..(Len(s) - 1) /\ t[k] = s[k + 1] /\ k + 1 \in DOMAIN s /\ s[k + 1] \in Msgs
        BY <1>0, <3>2
      <4>2. o \in Msgs /\ (Gone(o) \/ \E l \in 1..k : s[l] = o)
        <5>1. (k + 1) - 1 = k
          BY <4>1
        <5> QED
          BY <1>0, <4>1, <5>1 DEF InLine
      <4>3. CASE Gone(o)
        BY <1>0, <4>2, <4>3
      <4>4. CASE \E l \in 1..k : s[l] = o
        <5>1. PICK l \in 1..k : s[l] = o
          BY <4>4
        <5>2. CASE l = 1
          BY <3>3, <5>1, <5>2
        <5>3. CASE l # 1
          <6>1. l - 1 \in 1..(k - 1) /\ l - 1 \in 1..(Len(s) - 1) /\ (l - 1) + 1 = l
            BY <3>2, <4>1, <5>1, <5>3
          <6>2. t[l - 1] = o
            BY <3>2, <5>1, <6>1
          <6> QED
            BY <6>1, <6>2
        <5> QED
          BY <5>2, <5>3
      <4> QED
        BY <4>2, <4>3, <4>4
    <3> QED
      BY <1>1, <2>2, <3>4
  <2> QED
    BY <2>2, <2>4, <2>5
<1>10. ASSUME DrainFails \/ SenderCrash PROVE (\A q \in reqs' : \A o \in E1(q.m) : G1(o)) /\ Line1
  BY <1>1, <1>3, <1>10 DEF DrainFails, SenderCrash
<1>11. ASSUME NEW r \in reqs, ReceiveStep(r) PROVE (\A q \in reqs' : \A o \in E1(q.m) : G1(o)) /\ Line1
  <2>1. PICK w : Handles(r, w)
    BY <1>11, HandleSteps
  <2>2. drain' = drain /\ ahead' = ahead /\ \A q \in reqs' : q \in reqs \/ q.m = r.m
    BY <2>1 DEF Handles, Turns
  <2> QED
    BY <1>1, <1>2, <2>2
<1>12. ASSUME NEW r \in reqs, RequestLost(r) PROVE (\A q \in reqs' : \A o \in E1(q.m) : G1(o)) /\ Line1
  BY <1>1, <1>2, <1>12 DEF RequestLost
<1>13. ASSUME ReceiverCrash \/ UNCHANGED vars PROVE (\A q \in reqs' : \A o \in E1(q.m) : G1(o)) /\ Line1
  BY <1>1, <1>2, <1>13 DEF ReceiverCrash, vars
<1> HIDE DEF Line1
<1> QED
  BY <1>4, <1>5, <1>6, <1>7, <1>8, <1>9, <1>10, <1>11, <1>12, <1>13 DEF Next, SendStep, DrainStep

(* When a message first reaches the chat, every older one that was queued  *)
(* when it was accepted has been there or was given up for good: the       *)
(* in-order guard of handle_send and the drain's oldest-first snapshot     *)
(* work together, through reseals, lost answers and restarts.              *)
THEOREM ArriveInOrder == Spec => InOrder
<1> DEFINE Inv == FedTypes /\ Sealed /\ NonceInv /\ Truthful /\ NothingVanishes /\ InLine
           Ordered == \A m \in Msgs : drives[m] = 0 /\ drives'[m] = 1 =>
                         \A o \in ahead[m] : o < m => drives[o] > 0 \/ o \in dead \/ fate[o] # "none"
<1>1. Init => Inv
  <2>1. Init => NothingVanishes
    BY FederationAssumption DEF Init, NothingVanishes
  <2> QED
    BY <2>1, FedTypesInit, NonceInvInit, TruthfulInit, InLineInit
<1>2. Inv /\ [Next]_vars => Inv'
  BY FedTypesStep, NonceInvStep, TruthfulStep, NothingVanishesStep, InLineStep
<1>3. Inv /\ [Next]_vars => [Ordered]_vars
  <2> SUFFICES ASSUME Inv, [Next]_vars, NEW m \in Msgs, drives[m] = 0, drives'[m] = 1,
                      NEW o \in ahead[m], o < m
               PROVE  drives[o] > 0 \/ o \in dead \/ fate[o] # "none"
    OBVIOUS
  <2>1. \E r \in reqs : r.m = m
    <3>1. ASSUME NEW r \in reqs, NEW w, Handles(r, w) PROVE r.m = m
      <4>1. drives' = drives \/ drives' = [drives EXCEPT ![r.m] = @ + 1]
        BY <3>1 DEF Handles
      <4> QED
        BY <4>1 DEF FedTypes
    <3>2. drives' # drives
      OBVIOUS
    <3>3. \E r \in reqs : \E w : Handles(r, w)
      BY <3>2, StepKinds DEF Quiet, SendEnqueue, Posting
    <3> QED
      BY <3>1, <3>3
  <2> QED
    BY <2>1 DEF InLine, Earlier, Gone
<1> QED
  BY <1>1, <1>2, <1>3, PTL DEF Spec, InOrder

-----------------------------------------------------------------------------
(***************************************************************************)
(* A message is delivered once, unless the duplicate check could not know. *)
(***************************************************************************)

(* What a handler has loaded of the seen list is still there, or forgotten *)
(* since.                                                                  *)
SeenKept ==
    \A r \in reqs : \A x \in Msgs : Contains(r.loaded, x) => Contains(seen, x) \/ x \in excused

(* But for the excused, one handler of a message is past the duplicate     *)
(* check at a time, and a message that was delivered is in the seen list   *)
(* or about to be.                                                         *)
Recording == {"handled", "recording"}
OneHandler ==
    \A m \in Msgs \ excused :
       /\ \A r, q \in Inside(m) : r = q
       /\ drives[m] <= 1
       /\ \A r \in Inside(m) : r.st = "deliver" => drives[m] = 0
       /\ drives[m] > 0 => Contains(seen, m) \/ \E r \in reqs : r.m = m /\ r.st \in Recording

(* seen::record leaves the message in the list.                            *)
LEMMA RecordHas ==
    ASSUME NEW list, list \in Seq(Msgs), NEW m \in Msgs, ~Contains(list, m)
    PROVE  Contains(record(list, m), m)
<1>1. PICK t \in Seq(Msgs) : record(list, m) = Append(t, m)
  <2>1. CASE Len(list) = SEEN_CAP
    <3>1. list # <<>>
      BY <2>1, FederationAssumption
    <3>2. Tail(list) \in Seq(Msgs)
      BY <3>1, TailFacts
    <3> QED
      BY <2>1, <3>2 DEF record
  <2>2. CASE Len(list) # SEEN_CAP
    BY <2>2 DEF record
  <2> QED
    BY <2>1, <2>2
<1>2. /\ Append(t, m)[Len(t) + 1] = m /\ Len(t) \in Nat
      /\ Len(Append(t, m)) = Len(t) + 1
  BY AppendFacts
<1>3. Len(t) + 1 \in 1..Len(Append(t, m))
  BY <1>2
<1> QED
  BY <1>1, <1>2, <1>3 DEF Contains

(* What other steps than the receiver's leave of its handlers.             *)
LEMMA OthersLeave ==
    ASSUME FedTypes, Sealed, [Next]_vars
    PROVE  \/ \E r \in reqs : \E w : Handles(r, w)
           \/ /\ excused \subseteq excused' /\ drives' = drives /\ seen' = seen
              /\ \A q \in reqs' : q \in reqs \/ (q.st = "sent" /\ q.loaded = <<>>)
              /\ \A r \in reqs : r.st \in Recording => r \in reqs' \/ r.m \in excused'
<1> USE DEF sender, history
<1> DEFINE Leaves ==
              /\ excused \subseteq excused' /\ drives' = drives /\ seen' = seen
              /\ \A q \in reqs' : q \in reqs \/ (q.st = "sent" /\ q.loaded = <<>>)
              /\ \A r \in reqs : r.st \in Recording => r \in reqs' \/ r.m \in excused'
<1>0. \A st \in Recording : st \notin Answers /\ st # "sent"
  BY DEF Recording, Answers
<1>1. ASSUME NEW m \in Msgs, SendEnqueue(m) \/ SendBehind(m) \/ SweepExpires(m) PROVE Leaves
  BY <1>1 DEF SendEnqueue, SendBehind, SweepExpires
<1>2. ASSUME NEW m \in Msgs, SendDial(m) PROVE Leaves
  <2>1. \E w : reqs' = reqs \cup {w} /\ w.st = "sent" /\ w.loaded = <<>>
    BY <1>2, PostFacts DEF SendDial
  <2> QED
    BY <1>2, <2>1 DEF SendDial
<1>3. ASSUME NEW m \in Msgs, SendAnswered(m) \/ SendFails(m) PROVE Leaves
  BY <1>0, <1>3 DEF SendAnswered, SendFails
<1>4. ASSUME drain_peer PROVE Leaves
  BY <1>4 DEF drain_peer
<1>5. ASSUME DrainDial PROVE Leaves
  <2>1. PICK w : reqs' = reqs \cup {w} /\ w = [m |-> DrainItem, nonce |-> NonceOf(DrainItem), st |-> "sent", loaded |-> <<>>]
    BY <1>5 DEF DrainDial, Post
  <2>2. w.st = "sent" /\ w.loaded = <<>>
    BY <2>1
  <2> QED
    BY <1>5, <2>1, <2>2 DEF DrainDial
<1>6. ASSUME DrainAnswered \/ DrainFails PROVE Leaves
  BY <1>0, <1>6, AnsweredFacts DEF Answered, DrainFails
<1>7. ASSUME NEW r \in reqs, RequestLost(r) PROVE Leaves
  BY <1>0, <1>7 DEF RequestLost
<1>8. ASSUME SenderCrash PROVE Leaves
  BY <1>0, <1>8 DEF SenderCrash
<1>9. ASSUME ReceiverCrash PROVE Leaves
  <2>1. \A r \in reqs : r.st \in Recording => r.m \in excused'
    BY <1>9 DEF ReceiverCrash, Recording
  <2> QED
    BY <1>9, <2>1 DEF ReceiverCrash
<1>10. ASSUME UNCHANGED vars PROVE Leaves
  BY <1>10 DEF vars
<1> HIDE DEF Leaves
<1>11. Leaves \/ \E r \in reqs : \E w : Handles(r, w)
  BY <1>1, <1>2, <1>3, <1>4, <1>5, <1>6, <1>7, <1>8, <1>9, <1>10, HandleSteps DEF Next, SendStep, DrainStep
<1> QED
  BY <1>11 DEF Leaves

(* Nothing has been handled.                                               *)
LEMMA OnceInit == Init => SeenKept /\ OneHandler
  BY DEF Init, SeenKept, OneHandler, Inside

(* A step of a handler leaves what was seen in the list, or marks it.      *)
LEMMA SeenStays ==
    ASSUME FedTypes, SeenKept, NEW r \in reqs, NEW w, Handles(r, w)
    PROVE  /\ excused \subseteq excused'
           /\ \A x \in Msgs : Contains(seen, x) => Contains(seen', x) \/ x \in excused'
           /\ r.st = "recording" /\ r.m \notin excused' => Contains(seen', r.m)
<1>0. r.m \in Msgs /\ r.loaded \in Seq(Msgs) /\ Len(r.loaded) <= SEEN_CAP /\ seen \in Seq(Msgs)
  BY DEF FedTypes, ReqsTyped, Reqs
<1>1. excused \subseteq excused'
  BY DEF Handles
<1>2. \A x \in Msgs : Contains(seen, x) => Contains(seen', x) \/ x \in excused'
  <2>1. CASE seen' = seen
    BY <2>1
  <2>2. CASE seen' # seen
    <3>1. seen' = record(r.loaded, r.m) /\ excused' = excused \cup (ToSet(seen) \ ToSet(seen'))
      BY <2>2 DEF Handles
    <3> DEFINE new == record(r.loaded, r.m)
    <3>2. new \in Seq(Msgs)
      BY <1>0, RecordFacts
    <3>3. seen' = new
      BY <3>1
    <3> HIDE DEF new
    <3>4. \A x \in Msgs : (Contains(seen, x) <=> x \in ToSet(seen)) /\ (Contains(new, x) <=> x \in ToSet(new))
      BY <1>0, <3>2 DEF Contains, ToSet
    <3> QED
      BY <3>1, <3>3, <3>4
  <2> QED
    BY <2>1, <2>2
<1>3. ASSUME r.st = "recording", r.m \notin excused' PROVE Contains(seen', r.m)
  <2>1. CASE Contains(r.loaded, r.m)
    <3>1. Contains(seen, r.m)
      BY <1>0, <1>1, <1>3, <2>1 DEF SeenKept
    <3> QED
      BY <1>0, <1>2, <1>3, <3>1
  <2>2. CASE ~Contains(r.loaded, r.m)
    <3>1. seen' = record(r.loaded, r.m)
      BY <1>3, <2>2 DEF Handles
    <3> QED
      BY <1>0, <2>2, <3>1, RecordHas
  <2> QED
    BY <2>1, <2>2
<1> QED
  BY <1>1, <1>2, <1>3

(* What was seen stays seen, but for what the list forgets.                *)
LEMMA SeenKeptStep ==
    ASSUME FedTypes, Sealed, SeenKept, [Next]_vars
    PROVE  SeenKept'
<1>0. \A x : ~Contains(<<>>, x)
  BY DEF Contains
<1>1. ASSUME NEW r \in reqs, NEW w, Handles(r, w) PROVE SeenKept'
  <2>1. /\ excused \subseteq excused'
        /\ \A x \in Msgs : Contains(seen, x) => Contains(seen', x) \/ x \in excused'
    BY <1>1, SeenStays
  <2>2. \A q \in reqs' : q \in reqs \/ q = w
    BY <1>1 DEF Handles, Turns
  <2>3. w.loaded = <<>> \/ w.loaded = seen
    BY <1>1 DEF Handles
  <2>4. \A x \in Msgs : Contains(w.loaded, x) => Contains(seen', x) \/ x \in excused'
    BY <1>0, <2>1, <2>3
  <2>5. \A q \in reqs' : \A x \in Msgs : Contains(q.loaded, x) => Contains(seen', x) \/ x \in excused'
    BY <2>1, <2>2, <2>4 DEF SeenKept
  <2> QED
    BY <2>5 DEF SeenKept
<1>2. ASSUME excused \subseteq excused', seen' = seen,
             \A q \in reqs' : q \in reqs \/ (q.st = "sent" /\ q.loaded = <<>>)
      PROVE  SeenKept'
  <2>1. \A q \in reqs' : \A x \in Msgs : Contains(q.loaded, x) => Contains(seen', x) \/ x \in excused'
    BY <1>0, <1>2 DEF SeenKept
  <2> QED
    BY <2>1 DEF SeenKept
<1> QED
  BY <1>1, <1>2, OthersLeave

(* No step starts a second delivery of a message.                          *)
LEMMA OneHandlerStep ==
    ASSUME FedTypes, Sealed, SeenKept, OneHandler, [Next]_vars
    PROVE  OneHandler'
<1>0. "sent" \notin Unrecorded /\ Recording = {"handled", "recording"} /\ Unrecorded = {"deliver", "handled", "recording"}
  BY DEF Unrecorded, Recording
<1> DEFINE Ins1(m) == {r \in reqs' : r.m = m /\ r.st \in Unrecorded}
           One1(m) == /\ \A r, q \in Ins1(m) : r = q
                      /\ drives'[m] <= 1
                      /\ \A r \in Ins1(m) : r.st = "deliver" => drives'[m] = 0
                      /\ drives'[m] > 0 => \/ Contains(seen', m)
                                           \/ \E r \in reqs' : r.m = m /\ r.st \in Recording
<1> SUFFICES ASSUME NEW m \in Msgs, m \notin excused' PROVE One1(m)
  BY DEF OneHandler, Inside
<1>1. ASSUME m \notin excused
      PROVE  /\ \A r, q \in Inside(m) : r = q
             /\ drives[m] <= 1 /\ drives[m] \in Nat
             /\ \A r \in Inside(m) : r.st = "deliver" => drives[m] = 0
             /\ drives[m] > 0 => Contains(seen, m) \/ \E r \in reqs : r.m = m /\ r.st \in Recording
  BY <1>1 DEF OneHandler, FedTypes
<1>2. ASSUME excused \subseteq excused', drives' = drives, seen' = seen,
             \A q \in reqs' : q \in reqs \/ (q.st = "sent" /\ q.loaded = <<>>),
             \A r \in reqs : r.st \in Recording => r \in reqs' \/ r.m \in excused'
      PROVE  One1(m)
  <2>1. Ins1(m) \subseteq Inside(m)
    BY <1>0, <1>2 DEF Inside
  <2> QED
    BY <1>1, <1>2, <2>1
<1>3. ASSUME NEW r \in reqs, NEW w, Handles(r, w) PROVE One1(m)
  <2>1. /\ excused \subseteq excused' /\ m \notin excused
        /\ Contains(seen, m) => Contains(seen', m)
        /\ r.st = "recording" /\ r.m = m => Contains(seen', m)
    BY <1>3, SeenStays
  <2>2. /\ w.m = r.m /\ r.m \in Msgs /\ reqs \ {r} \subseteq reqs'
        /\ \A q \in reqs' : (q \in reqs /\ q # r) \/ q = w
    BY <1>3 DEF Handles, Turns, FedTypes, ReqsTyped, Reqs
  <2>3. CASE m # r.m
    <3>1. drives'[m] = drives[m]
      <4>1. drives' = drives \/ drives' = [drives EXCEPT ![r.m] = @ + 1]
        BY <1>3 DEF Handles
      <4> QED
        BY <2>3, <4>1 DEF FedTypes
    <3>2. Ins1(m) \subseteq Inside(m)
      BY <2>2, <2>3 DEF Inside
    <3>3. \A q \in reqs : q.m = m => q \in reqs'
      BY <2>2, <2>3
    <3> QED
      BY <1>1, <2>1, <3>1, <3>2, <3>3
  <2>4. CASE m = r.m /\ r.st = "sent" /\ w.st \notin Unrecorded
    <3>1. drives' = drives
      BY <1>3, <2>4 DEF Handles
    <3>2. Ins1(m) \subseteq Inside(m)
      BY <2>2, <2>4 DEF Inside
    <3>3. \A q \in reqs : q.st \in Recording => q \in reqs'
      BY <1>0, <2>2, <2>4
    <3> QED
      BY <1>1, <2>1, <3>1, <3>2, <3>3
  <2>5. CASE m = r.m /\ r.st = "sent" /\ w.st \in Unrecorded
    <3>1. /\ drives' = drives
          /\ excused' = IF Inside(r.m) # {} \/ Contains(seen, r.m)
                        THEN excused \cup {r.m} ELSE excused
      BY <1>0, <1>3, <2>5 DEF Handles
    <3>2. Inside(m) = {} /\ ~Contains(seen, m)
      BY <2>5, <3>1
    <3>3. drives[m] = 0
      BY <1>0, <1>1, <2>1, <3>2 DEF Inside
    <3>4. Ins1(m) \subseteq {w}
      BY <2>2, <3>2 DEF Inside
    <3> QED
      BY <3>1, <3>3, <3>4
  <2>6. ASSUME m = r.m, r.st \in Unrecorded PROVE Ins1(m) \subseteq {w}
    <3>1. \A q \in Inside(m) : q = r
      BY <1>1, <2>1, <2>6 DEF Inside
    <3> QED
      BY <2>2, <3>1 DEF Inside
  <2>7. CASE m = r.m /\ r.st = "deliver"
    <3>1. drives[m] = 0 /\ Ins1(m) \subseteq {w}
      BY <1>0, <1>1, <2>1, <2>6, <2>7 DEF Inside
    <3>2. CASE w.st = "handled" /\ w \in reqs' /\ drives' = [drives EXCEPT ![r.m] = @ + 1]
      <4>1. drives'[m] = 1
        BY <2>7, <3>1, <3>2 DEF FedTypes
      <4> QED
        BY <1>0, <2>2, <2>7, <3>1, <3>2, <4>1
    <3>3. CASE w.st \in {"undelivered", "error"} /\ drives' = drives
      BY <3>1, <3>3
    <3> QED
      BY <1>3, <2>7, <3>2, <3>3 DEF Handles
  <2>8. CASE m = r.m /\ r.st = "handled"
    <3>1. w.st = "recording" /\ w \in reqs' /\ drives' = drives
      BY <1>3, <2>8 DEF Handles
    <3>2. Ins1(m) \subseteq {w}
      BY <1>0, <2>6, <2>8
    <3> QED
      BY <1>0, <1>1, <2>1, <2>2, <2>8, <3>1, <3>2
  <2>9. CASE m = r.m /\ r.st = "recording"
    <3>1. w.st \in {"ok", "declined"} /\ drives' = drives
      BY <1>3, <2>9 DEF Handles
    <3>2. Ins1(m) = {}
      BY <1>0, <2>6, <2>9, <3>1
    <3> QED
      BY <1>1, <2>1, <2>9, <3>1, <3>2
  <2>10. r.st \in {"sent", "deliver", "handled", "recording"}
    BY <1>3 DEF Handles
  <2> QED
    BY <2>3, <2>4, <2>5, <2>7, <2>8, <2>9, <2>10
<1> HIDE DEF One1
<1> QED
  BY <1>2, <1>3, OthersLeave

(* A message reaches its chat once, through retries, reseals, lost         *)
(* answers, duplicate dials and restarts, for any number of messages and   *)
(* any size of the seen list, unless two handlers overlapped, the receiver *)
(* died before it recorded the delivery, or the seen list failed: a record *)
(* not saved, overwritten or pushed out, or a list that could not be read. *)
THEOREM DeliveredOnce == Spec => []DrivenOnce
<1> DEFINE Inv == FedTypes /\ Sealed /\ SeenKept /\ OneHandler
<1>1. Init => Inv
  BY FedTypesInit, OnceInit
<1>2. Inv /\ [Next]_vars => Inv'
  BY FedTypesStep, SeenKeptStep, OneHandlerStep
<1>3. Inv => DrivenOnce
  <2> SUFFICES ASSUME Inv, NEW m \in Msgs, drives[m] > 1, m \notin excused PROVE FALSE
    BY DEF DrivenOnce
  <2>1. drives[m] <= 1 /\ drives[m] \in Nat
    BY DEF OneHandler, FedTypes
  <2> QED
    BY <2>1
<1> QED
  BY <1>1, <1>2, <1>3, PTL DEF Spec
=============================================================================
