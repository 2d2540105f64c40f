--------------------------- MODULE PtydRingProofs ---------------------------
(***************************************************************************)
(* Proofs about the output ring, for every capacity, byte set and bound:   *)
(* the ring holds exactly the newest part of what was pushed, and the      *)
(* extent operators the server model uses are the byte-level ones.         *)
(***************************************************************************)
EXTENDS PtydRingLog, SequenceTheorems, TLAPS

(***************************************************************************)
(* Dropping the first n elements of a sequence (VecDeque::drain(..n)).     *)
(***************************************************************************)
LEMMA DrainFacts ==
    ASSUME NEW S, NEW s \in Seq(S), NEW n \in 0..Len(s)
    PROVE  /\ Drain(s, n) \in Seq(S)
           /\ Len(Drain(s, n)) = Len(s) - n
           /\ \A i \in 1..(Len(s) - n) : Drain(s, n)[i] = s[n + i]
  BY DEF Drain

(***************************************************************************)
(* Draining twice is draining once by the sum.                             *)
(***************************************************************************)
LEMMA DrainDrain ==
    ASSUME NEW S, NEW s \in Seq(S), NEW m \in 0..Len(s), NEW n \in 0..(Len(s) - m)
    PROVE  Drain(Drain(s, m), n) = Drain(s, m + n)
<1>0. Len(s) \in Nat /\ m \in Nat /\ n \in Nat /\ m + n <= Len(s)
  BY LenProperties
<1> DEFINE u == Drain(s, m)
           v == Drain(u, n)
           w == Drain(s, m + n)
<1>1. /\ u \in Seq(S)
      /\ Len(u) = Len(s) - m
      /\ \A i \in 1..(Len(s) - m) : u[i] = s[m + i]
  BY DrainFacts
<1>2. /\ w \in Seq(S)
      /\ Len(w) = Len(s) - (m + n)
      /\ \A i \in 1..(Len(s) - (m + n)) : w[i] = s[m + n + i]
  <2>1. m + n \in 0..Len(s)
    BY <1>0
  <2> QED
    BY <2>1, DrainFacts
<1> HIDE DEF u, w
<1>3. /\ v \in Seq(S)
      /\ Len(v) = Len(u) - n
      /\ \A i \in 1..(Len(u) - n) : v[i] = u[n + i]
  <2>1. u \in Seq(S) /\ n \in 0..Len(u)
    BY <1>0, <1>1
  <2> QED
    BY <2>1, DrainFacts
<1> HIDE DEF v
<1>4. Len(v) = Len(w)
  BY <1>0, <1>1, <1>2, <1>3
<1>5. \A i \in 1..Len(v) : v[i] = w[i]
  <2> SUFFICES ASSUME NEW i \in 1..Len(v)
               PROVE  v[i] = w[i]
    OBVIOUS
  <2>1. i \in Nat /\ 1 <= i /\ i <= Len(s) - m - n
    BY <1>0, <1>1, <1>3
  <2>2. v[i] = u[n + i]
    BY <1>0, <1>1, <1>3, <2>1
  <2>3. u[n + i] = s[m + (n + i)]
    <3>1. n + i \in 1..(Len(s) - m)
      BY <1>0, <2>1
    <3> QED
      BY <1>1, <3>1
  <2>4. w[i] = s[m + n + i]
    BY <1>0, <1>2, <2>1
  <2>5. m + (n + i) = m + n + i
    BY <1>0, <2>1
  <2> QED
    BY <2>2, <2>3, <2>4, <2>5
<1>6. v = w
  <2>1. v \in Seq(S) /\ w \in Seq(S)
    BY <1>2, <1>3
  <2> QED
    BY <1>4, <1>5, <2>1, SeqEqual
<1> QED
  BY <1>6 DEF u, v, w

(***************************************************************************)
(* Draining within the first part of a concatenation.                      *)
(***************************************************************************)
LEMMA DrainConcatLeft ==
    ASSUME NEW S, NEW s \in Seq(S), NEW t \in Seq(S), NEW n \in 0..Len(s)
    PROVE  Drain(s \o t, n) = Drain(s, n) \o t
<1>0. Len(s) \in Nat /\ Len(t) \in Nat /\ n \in Nat /\ n <= Len(s)
  BY LenProperties
<1> DEFINE st == s \o t
           d  == Drain(s, n)
           v  == Drain(st, n)
           w  == d \o t
<1>1. /\ st \in Seq(S)
      /\ Len(st) = Len(s) + Len(t)
      /\ \A i \in 1..(Len(s) + Len(t)) :
            st[i] = IF i <= Len(s) THEN s[i] ELSE t[i - Len(s)]
  BY ConcatProperties
<1>2. /\ d \in Seq(S)
      /\ Len(d) = Len(s) - n
      /\ \A i \in 1..(Len(s) - n) : d[i] = s[n + i]
  BY DrainFacts
<1> HIDE DEF st, d
<1>3. /\ v \in Seq(S)
      /\ Len(v) = Len(st) - n
      /\ \A i \in 1..(Len(st) - n) : v[i] = st[n + i]
  <2>1. st \in Seq(S) /\ n \in 0..Len(st)
    BY <1>0, <1>1
  <2> QED
    BY <2>1, DrainFacts
<1>4. /\ w \in Seq(S)
      /\ Len(w) = Len(d) + Len(t)
      /\ \A i \in 1..(Len(d) + Len(t)) :
            w[i] = IF i <= Len(d) THEN d[i] ELSE t[i - Len(d)]
  <2>1. d \in Seq(S)
    BY <1>2
  <2> QED
    BY <2>1, ConcatProperties
<1> HIDE DEF v, w
<1>5. Len(v) = Len(w)
  BY <1>0, <1>1, <1>2, <1>3, <1>4
<1>6. \A i \in 1..Len(v) : v[i] = w[i]
  <2> SUFFICES ASSUME NEW i \in 1..Len(v)
               PROVE  v[i] = w[i]
    OBVIOUS
  <2>1. i \in Nat /\ 1 <= i /\ i <= Len(s) + Len(t) - n
    BY <1>0, <1>1, <1>3
  <2>2. v[i] = st[n + i]
    BY <1>0, <1>1, <1>3, <2>1
  <2>3. CASE i <= Len(s) - n
    <3>1. st[n + i] = s[n + i]
      BY <1>0, <1>1, <2>1, <2>3
    <3>2. w[i] = d[i]
      BY <1>0, <1>2, <1>4, <2>1, <2>3
    <3> QED
      BY <1>0, <1>2, <2>1, <2>2, <2>3, <3>1, <3>2
  <2>4. CASE ~(i <= Len(s) - n)
    <3>1. st[n + i] = t[n + i - Len(s)]
      BY <1>0, <1>1, <2>1, <2>4, SMTT(30)
    <3>2. w[i] = t[i - (Len(s) - n)]
      BY <1>0, <1>2, <1>4, <2>1, <2>4
    <3>3. n + i - Len(s) = i - (Len(s) - n)
      BY <1>0, <2>1
    <3> QED
      BY <2>2, <3>1, <3>2, <3>3
  <2> QED
    BY <2>3, <2>4
<1>7. v = w
  <2>1. v \in Seq(S) /\ w \in Seq(S)
    BY <1>3, <1>4
  <2> QED
    BY <1>5, <1>6, <2>1, SeqEqual
<1> QED
  BY <1>7 DEF v, w, st, d

(***************************************************************************)
(* Draining all of the first part of a concatenation and some of the rest. *)
(***************************************************************************)
LEMMA DrainConcatRight ==
    ASSUME NEW S, NEW s \in Seq(S), NEW t \in Seq(S), NEW n \in 0..Len(t)
    PROVE  Drain(s \o t, Len(s) + n) = Drain(t, n)
<1>0. Len(s) \in Nat /\ Len(t) \in Nat /\ n \in Nat /\ n <= Len(t)
  BY LenProperties
<1> DEFINE st == s \o t
           v  == Drain(st, Len(s) + n)
           w  == Drain(t, n)
<1>1. /\ st \in Seq(S)
      /\ Len(st) = Len(s) + Len(t)
      /\ \A i \in 1..(Len(s) + Len(t)) :
            st[i] = IF i <= Len(s) THEN s[i] ELSE t[i - Len(s)]
  BY ConcatProperties
<1>2. /\ w \in Seq(S)
      /\ Len(w) = Len(t) - n
      /\ \A i \in 1..(Len(t) - n) : w[i] = t[n + i]
  BY DrainFacts
<1> HIDE DEF st, w
<1>3. /\ v \in Seq(S)
      /\ Len(v) = Len(st) - (Len(s) + n)
      /\ \A i \in 1..(Len(st) - (Len(s) + n)) : v[i] = st[Len(s) + n + i]
  <2>1. st \in Seq(S) /\ Len(s) + n \in 0..Len(st)
    BY <1>0, <1>1
  <2> QED
    BY <2>1, DrainFacts
<1> HIDE DEF v
<1>4. Len(v) = Len(w)
  BY <1>0, <1>1, <1>2, <1>3
<1>5. \A i \in 1..Len(v) : v[i] = w[i]
  <2> SUFFICES ASSUME NEW i \in 1..Len(v)
               PROVE  v[i] = w[i]
    OBVIOUS
  <2>1. i \in Nat /\ 1 <= i /\ i <= Len(t) - n
    BY <1>0, <1>1, <1>3
  <2>2. v[i] = st[Len(s) + n + i]
    BY <1>0, <1>1, <1>3, <2>1
  <2>3. st[Len(s) + n + i] = t[Len(s) + n + i - Len(s)]
    BY <1>0, <1>1, <2>1, SMTT(30)
  <2>4. Len(s) + n + i - Len(s) = n + i
    BY <1>0, <2>1
  <2>5. w[i] = t[n + i]
    BY <1>0, <1>2, <2>1
  <2> QED
    BY <2>2, <2>3, <2>4, <2>5
<1>6. v = w
  <2>1. v \in Seq(S) /\ w \in Seq(S)
    BY <1>2, <1>3
  <2> QED
    BY <1>4, <1>5, <2>1, SeqEqual
<1> QED
  BY <1>6 DEF v, w, st

(***************************************************************************)
(* slices_from does not depend on where the VecDeque is split: the two     *)
(* slices together are the ring's bytes from the clamped offset on.        *)
(***************************************************************************)
LEMMA CopyFromExact ==
    ASSUME NEW S, NEW r, r.buf \in Seq(S), r.start \in Nat,
           NEW cut \in 0..Len(r.buf), NEW from \in Nat
    PROVE  /\ Clamp(r.start, End(r), from) - r.start \in 0..Len(r.buf)
           /\ CopyFrom(r, cut, from) = Drain(r.buf, Clamp(r.start, End(r), from) - r.start)
<1> DEFINE buf  == r.buf
           skip == Clamp(r.start, End(r), from) - r.start
           a    == SubSeq(buf, 1, cut)
           b    == Drain(buf, cut)
<1>0. Len(buf) \in Nat /\ cut \in Nat /\ cut <= Len(buf)
  BY LenProperties
<1>1. skip \in 0..Len(buf)
  BY <1>0 DEF Clamp, End
<1>2. a \in Seq(S) /\ Len(a) = cut
  BY <1>0
<1>3. b \in Seq(S)
  BY DrainFacts
<1>4. a \o b = buf
  <2>1. Drain(buf, 0) = buf
    BY <1>0 DEF Drain
  <2>2. /\ Len(b) = Len(buf) - cut
        /\ \A i \in 1..(Len(buf) - cut) : b[i] = buf[cut + i]
    BY DrainFacts
  <2>3. \A i \in 1..cut : a[i] = buf[i]
    BY <1>0
  <2> HIDE DEF a, b, buf
  <2>4. /\ a \o b \in Seq(S)
        /\ Len(a \o b) = Len(a) + Len(b)
        /\ \A i \in 1..(Len(a) + Len(b)) :
              (a \o b)[i] = IF i <= Len(a) THEN a[i] ELSE b[i - Len(a)]
    BY <1>2, <1>3, ConcatProperties
  <2>5. Len(a \o b) = Len(buf)
    BY <1>0, <1>2, <2>2, <2>4
  <2>6. \A i \in 1..Len(a \o b) : (a \o b)[i] = buf[i]
    <3> SUFFICES ASSUME NEW i \in 1..Len(a \o b)
                 PROVE  (a \o b)[i] = buf[i]
      OBVIOUS
    <3>1. i \in Nat /\ 1 <= i /\ i <= Len(buf)
      BY <1>0, <2>5
    <3>2. CASE i <= cut
      BY <1>0, <1>2, <2>2, <2>3, <2>4, <3>1, <3>2
    <3>3. CASE ~(i <= cut)
      <4>1. (a \o b)[i] = b[i - cut]
        BY <1>0, <1>2, <2>2, <2>4, <3>1, <3>3
      <4>2. b[i - cut] = buf[cut + (i - cut)]
        BY <1>0, <2>2, <3>1, <3>3
      <4>3. cut + (i - cut) = i
        BY <1>0, <3>1
      <4> QED
        BY <4>1, <4>2, <4>3
    <3> QED
      BY <3>2, <3>3
  <2>7. buf \in Seq(S)
    BY DEF buf
  <2>8. a \o b \in Seq(S)
    BY <2>4
  <2> QED
    BY <2>5, <2>6, <2>7, <2>8, SeqEqual
<1>5. CASE skip >= Len(a)
  <2>1. skip - cut \in 0..(Len(buf) - cut)
    BY <1>0, <1>1, <1>2, <1>5
  <2>2. CopyFrom(r, cut, from) = Drain(b, skip - cut) \o <<>>
    BY <1>2, <1>5 DEF CopyFrom, SlicesFrom
  <2>3. Drain(b, skip - cut) = Drain(buf, cut + (skip - cut))
    BY <2>1, DrainDrain
  <2>4. cut + (skip - cut) = skip
    BY <1>0, <1>1
  <2>5. Drain(buf, skip) \in Seq(S)
    BY <1>1, DrainFacts
  <2>6. Drain(buf, skip) \o <<>> = Drain(buf, skip)
    BY <2>5, ConcatEmptySeq
  <2> QED
    BY <1>1, <2>2, <2>3, <2>4, <2>6
<1>6. CASE ~(skip >= Len(a))
  <2>1. skip \in 0..Len(a)
    BY <1>0, <1>1, <1>2, <1>6
  <2>2. CopyFrom(r, cut, from) = Drain(a, skip) \o b
    BY <1>6 DEF CopyFrom, SlicesFrom
  <2>3. Drain(a \o b, skip) = Drain(a, skip) \o b
    BY <1>2, <1>3, <2>1, DrainConcatLeft
  <2> QED
    BY <1>1, <1>4, <2>2, <2>3
<1> QED
  BY <1>5, <1>6

(***************************************************************************)
(* The inductive invariant of the ring machine: types, the capacity bound  *)
(* and the correspondence with the log.                                    *)
(***************************************************************************)
RingInv == TypeOK /\ Bounded /\ HoldsTail

\* The ring of a new session is the empty tail of an empty log.
LEMMA RingInit == Init => RingInv
<1> SUFFICES ASSUME Init PROVE RingInv
  OBVIOUS
<1>1. PICK cap \in Caps : ring = New(cap)
  BY DEF Init
<1>2. log = <<>> /\ ring.buf = <<>> /\ ring.start = 0 /\ ring.cap = cap
  BY <1>1 DEF Init, New
<1>3. Drain(log, 0) = <<>>
  BY <1>2 DEF Drain
<1> QED
  BY <1>1, <1>2, <1>3, RingAssumption DEF RingInv, TypeOK, Rings, New, Bounded, HoldsTail, End

(***************************************************************************)
(* Window arithmetic.  Take the tail of `lg` from `start` on, drop m more  *)
(* bytes and append `bytes`: that is the tail of the longer log from       *)
(* start + m on.                                                           *)
(***************************************************************************)
LEMMA TailKept ==
    ASSUME NEW lg \in Seq(Byte), NEW bytes \in Seq(Byte),
           NEW start \in 0..Len(lg), NEW m \in 0..(Len(lg) - start)
    PROVE  /\ Drain(Drain(lg, start), m) \o bytes \in Seq(Byte)
           /\ Len(Drain(Drain(lg, start), m) \o bytes) = Len(lg) - start - m + Len(bytes)
           /\ Drain(lg \o bytes, start + m) = Drain(Drain(lg, start), m) \o bytes
<1>1. Len(lg) \in Nat /\ Len(bytes) \in Nat /\ start + m \in 0..Len(lg)
  BY LenProperties
<1>2. Drain(Drain(lg, start), m) = Drain(lg, start + m)
  BY DrainDrain
<1>3. Drain(lg \o bytes, start + m) = Drain(lg, start + m) \o bytes
  BY <1>1, DrainConcatLeft
<1>4. Drain(lg, start + m) \in Seq(Byte) /\ Len(Drain(lg, start + m)) = Len(lg) - (start + m)
  BY <1>1, DrainFacts
<1>5. /\ Drain(lg, start + m) \o bytes \in Seq(Byte)
      /\ Len(Drain(lg, start + m) \o bytes) = Len(Drain(lg, start + m)) + Len(bytes)
  BY <1>4, ConcatProperties
<1>6. Len(lg) - (start + m) = Len(lg) - start - m
  BY <1>1
<1> QED
  BY <1>2, <1>3, <1>4, <1>5, <1>6

(***************************************************************************)
(* The skip branch: a chunk at least as long as the ring replaces it all.  *)
(***************************************************************************)
LEMMA TailReplaced ==
    ASSUME NEW lg \in Seq(Byte), NEW bytes \in Seq(Byte), NEW cap \in Nat, Len(bytes) >= cap
    PROVE  LET skip == Len(bytes) - cap
           IN  /\ skip \in Nat
               /\ Drain(bytes, skip) \in Seq(Byte)
               /\ Len(Drain(bytes, skip)) = cap
               /\ Drain(lg \o bytes, Len(lg) + skip) = Drain(bytes, skip)
<1> DEFINE skip == Len(bytes) - cap
<1>1. Len(bytes) \in Nat /\ skip \in 0..Len(bytes) /\ Len(bytes) - skip = cap
  BY LenProperties
<1> HIDE DEF skip
<1>2. Drain(bytes, skip) \in Seq(Byte) /\ Len(Drain(bytes, skip)) = Len(bytes) - skip
  BY <1>1, DrainFacts
<1>3. Drain(lg \o bytes, Len(lg) + skip) = Drain(bytes, skip)
  BY <1>1, DrainConcatRight
<1> QED
  BY <1>1, <1>2, <1>3 DEF skip

(***************************************************************************)
(* What the invariant says of the ring's fields.                           *)
(***************************************************************************)
LEMMA RingInvFacts ==
    ASSUME RingInv
    PROVE  /\ ring \in Rings
           /\ ring.cap \in Nat /\ ring.cap > 0
           /\ ring.start \in Nat
           /\ ring.buf \in Seq(Byte)
           /\ log \in Seq(Byte)
           /\ Len(ring.buf) \in Nat /\ Len(log) \in Nat
           /\ Len(ring.buf) <= ring.cap
           /\ ring.start + Len(ring.buf) = Len(log)
           /\ ring.buf = Drain(log, ring.start)
<1>1. ring.buf \in Seq(Byte) /\ log \in Seq(Byte)
  BY DEF RingInv, TypeOK, Rings
<1>2. Len(ring.buf) \in Nat /\ Len(log) \in Nat
  BY <1>1, LenProperties
<1>3. ring \in Rings /\ ring.start \in Nat /\ ring.cap \in Caps
  BY DEF RingInv, TypeOK, Rings
<1>4. ring.cap \in Nat /\ ring.cap > 0
  <2>1. \A c \in Caps : c \in Nat /\ c > 0
    BY RingAssumption
  <2> QED
    BY <1>3, <2>1
<1>5. Len(ring.buf) <= ring.cap
  BY DEF RingInv, Bounded
<1>6. ring.start + Len(ring.buf) = Len(log) /\ ring.buf = Drain(log, ring.start)
  BY DEF RingInv, HoldsTail, End
<1> QED
  BY <1>1, <1>2, <1>3, <1>4, <1>5, <1>6

(***************************************************************************)
(* A push keeps the newest bytes, whether it overflows the ring (the skip  *)
(* branch) or not.                                                         *)
(***************************************************************************)
LEMMA RingPush ==
    ASSUME RingInv, NEW bytes \in Seq(Byte), DoPush(bytes)
    PROVE  RingInv'
<1> DEFINE cap == ring.cap
           start == ring.start
           buf == ring.buf
<1>0. /\ ring \in Rings /\ cap \in Nat /\ cap > 0 /\ start \in Nat /\ buf \in Seq(Byte)
      /\ log \in Seq(Byte) /\ Len(buf) \in Nat /\ Len(log) \in Nat
      /\ Len(buf) <= cap
  BY RingInvFacts
<1>9a. start + Len(buf) = Len(log)
  BY RingInvFacts
<1>9b. buf = Drain(log, start)
  BY RingInvFacts
<1>1. Len(bytes) \in Nat
  BY LenProperties
<1>2. log' = log \o bytes /\ log' \in Seq(Byte) /\ Len(log') = Len(log) + Len(bytes)
  BY <1>0, ConcatProperties DEF DoPush
<1>3. CASE Len(bytes) >= cap
  <2> DEFINE skip == Len(bytes) - cap
             new == Drain(bytes, skip)
  <2>1. ring' = [ring EXCEPT !.start = start + Len(buf) + skip, !.buf = new]
    BY <1>3 DEF DoPush, Push
  <2>2. /\ skip \in Nat /\ new \in Seq(Byte) /\ Len(new) = cap
        /\ Drain(log \o bytes, Len(log) + skip) = new
    BY <1>0, <1>3, TailReplaced, ZenonT(40)
  <2>3. skip = Len(bytes) - cap
    OBVIOUS
  <2> HIDE DEF skip, new
  <2> HIDE DEF cap, start, buf
  <2>4. start + Len(buf) + skip = Len(log) + skip /\ Len(log) + skip \in Nat
    <3>1. start \in Nat /\ Len(buf) \in Nat /\ Len(log) \in Nat /\ skip \in Nat
      BY <1>0, <2>2
    <3> QED
      BY <1>9a, <3>1
  <2>5. ring' \in Rings /\ ring'.cap = cap /\ ring'.start = Len(log) + skip /\ ring'.buf = new
    <3>1. ring \in Rings /\ Len(log) + skip \in Nat /\ new \in Seq(Byte)
      BY <1>0, <2>2, <2>4
    <3>2. ring' = [ring EXCEPT !.start = Len(log) + skip, !.buf = new]
      BY <2>1, <2>4
    <3> QED
      BY <3>1, <3>2 DEF Rings, cap
  <2>6. Len(log) + skip + Len(new) = Len(log')
    BY <1>0, <1>1, <1>2, <2>2, <2>3
  <2>7. Len(ring'.buf) <= ring'.cap
    BY <1>0, <2>2, <2>5
  <2>8. ring'.start + Len(ring'.buf) = Len(log') /\ ring'.buf = Drain(log', ring'.start)
    BY <1>2, <2>2, <2>5, <2>6
  <2> QED
    BY <1>2, <2>5, <2>7, <2>8 DEF RingInv, TypeOK, Bounded, HoldsTail, End
<1>4. CASE ~(Len(bytes) >= cap)
  <2> DEFINE over == Less(Len(buf) + Len(bytes), cap)
             new == Drain(buf, over) \o bytes
  <2>1. ring' = [ring EXCEPT !.start = start + over, !.buf = new]
    BY <1>4 DEF DoPush, Push
  <2> HIDE DEF cap, start, buf
  <2>2. over \in 0..Len(buf) /\ Len(buf) - over + Len(bytes) <= cap
    BY <1>0, <1>1, <1>4 DEF Less
  <2> HIDE DEF over
  <2>3. /\ new \in Seq(Byte) /\ Len(new) = Len(buf) - over + Len(bytes)
        /\ Drain(log \o bytes, start + over) = new
    <3>1. start \in 0..Len(log) /\ over \in 0..(Len(log) - start) /\ log \in Seq(Byte)
      BY <1>0, <1>9a, <2>2
    <3>2. /\ Drain(Drain(log, start), over) \o bytes \in Seq(Byte)
          /\ Len(Drain(Drain(log, start), over) \o bytes) = Len(log) - start - over + Len(bytes)
          /\ Drain(log \o bytes, start + over) = Drain(Drain(log, start), over) \o bytes
      BY <3>1, TailKept
    <3>3. Len(log) - start = Len(buf)
      BY <1>0, <1>9a
    <3> QED
      BY <1>9b, <3>2, <3>3
  <2> HIDE DEF new
  <2>4. start + over \in Nat
    BY <1>0, <2>2
  <2>5. ring' \in Rings /\ ring'.cap = cap /\ ring'.start = start + over /\ ring'.buf = new
    <3>1. ring \in Rings /\ new \in Seq(Byte)
      BY <1>0, <2>3
    <3> QED
      BY <3>1, <2>1, <2>4 DEF Rings, cap
  <2>6. start + over + Len(new) = Len(log') /\ Len(new) <= cap
    <3>1. Len(new) = Len(buf) - over + Len(bytes)
      BY <2>3
    <3>2. Len(log') = Len(log) + Len(bytes)
      BY <1>2
    <3>3. /\ start \in Nat /\ Len(buf) \in Nat /\ Len(log) \in Nat /\ Len(bytes) \in Nat
          /\ over \in Nat /\ over <= Len(buf)
      BY <1>0, <1>1, <2>2
    <3>4. Len(buf) - over + Len(bytes) <= cap
      BY <2>2
    <3>5. start + over + (Len(buf) - over + Len(bytes)) = start + Len(buf) + Len(bytes)
      BY <3>3
    <3> QED
      BY <1>9a, <3>1, <3>2, <3>4, <3>5
  <2>7. ring'.start + Len(ring'.buf) = Len(log') /\ Len(ring'.buf) <= ring'.cap
    BY <2>5, <2>6
  <2>8. ring'.buf = Drain(log', ring'.start)
    BY <1>2, <2>3, <2>5
  <2> QED
    BY <1>2, <2>5, <2>7, <2>8 DEF RingInv, TypeOK, Bounded, HoldsTail, End
<1> QED
  BY <1>3, <1>4

(***************************************************************************)
(* Trimming the front of the ring leaves a shorter tail of the same log.   *)
(***************************************************************************)
LEMMA RingTrim ==
    ASSUME RingInv, NEW n \in Nat, DoTrim(n)
    PROVE  RingInv'
<1> DEFINE cap == ring.cap
           start == ring.start
           buf == ring.buf
           m == IF n < Len(buf) THEN n ELSE Len(buf)
           new == Drain(buf, m)
<1>0. /\ ring \in Rings /\ cap \in Nat /\ start \in Nat /\ buf \in Seq(Byte)
      /\ log \in Seq(Byte) /\ Len(buf) \in Nat /\ Len(log) \in Nat
      /\ Len(buf) <= cap
  BY RingInvFacts
<1>9a. start + Len(buf) = Len(log)
  BY RingInvFacts
<1>9b. buf = Drain(log, start)
  BY RingInvFacts
<1>1. ring' = [ring EXCEPT !.start = start + m, !.buf = new] /\ log' = log
  BY DEF DoTrim, TrimFront
<1> HIDE DEF cap, start, buf
<1>2. m \in 0..Len(buf)
  BY <1>0
<1> HIDE DEF m
<1>3. new \in Seq(Byte) /\ Len(new) = Len(buf) - m /\ Drain(log, start + m) = new
  <2>1. start \in 0..Len(log) /\ m \in 0..(Len(log) - start) /\ log \in Seq(Byte)
    BY <1>0, <1>9a, <1>2
  <2>2. Drain(Drain(log, start), m) = Drain(log, start + m)
    BY <2>1, DrainDrain
  <2>3. Drain(log, start + m) = new
    BY <1>9b, <2>2
  <2>4. new \in Seq(Byte) /\ Len(new) = Len(buf) - m
    BY <1>0, <1>2, DrainFacts
  <2> QED
    BY <2>3, <2>4
<1> HIDE DEF new
<1>4. start + m \in Nat
  BY <1>0, <1>2
<1>5. ring' \in Rings /\ ring'.cap = cap /\ ring'.start = start + m /\ ring'.buf = new
  <2>1. ring \in Rings /\ new \in Seq(Byte)
    BY <1>0, <1>3
  <2> QED
    BY <2>1, <1>1, <1>4 DEF Rings, cap
<1>6. start + m + Len(new) = Len(log) /\ Len(new) <= cap
  <2>1. Len(new) = Len(buf) - m
    BY <1>3
  <2> QED
    BY <1>0, <1>9a, <1>2, <2>1
<1>7. ring'.start + Len(ring'.buf) = Len(log') /\ Len(ring'.buf) <= ring'.cap
  BY <1>1, <1>5, <1>6
<1>8. ring'.buf = Drain(log', ring'.start)
  BY <1>1, <1>3, <1>5
<1> QED
  BY <1>0, <1>1, <1>5, <1>7, <1>8 DEF RingInv, TypeOK, Bounded, HoldsTail, End

(***************************************************************************)
(* Handing a ring over in an upgrade gives the very same ring back.        *)
(***************************************************************************)
LEMMA RingRestore ==
    ASSUME RingInv, NEW cut \in 0..Len(ring.buf), DoRestore(cut)
    PROVE  ring' = ring
<1>0. /\ ring \in Rings /\ ring.cap \in Nat
      /\ ring.start \in Nat /\ ring.buf \in Seq(Byte)
      /\ Len(ring.buf) <= ring.cap
  BY RingAssumption DEF RingInv, TypeOK, Rings, Bounded
<1>1. Len(ring.buf) \in Nat
  BY <1>0, LenProperties
<1>2. CopyFrom(ring, cut, ring.start) = Drain(ring.buf, Clamp(ring.start, End(ring), ring.start) - ring.start)
  BY <1>0, CopyFromExact
<1>3. Clamp(ring.start, End(ring), ring.start) - ring.start = 0
  BY <1>0, <1>1 DEF Clamp, End
<1>4. Drain(ring.buf, 0) = ring.buf
  BY <1>0, <1>1 DEF Drain
<1>5. Less(Len(ring.buf), ring.cap) = 0
  BY <1>0, <1>1 DEF Less
<1>6. ring' = [cap |-> ring.cap, start |-> ring.start + 0, buf |-> Drain(ring.buf, 0)]
  BY <1>2, <1>3, <1>4, <1>5 DEF DoRestore, Restore
<1>7. ring' = [cap |-> ring.cap, start |-> ring.start, buf |-> ring.buf]
  BY <1>0, <1>4, <1>6
<1> QED
  BY <1>0, <1>7 DEF Rings

(***************************************************************************)
(* The ring holds exactly the newest part of everything the PTY wrote,     *)
(* within its capacity, after any sequence of pushes, trims and upgrades.  *)
(***************************************************************************)
THEOREM RingHoldsTail == Spec => [](TypeOK /\ Bounded /\ HoldsTail)
<1>1. Init => RingInv
  BY RingInit
<1>2. RingInv /\ [Next]_vars => RingInv'
  <2> SUFFICES ASSUME RingInv, [Next]_vars PROVE RingInv'
    OBVIOUS
  <2>1. ASSUME NEW bytes \in Chunks, DoPush(bytes) PROVE RingInv'
    <3>1. bytes \in Seq(Byte)
      BY RingAssumption DEF Chunks
    <3> QED
      BY <2>1, <3>1, RingPush
  <2>2. ASSUME NEW n \in 0..MaxChunk, DoTrim(n) PROVE RingInv'
    BY <2>2, RingTrim
  <2>3. ASSUME NEW cut \in 0..Len(ring.buf), DoRestore(cut) PROVE RingInv'
    <3>1. ring' = ring /\ log' = log
      BY <2>3, RingRestore DEF DoRestore
    <3> QED
      BY <3>1 DEF RingInv, TypeOK, Bounded, HoldsTail
  <2>4. CASE UNCHANGED vars
    BY <2>4 DEF vars, RingInv, TypeOK, Bounded, HoldsTail
  <2> QED
    BY <2>1, <2>2, <2>3, <2>4 DEF Next
<1>3. RingInv => TypeOK /\ Bounded /\ HoldsTail
  BY DEF RingInv
<1> QED
  BY <1>1, <1>2, <1>3, PTL DEF Spec

(***************************************************************************)
(* The ring and the log keep their types.                                  *)
(***************************************************************************)
THEOREM RingTypes == Spec => []TypeOK
BY RingHoldsTail, PTL

(***************************************************************************)
(* A ring never holds more than its capacity, whatever is pushed into it.  *)
(***************************************************************************)
THEOREM RingBounded == Spec => []Bounded
BY RingHoldsTail, PTL

(***************************************************************************)
(* An offset a client remembers names the same byte for ever: neither end  *)
(* of the window moves back.  A trim and an upgrade leave the end alone, a *)
(* push moves it by what it appends; the start is the end less what is     *)
(* held, so it moves by what is dropped.                                   *)
(***************************************************************************)
THEOREM RingMonotonic == Spec => Monotonic
<1>1. ASSUME RingInv, RingInv', [Next]_vars
      PROVE  [ring'.start >= ring.start /\ End(ring') >= End(ring)]_vars
  <2>1. /\ ring.start \in Nat /\ ring.cap \in Nat /\ ring.cap > 0 /\ Len(ring.buf) \in Nat
        /\ ring \in Rings /\ Len(ring.buf) <= ring.cap
        /\ End(ring) = Len(log) /\ End(ring') = Len(log')
    <3>1. /\ ring \in Rings /\ Len(ring.buf) <= ring.cap
          /\ End(ring) = Len(log) /\ End(ring)' = Len(log)'
      BY <1>1 DEF RingInv, TypeOK, Bounded, HoldsTail
    <3>2. ring.start \in Nat /\ ring.cap \in Nat \ {0} /\ ring.buf \in Seq(Byte)
      BY <3>1, RingAssumption DEF Rings
    <3>3. Len(ring.buf) \in Nat
      BY <3>2, LenProperties
    <3>4. End(ring') = Len(log')
      BY <3>1 DEF End
    <3> QED
      BY <3>1, <3>2, <3>3, <3>4
  <2>2. ASSUME NEW bytes \in Chunks, DoPush(bytes)
        PROVE  ring'.start >= ring.start /\ End(ring') >= End(ring)
    <3>1. bytes \in Seq(Byte) /\ Len(bytes) \in Nat
      BY RingAssumption, LenProperties DEF Chunks
    <3>2. Len(log') = Len(log) + Len(bytes) /\ Len(log) \in Nat
      BY <1>1, <2>2, <3>1, LenProperties, ConcatProperties DEF DoPush, RingInv, TypeOK
    <3>3. ring'.start >= ring.start
      <4>1. CASE Len(bytes) >= ring.cap
        <5>1. ring'.start = ring.start + Len(ring.buf) + (Len(bytes) - ring.cap)
          BY <2>1, <2>2, <4>1 DEF DoPush, Push, Rings
        <5> QED
          BY <2>1, <3>1, <4>1, <5>1
      <4>2. CASE ~(Len(bytes) >= ring.cap)
        <5>1. ring'.start = ring.start + Less(Len(ring.buf) + Len(bytes), ring.cap)
          BY <2>1, <2>2, <4>2 DEF DoPush, Push, Rings
        <5> QED
          BY <2>1, <3>1, <5>1 DEF Less
      <4> QED
        BY <4>1, <4>2
    <3> QED
      BY <2>1, <3>1, <3>2, <3>3
  <2>3. ASSUME NEW n \in 0..MaxChunk, DoTrim(n)
        PROVE  ring'.start >= ring.start /\ End(ring') >= End(ring)
    <3>1. log' = log /\ Len(log) \in Nat
      BY <1>1, <2>3, LenProperties DEF DoTrim, RingInv, TypeOK
    <3>2. n \in Nat
      BY RingAssumption
    <3>3. ring'.start = ring.start + (IF n < Len(ring.buf) THEN n ELSE Len(ring.buf))
      BY <2>1, <2>3 DEF DoTrim, TrimFront, Rings
    <3> QED
      BY <2>1, <3>1, <3>2, <3>3
  <2>4. ASSUME NEW cut \in 0..Len(ring.buf), DoRestore(cut)
        PROVE  ring'.start >= ring.start /\ End(ring') >= End(ring)
    <3>1. ring' = ring
      BY <1>1, <2>4, RingRestore
    <3>2. End(ring) \in Nat
      BY <2>1 DEF End
    <3> QED
      BY <2>1, <3>1, <3>2
  <2> QED
    BY <1>1, <2>2, <2>3, <2>4 DEF Next
<1> QED
  BY <1>1, RingHoldsTail, PTL DEF Spec, Monotonic, RingInv

(***************************************************************************)
(* Reading is exact in every state: what slices_from gives from any offset *)
(* on, however the VecDeque is split, is what was pushed from there on.    *)
(***************************************************************************)
THEOREM ReadsWhatWasPushed == Spec => []ReadsExact
<1>1. TypeOK /\ Bounded /\ HoldsTail => ReadsExact
  <2>. SUFFICES ASSUME RingInv,
                       NEW from \in 0..(MaxLog + 1), NEW cut \in 0..Len(ring.buf)
                PROVE  CopyFrom(ring, cut, from) = Drain(log, Clamp(ring.start, Len(log), from))
    BY DEF ReadsExact, RingInv
  <2>. DEFINE k == Clamp(ring.start, End(ring), from) - ring.start
  <2>1. /\ ring.start \in Nat /\ ring.buf \in Seq(Byte) /\ log \in Seq(Byte)
        /\ Len(ring.buf) \in Nat /\ Len(log) \in Nat
        /\ ring.start + Len(ring.buf) = Len(log)
    BY RingInvFacts
  <2>2. End(ring) = Len(log) /\ ring.buf = Drain(log, ring.start)
    BY DEF RingInv, HoldsTail
  <2>3. from \in Nat
    BY RingAssumption
  <2>4. k \in 0..Len(ring.buf) /\ CopyFrom(ring, cut, from) = Drain(ring.buf, k)
    BY <2>1, <2>3, CopyFromExact
  <2>5. ring.start + k = Clamp(ring.start, Len(log), from)
    BY <2>1, <2>2, <2>3 DEF Clamp
  <2>. HIDE DEF k
  <2>6. ring.start \in 0..Len(log) /\ k \in 0..(Len(log) - ring.start)
    BY <2>1, <2>4
  <2>7. Drain(Drain(log, ring.start), k) = Drain(log, ring.start + k)
    BY <2>1, <2>6, DrainDrain
  <2>. QED  BY <2>2, <2>4, <2>5, <2>7
<1>. QED  BY <1>1, RingHoldsTail, PTL

(***************************************************************************)
(* A record with two fields replaced, written out.                         *)
(***************************************************************************)
LEMMA ExtentUpdate ==
    ASSUME NEW e \in [cap: Nat, start: Nat, len: Nat], NEW a \in Nat, NEW b \in Nat
    PROVE  [e EXCEPT !.start = a, !.len = b] = [cap |-> e.cap, start |-> a, len |-> b]
<1>. DEFINE g == [e EXCEPT !.start = a, !.len = b]
            h == [cap |-> e.cap, start |-> a, len |-> b]
<1>1. g \in [cap: Nat, start: Nat, len: Nat] /\ g.cap = e.cap /\ g.start = a /\ g.len = b
  OBVIOUS
<1>2. h \in [cap: Nat, start: Nat, len: Nat] /\ h.cap = e.cap /\ h.start = a /\ h.len = b
  OBVIOUS
<1>. HIDE DEF g, h
<1>3. g = h
  BY <1>1, <1>2
<1>. QED  BY <1>3 DEF g, h

(***************************************************************************)
(* The extent operators are the methods of Ring seen from their offsets:   *)
(* what Ptyd computes with PushN, TrimN and RestoreN is what the bytes do. *)
(***************************************************************************)
THEOREM ExtentsAgree ==
    ASSUME NEW r \in Rings, NEW bytes \in Seq(Byte), NEW n \in Nat
    PROVE  /\ Extent(Push(r, bytes)) = PushN(Extent(r), Len(bytes))
           /\ Extent(TrimFront(r, n)) = TrimN(Extent(r), n)
           /\ Extent(Restore(r.cap, r.start, r.buf)) = RestoreN(Extent(r))
<1>. DEFINE e == Extent(r)
<1>1. /\ r.cap \in Nat /\ r.start \in Nat /\ r.buf \in Seq(Byte)
      /\ Len(r.buf) \in Nat /\ Len(bytes) \in Nat
  BY RingAssumption, LenProperties DEF Rings
<1>2. e.cap = r.cap /\ e.start = r.start /\ e.len = Len(r.buf)
  BY DEF Extent
<1>3. \A a, b \in Nat : [e EXCEPT !.start = a, !.len = b] = [cap |-> r.cap, start |-> a, len |-> b]
  <2>1. e \in [cap: Nat, start: Nat, len: Nat]
    BY <1>1 DEF Extent
  <2>. HIDE DEF e
  <2>. QED  BY <1>2, <2>1, ExtentUpdate
<1>4. \A a, b : Extent([r EXCEPT !.start = a, !.buf = b]) = [cap |-> r.cap, start |-> a, len |-> Len(b)]
  BY DEF Extent, Rings
<1>5. Extent(Push(r, bytes)) = PushN(e, Len(bytes))
  <2>1. CASE Len(bytes) >= r.cap
    <3>. DEFINE skip == Len(bytes) - r.cap
                a == r.start + Len(r.buf) + skip
                b == Drain(bytes, skip)
    <3>0. a \in Nat
      BY <1>1, <2>1, SMTT(30)
    <3>1. Len(b) = r.cap
      <4>1. skip \in 0..Len(bytes) /\ Len(bytes) - skip = r.cap
        BY <1>1, <2>1
      <4>. HIDE DEF skip
      <4>. QED  BY <4>1, DrainFacts
    <3>2. Push(r, bytes) = [r EXCEPT !.start = a, !.buf = b]
      BY <2>1 DEF Push
    <3>3. PushN(e, Len(bytes)) = [e EXCEPT !.start = a, !.len = r.cap]
      BY <1>2, <2>1 DEF PushN
    <3>. HIDE DEF a, b
    <3>4. Extent(Push(r, bytes)) = [cap |-> r.cap, start |-> a, len |-> Len(b)]
      BY <1>4, <3>2
    <3>5. PushN(e, Len(bytes)) = [cap |-> r.cap, start |-> a, len |-> r.cap]
      BY <1>1, <1>3, <3>0, <3>3
    <3>. QED  BY <3>1, <3>4, <3>5
  <2>2. CASE ~(Len(bytes) >= r.cap)
    <3>. DEFINE over == Less(Len(r.buf) + Len(bytes), r.cap)
                a == r.start + over
                b == Drain(r.buf, over) \o bytes
                l == Len(r.buf) + Len(bytes) - over
    <3>0. a \in Nat /\ l \in Nat
      <4>1. over \in 0..Len(r.buf)
        BY <1>1, <2>2 DEF Less
      <4>. HIDE DEF over
      <4>. QED  BY <1>1, <4>1
    <3>1. Len(b) = l
      <4>1. over \in 0..Len(r.buf)
        BY <1>1, <2>2 DEF Less
      <4>. HIDE DEF over
      <4>2. Drain(r.buf, over) \in Seq(Byte) /\ Len(Drain(r.buf, over)) = Len(r.buf) - over
        BY <1>1, <4>1, DrainFacts
      <4>3. Len(b) = (Len(r.buf) - over) + Len(bytes)
        BY <4>2, ConcatProperties
      <4>. QED  BY <1>1, <4>1, <4>3
    <3>2. Push(r, bytes) = [r EXCEPT !.start = a, !.buf = b]
      BY <2>2 DEF Push
    <3>3. PushN(e, Len(bytes)) = [e EXCEPT !.start = a, !.len = l]
      BY <1>2, <2>2 DEF PushN
    <3>. HIDE DEF a, b, l
    <3>4. Extent(Push(r, bytes)) = [cap |-> r.cap, start |-> a, len |-> Len(b)]
      BY <1>4, <3>2
    <3>5. PushN(e, Len(bytes)) = [cap |-> r.cap, start |-> a, len |-> l]
      BY <1>1, <1>3, <3>0, <3>3
    <3>. QED  BY <3>1, <3>4, <3>5
  <2>. QED  BY <2>1, <2>2
<1>6. Extent(TrimFront(r, n)) = TrimN(e, n)
  <2>. DEFINE m == IF n < Len(r.buf) THEN n ELSE Len(r.buf)
              a == r.start + m
              b == Drain(r.buf, m)
              l == Len(r.buf) - m
  <2>0. a \in Nat /\ l \in Nat
    BY <1>1
  <2>1. Len(b) = l
    <3>1. m \in 0..Len(r.buf)
      BY <1>1
    <3>. HIDE DEF m
    <3>. QED  BY <1>1, <3>1, DrainFacts
  <2>2. TrimFront(r, n) = [r EXCEPT !.start = a, !.buf = b]
    BY DEF TrimFront
  <2>3. TrimN(e, n) = [e EXCEPT !.start = a, !.len = l]
    BY <1>2 DEF TrimN
  <2>. HIDE DEF a, b, l
  <2>4. Extent(TrimFront(r, n)) = [cap |-> r.cap, start |-> a, len |-> Len(b)]
    BY <1>4, <2>2
  <2>5. TrimN(e, n) = [cap |-> r.cap, start |-> a, len |-> l]
    BY <1>3, <2>0, <2>3
  <2>. QED  BY <2>1, <2>4, <2>5
<1>7. Extent(Restore(r.cap, r.start, r.buf)) = RestoreN(e)
  <2>. DEFINE over == Less(Len(r.buf), r.cap)
              a == r.start + over
              b == Drain(r.buf, over)
              l == Len(r.buf) - over
  <2>0. a \in Nat /\ l \in Nat
    BY <1>1 DEF Less
  <2>1. Len(b) = l
    <3>1. over \in 0..Len(r.buf)
      BY <1>1 DEF Less
    <3>. HIDE DEF over
    <3>. QED  BY <1>1, <3>1, DrainFacts
  <2>2. Restore(r.cap, r.start, r.buf) = [cap |-> r.cap, start |-> a, buf |-> b]
    BY DEF Restore
  <2>3. RestoreN(e) = [e EXCEPT !.start = a, !.len = l]
    BY <1>2 DEF RestoreN
  <2>. HIDE DEF a, b, l
  <2>4. Extent(Restore(r.cap, r.start, r.buf)) = [cap |-> r.cap, start |-> a, len |-> Len(b)]
    BY <2>2 DEF Extent
  <2>5. RestoreN(e) = [cap |-> r.cap, start |-> a, len |-> l]
    BY <1>3, <2>0, <2>3
  <2>. QED  BY <2>1, <2>4, <2>5
<1>. QED  BY <1>5, <1>6, <1>7
=============================================================================
