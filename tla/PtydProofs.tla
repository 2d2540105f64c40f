----------------------------- MODULE PtydProofs -----------------------------
(***************************************************************************)
(* Proofs about Ptyd, for every set of sessions and every value of the     *)
(* bounds and timeouts.                                                    *)
(***************************************************************************)
EXTENDS Ptyd, TLAPS

-----------------------------------------------------------------------------
(***************************************************************************)
(* Extents of rings.                                                       *)
(***************************************************************************)
ServerRings == [cap: 1..RingMax, start: Nat, len: Nat]

\* Pushing n bytes moves the end of the window by n and the start forward.
LEMMA PushNFacts ==
    ASSUME NEW e \in ServerRings, NEW n \in Nat
    PROVE  /\ PushN(e, n) \in ServerRings
           /\ PushN(e, n).cap = e.cap
           /\ EndN(PushN(e, n)) = EndN(e) + n
           /\ PushN(e, n).start >= e.start
           /\ e.len <= e.cap => PushN(e, n).len <= e.cap
<1>1. e.cap \in Nat /\ e.start \in Nat /\ e.len \in Nat
  BY PtydAssumption DEF ServerRings
<1>3. CASE n >= e.cap
  <2>. DEFINE a == e.start + e.len + (n - e.cap)
  <2>1. PushN(e, n) = [e EXCEPT !.start = a, !.len = e.cap]
    BY <1>3 DEF PushN
  <2>2. a \in Nat /\ a >= e.start /\ a + e.cap = e.start + e.len + n
    BY <1>1, <1>3
  <2>. HIDE DEF a
  <2>3. /\ PushN(e, n) \in ServerRings
        /\ PushN(e, n).cap = e.cap
        /\ PushN(e, n).start = a
        /\ PushN(e, n).len = e.cap
    BY <1>1, <2>1, <2>2 DEF ServerRings
  <2>. QED  BY <1>1, <2>2, <2>3 DEF EndN
<1>4. CASE ~(n >= e.cap)
  <2>. DEFINE over == Less(e.len + n, e.cap)
              a == e.start + over
              b == e.len + n - over
  <2>1. PushN(e, n) = [e EXCEPT !.start = a, !.len = b]
    BY <1>4 DEF PushN
  <2>2. /\ a \in Nat /\ b \in Nat /\ a >= e.start
        /\ a + b = e.start + e.len + n
        /\ e.len <= e.cap => b <= e.cap
    BY <1>1, <1>4 DEF Less
  <2>. HIDE DEF a, b
  <2>3. /\ PushN(e, n) \in ServerRings
        /\ PushN(e, n).cap = e.cap
        /\ PushN(e, n).start = a
        /\ PushN(e, n).len = b
    BY <1>1, <2>1, <2>2 DEF ServerRings
  <2>. QED  BY <1>1, <2>2, <2>3 DEF EndN
<1>. QED  BY <1>3, <1>4

\* Trimming moves the start forward and leaves the end where it is.
LEMMA TrimNFacts ==
    ASSUME NEW e \in ServerRings, NEW n \in Nat
    PROVE  /\ TrimN(e, n) \in ServerRings
           /\ TrimN(e, n).cap = e.cap
           /\ EndN(TrimN(e, n)) = EndN(e)
           /\ TrimN(e, n).start >= e.start
           /\ e.len <= e.cap => TrimN(e, n).len <= e.cap
<1>1. e.cap \in Nat /\ e.start \in Nat /\ e.len \in Nat
  BY PtydAssumption DEF ServerRings
<1>. DEFINE m == IF n < e.len THEN n ELSE e.len
            a == e.start + m
            b == e.len - m
<1>2. TrimN(e, n) = [e EXCEPT !.start = a, !.len = b]
  BY DEF TrimN
<1>3. a \in Nat /\ b \in Nat /\ a >= e.start /\ a + b = e.start + e.len /\ b <= e.len
  BY <1>1
<1>. HIDE DEF a, b
<1>4. /\ TrimN(e, n) \in ServerRings
      /\ TrimN(e, n).cap = e.cap
      /\ TrimN(e, n).start = a
      /\ TrimN(e, n).len = b
  BY <1>1, <1>2, <1>3 DEF ServerRings
<1>. QED  BY <1>1, <1>3, <1>4 DEF EndN

\* What a self-upgrade makes of a ring.
LEMMA RestoreNFacts ==
    ASSUME NEW e \in ServerRings
    PROVE  /\ RestoreN(e) \in ServerRings
           /\ RestoreN(e).cap = e.cap
           /\ EndN(RestoreN(e)) = EndN(e)
           /\ RestoreN(e).start >= e.start
           /\ RestoreN(e).len <= e.cap
<1>1. e.cap \in Nat /\ e.start \in Nat /\ e.len \in Nat
  BY PtydAssumption DEF ServerRings
<1>. DEFINE over == Less(e.len, e.cap)
            a == e.start + over
            b == e.len - over
<1>2. RestoreN(e) = [e EXCEPT !.start = a, !.len = b]
  BY DEF RestoreN
<1>3. a \in Nat /\ b \in Nat /\ a >= e.start /\ a + b = e.start + e.len /\ b <= e.cap
  BY <1>1 DEF Less
<1>. HIDE DEF a, b
<1>4. /\ RestoreN(e) \in ServerRings
      /\ RestoreN(e).cap = e.cap
      /\ RestoreN(e).start = a
      /\ RestoreN(e).len = b
  BY <1>1, <1>2, <1>3 DEF ServerRings
<1>. QED  BY <1>1, <1>3, <1>4 DEF EndN

\* Clamping brings an offset into the window.
LEMMA ClampFacts ==
    ASSUME NEW lo \in Nat, NEW hi \in Nat, lo <= hi, NEW from \in Nat
    PROVE  /\ Clamp(lo, hi, from) \in Nat
           /\ lo <= Clamp(lo, hi, from) /\ Clamp(lo, hi, from) <= hi
           /\ lo <= from /\ from <= hi => Clamp(lo, hi, from) = from
  BY DEF Clamp

-----------------------------------------------------------------------------
(***************************************************************************)
(* The helpers that the handlers are made of: what they change and keep.   *)
(***************************************************************************)
\* The next byte to send is in the window of the ring.
InWindow(s) == s.ring.start <= s.sent /\ s.sent <= EndN(s.ring)

\* Two session records that differ at most in what was sent, which only grew.
SameButSent(t, s) ==
    /\ t.st = s.st /\ t.master = s.master /\ t.ring = s.ring /\ t.input = s.input
    /\ t.stream = s.stream /\ t.kill_waiters = s.kill_waiters
    /\ s.sent <= t.sent

\* A connection keeps its role; it may have been marked closing.
SameRole(d, e) ==
    d.kind = e.kind /\ d.sid = e.sid /\ d.gone = e.gone /\ (e.closing => d.closing)

\* Queue, Kick and Close give connections back.
LEMMA ConnTypes ==
    ASSUME NEW C \in [Conns -> Conn], NEW T, NEW c
    PROVE  /\ Queue(C, T) \in [Conns -> Conn]
           /\ Kick(C, T) \in [Conns -> Conn]
           /\ Close(C, c) \in [Conns -> Conn]
  BY DEF Queue, Kick, Close, Conn

\* Queue and Close leave every connection its role.
LEMMA ConnRoles ==
    ASSUME NEW C \in [Conns -> Conn], NEW T, NEW c
    PROVE  \A d \in Conns : /\ SameRole(Queue(C, T)[d], C[d]) /\ SameRole(Close(C, c)[d], C[d])
                            /\ Queue(C, T)[d].closing = C[d].closing
                            /\ d # c => Close(C, c)[d] = C[d]
  BY DEF Queue, Close, Conn, SameRole

\* flush_stream only moves `sent`, inside the window, and only closes: a
\* connection whose peer is gone, or whose session is over and all sent.
LEMMA FlushFacts ==
    ASSUME NEW S \in [Sids -> Session], NEW C \in [Conns -> Conn],
           NEW c \in Conns \cup {NoConn}, FlushStream(S, C, c)
    PROVE  /\ sessions' \in [Sids -> Session]
           /\ conns' \in [Conns -> Conn]
           /\ \A j \in Sids : SameButSent(sessions'[j], S[j])
           /\ \A j \in Sids : InWindow(S[j]) => InWindow(sessions'[j])
           /\ \A d \in Conns :
                 /\ SameRole(conns'[d], C[d])
                 /\ conns'[d].closing =>
                       \/ C[d].closing \/ C[d].gone
                       \/ \E j \in Sids : S[j].stream = d /\ Drained(sessions'[j])
<1>0. \A d \in Conns : SameRole(C[d], C[d])
  BY DEF SameRole
<1>1. ASSUME sessions' = S, conns' = C \/ (C[c].gone /\ conns' = Close(C, c))
      PROVE  /\ sessions' \in [Sids -> Session]
             /\ conns' \in [Conns -> Conn]
             /\ \A j \in Sids : SameButSent(sessions'[j], S[j])
             /\ \A j \in Sids : InWindow(S[j]) => InWindow(sessions'[j])
             /\ \A d \in Conns : SameRole(conns'[d], C[d])
             /\ \A d \in Conns : conns'[d].closing => C[d].closing \/ C[d].gone
  <2>1. /\ conns' \in [Conns -> Conn]
        /\ \A d \in Conns : /\ SameRole(conns'[d], C[d])
                            /\ conns'[d].closing => C[d].closing \/ C[d].gone
    BY <1>0, <1>1, ConnTypes, ConnRoles
  <2>2. \A j \in Sids : SameButSent(S[j], S[j])
    BY DEF SameButSent, Session
  <2>3. \A j \in Sids : SameButSent(sessions'[j], S[j])
    BY <1>1, <2>2
  <2>4. \A j \in Sids : InWindow(S[j]) => InWindow(sessions'[j])
    BY <1>1
  <2>. QED  BY <1>1, <2>1, <2>3, <2>4
<1>2. ASSUME NEW i \in Sids, NEW k \in 0..Unsent(S[i]),
             sessions' = [j \in Sids |-> IF j = i THEN [S[i] EXCEPT !.sent = @ + k] ELSE S[j]],
             S[i].stream = c,
             conns' = IF Drained([S[i] EXCEPT !.sent = @ + k]) THEN Close(C, c) ELSE C
      PROVE  /\ sessions' \in [Sids -> Session]
             /\ conns' \in [Conns -> Conn]
             /\ \A j \in Sids : SameButSent(sessions'[j], S[j])
             /\ \A j \in Sids : InWindow(S[j]) => InWindow(sessions'[j])
             /\ \A d \in Conns : SameRole(conns'[d], C[d])
             /\ \A d \in Conns : conns'[d].closing =>
                   C[d].closing \/ (S[i].stream = d /\ Drained(sessions'[i]))
  <2>1. conns' \in [Conns -> Conn] /\ \A d \in Conns : SameRole(conns'[d], C[d])
    BY <1>0, <1>2, ConnTypes, ConnRoles
  <2>2. k \in Nat
    OBVIOUS
  <2>3. sessions' \in [Sids -> Session] /\ \A j \in Sids : SameButSent(sessions'[j], S[j])
    <3>1. /\ [S[i] EXCEPT !.sent = @ + k] \in Session
          /\ SameButSent([S[i] EXCEPT !.sent = @ + k], S[i])
      BY <2>2 DEF Session, SameButSent
    <3>2. \A j \in Sids : SameButSent(S[j], S[j])
      BY DEF SameButSent, Session
    <3>. QED  BY <1>2, <3>1, <3>2
  <2>0. ASSUME NEW d \in Conns, conns'[d].closing, ~C[d].closing
        PROVE  S[i].stream = d /\ Drained(sessions'[i])
    <3>1. sessions'[i] = [S[i] EXCEPT !.sent = @ + k]
      BY <1>2
    <3>2. CASE Drained([S[i] EXCEPT !.sent = @ + k])
      BY <1>2, <2>0, <3>1, <3>2, ConnRoles
    <3>3. CASE ~Drained([S[i] EXCEPT !.sent = @ + k])
      BY <1>2, <2>0, <3>3
    <3>. QED  BY <3>2, <3>3
  <2>4. InWindow(S[i]) => InWindow(sessions'[i])
    <3>1. S[i].ring.start \in Nat /\ S[i].ring.len \in Nat /\ S[i].sent \in Nat
      BY DEF Session
    <3>2. sessions'[i].sent = S[i].sent + k /\ sessions'[i].ring = S[i].ring
      BY <1>2, <2>2 DEF Session
    <3>3. ASSUME InWindow(S[i])
          PROVE  k <= EndN(S[i].ring) - S[i].sent
      <4>1. EndN(S[i].ring) \in Nat /\ S[i].ring.start <= EndN(S[i].ring)
        BY <3>1 DEF EndN
      <4>2. Clamp(S[i].ring.start, EndN(S[i].ring), S[i].sent) = S[i].sent
        BY <3>1, <3>3, <4>1, ClampFacts DEF InWindow
      <4>3. k <= Unsent(S[i])
        BY <3>1, <4>1, <4>2 DEF Unsent
      <4>. QED  BY <4>2, <4>3 DEF Unsent
    <3>. QED  BY <2>2, <3>1, <3>2, <3>3 DEF InWindow, EndN
  <2>5. \A j \in Sids : InWindow(S[j]) => InWindow(sessions'[j])
    BY <1>2, <2>4
  <2>. QED  BY <2>0, <2>1, <2>3, <2>5
<1>. QED
  <2>1. CASE ~Flushable(S, C, c)
    BY <1>1, <2>1 DEF FlushStream
  <2>2. CASE Flushable(S, C, c)
    <3>. DEFINE i == C[c].sid
    <3>1. i \in Sids /\ S[i].stream = c
      BY <2>2 DEF Flushable, Conn
    <3>2. \/ C[c].gone /\ sessions' = S /\ conns' = Close(C, c)
          \/ \E k \in 0..Unsent(S[i]) :
                /\ sessions' = [j \in Sids |-> IF j = i THEN [S[i] EXCEPT !.sent = @ + k] ELSE S[j]]
                /\ conns' = IF Drained([S[i] EXCEPT !.sent = @ + k]) THEN Close(C, c) ELSE C
      BY <2>2 DEF FlushStream
    <3>. HIDE DEF i
    <3>3. CASE C[c].gone /\ sessions' = S /\ conns' = Close(C, c)
      BY <1>1, <3>3
    <3>4. CASE \E k \in 0..Unsent(S[i]) :
                /\ sessions' = [j \in Sids |-> IF j = i THEN [S[i] EXCEPT !.sent = @ + k] ELSE S[j]]
                /\ conns' = IF Drained([S[i] EXCEPT !.sent = @ + k]) THEN Close(C, c) ELSE C
      <4>1. PICK k \in 0..Unsent(S[i]) :
                /\ sessions' = [j \in Sids |-> IF j = i THEN [S[i] EXCEPT !.sent = @ + k] ELSE S[j]]
                /\ conns' = IF Drained([S[i] EXCEPT !.sent = @ + k]) THEN Close(C, c) ELSE C
        BY <3>4
      <4>. QED  BY <1>2, <3>1, <4>1
    <3>. QED  BY <3>2, <3>3, <3>4
  <2>. QED  BY <2>1, <2>2

\* A ring that was trimmed.
Shifted(f, e) ==
    /\ f.cap = e.cap
    /\ EndN(f) = EndN(e)
    /\ f.start >= e.start
    /\ e.len <= e.cap => f.len <= f.cap

\* enforce_total_cap only shifts rings.
LEMMA TrimmedFacts ==
    ASSUME NEW S \in [Sids -> Session], NEW cut \in Cuts
    PROVE  /\ Trimmed(S, cut) \in [Sids -> Session]
           /\ \A j \in Sids :
                 /\ Trimmed(S, cut)[j] = [S[j] EXCEPT !.ring = TrimN(S[j].ring, cut[j])]
                 /\ Shifted(Trimmed(S, cut)[j].ring, S[j].ring)
<1>1. ASSUME NEW j \in Sids
      PROVE  /\ TrimN(S[j].ring, cut[j]) \in ServerRings
             /\ Shifted(TrimN(S[j].ring, cut[j]), S[j].ring)
  <2>1. S[j].ring \in ServerRings /\ cut[j] \in Nat
    BY PtydAssumption DEF Session, ServerRings, Cuts
  <2>. QED  BY <2>1, TrimNFacts DEF Shifted
<1>2. \A j \in Sids : Trimmed(S, cut)[j] = [S[j] EXCEPT !.ring = TrimN(S[j].ring, cut[j])]
  BY DEF Trimmed
<1>3. Trimmed(S, cut) \in [Sids -> Session]
  BY <1>1, SMTT(30) DEF Trimmed, Session, ServerRings
<1>4. \A j \in Sids : Trimmed(S, cut)[j].ring = TrimN(S[j].ring, cut[j])
  BY <1>2 DEF Session
<1>. QED  BY <1>1, <1>2, <1>3, <1>4

\* check_overrun on every session: a stream that is left is in its window.
LEMMA CutStreamsFacts ==
    ASSUME NEW S \in [Sids -> Session]
    PROVE  /\ CutStreams(S) \in [Sids -> Session]
           /\ \A j \in Sids :
                 /\ CutStreams(S)[j].st = S[j].st
                 /\ CutStreams(S)[j].master = S[j].master
                 /\ CutStreams(S)[j].ring = S[j].ring
                 /\ CutStreams(S)[j].sent = S[j].sent
                 /\ CutStreams(S)[j].kill_waiters = S[j].kill_waiters
                 /\ CutStreams(S)[j].input = S[j].input
                 /\ CutStreams(S)[j].stream = IF j \in Overrun(S) THEN NoConn ELSE S[j].stream
                 /\ CutStreams(S)[j].stream # NoConn => S[j].ring.start <= S[j].sent
<1>1. CutStreams(S) \in [Sids -> Session]
  BY DEF CutStreams, Session
<1>2. ASSUME NEW j \in Sids
      PROVE  /\ CutStreams(S)[j].st = S[j].st
             /\ CutStreams(S)[j].master = S[j].master
             /\ CutStreams(S)[j].ring = S[j].ring
             /\ CutStreams(S)[j].sent = S[j].sent
             /\ CutStreams(S)[j].kill_waiters = S[j].kill_waiters
             /\ CutStreams(S)[j].input = S[j].input
             /\ CutStreams(S)[j].stream = IF j \in Overrun(S) THEN NoConn ELSE S[j].stream
  BY DEF CutStreams, Session
<1>3. ASSUME NEW j \in Sids, CutStreams(S)[j].stream # NoConn
      PROVE  S[j].ring.start <= S[j].sent
  BY <1>2, <1>3 DEF Overrun, Session
<1>. QED  BY <1>1, <1>2, <1>3

\* The connections that check_overrun kicks are those of the streams it cuts.
LEMMA CutConnsFacts ==
    ASSUME NEW S \in [Sids -> Session], NEW C \in [Conns -> Conn]
    PROVE  /\ CutConns(S, C) \in [Conns -> Conn]
           /\ \A d \in Conns :
                 /\ CutConns(S, C)[d].kind = C[d].kind
                 /\ CutConns(S, C)[d].gone = C[d].gone
                 /\ C[d].closing => CutConns(S, C)[d].closing
                 /\ \/ /\ CutConns(S, C)[d].sid = C[d].sid
                       /\ CutConns(S, C)[d].closing = C[d].closing
                    \/ \E j \in Overrun(S) : S[j].stream = d
<1>. DEFINE T == {S[i].stream : i \in Overrun(S)}
            Q == IF Overrun(S) = {} THEN {} ELSE {owner}
<1>1. Kick(C, T) \in [Conns -> Conn]
  BY ConnTypes
<1>2. CutConns(S, C) = Queue(Kick(C, T), Q)
  BY DEF CutConns
<1>3. CutConns(S, C) \in [Conns -> Conn]
  <2>. HIDE DEF T, Q
  <2>1. \A D \in [Conns -> Conn] : Queue(D, Q) \in [Conns -> Conn]
    BY ConnTypes
  <2>. QED  BY <1>1, <1>2, <2>1
<1>4. \A d \in Conns : /\ SameRole(CutConns(S, C)[d], Kick(C, T)[d])
                       /\ CutConns(S, C)[d].closing = Kick(C, T)[d].closing
  BY <1>1, <1>2, ConnRoles
<1>5. \A d \in Conns : /\ Kick(C, T)[d].kind = C[d].kind
                       /\ Kick(C, T)[d].gone = C[d].gone
                       /\ C[d].closing => Kick(C, T)[d].closing
                       /\ d \notin T => Kick(C, T)[d] = C[d]
  BY DEF Kick, Conn
<1>. QED  BY <1>3, <1>4, <1>5 DEF SameRole

\* What try_reap changes in a session record.
LEMMA EndedFacts ==
    ASSUME NEW s \in Session
    PROVE  /\ Ended(s) \in Session
           /\ Ended(s).st = "exited" /\ Ended(s).master = FALSE
           /\ Ended(s).kill_waiters = {} /\ Ended(s).input = 0
           /\ Ended(s).ring = s.ring /\ Ended(s).stream = s.stream /\ Ended(s).sent = s.sent
  BY DEF Ended, Session

\* What the rest of a handler does after it pushed to a ring: rings are only
\* shifted; the streams left are the old ones, in their windows, and were not
\* carried over a dropped byte; a connection loses its session only together
\* with the session's stream, and is closed only then, when its peer is gone
\* or when all output of an ended session was sent.
PushEffect(S, i, ended) ==
    /\ \A j \in Sids :
          /\ Shifted(sessions'[j].ring, S[j].ring)
          /\ ended /\ j = i => /\ sessions'[j].st = "exited"
                               /\ sessions'[j].master = FALSE
                               /\ sessions'[j].kill_waiters = {}
          /\ ~(ended /\ j = i) => /\ sessions'[j].st = S[j].st
                                  /\ sessions'[j].master = S[j].master
                                  /\ sessions'[j].kill_waiters = S[j].kill_waiters
          /\ sessions'[j].input \in {S[j].input, 0}
          /\ sessions'[j].stream \in {S[j].stream, NoConn}
          /\ (sessions'[j].stream # NoConn /\ S[j].sent <= EndN(S[j].ring)) =>
                 InWindow(sessions'[j])
          /\ sessions'[j].stream # NoConn =>
                 sessions'[j].ring.start <= S[j].sent /\ S[j].sent <= sessions'[j].sent
    /\ \A d \in Conns :
          /\ conns'[d].kind = conns[d].kind
          /\ conns'[d].gone = conns[d].gone
          /\ conns[d].closing => conns'[d].closing
          /\ conns'[d].closing =>
                \/ conns[d].closing \/ conns[d].gone
                \/ \E j \in Sids : /\ S[j].stream = d
                                   /\ sessions'[j].stream = NoConn \/ Drained(sessions'[j])
          /\ \/ conns'[d].sid = conns[d].sid
             \/ \E j \in Sids : S[j].stream = d /\ sessions'[j].stream = NoConn

\* AfterPush has that effect.
LEMMA AfterPushFacts ==
    ASSUME NEW S \in [Sids -> Session], conns \in [Conns -> Conn], NEW i \in Sids,
           NEW ended \in BOOLEAN, NEW T, AfterPush(S, i, ended, T)
    PROVE  /\ sessions' \in [Sids -> Session]
           /\ conns' \in [Conns -> Conn]
           /\ PushEffect(S, i, ended)
           /\ \E cut \in Cuts : /\ TotalCapCut(S, cut)
                               /\ \A j \in Sids : sessions'[j].ring = TrimN(S[j].ring, cut[j])
<1>1. PICK cut \in Cuts :
         /\ TotalCapCut(S, cut)
         /\ LET S1 == Trimmed(S, cut)
                S2 == CutStreams(S1)
                S3 == [j \in Sids |-> IF ended /\ j = i THEN Ended(S2[j]) ELSE S2[j]]
            IN  FlushStream(S3, Queue(CutConns(S1, conns), T), S3[i].stream)
  BY DEF AfterPush
<1>. DEFINE S1 == Trimmed(S, cut)
            S2 == CutStreams(S1)
            S3 == [j \in Sids |-> IF ended /\ j = i THEN Ended(S2[j]) ELSE S2[j]]
            C1 == CutConns(S1, conns)
            C2 == Queue(C1, T)
<1>2. FlushStream(S3, C2, S3[i].stream)
  BY <1>1
<1>3. /\ S1 \in [Sids -> Session]
      /\ \A j \in Sids : /\ S1[j] = [S[j] EXCEPT !.ring = TrimN(S[j].ring, cut[j])]
                         /\ Shifted(S1[j].ring, S[j].ring)
  BY TrimmedFacts
<1>4. \A j \in Sids : /\ S1[j].st = S[j].st /\ S1[j].master = S[j].master
                      /\ S1[j].kill_waiters = S[j].kill_waiters /\ S1[j].input = S[j].input
                      /\ S1[j].stream = S[j].stream /\ S1[j].sent = S[j].sent
                      /\ S1[j].ring = TrimN(S[j].ring, cut[j])
  BY <1>3 DEF Session
<1>. HIDE DEF S1
<1>5. /\ S2 \in [Sids -> Session]
      /\ \A j \in Sids :
            /\ S2[j].st = S1[j].st /\ S2[j].master = S1[j].master
            /\ S2[j].kill_waiters = S1[j].kill_waiters /\ S2[j].input = S1[j].input
            /\ S2[j].ring = S1[j].ring /\ S2[j].sent = S1[j].sent
            /\ S2[j].stream = IF j \in Overrun(S1) THEN NoConn ELSE S1[j].stream
            /\ S2[j].stream # NoConn => S1[j].ring.start <= S1[j].sent
  BY <1>3, CutStreamsFacts
<1>6. /\ C1 \in [Conns -> Conn]
      /\ \A d \in Conns : /\ C1[d].kind = conns[d].kind /\ C1[d].gone = conns[d].gone
                          /\ conns[d].closing => C1[d].closing
                          /\ \/ C1[d].sid = conns[d].sid /\ C1[d].closing = conns[d].closing
                             \/ \E j \in Overrun(S1) : S1[j].stream = d
  BY <1>3, CutConnsFacts
<1>. HIDE DEF S2, C1
<1>7. /\ C2 \in [Conns -> Conn]
      /\ \A d \in Conns : SameRole(C2[d], C1[d]) /\ C2[d].closing = C1[d].closing
  <2>1. \A D \in [Conns -> Conn] : Queue(D, T) \in [Conns -> Conn]
    BY ConnTypes
  <2>2. \A D \in [Conns -> Conn] : \A d \in Conns :
           SameRole(Queue(D, T)[d], D[d]) /\ Queue(D, T)[d].closing = D[d].closing
    BY ConnRoles
  <2>. QED  BY <1>6, <2>1, <2>2
<1>8. /\ S3 \in [Sids -> Session]
      /\ \A j \in Sids :
            /\ S3[j].ring = S2[j].ring /\ S3[j].stream = S2[j].stream /\ S3[j].sent = S2[j].sent
            /\ ended /\ j = i => /\ S3[j].st = "exited" /\ S3[j].master = FALSE
                                 /\ S3[j].kill_waiters = {} /\ S3[j].input = 0
            /\ ~(ended /\ j = i) => S3[j] = S2[j]
  BY <1>5, EndedFacts
<1>. HIDE DEF S3, C2
<1>9. S3[i].stream \in Conns \cup {NoConn}
  BY <1>8 DEF Session
<1>10. /\ sessions' \in [Sids -> Session]
       /\ conns' \in [Conns -> Conn]
       /\ \A j \in Sids : SameButSent(sessions'[j], S3[j])
       /\ \A j \in Sids : InWindow(S3[j]) => InWindow(sessions'[j])
       /\ \A d \in Conns :
             /\ SameRole(conns'[d], C2[d])
             /\ conns'[d].closing =>
                   \/ C2[d].closing \/ C2[d].gone
                   \/ \E j \in Sids : S3[j].stream = d /\ Drained(sessions'[j])
  BY <1>2, <1>7, <1>8, <1>9, FlushFacts
<1>11. ASSUME NEW j \in Sids
       PROVE  /\ Shifted(sessions'[j].ring, S[j].ring)
              /\ ended /\ j = i => /\ sessions'[j].st = "exited"
                                   /\ sessions'[j].master = FALSE
                                   /\ sessions'[j].kill_waiters = {}
              /\ ~(ended /\ j = i) => /\ sessions'[j].st = S[j].st
                                      /\ sessions'[j].master = S[j].master
                                      /\ sessions'[j].kill_waiters = S[j].kill_waiters
              /\ sessions'[j].input \in {S[j].input, 0}
              /\ sessions'[j].stream \in {S[j].stream, NoConn}
              /\ sessions'[j].stream # NoConn =>
                    sessions'[j].ring.start <= S[j].sent /\ S[j].sent <= sessions'[j].sent
  BY <1>3, <1>4, <1>5, <1>8, <1>10, SMTT(30) DEF SameButSent
<1>12. ASSUME NEW j \in Sids, sessions'[j].stream # NoConn, S[j].sent <= EndN(S[j].ring)
       PROVE  InWindow(sessions'[j])
  <2>1. S3[j].stream # NoConn
    BY <1>10, <1>12 DEF SameButSent
  <2>2. S1[j].ring.start <= S1[j].sent
    BY <1>5, <1>8, <2>1
  <2>3. S3[j].ring = S1[j].ring /\ S3[j].sent = S1[j].sent /\ S1[j].sent = S[j].sent
    BY <1>4, <1>5, <1>8
  <2>4. EndN(S1[j].ring) = EndN(S[j].ring)
    BY <1>3 DEF Shifted
  <2>5. InWindow(S3[j])
    BY <1>12, <2>2, <2>3, <2>4 DEF InWindow
  <2>. QED  BY <1>10, <2>5
<1>13. ASSUME NEW d \in Conns
       PROVE  /\ conns'[d].kind = conns[d].kind
              /\ conns'[d].gone = conns[d].gone
              /\ conns[d].closing => conns'[d].closing
              /\ conns'[d].closing =>
                    \/ conns[d].closing \/ conns[d].gone
                    \/ \E j \in Sids : /\ S[j].stream = d
                                       /\ sessions'[j].stream = NoConn \/ Drained(sessions'[j])
              /\ \/ conns'[d].sid = conns[d].sid
                 \/ \E j \in Sids : S[j].stream = d /\ sessions'[j].stream = NoConn
  <2>1. SameRole(conns'[d], C2[d]) /\ SameRole(C2[d], C1[d]) /\ C2[d].closing = C1[d].closing
    BY <1>7, <1>10
  <2>2. CASE C1[d].sid = conns[d].sid /\ C1[d].closing = conns[d].closing
    <3>1. ASSUME NEW j \in Sids, S3[j].stream = d
          PROVE  S[j].stream = d
      BY <1>4, <1>5, <1>8, <3>1 DEF NoConn, Conns
    <3>2. conns'[d].closing =>
             \/ conns[d].closing \/ conns[d].gone
             \/ \E j \in Sids : S[j].stream = d /\ Drained(sessions'[j])
      BY <1>6, <1>10, <2>1, <2>2, <3>1 DEF SameRole
    <3>. QED  BY <1>6, <2>1, <2>2, <3>2 DEF SameRole
  <2>3. CASE \E j \in Overrun(S1) : S1[j].stream = d
    <3>1. PICK j \in Overrun(S1) : S1[j].stream = d
      BY <2>3
    <3>2. j \in Sids
      BY <3>1 DEF Overrun
    <3>3. S[j].stream = d /\ sessions'[j].stream = NoConn
      BY <1>4, <1>5, <1>8, <1>10, <3>1, <3>2 DEF SameButSent
    <3>. QED  BY <1>6, <2>1, <3>2, <3>3 DEF SameRole
  <2>. QED  BY <1>6, <2>2, <2>3
<1>14. PushEffect(S, i, ended)
  BY <1>11, <1>12, <1>13 DEF PushEffect
<1>15. \A j \in Sids : sessions'[j].ring = TrimN(S[j].ring, cut[j])
  BY <1>4, <1>5, <1>8, <1>10 DEF SameButSent
<1>. QED  BY <1>1, <1>10, <1>14, <1>15

-----------------------------------------------------------------------------
(***************************************************************************)
(* Types.                                                                  *)
(***************************************************************************)
\* The constants one by one.
LEMMA Constants ==
    /\ MaxConn \in Nat /\ RingMax \in Nat /\ RingMax > 0 /\ RingCaps \subseteq 1..RingMax
    /\ ReadMax \in Nat /\ ReadMax > 0 /\ DrainReads \in Nat /\ MaxOut \in Nat /\ MetaSizes \subseteq {0, 1}
    /\ KillGrace \in Nat /\ ShutdownGrace \in Nat /\ Orphan \in Nat
    /\ ExitedTtl \in Nat /\ Idle \in Nat /\ NoSid \notin Sids
  BY PtydAssumption

\* The empty records.
LEMMA EmptyTypes == NoSession \in Session /\ Absent \in Conn /\ NoPty \in Pty
  BY Constants DEF NoSession, NewN, Session, NoConn, Never, Absent, Conn, NoPty, Pty

\* The updates of a single field that the handlers make.
LEMMA SessionUpdates ==
    ASSUME NEW s \in Session, NEW n \in Nat
    PROVE  /\ [s EXCEPT !.stream = NoConn] \in Session
           /\ [s EXCEPT !.master = FALSE] \in Session
           /\ [s EXCEPT !.input = n] \in Session
           /\ [s EXCEPT !.kill_deadline = Never] \in Session
           /\ \A c \in Conns : [s EXCEPT !.stream = c, !.sent = n] \in Session
           /\ \A m \in MetaSizes : [s EXCEPT !.meta = m] \in Session
           /\ \A c \in Conns, k \in Nat \cup {Never} :
                 [s EXCEPT !.kill_deadline = k, !.kill_waiters = s.kill_waiters \cup {c}] \in Session
<1>1. s.kill_waiters \in SUBSET Conns
  BY DEF Session
<1>2. ASSUME NEW c \in Conns, NEW k \in Nat \cup {Never}
      PROVE  [s EXCEPT !.kill_deadline = k, !.kill_waiters = s.kill_waiters \cup {c}] \in Session
  <2>1. s.kill_waiters \cup {c} \in SUBSET Conns
    BY <1>1
  <2>. QED  BY <2>1 DEF Session
<1>3. \A c \in Conns : [s EXCEPT !.stream = c, !.sent = n] \in Session
  BY DEF Session
<1>4. /\ [s EXCEPT !.stream = NoConn] \in Session
      /\ [s EXCEPT !.master = FALSE] \in Session
      /\ [s EXCEPT !.input = n] \in Session
      /\ [s EXCEPT !.kill_deadline = Never] \in Session
  BY DEF Session
<1>5. \A m \in MetaSizes : [s EXCEPT !.meta = m] \in Session
  BY Constants DEF Session
<1>. QED  BY <1>2, <1>3, <1>4, <1>5

\* The record a push to the ring of session i starts from.
LEMMA PushedFacts ==
    ASSUME NEW S \in [Sids -> Session], NEW i \in Sids, NEW r \in ServerRings
    PROVE  /\ [S EXCEPT ![i].ring = r] \in [Sids -> Session]
           /\ [S EXCEPT ![i].ring = r][i].ring = r
           /\ \A j \in Sids :
                 /\ j # i => [S EXCEPT ![i].ring = r][j] = S[j]
                 /\ [S EXCEPT ![i].ring = r][j].st = S[j].st
                 /\ [S EXCEPT ![i].ring = r][j].master = S[j].master
                 /\ [S EXCEPT ![i].ring = r][j].kill_waiters = S[j].kill_waiters
                 /\ [S EXCEPT ![i].ring = r][j].stream = S[j].stream
                 /\ [S EXCEPT ![i].ring = r][j].sent = S[j].sent
                 /\ [S EXCEPT ![i].ring = r][j].input = S[j].input
<1>. DEFINE t == [S[i] EXCEPT !.ring = r]
            P == [S EXCEPT ![i].ring = r]
<1>1. S[i] \in Session
  OBVIOUS
<1>2. /\ t \in Session /\ t.ring = r /\ t.st = S[i].st /\ t.master = S[i].master
      /\ t.kill_waiters = S[i].kill_waiters /\ t.stream = S[i].stream /\ t.sent = S[i].sent
      /\ t.input = S[i].input
  BY <1>1 DEF Session, ServerRings
<1>3. P = [S EXCEPT ![i] = t]
  OBVIOUS
<1>. HIDE DEF t, P
<1>4. P \in [Sids -> Session] /\ P[i] = t /\ \A j \in Sids : j # i => P[j] = S[j]
  BY <1>2, <1>3
<1>5. /\ P[i].ring = r
      /\ \A j \in Sids : /\ P[j].st = S[j].st /\ P[j].master = S[j].master
                         /\ P[j].kill_waiters = S[j].kill_waiters
                         /\ P[j].stream = S[j].stream /\ P[j].sent = S[j].sent
                         /\ P[j].input = S[j].input
  BY <1>2, <1>4
<1>. QED  BY <1>4, <1>5 DEF P

\* What a self-upgrade makes of a session record.
LEMMA ResumedFacts ==
    ASSUME NEW s \in Session
    PROVE  /\ Resumed(s) \in Session
           /\ Resumed(s).ring = RestoreN(s.ring)
           /\ Resumed(s).st = s.st /\ Resumed(s).master = s.master
           /\ Resumed(s).stream = NoConn /\ Resumed(s).kill_waiters = {}
           /\ Resumed(s).input = s.input
<1>. DEFINE r == RestoreN(s.ring)
            t == [s EXCEPT !.ring = r, !.stream = NoConn, !.sent = 0]
<1>1. r \in ServerRings
  BY RestoreNFacts DEF Session, ServerRings
<1>2. Resumed(s) = [t EXCEPT !.kill_deadline = Never, !.kill_waiters = {}]
  BY DEF Resumed
<1>. HIDE DEF r
<1>3. t \in Session /\ t.ring = r /\ t.st = s.st /\ t.master = s.master /\ t.stream = NoConn
      /\ t.input = s.input
  BY <1>1 DEF Session, ServerRings
<1>. HIDE DEF t
<1>4. /\ Resumed(s) \in Session /\ Resumed(s).ring = t.ring
      /\ Resumed(s).st = t.st /\ Resumed(s).master = t.master
      /\ Resumed(s).stream = t.stream /\ Resumed(s).kill_waiters = {}
      /\ Resumed(s).input = t.input
  BY <1>2, <1>3 DEF Session
<1>. QED  BY <1>3, <1>4 DEF r

\* A reap that got n bytes out of the terminal, late of the bytes written
\* having come while it was at work.
Reaps(i, n, late) ==
    LET r == PushN(sessions[i].ring, n) IN
    /\ n \in Nat /\ late \in Nat /\ n <= pty[i].out + late
    /\ sessions[i].master => pty[i].out <= n + Over(pty[i].out, DrainReads)
    /\ ~sessions[i].master => n = 0 /\ late = 0
    /\ r \in ServerRings /\ EndN(r) = EndN(sessions[i].ring) + n
    /\ r.cap = sessions[i].ring.cap /\ r.start >= sessions[i].ring.start
    /\ sessions[i].ring.len <= sessions[i].ring.cap => r.len <= sessions[i].ring.cap
    /\ AfterPush([sessions EXCEPT ![i].ring = r], i, TRUE, sessions[i].kill_waiters \cup {owner})
    /\ pty' = [pty EXCEPT ![i] = Hung(pty[i], late)]

\* What closing the master leaves of the terminal.
LEMMA HungFacts ==
    ASSUME NEW p \in Pty, NEW late \in Nat
    PROVE  /\ Hung(p, late) \in Pty
           /\ Hung(p, late).child = "none" /\ Hung(p, late).out = 0
           /\ Hung(p, late).wrote = p.wrote + late
           /\ Hung(p, late).late = late + Over(p.out, DrainReads)
<1>1. p.wrote + late \in Nat /\ late + Over(p.out, DrainReads) \in Nat
  BY Constants DEF Pty, Over
<1>. QED  BY <1>1 DEF Hung, Pty

\* Every reap is one of these.
LEMMA ReapFacts ==
    ASSUME TypeOK, NEW i \in Sids, TryReap(i)
    PROVE  \E n, late \in Nat : Reaps(i, n, late)
<1>1. sessions[i] \in Session /\ pty[i] \in Pty
  BY DEF TypeOK
<1>2. pty[i].out \in Nat /\ pty[i].wrote \in Nat /\ sessions[i].ring \in ServerRings
  BY <1>1 DEF Session, ServerRings, Pty
<1>3. PICK late \in LateWrites(sessions[i], pty[i]) :
         \E n \in DrainMaster(sessions[i], pty[i], late) :
            /\ AfterPush([sessions EXCEPT ![i].ring = PushN(sessions[i].ring, n)], i, TRUE,
                         sessions[i].kill_waiters \cup {owner})
            /\ pty' = [pty EXCEPT ![i] = Hung(pty[i], late)]
  BY DEF TryReap
<1>4. late \in Nat /\ (~sessions[i].master => late = 0)
  BY <1>2, Constants DEF LateWrites, Over
<1>5. PICK n \in DrainMaster(sessions[i], pty[i], late) :
         /\ AfterPush([sessions EXCEPT ![i].ring = PushN(sessions[i].ring, n)], i, TRUE,
                      sessions[i].kill_waiters \cup {owner})
         /\ pty' = [pty EXCEPT ![i] = Hung(pty[i], late)]
  BY <1>3
<1>6. /\ n \in Nat /\ n <= pty[i].out + late
      /\ sessions[i].master => pty[i].out <= n + Over(pty[i].out, DrainReads)
      /\ ~sessions[i].master => n = 0
  BY <1>2, <1>4, Constants DEF DrainMaster, Over, Least
<1>. DEFINE r == PushN(sessions[i].ring, n)
<1>7. /\ r \in ServerRings /\ EndN(r) = EndN(sessions[i].ring) + n
      /\ r.cap = sessions[i].ring.cap /\ r.start >= sessions[i].ring.start
      /\ sessions[i].ring.len <= sessions[i].ring.cap => r.len <= sessions[i].ring.cap
  BY <1>2, <1>6, PushNFacts
<1>. HIDE DEF r
<1>8. /\ AfterPush([sessions EXCEPT ![i].ring = r], i, TRUE, sessions[i].kill_waiters \cup {owner})
      /\ pty' = [pty EXCEPT ![i] = Hung(pty[i], late)]
  BY <1>5 DEF r
<1>9. Reaps(i, n, late)
  BY <1>4, <1>6, <1>7, <1>8 DEF Reaps, r
<1>. QED  BY <1>4, <1>6, <1>9

\* master_readable: the bytes read are at most those in the terminal.
LEMMA ReadFacts ==
    ASSUME TypeOK, NEW i \in Sids
    PROVE  /\ Least(pty[i].out, ReadMax) \in Nat
           /\ Least(pty[i].out, ReadMax) <= pty[i].out
           /\ pty[i].out - Least(pty[i].out, ReadMax) \in Nat
<1>1. pty[i].out \in Nat
  BY DEF TypeOK, Pty
<1>. QED  BY <1>1, Constants DEF Least

\* try_reap keeps the types.
LEMMA TryReapTypes ==
    ASSUME TypeOK, NEW i \in Sids, TryReap(i)
    PROVE  /\ sessions' \in [Sids -> Session]
           /\ conns' \in [Conns -> Conn]
           /\ pty' \in [Sids -> Pty]
<1>1. sessions \in [Sids -> Session] /\ conns \in [Conns -> Conn] /\ pty \in [Sids -> Pty]
  BY DEF TypeOK
<1>2. PICK n, late \in Nat : Reaps(i, n, late)
  BY ReapFacts
<1>. DEFINE r == PushN(sessions[i].ring, n)
            S == [sessions EXCEPT ![i].ring = r]
            T == sessions[i].kill_waiters \cup {owner}
<1>0. r \in ServerRings
  BY <1>2 DEF Reaps
<1>4. AfterPush(S, i, TRUE, T)
  BY <1>2 DEF Reaps
<1>. HIDE DEF r
<1>3. S \in [Sids -> Session]
  BY <1>0, <1>1, PushedFacts
<1>. HIDE DEF S, T
<1>5. sessions' \in [Sids -> Session] /\ conns' \in [Conns -> Conn]
  BY <1>1, <1>3, <1>4, AfterPushFacts
<1>6. pty' \in [Sids -> Pty]
  <2>1. pty[i] \in Pty
    BY <1>1
  <2>2. Hung(pty[i], late) \in Pty
    BY <2>1, HungFacts
  <2>3. pty' = [pty EXCEPT ![i] = Hung(pty[i], late)]
    BY <1>2 DEF Reaps
  <2>. QED  BY <1>1, <2>2, <2>3
<1>. QED  BY <1>5, <1>6

\* The state in which a process begins has the right types.
LEMMA TypeInit == Init => TypeOK
<1>. SUFFICES ASSUME Init PROVE TypeOK
  OBVIOUS
<1>1. sessions \in [Sids -> Session] /\ conns \in [Conns -> Conn] /\ pty \in [Sids -> Pty]
  BY EmptyTypes DEF Init
<1>2. up \in BOOLEAN /\ exit_now \in BOOLEAN /\ term \in BOOLEAN
  BY DEF Init
<1>3. next_conn \in Nat /\ next_conn > 0 /\ owner \in Conns \cup {NoConn}
  BY DEF Init
<1>4. /\ ownerless_since \in Nat \cup {Never} /\ idle_since \in Nat \cup {Never}
      /\ shutting_down \in Nat \cup {Never}
  BY DEF Init
<1>. QED  BY <1>1, <1>2, <1>3, <1>4 DEF TypeOK

\* So has the state in which it ends.
LEMMA ExitTypes ==
    ASSUME ExitProcess
    PROVE  TypeOK'
<1>1. sessions' \in [Sids -> Session] /\ conns' \in [Conns -> Conn] /\ pty' \in [Sids -> Pty]
  BY EmptyTypes DEF ExitProcess
<1>2. up' \in BOOLEAN /\ exit_now' \in BOOLEAN /\ term' \in BOOLEAN
  BY DEF ExitProcess
<1>3. next_conn' \in Nat /\ next_conn' > 0 /\ owner' \in Conns \cup {NoConn}
  BY DEF ExitProcess
<1>4. /\ ownerless_since' \in Nat \cup {Never} /\ idle_since' \in Nat \cup {Never}
      /\ shutting_down' \in Nat \cup {Never}
  BY DEF ExitProcess
<1>. QED  BY <1>1, <1>2, <1>3, <1>4 DEF TypeOK

\* begin_shutdown keeps the types.
LEMMA ShutdownTypes ==
    ASSUME TypeOK, BeginShutdown, term' \in BOOLEAN
    PROVE  TypeOK'
  BY Constants DEF BeginShutdown, TypeOK, ownership, Never

\* drop_conn keeps the types.
LEMMA DropTypes ==
    ASSUME TypeOK, NEW c \in Conns, DropConn(c)
    PROVE  TypeOK'
<1>1. sessions' \in [Sids -> Session]
  <2>1. \A i \in Sids : /\ sessions[i] \in Session
                        /\ [sessions[i] EXCEPT !.stream = NoConn] \in Session
    BY SessionUpdates DEF TypeOK
  <2>. QED  BY <2>1 DEF DropConn, Detach, TypeOK
<1>2. conns' \in [Conns -> Conn]
  BY EmptyTypes DEF DropConn, TypeOK
<1>. QED  BY <1>1, <1>2 DEF DropConn, TypeOK, lifecycle, NoConn

\* What a connection's own frames and its socket do keeps the types.
LEMMA ConnStepTypes ==
    ASSUME TypeOK, NEW c \in Conns, ConnStep(c)
    PROVE  TypeOK'
<1>. USE DEF ownership, lifecycle
<1>0. sessions \in [Sids -> Session] /\ conns \in [Conns -> Conn]
  BY DEF TypeOK
<1>1. CASE ConnEof(c) \/ ReapClosedConn(c)
  BY <1>1, DropTypes DEF ConnEof, ReapClosedConn
<1>2. CASE ConnWritable(c)
  <2>1. [conns EXCEPT ![c].wbuf = FALSE] \in [Conns -> Conn]
    BY <1>0 DEF Conn
  <2>2. CASE conns[c].wbuf /\ conns[c].gone
    <3>1. sessions' = sessions /\ conns' \in [Conns -> Conn]
      BY <1>0, <1>2, <2>2 DEF ConnWritable, Conn
    <3>. QED  BY <1>2, <3>1 DEF ConnWritable, TypeOK
  <2>3. CASE ~(conns[c].wbuf /\ conns[c].gone)
    <3>1. FlushStream(sessions, [conns EXCEPT ![c].wbuf = FALSE], c)
      BY <1>2, <2>3 DEF ConnWritable
    <3>2. sessions' \in [Sids -> Session] /\ conns' \in [Conns -> Conn]
      BY <1>0, <2>1, <3>1, FlushFacts
    <3>. QED  BY <1>2, <3>2 DEF ConnWritable, TypeOK
  <2>. QED  BY <2>2, <2>3
<1>3. CASE HelloRefused(c) \/ HelloData(c) \/ PeerVanishes(c)
  <2>1. sessions' = sessions /\ conns' \in [Conns -> Conn]
    <3>1. conns[c] \in Conn
      BY <1>0
    <3>2. /\ [conns[c] EXCEPT !.wbuf = TRUE, !.closing = TRUE] \in Conn
          /\ [conns[c] EXCEPT !.kind = "data", !.wbuf = TRUE] \in Conn
          /\ [conns[c] EXCEPT !.gone = TRUE] \in Conn
      BY <3>1 DEF Conn
    <3>3. \/ conns' = [conns EXCEPT ![c] = [conns[c] EXCEPT !.wbuf = TRUE, !.closing = TRUE]]
          \/ conns' = [conns EXCEPT ![c] = [conns[c] EXCEPT !.kind = "data", !.wbuf = TRUE]]
          \/ conns' = [conns EXCEPT ![c] = [conns[c] EXCEPT !.gone = TRUE]]
      BY <1>3 DEF HelloRefused, HelloData, PeerVanishes
    <3>. QED  BY <1>0, <1>3, <3>2, <3>3 DEF HelloRefused, HelloData, PeerVanishes
  <2>. QED  BY <1>3, <2>1 DEF HelloRefused, HelloData, PeerVanishes, TypeOK
<1>4. CASE HelloOwner(c)
  <2>1. conns' \in [Conns -> Conn]
    BY <1>0, <1>4, ZenonT(40) DEF HelloOwner, Conn
  <2>. QED  BY <1>4, <2>1 DEF HelloOwner, TypeOK, Never
<1>5. CASE InputTo(c)
  <2>1. conns[c].sid \in Sids
    BY <1>0, <1>5 DEF InputTo, Conn
  <2>2. sessions' \in [Sids -> Session]
    <3>. DEFINE i == conns[c].sid
                one == [sessions[i] EXCEPT !.input = sessions[i].input + 1]
    <3>1. sessions[i] \in Session /\ sessions[i].input \in Nat
      BY <1>0, <2>1 DEF Session
    <3>2. one \in Session /\ one.input \in Nat
      BY <3>1 DEF Session
    <3>3. PICK s \in {one, sessions[i]} :
             \E left \in Written(s) : sessions' = [sessions EXCEPT ![i] = [s EXCEPT !.input = left]]
      BY <1>5 DEF InputTo
    <3>. HIDE DEF one, i
    <3>4. s \in Session /\ s.input \in Nat
      BY <3>1, <3>2
    <3>5. PICK left \in Written(s) : sessions' = [sessions EXCEPT ![i] = [s EXCEPT !.input = left]]
      BY <3>3
    <3>6. left \in Nat
      BY <3>4, <3>5 DEF Written
    <3>7. [s EXCEPT !.input = left] \in Session
      BY <3>4, <3>6, SessionUpdates
    <3>. QED  BY <1>0, <2>1, <3>5, <3>7
  <2>. QED  BY <1>5, <2>2 DEF InputTo, TypeOK
<1>6. CASE DataAnswered(c)
  <2>1. conns' \in [Conns -> Conn]
    BY <1>0, <1>6, ConnTypes DEF DataAnswered
  <2>. QED  BY <1>6, <2>1 DEF DataAnswered, TypeOK
<1>7. ASSUME NEW i \in Sids, NEW from \in 0..MaxOut, Attach(c, i, from)
      PROVE  TypeOK'
  <2>1. [conns EXCEPT ![c].sid = i, ![c].wbuf = TRUE] \in [Conns -> Conn]
    BY <1>0 DEF Conn
  <2>2. conns' \in [Conns -> Conn]
    <3>1. \A D \in [Conns -> Conn] : Kick(D, {sessions[i].stream} \ {c}) \in [Conns -> Conn]
      BY ConnTypes
    <3>. QED  BY <1>7, <2>1, <3>1 DEF Attach
  <2>3. Clamp(sessions[i].ring.start, EndN(sessions[i].ring), from) \in Nat
    <3>1. sessions[i].ring.start \in Nat /\ sessions[i].ring.len \in Nat
      BY <1>0 DEF Session
    <3>. QED  BY <3>1 DEF Clamp, EndN
  <2>4. sessions' \in [Sids -> Session]
    <3>. DEFINE n == Clamp(sessions[i].ring.start, EndN(sessions[i].ring), from)
    <3>1. sessions' = [sessions EXCEPT ![i] = [sessions[i] EXCEPT !.stream = c, !.sent = n]]
      BY <1>7 DEF Attach
    <3>2. [sessions[i] EXCEPT !.stream = c, !.sent = n] \in Session
      BY <1>0, <2>3, SessionUpdates
    <3>. QED  BY <1>0, <3>1, <3>2
  <2>. QED  BY <1>7, <2>2, <2>4 DEF Attach, TypeOK
<1>. QED  BY <1>1, <1>2, <1>3, <1>4, <1>5, <1>6, <1>7 DEF ConnStep

\* So do the requests of an owner.
LEMMA RequestStepTypes ==
    ASSUME TypeOK, NEW c \in Conns, RequestStep(c)
    PROVE  TypeOK'
<1>. USE DEF ownership, lifecycle
<1>0. sessions \in [Sids -> Session] /\ conns \in [Conns -> Conn] /\ pty \in [Sids -> Pty]
  BY DEF TypeOK
<1>1. Queue(conns, {c}) \in [Conns -> Conn] /\ Close(conns, c) \in [Conns -> Conn]
  BY <1>0, ConnTypes
<1>2. CASE RequestAnswered(c) \/ List(c)
  BY <1>1, <1>2 DEF RequestAnswered, List, TypeOK
<1>3. CASE Shutdown(c)
  BY <1>3, ShutdownTypes DEF Shutdown, TypeOK
<1>4. CASE UpgradeResumes(c)
  <2>2. \A i \in Sids : Resumed(sessions[i]) \in Session
    BY <1>0, ResumedFacts
  <2>3. sessions' \in [Sids -> Session] /\ conns' \in [Conns -> Conn]
    BY <1>4, <2>2, EmptyTypes DEF UpgradeResumes
  <2>4. up' \in BOOLEAN /\ exit_now' \in BOOLEAN /\ term' \in BOOLEAN
    BY <1>4 DEF UpgradeResumes, TypeOK
  <2>5. next_conn' \in Nat /\ next_conn' > 0 /\ owner' \in Conns \cup {NoConn}
    BY <1>4 DEF UpgradeResumes
  <2>6. /\ ownerless_since' \in Nat \cup {Never} /\ idle_since' \in Nat \cup {Never}
        /\ shutting_down' \in Nat \cup {Never}
    BY <1>4 DEF UpgradeResumes, TypeOK
  <2>7. pty' \in [Sids -> Pty]
    BY <1>0, <1>4 DEF UpgradeResumes
  <2>. QED  BY <2>3, <2>4, <2>5, <2>6, <2>7 DEF TypeOK
<1>5. CASE UpgradeDies(c) \/ UpgradeKilled(c)
  BY <1>5, ExitTypes DEF UpgradeDies, UpgradeKilled
<1>6. CASE UpgradeExecFails(c)
  <2>1. sessions' \in [Sids -> Session]
    BY <1>0, <1>6, SessionUpdates DEF UpgradeExecFails
  <2>2. conns' \in [Conns -> Conn]
    BY <1>6, EmptyTypes DEF UpgradeExecFails
  <2>. QED  BY <1>6, <2>1, <2>2 DEF UpgradeExecFails, TypeOK
<1>7. ASSUME NEW i \in Sids, Kill(c, i)
      PROVE  TypeOK'
  <2>1. sessions' \in [Sids -> Session]
    <3>. DEFINE k == IF sessions[i].kill_deadline = Never THEN KillGrace
                     ELSE sessions[i].kill_deadline
                t == [sessions[i] EXCEPT !.kill_deadline = k,
                                         !.kill_waiters = sessions[i].kill_waiters \cup {c}]
    <3>1. sessions' = [sessions EXCEPT ![i] = t]
      BY <1>7 DEF Kill
    <3>2. k \in Nat \cup {Never}
      BY <1>0, Constants DEF Session
    <3>. HIDE DEF k
    <3>3. t \in Session
      BY <1>0, <3>2, SessionUpdates
    <3>. QED  BY <1>0, <3>1, <3>3
  <2>. QED  BY <1>7, <2>1 DEF Kill, TypeOK
<1>8. ASSUME NEW i \in Sids, AckExit(c, i)
      PROVE  TypeOK'
  <2>1. sessions' \in [Sids -> Session]
    BY <1>0, <1>8, EmptyTypes DEF AckExit
  <2>. QED  BY <1>1, <1>8, <2>1 DEF AckExit, TypeOK
<1>9. ASSUME NEW i \in Sids, NEW meta \in MetaSizes, UpdateMeta(c, i, meta)
      PROVE  TypeOK'
  <2>1. sessions' \in [Sids -> Session]
    <3>1. sessions' = [sessions EXCEPT ![i] = [sessions[i] EXCEPT !.meta = meta]]
      BY <1>9 DEF UpdateMeta
    <3>2. [sessions[i] EXCEPT !.meta = meta] \in Session
      BY <1>0, SessionUpdates
    <3>. QED  BY <1>0, <3>1, <3>2
  <2>. QED  BY <1>1, <1>9, <2>1 DEF UpdateMeta, TypeOK
<1>10. ASSUME NEW i \in Sids, NEW meta \in MetaSizes, NEW cap \in RingCaps, Spawn(c, i, cap, meta)
       PROVE  TypeOK'
  <2>1. [NoSession EXCEPT !.st = "running", !.master = TRUE, !.ring = NewN(cap), !.meta = meta]
           \in Session
    BY EmptyTypes, Constants DEF Session, NewN
  <2>2. [NoPty EXCEPT !.child = "alive", !.slave = TRUE] \in Pty
    BY EmptyTypes DEF Pty
  <2>3. sessions' \in [Sids -> Session] /\ pty' \in [Sids -> Pty]
    BY <1>0, <1>10, <2>1, <2>2 DEF Spawn
  <2>. QED  BY <1>1, <1>10, <2>3 DEF Spawn, TypeOK, Never
<1>. QED
  BY <1>2, <1>3, <1>4, <1>5, <1>6, <1>7, <1>8, <1>9, <1>10 DEF RequestStep

\* So do the terminals and children.
LEMMA SessionStepTypes ==
    ASSUME TypeOK, NEW i \in Sids, SessionStep(i)
    PROVE  TypeOK'
<1>. USE DEF ownership, lifecycle
<1>0. sessions \in [Sids -> Session] /\ conns \in [Conns -> Conn] /\ pty \in [Sids -> Pty]
  BY DEF TypeOK
<1>1. sessions[i] \in Session /\ pty[i] \in Pty
  BY <1>0
<1>2. CASE MasterReadable(i)
  <2>. DEFINE n == Least(pty[i].out, ReadMax)
              S == [sessions EXCEPT ![i].ring = PushN(sessions[i].ring, n)]
  <2>1. n \in Nat /\ pty[i].out - n \in Nat
    BY ReadFacts
  <2>2. pty' = [pty EXCEPT ![i] = [pty[i] EXCEPT !.out = pty[i].out - n]]
    BY <1>2 DEF MasterReadable
  <2>3. AfterPush(S, i, FALSE, {})
    BY <1>2 DEF MasterReadable
  <2>. HIDE DEF n
  <2>4. S \in [Sids -> Session]
    <3>1. PushN(sessions[i].ring, n) \in ServerRings
      BY <1>1, <2>1, PushNFacts DEF Session, ServerRings
    <3>. QED  BY <1>0, <3>1, PushedFacts
  <2>. HIDE DEF S
  <2>5. sessions' \in [Sids -> Session] /\ conns' \in [Conns -> Conn]
    BY <1>0, <2>3, <2>4, AfterPushFacts
  <2>6. pty' \in [Sids -> Pty]
    <3>1. [pty[i] EXCEPT !.out = pty[i].out - n] \in Pty
      BY <1>1, <2>1 DEF Pty
    <3>. QED  BY <1>0, <2>2, <3>1
  <2>. QED  BY <1>2, <2>5, <2>6 DEF MasterReadable, TypeOK
<1>3. CASE TryReap(i) /\ UNCHANGED <<ownership, lifecycle>>
  <2>1. sessions' \in [Sids -> Session] /\ conns' \in [Conns -> Conn] /\ pty' \in [Sids -> Pty]
    BY <1>3, TryReapTypes
  <2>. QED  BY <1>3, <2>1 DEF TypeOK
<1>4. CASE MasterHup(i) /\ ~TryReap(i)
  <2>1. sessions' = [sessions EXCEPT ![i] = [sessions[i] EXCEPT !.master = FALSE]]
    BY <1>4 DEF MasterHup
  <2>2. sessions' \in [Sids -> Session]
    BY <1>0, <1>1, <2>1, SessionUpdates
  <2>. QED  BY <1>4, <2>2 DEF MasterHup, TypeOK
<1>5. CASE MasterWritable(i)
  <2>1. PICK left \in 0..(sessions[i].input - 1) :
           sessions' = [sessions EXCEPT ![i] = [sessions[i] EXCEPT !.input = left]]
    BY <1>5 DEF MasterWritable
  <2>2. left \in Nat
    OBVIOUS
  <2>3. sessions' \in [Sids -> Session]
    BY <1>0, <1>1, <2>1, <2>2, SessionUpdates
  <2>. QED  BY <1>5, <2>3 DEF MasterWritable, TypeOK
<1>6. CASE TimerKill(i) /\ ~TryReap(i)
  <2>1. /\ sessions' = [sessions EXCEPT ![i] = [sessions[i] EXCEPT !.kill_deadline = Never]]
        /\ pty' = [pty EXCEPT ![i] = [pty[i] EXCEPT !.killed = TRUE]]
    BY <1>6 DEF TimerKill
  <2>2. sessions' \in [Sids -> Session]
    BY <1>0, <1>1, <2>1, SessionUpdates
  <2>3. pty' \in [Sids -> Pty]
    BY <1>0, <2>1 DEF Pty
  <2>. QED  BY <1>6, <2>2, <2>3 DEF TimerKill, TypeOK
<1>7. CASE ChildWrites(i) \/ SlaveCloses(i) \/ ChildExits(i)
  <2>1. \/ pty' = [pty EXCEPT ![i] = [pty[i] EXCEPT !.out = pty[i].out + 1, !.wrote = pty[i].wrote + 1]]
        \/ pty' = [pty EXCEPT ![i] = [pty[i] EXCEPT !.slave = FALSE]]
        \/ \E s \in BOOLEAN :
              pty' = [pty EXCEPT ![i] = [pty[i] EXCEPT !.child = "zombie", !.slave = s]]
    <3>1. pty[i].slave \in BOOLEAN
      BY <1>1 DEF Pty
    <3>. QED  BY <1>7, <3>1 DEF ChildWrites, SlaveCloses, ChildExits
  <2>2. /\ [pty[i] EXCEPT !.out = pty[i].out + 1, !.wrote = pty[i].wrote + 1] \in Pty
        /\ [pty[i] EXCEPT !.slave = FALSE] \in Pty
        /\ \A s \in BOOLEAN : [pty[i] EXCEPT !.child = "zombie", !.slave = s] \in Pty
    <3>1. pty[i].out + 1 \in Nat /\ pty[i].wrote + 1 \in Nat
      BY <1>1 DEF Pty
    <3>2. [pty[i] EXCEPT !.out = pty[i].out + 1, !.wrote = pty[i].wrote + 1] \in Pty
      BY <1>1, <3>1 DEF Pty
    <3>3. [pty[i] EXCEPT !.slave = FALSE] \in Pty
      BY <1>1 DEF Pty
    <3>4. \A s \in BOOLEAN : [pty[i] EXCEPT !.child = "zombie", !.slave = s] \in Pty
      BY <1>1 DEF Pty
    <3>. QED  BY <3>2, <3>3, <3>4
  <2>3. pty' \in [Sids -> Pty]
    BY <1>0, <2>1, <2>2
  <2>. QED  BY <1>7, <2>3 DEF ChildWrites, SlaveCloses, ChildExits, TypeOK
<1>. QED
  BY <1>2, <1>3, <1>4, <1>5, <1>6, <1>7
  DEF SessionStep, OnSigchld, MasterHup, TimerKill

\* So do the process's own steps: accept, timers, signals, start and end.
LEMMA ProcessStepTypes ==
    ASSUME TypeOK,
           \/ AcceptAll \/ Serve \/ OnSigterm \/ LoopEnds
           \/ TimerShutdown \/ TimerExitedTtl \/ TimerOrphan \/ TimerIdle
           \/ Tick \/ Sigterm
    PROVE  TypeOK'
<1>. USE DEF ownership, lifecycle
<1>0. sessions \in [Sids -> Session] /\ conns \in [Conns -> Conn] /\ pty \in [Sids -> Pty]
  BY DEF TypeOK
<1>1. CASE AcceptAll
  <2>1. conns' \in [Conns -> Conn]
    BY <1>0, <1>1 DEF AcceptAll, Conn
  <2>. QED  BY <1>1, <2>1 DEF AcceptAll, TypeOK
<1>2. CASE Serve \/ Sigterm
  <2>1. up' \in BOOLEAN /\ term' \in BOOLEAN
    BY <1>2 DEF Serve, Sigterm, TypeOK
  <2>2. ownerless_since' \in Nat \cup {Never} /\ idle_since' \in Nat \cup {Never}
    BY <1>2 DEF Serve, Sigterm, TypeOK
  <2>3. UNCHANGED <<exit_now, sessions, conns, next_conn, owner, shutting_down, pty>>
    BY <1>2 DEF Serve, Sigterm
  <2>. QED  BY <2>1, <2>2, <2>3 DEF TypeOK
<1>3. CASE OnSigterm
  BY <1>3, ShutdownTypes DEF OnSigterm, TypeOK
<1>4. CASE LoopEnds
  BY <1>4, ExitTypes DEF LoopEnds
<1>5. CASE TimerShutdown
  <2>1. CASE ExitProcess
    BY <2>1, ExitTypes
  <2>2. CASE ~ExitProcess
    <3>1. \A j \in Sids : [pty[j] EXCEPT !.killed = TRUE] \in Pty
      BY <1>0 DEF Pty
    <3>2. pty' \in [Sids -> Pty]
      BY <1>0, <1>5, <2>2, <3>1 DEF TimerShutdown
    <3>3. /\ shutting_down' = 1
          /\ UNCHANGED <<up, exit_now, sessions, conns, ownership, idle_since, term>>
      BY <1>5, <2>2 DEF TimerShutdown
    <3>4. shutting_down' \in Nat \cup {Never}
      BY <3>3
    <3>. QED  BY <3>2, <3>3, <3>4 DEF TypeOK
  <2>. QED  BY <2>1, <2>2
<1>6. CASE TimerExitedTtl
  <2>1. sessions' \in [Sids -> Session]
    BY <1>0, <1>6, EmptyTypes DEF TimerExitedTtl
  <2>. QED  BY <1>6, <2>1 DEF TimerExitedTtl, TypeOK
<1>7. CASE TimerOrphan
  BY <1>7, ShutdownTypes DEF TimerOrphan, TypeOK
<1>8. CASE TimerIdle
  <2>1. CASE ExitProcess
    BY <2>1, ExitTypes
  <2>2. CASE ~ExitProcess
    <3>1. /\ idle_since' \in {0, Never}
          /\ UNCHANGED <<up, exit_now, sessions, conns, ownership, shutting_down, pty, term>>
      BY <1>8, <2>2 DEF TimerIdle
    <3>2. idle_since' \in Nat \cup {Never}
      BY <3>1
    <3>. QED  BY <3>1, <3>2 DEF TypeOK
  <2>. QED  BY <2>1, <2>2
<1>9. CASE Tick
  <2>1. \A k \in Nat \cup {Never} : Sooner(k) \in Nat \cup {Never}
    BY DEF Sooner, Never
  <2>2. \A k \in Nat \cup {Never}, m \in Nat : Older(k, m) \in Nat \cup {Never}
    BY DEF Older, Least, Never
  <2>3. ASSUME NEW j \in Sids
        PROVE  sessions'[j] \in Session
    <3>. DEFINE k == Sooner(sessions[j].kill_deadline)
                w == IF sessions[j].st = "exited" THEN Least(sessions[j].when + 1, ExitedTtl)
                     ELSE sessions[j].when
    <3>1. sessions[j] \in Session
      BY <1>0
    <3>2. k \in Nat \cup {Never}
      BY <2>1, <3>1 DEF Session
    <3>3. w \in Nat
      BY <3>1, Constants DEF Session, Least
    <3>4. sessions'[j] = [sessions[j] EXCEPT !.kill_deadline = k, !.when = w]
      BY <1>9 DEF Tick
    <3>. HIDE DEF k, w
    <3>. QED  BY <3>1, <3>2, <3>3, <3>4 DEF Session
  <2>4. sessions' \in [Sids -> Session]
    BY <1>9, <2>3 DEF Tick
  <2>5. Greatest(Orphan, ExitedTtl) \in Nat
    BY Constants DEF Greatest
  <2>6. /\ ownerless_since' \in Nat \cup {Never} /\ idle_since' \in Nat \cup {Never}
        /\ shutting_down' \in Nat \cup {Never}
    BY <1>9, <2>1, <2>2, <2>5, Constants DEF Tick, TypeOK
  <2>. QED  BY <1>9, <2>4, <2>6 DEF Tick, TypeOK
<1>. QED  BY <1>1, <1>2, <1>3, <1>4, <1>5, <1>6, <1>7, <1>8, <1>9

\* Every step keeps the types.
LEMMA TypeStep == TypeOK /\ [Next]_vars => TypeOK'
<1>. SUFFICES ASSUME TypeOK, [Next]_vars PROVE TypeOK'
  OBVIOUS
<1>1. CASE UNCHANGED vars
  BY <1>1 DEF vars, TypeOK
<1>2. CASE Next
  BY <1>2, ConnStepTypes, RequestStepTypes, SessionStepTypes, ProcessStepTypes DEF Next
<1>. QED  BY <1>1, <1>2

(* Every variable of the server keeps its type, for every set of sessions, *)
(* number of connections, ring size, cap and timeout: no handler leaves a  *)
(* negative count, a malformed record or a connection id out of range.     *)
THEOREM TypeCorrect == Spec => []TypeOK
<1>1. Init => TypeOK
  BY TypeInit
<1>2. TypeOK /\ [Next]_vars => TypeOK'
  BY TypeStep
<1>. QED  BY <1>1, <1>2, PTL DEF Spec

-----------------------------------------------------------------------------
(***************************************************************************)
(* Streams.  StreamOK and NoSilentGap are inductive together with the fact *)
(* that a connection id not yet handed out is not in use: AcceptAll would  *)
(* otherwise reset a connection under a running stream.                    *)
(***************************************************************************)
ConnsFresh == \A c \in Conns : c >= next_conn => conns[c].kind = "none"

StreamInv == StreamOK /\ NoSilentGap /\ ConnsFresh

\* Session records that differ in nothing a stream depends on.
Kept(t, s) == t.st = s.st /\ t.ring = s.ring /\ t.stream = s.stream /\ t.sent = s.sent

\* The updates of other fields are of that kind.
LEMMA UpdatesKeep ==
    ASSUME NEW s \in Session, NEW n
    PROVE  /\ Kept(s, s)
           /\ Kept([s EXCEPT !.master = FALSE], s)
           /\ Kept([s EXCEPT !.input = n], s)
           /\ Kept([s EXCEPT !.kill_deadline = Never], s)
           /\ Kept([s EXCEPT !.meta = n], s)
           /\ \A W : Kept([s EXCEPT !.kill_deadline = n, !.kill_waiters = W], s)
           /\ \A w : Kept([s EXCEPT !.kill_deadline = n, !.when = w], s)
  BY DEF Kept, Session

\* A step that leaves streams alone or cuts them, keeping what is left in its
\* window, and takes a connection's session away only with its stream.
StreamsKept ==
    /\ next_conn' = next_conn
    /\ \A j \in Sids : sessions'[j].stream # NoConn =>
          /\ sessions'[j].stream = sessions[j].stream
          /\ sessions'[j].st # "none"
          /\ InWindow(sessions'[j])
    /\ \A d \in Conns :
          /\ conns'[d].kind = conns[d].kind \/ conns[d].kind = "hello"
          /\ \/ conns'[d].sid = conns[d].sid
             \/ \E j \in Sids : sessions[j].stream = d /\ sessions'[j].stream = NoConn

\* Such a step keeps the invariant.
LEMMA KeptInv ==
    ASSUME TypeOK, TypeOK', StreamInv, StreamsKept
    PROVE  StreamInv'
<1>1. ASSUME NEW j \in Sids, sessions'[j].stream # NoConn
      PROVE  /\ sessions'[j].st # "none"
             /\ conns'[sessions'[j].stream].kind = "data"
             /\ conns'[sessions'[j].stream].sid = j
             /\ InWindow(sessions'[j])
  <2>. DEFINE d == sessions'[j].stream
  <2>1. d = sessions[j].stream /\ sessions'[j].st # "none" /\ InWindow(sessions'[j])
    BY <1>1 DEF StreamsKept
  <2>2. d \in Conns
    BY <1>1 DEF TypeOK, Session
  <2>3. conns[d].kind = "data" /\ conns[d].sid = j
    BY <1>1, <2>1 DEF StreamInv, StreamOK
  <2>4. conns'[d].kind = "data"
    BY <2>2, <2>3 DEF StreamsKept
  <2>5. ASSUME NEW k \in Sids, sessions[k].stream = d, sessions'[k].stream = NoConn
        PROVE  FALSE
    <3>1. conns[d].sid = k
      BY <1>1, <2>5 DEF StreamInv, StreamOK
    <3>. QED  BY <1>1, <2>3, <2>5, <3>1
  <2>6. conns'[d].sid = j
    BY <2>2, <2>3, <2>5 DEF StreamsKept
  <2>. QED  BY <2>1, <2>4, <2>6
<1>2. StreamOK' /\ NoSilentGap'
  BY <1>1 DEF StreamOK, NoSilentGap, InWindow
<1>3. ConnsFresh'
  BY DEF StreamInv, ConnsFresh, StreamsKept
<1>. QED  BY <1>2, <1>3 DEF StreamInv

\* The simplest such step: sessions and connections keep their parts.
LEMMA QuietInv ==
    ASSUME TypeOK, TypeOK', StreamInv, next_conn' = next_conn,
           \A j \in Sids : Kept(sessions'[j], sessions[j]),
           \A d \in Conns : /\ conns'[d].kind = conns[d].kind \/ conns[d].kind = "hello"
                            /\ conns'[d].sid = conns[d].sid
    PROVE  StreamInv'
<1>1. ASSUME NEW j \in Sids, sessions'[j].stream # NoConn
      PROVE  /\ sessions'[j].stream = sessions[j].stream
             /\ sessions'[j].st # "none"
             /\ InWindow(sessions'[j])
  BY <1>1 DEF Kept, StreamInv, StreamOK, NoSilentGap, InWindow
<1>2. StreamsKept
  BY <1>1 DEF StreamsKept
<1>. QED  BY <1>2, KeptInv

\* After an exit, an upgrade or a failed exec nobody is connected.
LEMMA AllGoneInv ==
    ASSUME conns' = [d \in Conns |-> Absent],
           \A j \in Sids : sessions'[j].stream = NoConn
    PROVE  StreamInv'
  BY DEF StreamInv, StreamOK, NoSilentGap, ConnsFresh, Absent

\* master_readable and try_reap: the push is followed by check_overrun.
LEMMA PushInv ==
    ASSUME TypeOK, TypeOK', StreamInv, next_conn' = next_conn, NEW i \in Sids,
           NEW r \in ServerRings, NEW ended \in BOOLEAN, NEW T,
           EndN(r) >= EndN(sessions[i].ring),
           AfterPush([sessions EXCEPT ![i].ring = r], i, ended, T)
    PROVE  StreamInv'
<1>. DEFINE S == [sessions EXCEPT ![i].ring = r]
<1>1. sessions \in [Sids -> Session] /\ conns \in [Conns -> Conn]
  BY DEF TypeOK
<1>2. /\ S \in [Sids -> Session]
      /\ S[i].ring = r
      /\ \A j \in Sids : /\ j # i => S[j] = sessions[j]
                         /\ S[j].st = sessions[j].st
                         /\ S[j].stream = sessions[j].stream
                         /\ S[j].sent = sessions[j].sent
  BY <1>1, PushedFacts
<1>. HIDE DEF S
<1>3. AfterPush(S, i, ended, T)
  BY DEF S
<1>4. PushEffect(S, i, ended)
  BY <1>1, <1>2, <1>3, AfterPushFacts
<1>5. ASSUME NEW j \in Sids, sessions'[j].stream # NoConn
      PROVE  /\ sessions'[j].stream = sessions[j].stream
             /\ sessions'[j].st # "none"
             /\ InWindow(sessions'[j])
  <2>1. sessions'[j].stream = sessions[j].stream
    BY <1>2, <1>4, <1>5 DEF PushEffect
  <2>2. sessions[j].st # "none" /\ sessions[j].sent <= EndN(sessions[j].ring)
    BY <1>5, <2>1 DEF StreamInv, StreamOK, NoSilentGap
  <2>3. sessions'[j].st # "none"
    BY <1>2, <1>4, <2>2 DEF PushEffect
  <2>4. S[j].sent <= EndN(S[j].ring)
    <3>1. CASE j # i
      BY <1>2, <2>2, <3>1
    <3>2. CASE j = i
      <4>1. /\ sessions[i].sent \in Nat /\ EndN(sessions[i].ring) \in Nat
            /\ EndN(r) \in Nat
        BY <1>1 DEF Session, ServerRings, EndN
      <4>. QED  BY <1>2, <2>2, <3>2, <4>1
    <3>. QED  BY <3>1, <3>2
  <2>. QED  BY <1>4, <1>5, <2>1, <2>3, <2>4 DEF PushEffect
<1>6. StreamsKept
  BY <1>2, <1>4, <1>5 DEF StreamsKept, PushEffect
<1>. QED  BY <1>6, KeptInv

\* try_reap keeps the streams' invariant.
LEMMA ReapInv ==
    ASSUME TypeOK, TypeOK', StreamInv, NEW i \in Sids, TryReap(i), next_conn' = next_conn
    PROVE  StreamInv'
<1>1. PICK n, late \in Nat : Reaps(i, n, late)
  BY ReapFacts
<1>. DEFINE r == PushN(sessions[i].ring, n)
            T == sessions[i].kill_waiters \cup {owner}
<1>2. EndN(sessions[i].ring) \in Nat
  BY DEF TypeOK, Session, EndN
<1>3. r \in ServerRings /\ EndN(r) = EndN(sessions[i].ring) + n
  BY <1>1 DEF Reaps
<1>4. EndN(r) >= EndN(sessions[i].ring)
  BY <1>2, <1>3
<1>5. AfterPush([sessions EXCEPT ![i].ring = r], i, TRUE, T)
  BY <1>1 DEF Reaps
<1>. HIDE DEF r, T
<1>. QED  BY <1>3, <1>4, <1>5, PushInv

\* So does drop_conn: the stream of the connection is detached with it.
LEMMA DropInv ==
    ASSUME TypeOK, TypeOK', StreamInv, NEW c \in Conns, DropConn(c)
    PROVE  StreamInv'
<1>1. sessions \in [Sids -> Session] /\ conns \in [Conns -> Conn]
  BY DEF TypeOK
<1>2. conns' = [conns EXCEPT ![c] = Absent] /\ next_conn' = next_conn
  BY DEF DropConn
<1>3. ASSUME NEW j \in Sids, sessions'[j].stream # NoConn
      PROVE  sessions'[j] = sessions[j] /\ sessions[j].stream # c
  <2>1. sessions'[j] = IF conns[c].kind = "data" /\ conns[c].sid = j /\ sessions[j].stream = c
                       THEN [sessions[j] EXCEPT !.stream = NoConn] ELSE sessions[j]
    BY DEF DropConn, Detach
  <2>2. [sessions[j] EXCEPT !.stream = NoConn].stream = NoConn
    BY <1>1 DEF Session
  <2>3. ~(conns[c].kind = "data" /\ conns[c].sid = j /\ sessions[j].stream = c)
    BY <1>3, <2>1, <2>2
  <2>4. sessions'[j] = sessions[j]
    BY <2>1, <2>3
  <2>5. sessions[j].stream # c
    BY <1>3, <2>3, <2>4 DEF StreamInv, StreamOK
  <2>. QED  BY <2>4, <2>5
<1>4. StreamOK' /\ NoSilentGap'
  <2>1. ASSUME NEW j \in Sids, sessions'[j].stream # NoConn
        PROVE  /\ sessions'[j].st # "none"
               /\ conns'[sessions'[j].stream].kind = "data"
               /\ conns'[sessions'[j].stream].sid = j
               /\ sessions'[j].ring.start <= sessions'[j].sent
               /\ sessions'[j].sent <= EndN(sessions'[j].ring)
    <3>1. conns'[sessions[j].stream] = conns[sessions[j].stream]
      BY <1>1, <1>2, <1>3, <2>1
    <3>. QED  BY <1>3, <2>1, <3>1 DEF StreamInv, StreamOK, NoSilentGap
  <2>. QED  BY <2>1 DEF StreamOK, NoSilentGap
<1>5. ConnsFresh'
  BY <1>1, <1>2 DEF StreamInv, ConnsFresh, Absent
<1>. QED  BY <1>4, <1>5 DEF StreamInv

\* on_attach: the new stream starts in the window, the old one is kicked.
LEMMA AttachInv ==
    ASSUME TypeOK, TypeOK', StreamInv, NEW c \in Conns, NEW i \in Sids, NEW from \in 0..MaxOut,
           Attach(c, i, from)
    PROVE  StreamInv'
<1>. DEFINE s == sessions[i]
            n == Clamp(s.ring.start, EndN(s.ring), from)
            D == [conns EXCEPT ![c].sid = i, ![c].wbuf = TRUE]
            T == {s.stream} \ {c}
<1>1. sessions \in [Sids -> Session] /\ conns \in [Conns -> Conn]
  BY DEF TypeOK
<1>2. /\ sessions' = [sessions EXCEPT ![i] = [s EXCEPT !.stream = c, !.sent = n]]
      /\ conns' = Kick(D, T) /\ next_conn' = next_conn
      /\ conns[c].kind = "data" /\ conns[c].sid = NoSid /\ s.st # "none"
  BY DEF Attach, ownership
<1>3. n \in Nat /\ s.ring.start <= n /\ n <= EndN(s.ring)
  <2>1. s.ring.start \in Nat /\ EndN(s.ring) \in Nat /\ s.ring.start <= EndN(s.ring)
    BY <1>1 DEF Session, EndN
  <2>2. from \in Nat
    OBVIOUS
  <2>. HIDE DEF s
  <2>. QED  BY <2>1, <2>2, ClampFacts
<1>4. \A j \in Sids : sessions[j].stream # c
  BY <1>2, Constants DEF StreamInv, StreamOK, NoConn, Conns
<1>5. /\ D \in [Conns -> Conn]
      /\ D[c].kind = conns[c].kind /\ D[c].sid = i
      /\ \A d \in Conns \ {c} : D[d] = conns[d]
  <2>1. [conns[c] EXCEPT !.sid = i, !.wbuf = TRUE] \in Conn
    BY <1>1 DEF Conn
  <2>2. D = [conns EXCEPT ![c] = [conns[c] EXCEPT !.sid = i, !.wbuf = TRUE]]
    OBVIOUS
  <2>3. /\ [conns[c] EXCEPT !.sid = i, !.wbuf = TRUE].kind = conns[c].kind
        /\ [conns[c] EXCEPT !.sid = i, !.wbuf = TRUE].sid = i
    BY <1>1 DEF Conn
  <2>. QED  BY <1>1, <2>1, <2>2, <2>3
<1>. HIDE DEF n, D
<1>6. /\ sessions'[i].stream = c /\ sessions'[i].sent = n
      /\ sessions'[i].ring = s.ring /\ sessions'[i].st = s.st
      /\ \A j \in Sids : j # i => sessions'[j] = sessions[j]
  BY <1>1, <1>2 DEF Session
<1>7. \A d \in Conns : /\ conns'[d].kind = conns[d].kind
                       /\ d \notin T => conns'[d] = D[d]
  BY <1>2, <1>5 DEF Kick, Conn
<1>8. ASSUME NEW j \in Sids, sessions'[j].stream # NoConn
      PROVE  /\ sessions'[j].st # "none"
             /\ conns'[sessions'[j].stream].kind = "data"
             /\ conns'[sessions'[j].stream].sid = j
             /\ sessions'[j].ring.start <= sessions'[j].sent
             /\ sessions'[j].sent <= EndN(sessions'[j].ring)
  <2>1. CASE j = i
    <3>1. conns'[c] = D[c]
      BY <1>7
    <3>2. conns'[c].kind = "data" /\ conns'[c].sid = i
      BY <1>2, <1>5, <3>1
    <3>. QED  BY <1>2, <1>3, <1>6, <2>1, <3>2
  <2>2. CASE j # i
    <3>. DEFINE d == sessions[j].stream
    <3>1. sessions'[j] = sessions[j] /\ d # NoConn
      BY <1>6, <1>8, <2>2
    <3>2. d \in Conns /\ d # c
      BY <1>1, <1>4, <3>1 DEF Session
    <3>3. conns[d].sid = j /\ conns[d].kind = "data" /\ sessions[j].st # "none"
      BY <3>1 DEF StreamInv, StreamOK
    <3>4. d # s.stream
      BY <2>2, <3>1, <3>3 DEF StreamInv, StreamOK
    <3>5. conns'[d] = conns[d]
      BY <1>5, <1>7, <3>2, <3>4
    <3>. QED  BY <1>8, <3>1, <3>3, <3>5 DEF StreamInv, NoSilentGap
  <2>. QED  BY <2>1, <2>2
<1>9. StreamOK' /\ NoSilentGap'
  BY <1>8 DEF StreamOK, NoSilentGap
<1>10. ConnsFresh'
  BY <1>2, <1>7 DEF StreamInv, ConnsFresh
<1>. QED  BY <1>9, <1>10 DEF StreamInv

\* What connections do keeps the streams' invariant.
LEMMA ConnStepInv ==
    ASSUME TypeOK, TypeOK', StreamInv, NEW c \in Conns, ConnStep(c)
    PROVE  StreamInv'
<1>. USE DEF ownership
<1>0. sessions \in [Sids -> Session] /\ conns \in [Conns -> Conn]
  BY DEF TypeOK
<1>1. CASE ConnEof(c) \/ ReapClosedConn(c)
  BY <1>1, DropInv DEF ConnEof, ReapClosedConn
<1>2. CASE ConnWritable(c)
  <2>. DEFINE D == [conns EXCEPT ![c].wbuf = FALSE]
  <2>1. D \in [Conns -> Conn] /\ \A d \in Conns : D[d].kind = conns[d].kind /\ D[d].sid = conns[d].sid
    BY <1>0 DEF Conn
  <2>. HIDE DEF D
  <2>2. CASE conns[c].wbuf /\ conns[c].gone
    <3>1. conns' = [conns EXCEPT ![c] = [conns[c] EXCEPT !.closing = TRUE, !.wbuf = FALSE]]
      BY <1>2, <2>2 DEF ConnWritable
    <3>2. \A d \in Conns : conns'[d].kind = conns[d].kind /\ conns'[d].sid = conns[d].sid
      BY <1>0, <3>1 DEF Conn
    <3>3. sessions' = sessions /\ next_conn' = next_conn
      BY <1>2, <2>2 DEF ConnWritable
    <3>. QED  BY <3>2, <3>3, QuietInv DEF Kept
  <2>3. CASE ~(conns[c].wbuf /\ conns[c].gone)
    <3>1. FlushStream(sessions, D, c)
      BY <1>2, <2>3 DEF ConnWritable, D
    <3>2. /\ \A j \in Sids : SameButSent(sessions'[j], sessions[j])
          /\ \A j \in Sids : InWindow(sessions[j]) => InWindow(sessions'[j])
          /\ \A d \in Conns : SameRole(conns'[d], D[d])
      BY <1>0, <2>1, <3>1, FlushFacts
    <3>3. ASSUME NEW j \in Sids, sessions'[j].stream # NoConn
          PROVE  /\ sessions'[j].stream = sessions[j].stream
                 /\ sessions'[j].st # "none"
                 /\ InWindow(sessions'[j])
      <4>1. sessions'[j].stream = sessions[j].stream /\ sessions'[j].st = sessions[j].st
        BY <3>2 DEF SameButSent
      <4>2. sessions[j].st # "none" /\ InWindow(sessions[j])
        BY <3>3, <4>1 DEF StreamInv, StreamOK, NoSilentGap, InWindow
      <4>. QED  BY <3>2, <4>1, <4>2
    <3>4. StreamsKept
      BY <1>2, <2>1, <3>2, <3>3 DEF StreamsKept, ConnWritable, SameRole
    <3>. QED  BY <3>4, KeptInv
  <2>. QED  BY <2>2, <2>3
<1>3. CASE HelloRefused(c) \/ HelloData(c) \/ PeerVanishes(c)
  <2>1. \/ conns' = [conns EXCEPT ![c] = [conns[c] EXCEPT !.wbuf = TRUE, !.closing = TRUE]]
        \/ /\ conns[c].kind = "hello"
           /\ conns' = [conns EXCEPT ![c] = [conns[c] EXCEPT !.kind = "data", !.wbuf = TRUE]]
        \/ conns' = [conns EXCEPT ![c] = [conns[c] EXCEPT !.gone = TRUE]]
    BY <1>3 DEF HelloRefused, HelloData, PeerVanishes, Hello
  <2>2. \A d \in Conns : /\ conns'[d].kind = conns[d].kind \/ conns[d].kind = "hello"
                         /\ conns'[d].sid = conns[d].sid
    <3>1. /\ [conns[c] EXCEPT !.wbuf = TRUE, !.closing = TRUE].kind = conns[c].kind
          /\ [conns[c] EXCEPT !.wbuf = TRUE, !.closing = TRUE].sid = conns[c].sid
          /\ [conns[c] EXCEPT !.kind = "data", !.wbuf = TRUE].sid = conns[c].sid
          /\ [conns[c] EXCEPT !.gone = TRUE].kind = conns[c].kind
          /\ [conns[c] EXCEPT !.gone = TRUE].sid = conns[c].sid
      BY <1>0 DEF Conn
    <3>. QED  BY <1>0, <2>1, <3>1
  <2>3. sessions' = sessions /\ next_conn' = next_conn
    BY <1>3 DEF HelloRefused, HelloData, PeerVanishes
  <2>. QED  BY <2>2, <2>3, QuietInv DEF Kept
<1>4. CASE HelloOwner(c)
  <2>1. \A d \in Conns : /\ conns'[d].kind = conns[d].kind \/ conns[d].kind = "hello"
                         /\ conns'[d].sid = conns[d].sid
    <3>1. conns[c].kind = "hello"
      BY <1>4 DEF HelloOwner, Hello
    <3>2. ASSUME NEW d \in Conns
          PROVE  /\ [conns[d] EXCEPT !.kind = "owner", !.wbuf = TRUE].sid = conns[d].sid
                 /\ [conns[d] EXCEPT !.wbuf = TRUE, !.closing = TRUE].sid = conns[d].sid
                 /\ [conns[d] EXCEPT !.wbuf = TRUE, !.closing = TRUE].kind = conns[d].kind
      BY <1>0 DEF Conn
    <3>. QED  BY <1>4, <3>1, <3>2 DEF HelloOwner
  <2>2. sessions' = sessions /\ next_conn' = next_conn
    BY <1>4 DEF HelloOwner
  <2>. QED  BY <2>1, <2>2, QuietInv DEF Kept
<1>5. CASE InputTo(c)
  <2>. DEFINE i == conns[c].sid
  <2>1. i \in Sids /\ conns' = conns /\ next_conn' = next_conn
    BY <1>0, <1>5 DEF InputTo, Conn
  <2>. HIDE DEF i
  <2>2. PICK n : \/ sessions' = [sessions EXCEPT ![i] = [sessions[i] EXCEPT !.input = n]]
                 \/ \E m : sessions' = [sessions EXCEPT ![i] =
                              [[sessions[i] EXCEPT !.input = m] EXCEPT !.input = n]]
    BY <1>5 DEF InputTo, i
  <2>3. \A m : /\ Kept([sessions[i] EXCEPT !.input = n], sessions[i])
               /\ Kept([[sessions[i] EXCEPT !.input = m] EXCEPT !.input = n], sessions[i])
    BY <1>0, <2>1 DEF Kept, Session
  <2>4. \A j \in Sids : Kept(sessions'[j], sessions[j])
    BY <1>0, <2>1, <2>2, <2>3 DEF Kept
  <2>. QED  BY <2>1, <2>4, QuietInv
<1>6. CASE DataAnswered(c)
  <2>1. \A d \in Conns : SameRole(conns'[d], conns[d])
    BY <1>0, <1>6, ConnRoles DEF DataAnswered
  <2>2. sessions' = sessions /\ next_conn' = next_conn
    BY <1>6 DEF DataAnswered
  <2>. QED  BY <2>1, <2>2, QuietInv DEF Kept, SameRole
<1>7. ASSUME NEW i \in Sids, NEW from \in 0..MaxOut, Attach(c, i, from)
      PROVE  StreamInv'
  BY <1>7, AttachInv
<1>. QED  BY <1>1, <1>2, <1>3, <1>4, <1>5, <1>6, <1>7 DEF ConnStep

\* The requests of an owner keep it.
LEMMA RequestStepInv ==
    ASSUME TypeOK, TypeOK', StreamInv, NEW c \in Conns, RequestStep(c)
    PROVE  StreamInv'
<1>. USE DEF ownership
<1>0. sessions \in [Sids -> Session] /\ conns \in [Conns -> Conn]
  BY DEF TypeOK
<1>1. \A d \in Conns : /\ SameRole(Queue(conns, {c})[d], conns[d])
                       /\ SameRole(Close(conns, c)[d], conns[d])
  BY <1>0, ConnRoles
<1>2. CASE RequestAnswered(c) \/ List(c)
  <2>1. \A d \in Conns : SameRole(conns'[d], conns[d])
    BY <1>1, <1>2 DEF RequestAnswered, List
  <2>2. sessions' = sessions /\ next_conn' = next_conn
    BY <1>2 DEF RequestAnswered, List
  <2>. QED  BY <2>1, <2>2, QuietInv DEF Kept, SameRole
<1>3. CASE Shutdown(c)
  <2>1. sessions' = sessions /\ next_conn' = next_conn /\ conns' = conns
    BY <1>3 DEF Shutdown, BeginShutdown
  <2>. QED  BY <2>1, QuietInv DEF Kept
<1>4. CASE UpgradeResumes(c)
  <2>1. \A j \in Sids : sessions'[j].stream = NoConn
    BY <1>0, <1>4, ResumedFacts DEF UpgradeResumes
  <2>. QED  BY <1>4, <2>1, AllGoneInv DEF UpgradeResumes
<1>5. CASE UpgradeDies(c) \/ UpgradeKilled(c)
  BY <1>5, AllGoneInv DEF UpgradeDies, UpgradeKilled, ExitProcess, NoSession
<1>6. CASE UpgradeExecFails(c)
  <2>1. \A j \in Sids : sessions'[j].stream = NoConn
    BY <1>0, <1>6 DEF UpgradeExecFails, Session
  <2>. QED  BY <1>6, <2>1, AllGoneInv DEF UpgradeExecFails
<1>7. ASSUME NEW i \in Sids, Kill(c, i)
      PROVE  StreamInv'
  <2>. DEFINE k == IF sessions[i].kill_deadline = Never THEN KillGrace
                   ELSE sessions[i].kill_deadline
              W == sessions[i].kill_waiters \cup {c}
              t == [sessions[i] EXCEPT !.kill_deadline = k, !.kill_waiters = W]
  <2>1. sessions' = [sessions EXCEPT ![i] = t] /\ conns' = conns /\ next_conn' = next_conn
    BY <1>7 DEF Kill
  <2>2. Kept(t, sessions[i])
    <3>. HIDE DEF k, W
    <3>. QED  BY <1>0, UpdatesKeep
  <2>. HIDE DEF t
  <2>3. \A j \in Sids : Kept(sessions'[j], sessions[j])
    BY <1>0, <2>1, <2>2 DEF Kept
  <2>. QED  BY <2>1, <2>3, QuietInv
<1>8. ASSUME NEW i \in Sids,
             AckExit(c, i) \/ \E cap \in RingCaps, meta \in MetaSizes : Spawn(c, i, cap, meta)
      PROVE  StreamInv'
  <2>1. conns' = Queue(conns, {c}) /\ next_conn' = next_conn
    BY <1>8 DEF AckExit, Spawn
  <2>2. sessions'[i].stream = NoConn /\ \A j \in Sids \ {i} : sessions'[j] = sessions[j]
    <3>1. PICK t : t.stream = NoConn /\ sessions' = [sessions EXCEPT ![i] = t]
      BY <1>8 DEF AckExit, Spawn, NoSession
    <3>. QED  BY <1>0, <3>1
  <2>3. ASSUME NEW j \in Sids, sessions'[j].stream # NoConn
        PROVE  /\ sessions'[j].stream = sessions[j].stream
               /\ sessions'[j].st # "none"
               /\ InWindow(sessions'[j])
    BY <2>2, <2>3 DEF StreamInv, StreamOK, NoSilentGap, InWindow
  <2>4. StreamsKept
    BY <1>1, <2>1, <2>3 DEF StreamsKept, SameRole
  <2>. QED  BY <2>4, KeptInv
<1>9. ASSUME NEW i \in Sids, NEW meta \in MetaSizes, UpdateMeta(c, i, meta)
      PROVE  StreamInv'
  <2>1. /\ sessions' = [sessions EXCEPT ![i] = [sessions[i] EXCEPT !.meta = meta]]
        /\ conns' = Queue(conns, {c}) /\ next_conn' = next_conn
    BY <1>9 DEF UpdateMeta
  <2>2. Kept([sessions[i] EXCEPT !.meta = meta], sessions[i])
    BY <1>0, UpdatesKeep
  <2>3. \A j \in Sids : Kept(sessions'[j], sessions[j])
    BY <1>0, <2>1, <2>2 DEF Kept
  <2>. QED  BY <1>1, <2>1, <2>3, QuietInv DEF SameRole
<1>. QED
  BY <1>2, <1>3, <1>4, <1>5, <1>6, <1>7, <1>8, <1>9 DEF RequestStep

\* Terminals and children keep it.
LEMMA SessionStepInv ==
    ASSUME TypeOK, TypeOK', StreamInv, NEW i \in Sids, SessionStep(i)
    PROVE  StreamInv'
<1>. USE DEF ownership
<1>0. sessions \in [Sids -> Session] /\ conns \in [Conns -> Conn] /\ pty \in [Sids -> Pty]
  BY DEF TypeOK
<1>1. sessions[i] \in Session /\ pty[i] \in Pty
  BY <1>0
<1>2. CASE MasterReadable(i)
  <2>. DEFINE n == Least(pty[i].out, ReadMax)
              r == PushN(sessions[i].ring, n)
  <2>1. n \in Nat
    BY ReadFacts
  <2>2. AfterPush([sessions EXCEPT ![i].ring = r], i, FALSE, {}) /\ next_conn' = next_conn
    BY <1>2 DEF MasterReadable
  <2>. HIDE DEF n
  <2>3. r \in ServerRings /\ EndN(r) = EndN(sessions[i].ring) + n
    BY <1>1, <2>1, PushNFacts DEF Session, ServerRings
  <2>4. EndN(sessions[i].ring) \in Nat
    BY <1>1 DEF Session, EndN
  <2>5. EndN(r) >= EndN(sessions[i].ring)
    BY <2>1, <2>3, <2>4
  <2>. HIDE DEF r
  <2>. QED  BY <2>2, <2>3, <2>5, PushInv
<1>3. CASE TryReap(i) /\ UNCHANGED <<ownership, lifecycle>>
  BY <1>3, ReapInv
<1>4. CASE \/ MasterHup(i) /\ ~TryReap(i)
           \/ TimerKill(i) /\ ~TryReap(i)
           \/ MasterWritable(i)
  <2>1. /\ conns' = conns /\ next_conn' = next_conn
        /\ \/ sessions' = [sessions EXCEPT ![i] = [sessions[i] EXCEPT !.master = FALSE]]
           \/ sessions' = [sessions EXCEPT ![i] = [sessions[i] EXCEPT !.kill_deadline = Never]]
           \/ \E n : sessions' = [sessions EXCEPT ![i] = [sessions[i] EXCEPT !.input = n]]
    BY <1>4 DEF MasterHup, TimerKill, MasterWritable
  <2>2. /\ Kept([sessions[i] EXCEPT !.master = FALSE], sessions[i])
        /\ Kept([sessions[i] EXCEPT !.kill_deadline = Never], sessions[i])
        /\ \A n : Kept([sessions[i] EXCEPT !.input = n], sessions[i])
    BY <1>1, UpdatesKeep
  <2>3. PICK t : sessions' = [sessions EXCEPT ![i] = t] /\ Kept(t, sessions[i])
    BY <2>1, <2>2
  <2>4. \A j \in Sids : Kept(sessions'[j], sessions[j])
    BY <1>0, <2>3 DEF Kept
  <2>. QED  BY <2>1, <2>4, QuietInv
<1>5. CASE ChildWrites(i) \/ SlaveCloses(i) \/ ChildExits(i)
  <2>1. sessions' = sessions /\ conns' = conns /\ next_conn' = next_conn
    BY <1>5 DEF ChildWrites, SlaveCloses, ChildExits
  <2>. QED  BY <2>1, QuietInv DEF Kept
<1>. QED
  BY <1>2, <1>3, <1>4, <1>5 DEF SessionStep, OnSigchld, MasterHup, TimerKill

\* The process's own steps keep it.
LEMMA ProcessStepInv ==
    ASSUME TypeOK, TypeOK', StreamInv,
           \/ AcceptAll \/ Serve \/ OnSigterm \/ LoopEnds
           \/ TimerShutdown \/ TimerExitedTtl \/ TimerOrphan \/ TimerIdle
           \/ Tick \/ Sigterm
    PROVE  StreamInv'
<1>. USE DEF ownership
<1>0. sessions \in [Sids -> Session] /\ conns \in [Conns -> Conn]
  BY DEF TypeOK
<1>1. CASE AcceptAll
  <2>1. /\ sessions' = sessions /\ next_conn' = next_conn + 1 /\ next_conn \in Conns
        /\ \A d \in Conns \ {next_conn} : conns'[d] = conns[d]
    BY <1>0, <1>1 DEF AcceptAll
  <2>2. next_conn \in Nat
    BY DEF TypeOK
  <2>3. conns[next_conn].kind = "none"
    BY <2>1, <2>2 DEF StreamInv, ConnsFresh
  <2>4. ASSUME NEW j \in Sids, sessions[j].stream # NoConn
        PROVE  conns'[sessions[j].stream] = conns[sessions[j].stream]
    <3>1. conns[sessions[j].stream].kind = "data"
      BY <2>4 DEF StreamInv, StreamOK
    <3>2. sessions[j].stream \in Conns
      BY <1>0, <2>4 DEF Session
    <3>. QED  BY <2>1, <2>3, <3>1, <3>2
  <2>5. StreamOK' /\ NoSilentGap'
    BY <2>1, <2>4 DEF StreamInv, StreamOK, NoSilentGap
  <2>6. ConnsFresh'
    BY <2>1, <2>2 DEF StreamInv, ConnsFresh, Conns
  <2>. QED  BY <2>5, <2>6 DEF StreamInv
<1>2. CASE ExitProcess
  BY <1>2, AllGoneInv DEF ExitProcess, NoSession
<1>3. CASE Serve \/ Sigterm \/ OnSigterm \/ TimerOrphan
           \/ (TimerShutdown /\ ~ExitProcess) \/ (TimerIdle /\ ~ExitProcess)
  <2>1. sessions' = sessions /\ conns' = conns /\ next_conn' = next_conn
    BY <1>3 DEF Serve, Sigterm, OnSigterm, BeginShutdown, TimerOrphan, TimerShutdown, TimerIdle
  <2>. QED  BY <2>1, QuietInv DEF Kept
<1>4. CASE TimerExitedTtl
  <2>1. /\ conns' = conns /\ next_conn' = next_conn
        /\ \A j \in Sids : sessions'[j] \in {sessions[j], NoSession}
    BY <1>0, <1>4 DEF TimerExitedTtl
  <2>2. NoSession.stream = NoConn
    BY DEF NoSession
  <2>3. ASSUME NEW j \in Sids, sessions'[j].stream # NoConn
        PROVE  /\ sessions'[j].stream = sessions[j].stream
               /\ sessions'[j].st # "none"
               /\ InWindow(sessions'[j])
    BY <2>1, <2>2, <2>3 DEF StreamInv, StreamOK, NoSilentGap, InWindow
  <2>4. StreamsKept
    BY <2>1, <2>3 DEF StreamsKept
  <2>. QED  BY <2>4, KeptInv
<1>5. CASE Tick
  <2>1. conns' = conns /\ next_conn' = next_conn
    BY <1>5 DEF Tick
  <2>2. ASSUME NEW j \in Sids
        PROVE  Kept(sessions'[j], sessions[j])
    <3>1. PICK k, w : sessions'[j] = [sessions[j] EXCEPT !.kill_deadline = k, !.when = w]
      BY <1>5 DEF Tick
    <3>2. Kept([sessions[j] EXCEPT !.kill_deadline = k, !.when = w], sessions[j])
      BY <1>0, UpdatesKeep
    <3>. QED  BY <3>1, <3>2
  <2>. QED  BY <2>1, <2>2, QuietInv
<1>. QED
  BY <1>1, <1>2, <1>3, <1>4, <1>5 DEF LoopEnds, TimerShutdown, TimerIdle

\* A fresh process has no streams.
LEMMA StreamInit == Init => StreamInv
  BY DEF Init, StreamInv, StreamOK, NoSilentGap, ConnsFresh, NoSession, Absent

\* Every step keeps the streams' invariant.
LEMMA StreamStep == TypeOK /\ TypeOK' /\ StreamInv /\ [Next]_vars => StreamInv'
<1>. SUFFICES ASSUME TypeOK, TypeOK', StreamInv, [Next]_vars PROVE StreamInv'
  OBVIOUS
<1>1. CASE UNCHANGED vars
  BY <1>1 DEF vars, StreamInv, StreamOK, NoSilentGap, ConnsFresh
<1>2. CASE Next
  BY <1>2, ConnStepInv, RequestStepInv, SessionStepInv, ProcessStepInv DEF Next
<1>. QED  BY <1>1, <1>2

(* For any number of sessions and connections, ring sizes and caps: a      *)
(* session streams only to a live data connection that is attached to it,  *)
(* and never skips bytes - whatever order reads, overruns, attaches, drops, *)
(* reaps, acks and upgrades come in.                                       *)
THEOREM StreamsSafe == Spec => [](StreamOK /\ NoSilentGap)
<1>1. Init => TypeOK /\ StreamInv
  BY TypeInit, StreamInit
<1>2. TypeOK /\ StreamInv /\ [Next]_vars => (TypeOK /\ StreamInv)'
  BY TypeStep, StreamStep
<1>3. TypeOK /\ StreamInv => StreamOK /\ NoSilentGap
  BY DEF StreamInv
<1>. QED  BY <1>1, <1>2, <1>3, PTL DEF Spec

(* Of these the agreement of `sessions` and `conns` on who streams what.   *)
THEOREM StreamsAgree == Spec => []StreamOK
  BY StreamsSafe, PTL
=============================================================================
