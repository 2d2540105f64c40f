--------------------------- MODULE PtydHostProofs ---------------------------
(***************************************************************************)
(* k2-ptyd implements the session host, for every instance: the proof that *)
(* PtydHost's refinement mapping takes initial states to initial states    *)
(* and every step of Ptyd to a step of SessionHost or to none.             *)
(***************************************************************************)
EXTENDS PtydHost, PtydLifeProofs

\* One session's view.
ViewOf(s) ==
    [st     |-> s.st,
     start  |-> IF s.st = "none" THEN 0 ELSE s.ring.start,
     end    |-> IF s.st = "none" THEN 0 ELSE EndN(s.ring),
     reader |-> IF s.stream = NoConn THEN -1 ELSE s.sent]

\* The mapping, session by session.
LEMMA ViewFacts == HostView = [i \in Sids |-> ViewOf(sessions[i])]
  BY DEF HostView, ViewOf

\* Without a record a session is gone.
LEMMA GoneView ==
    ASSUME NEW s, s.st = "none", s.stream = NoConn
    PROVE  ViewOf(s) = Host!Gone
  BY DEF ViewOf, Host!Gone, Host!NoReader

\* What a step that keeps the process does to one session is a step of the
\* session host: it starts, is attached, streams, is forgotten or stays.
LEMMA SessionMoves ==
    ASSUME TypeOK, TypeOK', StreamInv, StreamInv', LifeInv, NEW j \in Sids, Lived(j), Accounted(j)
    PROVE  Host!SessionNext(ViewOf(sessions[j]), ViewOf(sessions'[j]))
<1>. DEFINE s == sessions[j]
            t == sessions'[j]
<1>1. /\ s \in Session /\ t \in Session
      /\ s.st = "none" => s.stream = NoConn
      /\ t.st = "none" => t.stream = NoConn
  BY DEF TypeOK, StreamInv, StreamOK
<1>2. /\ t.ring.start \in Nat /\ EndN(t.ring) \in Nat /\ t.ring.start <= EndN(t.ring)
      /\ s.ring.start \in Nat /\ EndN(s.ring) \in Nat /\ s.ring.start <= EndN(s.ring)
      /\ s.sent \in Nat /\ t.sent \in Nat
  BY <1>1 DEF Session, EndN
<1>3. CASE t.st = "none"
  <2>1. ViewOf(t) = Host!Gone
    BY <1>1, <1>3, GoneView
  <2>2. CASE s.st = "none"
    BY <1>1, <2>1, <2>2, GoneView DEF Host!SessionNext
  <2>3. CASE s.st # "none"
    <3>1. s.st = "exited"
      BY <1>3, <2>3 DEF Lived, GoesOn, Begins, Ends, Leaves
    <3>2. ViewOf(s).st = "exited"
      BY <3>1 DEF ViewOf
    <3>. QED  BY <2>1, <3>2 DEF Host!SessionNext, Host!Forgotten
  <2>. QED  BY <2>2, <2>3
<1>4. CASE t.st # "none" /\ s.st = "none"
  <2>1. t.st = "running"
    BY <1>4 DEF Lived, GoesOn, Begins, Ends, Leaves
  <2>2. EndN(t.ring) = 0
    BY <1>4 DEF Accounted, Calm, Forgotten, NoSession, Left, Holds, Created, Wrote, Read, HungUp, Reaped
  <2>3. t.ring.start = 0
    BY <1>2, <2>2
  <2>4. t.stream = NoConn
    BY <1>1, <1>4 DEF Lived, Reading, Follows, Attached
  <2>5. ViewOf(t) = Host!Fresh
    BY <2>1, <2>2, <2>3, <2>4 DEF ViewOf, Host!Fresh, Host!Gone, Host!NoReader
  <2>6. ViewOf(s).st = "none"
    BY <1>4 DEF ViewOf
  <2>. QED  BY <2>5, <2>6 DEF Host!SessionNext, Host!Starts
<1>5. CASE t.st # "none" /\ s.st # "none"
  <2>1. /\ ViewOf(s).st = s.st /\ ViewOf(s).start = s.ring.start /\ ViewOf(s).end = EndN(s.ring)
        /\ ViewOf(s).reader = IF s.stream = NoConn THEN -1 ELSE s.sent
        /\ ViewOf(t).st = t.st /\ ViewOf(t).start = t.ring.start /\ ViewOf(t).end = EndN(t.ring)
        /\ ViewOf(t).reader = IF t.stream = NoConn THEN -1 ELSE t.sent
    BY <1>5 DEF ViewOf
  <2>2. /\ t.ring.start >= s.ring.start /\ EndN(t.ring) >= EndN(s.ring)
        /\ s.st = "exited" => EndN(t.ring) = EndN(s.ring)
    BY <1>5, OffsetStep, EndedStays DEF LifeInv
  <2>3. t.stream # NoConn => t.ring.start <= t.sent /\ t.sent <= EndN(t.ring)
    BY DEF StreamInv, NoSilentGap
  <2>4. t.st \in {s.st} \cup (IF s.st = "running" THEN {"exited"} ELSE {})
    BY <1>5 DEF Lived, GoesOn, Begins, Ends, Leaves
  <2>5. CASE t.stream = NoConn \/ Follows(j)
    <3>1. t.stream # NoConn => /\ s.stream # NoConn /\ t.ring.start <= s.sent
                               /\ s.sent <= t.sent /\ t.sent <= EndN(t.ring)
      BY <2>3, <2>5 DEF Follows
    <3>2. ViewOf(t).reader # Host!NoReader =>
             /\ ViewOf(s).reader # Host!NoReader
             /\ ViewOf(t).start <= ViewOf(s).reader
             /\ ViewOf(s).reader <= ViewOf(t).reader /\ ViewOf(t).reader <= ViewOf(t).end
      BY <1>2, <2>1, <3>1 DEF Host!NoReader
    <3>3. /\ ViewOf(s).start <= ViewOf(t).start /\ ViewOf(t).start <= ViewOf(t).end
          /\ IF ViewOf(s).st = "exited" THEN ViewOf(t).end = ViewOf(s).end
             ELSE ViewOf(s).end <= ViewOf(t).end
      BY <1>2, <2>1, <2>2
    <3>4. /\ ViewOf(s).st # "none"
          /\ ViewOf(t).st \in {ViewOf(s).st} \cup (IF ViewOf(s).st = "running" THEN {"exited"} ELSE {})
      BY <1>5, <2>1, <2>4
    <3>. QED  BY <3>2, <3>3, <3>4 DEF Host!SessionNext, Host!Streams
  <2>6. CASE t.stream # NoConn /\ Attached(j)
    <3>1. ViewOf(t) = [ViewOf(s) EXCEPT !.reader = t.sent]
      BY <1>5, <2>6 DEF ViewOf, Attached
    <3>2. t.sent \in ViewOf(s).start .. ViewOf(s).end
      BY <1>2, <2>1, <2>3, <2>6 DEF Attached
    <3>. QED  BY <1>5, <2>1, <3>1, <3>2 DEF Host!SessionNext, Host!Attaches
  <2>. QED  BY <2>5, <2>6 DEF Lived, Reading
<1>. QED  BY <1>3, <1>4, <1>5

\* Every step of the server is a step of the host or none.
LEMMA HostStep ==
    TypeOK /\ TypeOK' /\ StreamInv /\ StreamInv' /\ LifeInv /\ [Next]_vars
        => [Host!Next]_<<up, HostView>>
<1>. SUFFICES ASSUME TypeOK, TypeOK', StreamInv, StreamInv', LifeInv, [Next]_vars
              PROVE  Host!Next \/ UNCHANGED <<up, HostView>>
  OBVIOUS
<1>0. up \in BOOLEAN /\ up' \in BOOLEAN
  BY DEF TypeOK
<1>1. /\ HostView = [i \in Sids |-> ViewOf(sessions[i])]
      /\ HostView' = [i \in Sids |-> ViewOf(sessions'[i])]
  BY DEF HostView, ViewOf
<1>2. CASE Quits
  <2>1. up /\ ~up' /\ \A i \in Sids : sessions'[i] = NoSession
    BY <1>2 DEF Quits, ExitProcess
  <2>2. ViewOf(NoSession) = Host!Gone
    BY GoneView DEF NoSession
  <2>3. HostView' = [i \in Sids |-> Host!Gone]
    BY <1>1, <2>1, <2>2
  <2>. QED  BY <2>1, <2>3 DEF Host!Next, Host!HostEnds
<1>3. CASE Serves
  <2>1. CASE ~up
    <3>1. HostView' = HostView
      BY <1>1, <1>3, <2>1 DEF Serves
    <3>. QED  BY <1>0, <2>1, <3>1 DEF Host!Next, Host!HostStarts
  <2>2. CASE up
    <3>1. up'
      BY <1>3, <2>2 DEF Serves
    <3>2. \A i \in Sids : Host!SessionNext(ViewOf(sessions[i]), ViewOf(sessions'[i]))
      BY <1>3, StepAccounted, SessionMoves DEF Serves
    <3>3. DOMAIN HostView' = Sids /\ \A i \in Sids : Host!SessionNext(HostView[i], HostView'[i])
      BY <1>1, <3>2
    <3>. QED  BY <2>2, <3>1, <3>3 DEF Host!Next, Host!SessionsMove
  <2>. QED  BY <2>1, <2>2
<1>. QED  BY <1>2, <1>3, StepServes

(* The server implements the session host, for any number of sessions and  *)
(* connections, every ring size, cap, timeout and interleaving: a reader   *)
(* is never carried over a gap, output never shrinks, a stream ends once,  *)
(* an upgrade keeps sessions and offsets, and while the process lives only *)
(* an ended session disappears.                                            *)
THEOREM PtydIsSessionHost == Spec => ImplementsSessionHost
<1>1. Init => TypeOK /\ StreamInv /\ LifeInv
  BY TypeInit, StreamInit, LifeInit
<1>2. TypeOK /\ StreamInv /\ LifeInv /\ [Next]_vars => (TypeOK /\ StreamInv /\ LifeInv)'
  BY TypeStep, StreamStep, LifeStep
<1>3. Init => Host!Init
  <2>. SUFFICES ASSUME Init PROVE Host!Init
    OBVIOUS
  <2>1. up = TRUE /\ \A i \in Sids : sessions[i] = NoSession
    BY DEF Init
  <2>2. ViewOf(NoSession) = Host!Gone
    BY GoneView DEF NoSession
  <2>3. HostView = [i \in Sids |-> Host!Gone]
    BY <2>1, <2>2, ViewFacts
  <2>. QED  BY <2>1, <2>3 DEF Host!Init
<1>4. TypeOK /\ TypeOK' /\ StreamInv /\ StreamInv' /\ LifeInv /\ [Next]_vars
         => [Host!Next]_<<up, HostView>>
  BY HostStep
<1>. QED  BY <1>1, <1>2, <1>3, <1>4, PTL DEF Spec, ImplementsSessionHost, Host!Spec
=============================================================================
