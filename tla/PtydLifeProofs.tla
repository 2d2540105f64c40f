--------------------------- MODULE PtydLifeProofs ---------------------------
(***************************************************************************)
(* The life of a session, for every instance of Ptyd: who has a child is   *)
(* listed as running, a running session only exits, kill answers go to     *)
(* connections of this process image.  As in PtydOutputProofs, what a step *)
(* may do to one session (Lived) is shown for every action, and the        *)
(* theorems follow from it.                                                *)
(***************************************************************************)
EXTENDS PtydOutputProofs

\* The life of a session goes on, begins, ends, or is forgotten.
GoesOn(j) ==
    /\ sessions'[j].st = sessions[j].st
    /\ sessions'[j].master => sessions[j].master
    /\ pty'[j].child # "none" => pty[j].child # "none"
Begins(j) == sessions[j].st = "none" /\ sessions'[j].st = "running" /\ up
Ends(j) ==
    /\ sessions[j].st = "running" /\ sessions'[j].st = "exited"
    /\ ~sessions'[j].master /\ pty'[j].child = "none"
Leaves(j) ==
    /\ sessions[j].st = "exited" /\ sessions'[j].st = "none"
    /\ ~sessions'[j].master /\ pty'[j] = pty[j]

\* Its reader: nobody, the same one further on with no byte dropped under it,
\* or one that attached.
Follows(j) ==
    /\ sessions'[j].stream = sessions[j].stream
    /\ sessions'[j].ring.start <= sessions[j].sent
    /\ sessions[j].sent <= sessions'[j].sent
Attached(j) ==
    /\ sessions[j].st # "none" /\ sessions'[j].stream # sessions[j].stream
    /\ sessions'[j].st = sessions[j].st /\ sessions'[j].ring = sessions[j].ring
Reading(j) == sessions'[j].stream = NoConn \/ Follows(j) \/ Attached(j)

Owning == {c \in Conns : conns[c].kind = "owner"}

Lived(j) ==
    /\ GoesOn(j) \/ Begins(j) \/ Ends(j) \/ Leaves(j)
    /\ Reading(j)
    /\ sessions'[j].kill_waiters \subseteq sessions[j].kill_waiters \cup Owning

\* An update of a record that leaves its life and its reader alone.
Mild(t, s) ==
    /\ t.st = s.st /\ (t.master => s.master) /\ t.ring = s.ring
    /\ t.sent = s.sent /\ t.stream \in {s.stream, NoConn}
    /\ t.kill_waiters = s.kill_waiters

\* The updates of other fields are of that kind.
LEMMA UpdatesMild ==
    ASSUME NEW s \in Session, NEW n
    PROVE  /\ Mild(s, s)
           /\ Mild([s EXCEPT !.master = FALSE], s)
           /\ Mild([s EXCEPT !.stream = NoConn], s)
           /\ Mild([s EXCEPT !.kill_deadline = Never], s)
           /\ Mild([s EXCEPT !.meta = n], s)
           /\ \A w : Mild([s EXCEPT !.kill_deadline = n, !.when = w], s)
  BY DEF Mild, Session

\* A step of such updates that makes no child.
LEMMA MildLived ==
    ASSUME TypeOK, NoSilentGap, NEW j \in Sids, Mild(sessions'[j], sessions[j]),
           pty'[j].child # "none" => pty[j].child # "none"
    PROVE  Lived(j)
<1>1. sessions[j] \in Session
  BY DEF TypeOK
<1>2. sessions[j].sent \in Nat
  BY <1>1 DEF Session
<1>3. GoesOn(j)
  BY DEF GoesOn, Mild
<1>4. Reading(j)
  <2>1. CASE sessions'[j].stream = NoConn
    BY <2>1 DEF Reading
  <2>2. CASE sessions'[j].stream # NoConn
    <3>1. sessions'[j].stream = sessions[j].stream
      BY <2>2 DEF Mild
    <3>2. sessions[j].ring.start <= sessions[j].sent
      BY <2>2, <3>1 DEF NoSilentGap
    <3>. QED  BY <1>2, <3>1, <3>2 DEF Mild, Reading, Follows
  <2>. QED  BY <2>1, <2>2
<1>. QED  BY <1>2, <1>3, <1>4 DEF Lived, Mild

\* A step that touches neither sessions nor terminals.
LEMMA IdleLived ==
    ASSUME TypeOK, NoSilentGap, sessions' = sessions, pty' = pty
    PROVE  \A j \in Sids : Lived(j)
<1>1. \A j \in Sids : Mild(sessions[j], sessions[j])
  BY UpdatesMild DEF TypeOK
<1>. QED  BY <1>1, MildLived

\* A step that updates one session mildly.
LEMMA OneMild ==
    ASSUME TypeOK, NoSilentGap, NEW i \in Sids, NEW t,
           sessions' = [sessions EXCEPT ![i] = t], Mild(t, sessions[i]),
           \A j \in Sids : pty'[j].child # "none" => pty[j].child # "none"
    PROVE  \A j \in Sids : Lived(j)
<1>1. sessions \in [Sids -> Session]
  BY DEF TypeOK
<1>2. \A j \in Sids : Mild(sessions[j], sessions[j])
  BY <1>1, UpdatesMild
<1>3. \A j \in Sids : Mild(sessions'[j], sessions[j])
  BY <1>1, <1>2
<1>. QED  BY <1>3, MildLived

\* A step that gives session i a record with a life of its own, the rest stays.
LEMMA OneLived ==
    ASSUME TypeOK, NoSilentGap, NEW i \in Sids, NEW t, sessions' = [sessions EXCEPT ![i] = t],
           \A j \in Sids \ {i} : pty'[j] = pty[j], Lived(i)
    PROVE  \A j \in Sids : Lived(j)
<1>1. sessions \in [Sids -> Session]
  BY DEF TypeOK
<1>2. ASSUME NEW j \in Sids, j # i
      PROVE  Lived(j)
  <2>1. sessions'[j] = sessions[j] /\ pty'[j] = pty[j]
    BY <1>1, <1>2
  <2>2. Mild(sessions[j], sessions[j])
    BY <1>1, UpdatesMild
  <2>. QED  BY <2>1, <2>2, MildLived
<1>. QED  BY <1>2

\* A handler that pushed to the ring of session i.
LEMMA PushLived ==
    ASSUME TypeOK, TypeOK', StreamInv, NEW i \in Sids, NEW r \in ServerRings,
           NEW ended \in BOOLEAN, NEW T,
           ended => sessions[i].st = "running" /\ pty'[i].child = "none",
           \A j \in Sids : pty'[j].child # "none" => pty[j].child # "none",
           AfterPush([sessions EXCEPT ![i].ring = r], i, ended, T)
    PROVE  \A j \in Sids : Lived(j)
<1>. SUFFICES ASSUME NEW j \in Sids PROVE Lived(j)
  OBVIOUS
<1>. DEFINE S == [sessions EXCEPT ![i].ring = r]
<1>1. sessions \in [Sids -> Session] /\ conns \in [Conns -> Conn]
  BY DEF TypeOK
<1>2. /\ S \in [Sids -> Session]
      /\ \A k \in Sids : /\ S[k].st = sessions[k].st /\ S[k].master = sessions[k].master
                         /\ S[k].kill_waiters = sessions[k].kill_waiters
                         /\ S[k].stream = sessions[k].stream /\ S[k].sent = sessions[k].sent
  BY <1>1, PushedFacts
<1>. HIDE DEF S
<1>3. AfterPush(S, i, ended, T)
  BY DEF S
<1>4. PushEffect(S, i, ended)
  BY <1>1, <1>2, <1>3, AfterPushFacts
<1>5. GoesOn(j) \/ Ends(j)
  <2>1. CASE ended /\ j = i
    BY <1>4, <2>1 DEF PushEffect, Ends
  <2>2. CASE ~(ended /\ j = i)
    BY <1>2, <1>4, <2>2 DEF PushEffect, GoesOn
  <2>. QED  BY <2>1, <2>2
<1>6. Reading(j)
  BY <1>2, <1>4 DEF PushEffect, Reading, Follows
<1>7. sessions'[j].kill_waiters \subseteq sessions[j].kill_waiters \cup Owning
  BY <1>2, <1>4 DEF PushEffect
<1>. QED  BY <1>5, <1>6, <1>7 DEF Lived

\* try_reap.
LEMMA ReapLived ==
    ASSUME TypeOK, TypeOK', StreamInv, NEW i \in Sids, TryReap(i)
    PROVE  \A j \in Sids : Lived(j)
<1>0. PICK n, late \in Nat : Reaps(i, n, late)
  BY ReapFacts
<1>. DEFINE r == PushN(sessions[i].ring, n)
            T == sessions[i].kill_waiters \cup {owner}
            p == Hung(pty[i], late)
<1>1. pty \in [Sids -> Pty]
  BY DEF TypeOK
<1>2. r \in ServerRings
  BY <1>0 DEF Reaps
<1>3. /\ AfterPush([sessions EXCEPT ![i].ring = r], i, TRUE, T)
      /\ sessions[i].st = "running" /\ pty' = [pty EXCEPT ![i] = p]
  BY <1>0 DEF TryReap, Reaps
<1>4. p.child = "none"
  BY <1>1, HungFacts
<1>. HIDE DEF r, T, p
<1>5. pty'[i].child = "none" /\ \A j \in Sids : pty'[j].child # "none" => pty[j].child # "none"
  BY <1>1, <1>3, <1>4
<1>. QED  BY <1>2, <1>3, <1>5, PushLived

\* What connections do.
LEMMA ConnStepLived ==
    ASSUME TypeOK, TypeOK', StreamInv, NEW c \in Conns, ConnStep(c)
    PROVE  \A j \in Sids : Lived(j)
<1>0. sessions \in [Sids -> Session] /\ conns \in [Conns -> Conn] /\ NoSilentGap
  BY DEF TypeOK, StreamInv
<1>1. CASE ConnEof(c) \/ ReapClosedConn(c)
  <2>. SUFFICES ASSUME NEW j \in Sids PROVE Lived(j)
    OBVIOUS
  <2>1. DropConn(c)
    BY <1>1 DEF ConnEof, ReapClosedConn
  <2>2. sessions'[j] \in {sessions[j], [sessions[j] EXCEPT !.stream = NoConn]} /\ pty' = pty
    BY <2>1 DEF DropConn, Detach
  <2>3. Mild(sessions'[j], sessions[j])
    BY <1>0, <2>2, UpdatesMild
  <2>. QED  BY <1>0, <2>2, <2>3, MildLived
<1>2. CASE ConnWritable(c)
  <2>0. pty' = pty
    BY <1>2 DEF ConnWritable
  <2>1. CASE sessions' = sessions
    BY <1>0, <2>0, <2>1, IdleLived
  <2>2. CASE FlushStream(sessions, [conns EXCEPT ![c].wbuf = FALSE], c)
    <3>. SUFFICES ASSUME NEW j \in Sids PROVE Lived(j)
      OBVIOUS
    <3>1. [conns EXCEPT ![c].wbuf = FALSE] \in [Conns -> Conn]
      BY <1>0 DEF Conn
    <3>2. SameButSent(sessions'[j], sessions[j])
      BY <1>0, <2>2, <3>1, FlushFacts
    <3>3. Reading(j)
      BY <1>0, <3>2 DEF SameButSent, Reading, Follows, NoSilentGap
    <3>. QED  BY <2>0, <3>2, <3>3 DEF Lived, SameButSent, GoesOn
  <2>. QED  BY <1>2, <2>1, <2>2 DEF ConnWritable
<1>3. CASE HelloRefused(c) \/ HelloData(c) \/ PeerVanishes(c) \/ HelloOwner(c) \/ DataAnswered(c)
  <2>1. pty' = pty /\ sessions' = sessions
    BY <1>3 DEF HelloRefused, HelloData, PeerVanishes, HelloOwner, DataAnswered
  <2>. QED  BY <1>0, <2>1, IdleLived
<1>4. CASE InputTo(c)
  <2>. DEFINE i == conns[c].sid
              mine == sessions[i].stream = c /\ sessions[i].st = "running" /\ sessions[i].master
              s == IF mine THEN [sessions[i] EXCEPT !.input = sessions[i].input + 1] ELSE sessions[i]
  <2>1. i \in Sids /\ pty' = pty
    BY <1>0, <1>4 DEF InputTo, Conn
  <2>2. PICK left \in Written(s) : sessions' = [sessions EXCEPT ![i] = [s EXCEPT !.input = left]]
    BY <1>4 DEF InputTo
  <2>3. s \in Session /\ Kept(s, sessions[i])
        /\ s.master = sessions[i].master /\ s.kill_waiters = sessions[i].kill_waiters
    <3>. HIDE DEF i
    <3>1. sessions[i] \in Session /\ sessions[i].input \in Nat
      BY <1>0, <2>1 DEF Session
    <3>. DEFINE t == [sessions[i] EXCEPT !.input = sessions[i].input + 1]
    <3>2. sessions[i].input + 1 \in Nat
      BY <3>1
    <3>3. t \in Session /\ Kept(t, sessions[i])
          /\ t.master = sessions[i].master /\ t.kill_waiters = sessions[i].kill_waiters
      BY <3>1, <3>2 DEF Session, Kept
    <3>. HIDE DEF t
    <3>4. CASE mine
      BY <3>3, <3>4 DEF t
    <3>5. CASE ~mine
      BY <3>1, <3>5 DEF Kept
    <3>. QED  BY <3>4, <3>5
  <2>. HIDE DEF s, i
  <2>5. /\ sessions'[i] = [s EXCEPT !.input = left]
        /\ \A j \in Sids \ {i} : pty'[j] = pty[j]
    BY <1>0, <2>1, <2>2
  <2>6. /\ sessions'[i].st = s.st /\ sessions'[i].ring = s.ring
        /\ sessions'[i].master = s.master /\ sessions'[i].kill_waiters = s.kill_waiters
        /\ sessions'[i].stream = s.stream /\ sessions'[i].sent = s.sent
    BY <2>3, <2>5 DEF Session
  <2>7. sessions[i].sent \in Nat
    BY <1>0, <2>1 DEF Session
  <2>8. Reading(i)
    BY <1>0, <2>1, <2>3, <2>6, <2>7 DEF Kept, Reading, Follows, NoSilentGap
  <2>9. Lived(i)
    BY <2>1, <2>3, <2>6, <2>8 DEF Kept, Lived, GoesOn
  <2>. QED  BY <1>0, <2>1, <2>2, <2>5, <2>9, OneLived
<1>5. ASSUME NEW i \in Sids, NEW from \in 0..MaxOut, Attach(c, i, from)
      PROVE  \A j \in Sids : Lived(j)
  <2>. DEFINE s == sessions[i]
  <2>1. PICK n : sessions' = [sessions EXCEPT ![i] = [s EXCEPT !.stream = c, !.sent = n]]
    BY <1>5 DEF Attach
  <2>2. pty' = pty /\ s.st # "none"
    BY <1>5 DEF Attach
  <2>3. s \in Session
    BY <1>0
  <2>4. /\ sessions'[i].st = s.st /\ sessions'[i].ring = s.ring
        /\ sessions'[i].master = s.master /\ sessions'[i].kill_waiters = s.kill_waiters
    BY <1>0, <2>1, <2>3 DEF Session
  <2>5. sessions[i].stream # c /\ sessions'[i].stream = c
    <3>1. conns[c].sid = NoSid /\ c # NoConn
      BY <1>5 DEF Attach, Conns, NoConn
    <3>2. sessions[i].stream # c
      BY <3>1, Constants DEF StreamInv, StreamOK
    <3>. QED  BY <1>0, <2>1, <2>3, <3>2 DEF Session
  <2>6. Lived(i)
    BY <2>2, <2>3, <2>4, <2>5 DEF Lived, GoesOn, Reading, Attached
  <2>. QED  BY <1>0, <2>1, <2>2, <2>6, OneLived
<1>. QED  BY <1>1, <1>2, <1>3, <1>4, <1>5 DEF ConnStep

\* What an owner's requests do, if the process goes on as it is.
LEMMA RequestStepLived ==
    ASSUME TypeOK, TypeOK', StreamInv, NEW c \in Conns, RequestStep(c),
           ~UpgradeDies(c), ~UpgradeKilled(c)
    PROVE  \A j \in Sids : Lived(j)
<1>0. sessions \in [Sids -> Session] /\ pty \in [Sids -> Pty] /\ NoSilentGap
  BY DEF TypeOK, StreamInv
<1>1. CASE RequestAnswered(c) \/ List(c) \/ Shutdown(c)
  <2>1. pty' = pty /\ sessions' = sessions
    BY <1>1 DEF RequestAnswered, List, Shutdown, BeginShutdown
  <2>. QED  BY <1>0, <2>1, IdleLived
<1>2. CASE UpgradeResumes(c)
  <2>. SUFFICES ASSUME NEW j \in Sids PROVE Lived(j)
    OBVIOUS
  <2>1. sessions'[j] = Resumed(sessions[j]) /\ pty' = pty
    BY <1>2 DEF UpgradeResumes
  <2>2. /\ sessions'[j].st = sessions[j].st /\ sessions'[j].master = sessions[j].master
        /\ sessions'[j].stream = NoConn /\ sessions'[j].kill_waiters = {}
    BY <1>0, <2>1, ResumedFacts
  <2>. QED  BY <2>1, <2>2 DEF Lived, GoesOn, Reading
<1>3. CASE UpgradeExecFails(c)
  <2>. SUFFICES ASSUME NEW j \in Sids PROVE Lived(j)
    OBVIOUS
  <2>1. sessions'[j] = [sessions[j] EXCEPT !.stream = NoConn] /\ pty' = pty
    BY <1>3 DEF UpgradeExecFails
  <2>2. Mild([sessions[j] EXCEPT !.stream = NoConn], sessions[j])
    BY <1>0, UpdatesMild
  <2>. QED  BY <1>0, <2>1, <2>2, MildLived
<1>4. ASSUME NEW i \in Sids, Kill(c, i)
      PROVE  \A j \in Sids : Lived(j)
  <2>. DEFINE s == sessions[i]
              W == s.kill_waiters \cup {c}
  <2>1. PICK n : sessions' = [sessions EXCEPT ![i] = [s EXCEPT !.kill_deadline = n, !.kill_waiters = W]]
    BY <1>4 DEF Kill
  <2>2. pty' = pty /\ c \in Owning
    BY <1>4 DEF Kill, FromOwner, Owning
  <2>3. s \in Session /\ s.sent \in Nat
    BY <1>0 DEF Session
  <2>4. W \subseteq s.kill_waiters \cup Owning
    BY <2>2
  <2>. HIDE DEF W
  <2>5. /\ sessions'[i].st = s.st /\ sessions'[i].ring = s.ring
        /\ sessions'[i].master = s.master /\ sessions'[i].kill_waiters = W
        /\ sessions'[i].stream = s.stream /\ sessions'[i].sent = s.sent
    BY <1>0, <2>1, <2>3 DEF Session
  <2>6. Reading(i)
    BY <1>0, <2>3, <2>5 DEF Reading, Follows, NoSilentGap
  <2>7. Lived(i)
    BY <2>2, <2>3, <2>4, <2>5, <2>6 DEF Lived, GoesOn
  <2>. QED  BY <1>0, <2>1, <2>2, <2>7, OneLived
<1>5. ASSUME NEW i \in Sids, NEW meta \in MetaSizes, UpdateMeta(c, i, meta)
      PROVE  \A j \in Sids : Lived(j)
  <2>1. sessions' = [sessions EXCEPT ![i] = [sessions[i] EXCEPT !.meta = meta]] /\ pty' = pty
    BY <1>5 DEF UpdateMeta
  <2>2. Mild([sessions[i] EXCEPT !.meta = meta], sessions[i])
    BY <1>0, UpdatesMild
  <2>. QED  BY <1>0, <2>1, <2>2, OneMild
<1>6. ASSUME NEW i \in Sids, AckExit(c, i)
      PROVE  \A j \in Sids : Lived(j)
  <2>1. sessions' = [sessions EXCEPT ![i] = NoSession] /\ pty' = pty /\ sessions[i].st = "exited"
    BY <1>6 DEF AckExit
  <2>2. /\ sessions'[i].st = "none" /\ sessions'[i].master = FALSE /\ sessions'[i].stream = NoConn
        /\ sessions'[i].kill_waiters = {}
    BY <1>0, <2>1 DEF NoSession
  <2>3. Lived(i)
    BY <2>1, <2>2 DEF Lived, Leaves, Reading
  <2>. QED  BY <1>0, <2>1, <2>3, OneLived
<1>7. ASSUME NEW i \in Sids, NEW meta \in MetaSizes, NEW cap \in RingCaps, Spawn(c, i, cap, meta)
      PROVE  \A j \in Sids : Lived(j)
  <2>. DEFINE t == [NoSession EXCEPT !.st = "running", !.master = TRUE,
                                     !.ring = NewN(cap), !.meta = meta]
              p == [NoPty EXCEPT !.child = "alive", !.slave = TRUE]
  <2>1. /\ sessions[i].st = "none" /\ up
        /\ sessions' = [sessions EXCEPT ![i] = t] /\ pty' = [pty EXCEPT ![i] = p]
    BY <1>7 DEF Spawn, FromOwner
  <2>2. t.st = "running" /\ t.stream = NoConn /\ t.kill_waiters = {}
    BY DEF NoSession
  <2>. HIDE DEF t, p
  <2>3. Lived(i)
    <3>1. sessions'[i] = t
      BY <1>0, <2>1
    <3>. QED  BY <2>1, <2>2, <3>1 DEF Lived, Begins, Reading
  <2>4. \A j \in Sids \ {i} : pty'[j] = pty[j]
    BY <1>0, <2>1
  <2>. QED  BY <1>0, <2>1, <2>3, <2>4, OneLived
<1>. QED
  BY <1>1, <1>2, <1>3, <1>4, <1>5, <1>6, <1>7 DEF RequestStep

\* What terminals and children do.
LEMMA SessionStepLived ==
    ASSUME TypeOK, TypeOK', StreamInv, NEW i \in Sids, SessionStep(i)
    PROVE  \A j \in Sids : Lived(j)
<1>0. sessions \in [Sids -> Session] /\ pty \in [Sids -> Pty] /\ NoSilentGap
  BY DEF TypeOK, StreamInv
<1>1. \A j \in Sids : Mild(sessions[j], sessions[j])
  BY <1>0, UpdatesMild
<1>2. CASE MasterReadable(i)
  <2>. DEFINE n == Least(pty[i].out, ReadMax)
              r == PushN(sessions[i].ring, n)
              p == [pty[i] EXCEPT !.out = pty[i].out - n]
  <2>1. n \in Nat
    BY ReadFacts
  <2>2. /\ AfterPush([sessions EXCEPT ![i].ring = r], i, FALSE, {})
        /\ pty' = [pty EXCEPT ![i] = p]
    BY <1>2 DEF MasterReadable
  <2>. HIDE DEF n
  <2>3. r \in ServerRings
    BY <1>0, <2>1, PushNFacts DEF Session, ServerRings
  <2>4. p.child = pty[i].child
    BY <1>0 DEF Pty
  <2>. HIDE DEF r, p
  <2>5. \A j \in Sids : pty'[j].child # "none" => pty[j].child # "none"
    BY <1>0, <2>2, <2>4
  <2>. QED  BY <2>2, <2>3, <2>5, PushLived
<1>3. CASE TryReap(i)
  BY <1>3, ReapLived
<1>4. CASE MasterHup(i) /\ ~TryReap(i)
  <2>1. sessions' = [sessions EXCEPT ![i] = [sessions[i] EXCEPT !.master = FALSE]] /\ pty' = pty
    BY <1>4 DEF MasterHup
  <2>2. Mild([sessions[i] EXCEPT !.master = FALSE], sessions[i])
    BY <1>0, UpdatesMild
  <2>. QED  BY <1>0, <2>1, <2>2, OneMild
<1>5. CASE MasterWritable(i)
  <2>. DEFINE s == sessions[i]
  <2>1. PICK left : sessions' = [sessions EXCEPT ![i] = [s EXCEPT !.input = left]]
    BY <1>5 DEF MasterWritable
  <2>2. pty' = pty
    BY <1>5 DEF MasterWritable
  <2>3. s \in Session /\ s.sent \in Nat
    BY <1>0 DEF Session
  <2>5. /\ sessions'[i].st = s.st /\ sessions'[i].ring = s.ring
        /\ sessions'[i].master = s.master /\ sessions'[i].kill_waiters = s.kill_waiters
        /\ sessions'[i].stream = s.stream /\ sessions'[i].sent = s.sent
    BY <1>0, <2>1, <2>3 DEF Session
  <2>6. Reading(i)
    BY <1>0, <2>3, <2>5 DEF Reading, Follows, NoSilentGap
  <2>7. Lived(i)
    BY <2>2, <2>5, <2>6 DEF Lived, GoesOn
  <2>. QED  BY <1>0, <2>1, <2>2, <2>7, OneLived
<1>6. CASE TimerKill(i) /\ ~TryReap(i)
  <2>1. /\ sessions' = [sessions EXCEPT ![i] = [sessions[i] EXCEPT !.kill_deadline = Never]]
        /\ pty' = [pty EXCEPT ![i] = [pty[i] EXCEPT !.killed = TRUE]]
    BY <1>6 DEF TimerKill
  <2>2. \A j \in Sids : pty'[j].child = pty[j].child
    BY <1>0, <2>1 DEF Pty
  <2>3. Mild([sessions[i] EXCEPT !.kill_deadline = Never], sessions[i])
    BY <1>0, UpdatesMild
  <2>. QED  BY <1>0, <2>1, <2>2, <2>3, OneMild
<1>7. CASE ChildWrites(i) \/ SlaveCloses(i)
  <2>1. sessions' = sessions
    BY <1>7 DEF ChildWrites, SlaveCloses
  <2>2. \/ pty' = [pty EXCEPT ![i] = [pty[i] EXCEPT !.slave = FALSE]]
        \/ pty' = [pty EXCEPT ![i] = [pty[i] EXCEPT !.out = pty[i].out + 1,
                                                    !.wrote = pty[i].wrote + 1]]
    BY <1>7 DEF ChildWrites, SlaveCloses
  <2>3. /\ [pty[i] EXCEPT !.slave = FALSE].child = pty[i].child
        /\ [pty[i] EXCEPT !.out = pty[i].out + 1, !.wrote = pty[i].wrote + 1].child = pty[i].child
    BY <1>0 DEF Pty
  <2>4. \A j \in Sids : pty'[j].child = pty[j].child
    BY <1>0, <2>2, <2>3
  <2>. QED  BY <1>0, <1>1, <2>1, <2>4, MildLived
<1>8. CASE ChildExits(i)
  <2>1. sessions' = sessions /\ pty[i].child = "alive"
    BY <1>8 DEF ChildExits
  <2>2. PICK b : pty' = [pty EXCEPT ![i] = [pty[i] EXCEPT !.child = "zombie", !.slave = b]]
    BY <1>8 DEF ChildExits
  <2>3. \A j \in Sids : pty'[j].child # "none" => pty[j].child # "none"
    BY <1>0, <2>1, <2>2
  <2>. QED  BY <1>0, <1>1, <2>1, <2>3, MildLived
<1>. QED
  BY <1>2, <1>3, <1>4, <1>5, <1>6, <1>7, <1>8 DEF SessionStep, OnSigchld, MasterHup, TimerKill

\* What the process itself does, if it goes on.
LEMMA ProcessStepLived ==
    ASSUME TypeOK, StreamInv, ~ExitProcess,
           \/ AcceptAll \/ Serve \/ OnSigterm \/ LoopEnds
           \/ TimerShutdown \/ TimerExitedTtl \/ TimerOrphan \/ TimerIdle
           \/ Tick \/ Sigterm
    PROVE  \A j \in Sids : Lived(j)
<1>0. sessions \in [Sids -> Session] /\ pty \in [Sids -> Pty] /\ NoSilentGap
  BY DEF TypeOK, StreamInv
<1>1. CASE AcceptAll \/ Serve \/ Sigterm \/ OnSigterm \/ TimerOrphan \/ TimerIdle
  <2>1. pty' = pty /\ sessions' = sessions
    BY <1>1 DEF AcceptAll, Serve, Sigterm, OnSigterm, BeginShutdown, TimerOrphan, TimerIdle
  <2>. QED  BY <1>0, <2>1, IdleLived
<1>2. CASE TimerShutdown
  <2>. SUFFICES ASSUME NEW j \in Sids PROVE Lived(j)
    OBVIOUS
  <2>1. sessions' = sessions /\ pty'[j] \in {pty[j], [pty[j] EXCEPT !.killed = TRUE]}
    BY <1>2 DEF TimerShutdown
  <2>2. pty'[j].child = pty[j].child
    BY <1>0, <2>1 DEF Pty
  <2>3. Mild(sessions[j], sessions[j])
    BY <1>0, UpdatesMild
  <2>. QED  BY <1>0, <2>1, <2>2, <2>3, MildLived
<1>3. CASE TimerExitedTtl
  <2>. SUFFICES ASSUME NEW j \in Sids PROVE Lived(j)
    OBVIOUS
  <2>1. /\ pty' = pty
        /\ \/ sessions'[j] = sessions[j]
           \/ sessions[j].st = "exited" /\ sessions'[j] = NoSession
    BY <1>3 DEF TimerExitedTtl, Exited
  <2>2. CASE sessions'[j] = sessions[j]
    <3>1. Mild(sessions[j], sessions[j])
      BY <1>0, UpdatesMild
    <3>. QED  BY <1>0, <2>1, <2>2, <3>1, MildLived
  <2>3. CASE sessions[j].st = "exited" /\ sessions'[j] = NoSession
    BY <2>1, <2>3, PtydAssumption DEF NoSession, Lived, Leaves, Reading
  <2>. QED  BY <2>1, <2>2, <2>3
<1>4. CASE Tick
  <2>. SUFFICES ASSUME NEW j \in Sids PROVE Lived(j)
    OBVIOUS
  <2>1. PICK k, w : sessions'[j] = [sessions[j] EXCEPT !.kill_deadline = k, !.when = w]
    BY <1>4 DEF Tick
  <2>2. Mild([sessions[j] EXCEPT !.kill_deadline = k, !.when = w], sessions[j])
    BY <1>0, UpdatesMild
  <2>3. pty' = pty
    BY <1>4 DEF Tick
  <2>. QED  BY <1>0, <2>1, <2>2, <2>3, MildLived
<1>. QED  BY <1>1, <1>2, <1>3, <1>4 DEF LoopEnds

-----------------------------------------------------------------------------
\* When the process ends: its loop was told to, no session is running, or the
\* image that took over does not get to serve.
UpgradeFails == \E c \in Conns : UpgradeDies(c) \/ UpgradeKilled(c)
Quits == ExitProcess /\ up /\ (exit_now \/ Running(sessions) = {} \/ UpgradeFails)

\* Any other step: the process goes on or starts, while it is down sessions do
\* not change, and connection ids are handed out upwards unless every waiter is
\* dropped.
Serves ==
    /\ up => up'
    /\ ~up => sessions' = sessions
    /\ \A j \in Sids : Lived(j)
    /\ next_conn' >= next_conn \/ \A j \in Sids : sessions'[j].kill_waiters = {}

\* Every step is of one of these kinds.
LEMMA StepServes == TypeOK /\ TypeOK' /\ StreamInv /\ [Next]_vars => Quits \/ Serves
<1>. SUFFICES ASSUME TypeOK, TypeOK', StreamInv, [Next]_vars PROVE Quits \/ Serves
  OBVIOUS
<1>. USE DEF ownership, lifecycle
<1>0. next_conn \in Nat /\ sessions \in [Sids -> Session]
  BY DEF TypeOK
<1>1. CASE UNCHANGED vars
  <2>1. sessions' = sessions /\ pty' = pty /\ up' = up /\ next_conn' = next_conn
    BY <1>1 DEF vars
  <2>. QED  BY <1>0, <2>1, IdleLived DEF StreamInv, Serves
<1>2. ASSUME NEW c \in Conns, ConnStep(c)
      PROVE  Serves
  <2>1. up' = up /\ next_conn' = next_conn
    BY <1>2 DEF ConnStep, ConnEof, ReapClosedConn, DropConn, ConnWritable, HelloRefused,
       HelloOwner, HelloData, InputTo, DataAnswered, PeerVanishes, Attach
  <2>2. ~up => sessions' = sessions
    BY <1>2 DEF ConnStep, ConnEof, ReapClosedConn, ConnWritable, HelloRefused,
       HelloOwner, HelloData, Hello, InputTo, DataAnswered, PeerVanishes, Attach
  <2>. QED  BY <1>0, <1>2, <2>1, <2>2, ConnStepLived DEF Serves
<1>3. ASSUME NEW c \in Conns, RequestStep(c)
      PROVE  Quits \/ Serves
  <2>1. CASE UpgradeDies(c) \/ UpgradeKilled(c)
    <3>1. UpgradeFails
      BY <2>1 DEF UpgradeFails
    <3>. QED  BY <2>1, <3>1 DEF UpgradeDies, UpgradeKilled, UpgradeAllowed, FromOwner, Quits
  <2>2. CASE ~UpgradeDies(c) /\ ~UpgradeKilled(c)
    <3>1. \A j \in Sids : Lived(j)
      BY <1>3, <2>2, RequestStepLived
    <3>0. up
      BY <1>3 DEF RequestStep, RequestAnswered, List, Shutdown, UpgradeResumes, UpgradeDies,
         UpgradeKilled, UpgradeExecFails, UpgradeAllowed, Kill, AckExit, UpdateMeta, Spawn, FromOwner
    <3>2. CASE UpgradeResumes(c)
      <4>1. up' = up /\ \A j \in Sids : sessions'[j].kill_waiters = {}
        BY <1>0, <3>2, ResumedFacts DEF UpgradeResumes
      <4>. QED  BY <3>0, <3>1, <4>1 DEF Serves
    <3>3. CASE ~UpgradeResumes(c)
      <4>1. up' = up /\ next_conn' = next_conn
        BY <1>3, <2>2, <3>3 DEF RequestStep, RequestAnswered, List, Shutdown, BeginShutdown,
           UpgradeExecFails, Kill, AckExit, UpdateMeta, Spawn
      <4>. QED  BY <1>0, <3>0, <3>1, <4>1 DEF Serves
    <3>. QED  BY <3>2, <3>3
  <2>. QED  BY <2>1, <2>2
<1>4. ASSUME NEW i \in Sids, SessionStep(i)
      PROVE  Serves
  <2>1. up' = up /\ next_conn' = next_conn
    BY <1>4 DEF SessionStep, MasterReadable, MasterHup, MasterWritable, OnSigchld, TimerKill,
       ChildWrites, ChildExits, SlaveCloses
  <2>2. ~up => sessions' = sessions
    BY <1>4 DEF SessionStep, MasterReadable, MasterHup, MasterWritable, OnSigchld, TimerKill,
       ChildWrites, ChildExits, SlaveCloses
  <2>. QED  BY <1>0, <1>4, <2>1, <2>2, SessionStepLived DEF Serves
<1>5. CASE \/ AcceptAll \/ Serve \/ OnSigterm \/ LoopEnds
           \/ TimerShutdown \/ TimerExitedTtl \/ TimerOrphan \/ TimerIdle
           \/ Tick \/ Sigterm
  <2>1. CASE ExitProcess
    <3>2. ~up' /\ next_conn' = 1
      BY <2>1 DEF ExitProcess
    <3>3. ~AcceptAll /\ ~Serve /\ ~Tick /\ ~Sigterm /\ ~TimerExitedTtl
      <4>1. ~Serve
        BY <3>2 DEF Serve
      <4>2. AcceptAll \/ TimerExitedTtl => up /\ up' = up
        BY DEF AcceptAll, TimerExitedTtl
      <4>3. Tick \/ Sigterm => up /\ up' = up
        BY DEF Tick, Sigterm
      <4>. QED  BY <3>2, <4>1, <4>2, <4>3
    <3>4. ~OnSigterm /\ ~TimerOrphan
      BY <3>2 DEF OnSigterm, TimerOrphan, BeginShutdown
    <3>5. CASE LoopEnds
      BY <3>5 DEF LoopEnds, Quits
    <3>6. CASE TimerShutdown
      BY <3>2, <3>6 DEF TimerShutdown, Quits
    <3>7. CASE TimerIdle
      BY <3>2, <3>7 DEF TimerIdle, IsIdle, Quits, Running
    <3>. QED  BY <1>5, <3>3, <3>4, <3>5, <3>6, <3>7
  <2>2. CASE ~ExitProcess
    <3>1. \A j \in Sids : Lived(j)
      BY <1>5, <2>2, ProcessStepLived
    <3>2. CASE Serve
      BY <1>0, <3>1, <3>2 DEF Serve, Serves
    <3>3. CASE AcceptAll
      <4>1. up /\ up' = up /\ next_conn' = next_conn + 1
        BY <3>3 DEF AcceptAll
      <4>. QED  BY <1>0, <3>1, <4>1 DEF Serves
    <3>4. CASE ~Serve /\ ~AcceptAll
      <4>1. up' = up /\ next_conn' = next_conn
        BY <1>5, <2>2, <3>4 DEF OnSigterm, BeginShutdown, LoopEnds, TimerShutdown,
           TimerExitedTtl, TimerOrphan, TimerIdle, Tick, Sigterm
      <4>2. up
        BY <1>5, <3>4 DEF OnSigterm, LoopEnds, TimerShutdown,
           TimerExitedTtl, TimerOrphan, TimerIdle, Tick, Sigterm
      <4>. QED  BY <1>0, <3>1, <4>1, <4>2 DEF Serves
    <3>. QED  BY <3>2, <3>3, <3>4
  <2>. QED  BY <2>1, <2>2
<1>. QED  BY <1>1, <1>2, <1>3, <1>4, <1>5 DEF Next

\* A session that is not running has no PTY master.
MastersRun == \A i \in Sids : sessions[i].master => sessions[i].st = "running"

LifeInv == ChildTracked /\ MastersRun /\ WaitersKnown

\* Every step keeps the life invariant.
LEMMA LifeStep == TypeOK /\ TypeOK' /\ StreamInv /\ LifeInv /\ [Next]_vars => LifeInv'
<1>. SUFFICES ASSUME TypeOK, TypeOK', StreamInv, LifeInv, [Next]_vars PROVE LifeInv'
  OBVIOUS
<1>1. CASE Quits
  <2>1. \A j \in Sids : sessions'[j] = NoSession /\ pty'[j] = NoPty
    BY <1>1 DEF Quits, ExitProcess
  <2>. QED  BY <2>1 DEF LifeInv, ChildTracked, MastersRun, WaitersKnown, NoSession, NoPty
<1>2. CASE Serves
  <2>1. ASSUME NEW j \in Sids, pty'[j].child # "none"
        PROVE  up' /\ sessions'[j].st = "running"
    <3>1. pty[j].child # "none" => up /\ sessions[j].st = "running"
      BY DEF LifeInv, ChildTracked
    <3>2. (up => up') /\ (GoesOn(j) \/ Begins(j) \/ Ends(j) \/ Leaves(j))
      BY <1>2 DEF Serves, Lived
    <3>. QED  BY <2>1, <3>1, <3>2 DEF GoesOn, Begins, Ends, Leaves
  <2>2. ASSUME NEW j \in Sids, sessions'[j].master
        PROVE  sessions'[j].st = "running"
    <3>1. sessions[j].master => sessions[j].st = "running"
      BY DEF LifeInv, MastersRun
    <3>2. GoesOn(j) \/ Begins(j) \/ Ends(j) \/ Leaves(j)
      BY <1>2 DEF Serves, Lived
    <3>. QED  BY <2>2, <3>1, <3>2 DEF GoesOn, Begins, Ends, Leaves
  <2>3. ASSUME NEW j \in Sids, NEW w \in sessions'[j].kill_waiters
        PROVE  w < next_conn'
    <3>1. next_conn' >= next_conn
      BY <1>2, <2>3 DEF Serves
    <3>2. next_conn \in Nat /\ next_conn' \in Nat
      BY DEF TypeOK
    <3>3. w \in sessions[j].kill_waiters \/ w \in Owning
      BY <1>2, <2>3 DEF Serves, Lived
    <3>4. w \in Conns
      BY <2>3 DEF TypeOK, Session
    <3>5. w < next_conn
      <4>1. CASE w \in sessions[j].kill_waiters
        BY <4>1 DEF LifeInv, WaitersKnown
      <4>2. CASE w \in Owning
        <5>1. ~(w >= next_conn)
          BY <3>4, <4>2 DEF StreamInv, ConnsFresh, Owning
        <5>. QED  BY <3>2, <3>4, <5>1 DEF Conns
      <4>. QED  BY <3>3, <4>1, <4>2
    <3>. QED  BY <3>1, <3>2, <3>4, <3>5 DEF Conns
  <2>. QED  BY <2>1, <2>2, <2>3 DEF LifeInv, ChildTracked, MastersRun, WaitersKnown
<1>. QED  BY <1>1, <1>2, StepServes

\* A fresh process has no sessions.
LEMMA LifeInit == Init => LifeInv
  BY DEF Init, LifeInv, ChildTracked, MastersRun, WaitersKnown, NoSession, NoPty

(* No agent is lost, for every instance: every child that is alive or not  *)
(* yet reaped has a running record in a running ptyd, through acks,        *)
(* expiries, hangups, shutdowns and upgrades.                              *)
THEOREM ChildrenTracked == Spec => []ChildTracked
<1>1. Init => TypeOK /\ StreamInv /\ LifeInv
  BY TypeInit, StreamInit, LifeInit
<1>2. TypeOK /\ StreamInv /\ LifeInv /\ [Next]_vars => (TypeOK /\ StreamInv /\ LifeInv)'
  BY TypeStep, StreamStep, LifeStep
<1>3. LifeInv => ChildTracked
  BY DEF LifeInv
<1>. QED  BY <1>1, <1>2, <1>3, PTL DEF Spec

(* No answer to a stranger, for every instance: whoever waits for a kill's *)
(* answer has a connection id that this image of the process handed out.   *)
THEOREM KillWaitersKnown == Spec => []WaitersKnown
<1>1. Init => TypeOK /\ StreamInv /\ LifeInv
  BY TypeInit, StreamInit, LifeInit
<1>2. TypeOK /\ StreamInv /\ LifeInv /\ [Next]_vars => (TypeOK /\ StreamInv /\ LifeInv)'
  BY TypeStep, StreamStep, LifeStep
<1>3. LifeInv => WaitersKnown
  BY DEF LifeInv
<1>. QED  BY <1>1, <1>2, <1>3, PTL DEF Spec

(* A running session only ever exits, for every instance: whatever clients, *)
(* timers, signals and shutdowns do, a step that forgets a running session *)
(* is an upgrade whose new image ends before it serves.                    *)
THEOREM RunningSessionsOnlyExit == Spec => RunningOnlyExits
<1>1. Init => TypeOK /\ StreamInv
  BY TypeInit, StreamInit
<1>2. TypeOK /\ StreamInv /\ [Next]_vars => (TypeOK /\ StreamInv)'
  BY TypeStep, StreamStep
<1>3. ASSUME TypeOK, TypeOK', StreamInv, [Next]_vars, NEW i \in Sids,
             sessions[i].st = "running", ~exit_now
      PROVE  \/ sessions'[i].st \in {"running", "exited"}
             \/ \E c \in Conns : UpgradeDies(c) \/ UpgradeKilled(c)
  <2>1. CASE Quits
    <3>1. UpgradeFails
      BY <1>3, <2>1 DEF Quits, Running
    <3>. QED  BY <3>1 DEF UpgradeFails
  <2>2. CASE Serves
    <3>1. GoesOn(i) \/ Begins(i) \/ Ends(i) \/ Leaves(i)
      BY <2>2 DEF Serves, Lived
    <3>. QED  BY <1>3, <3>1 DEF GoesOn, Begins, Ends, Leaves
  <2>. QED  BY <1>3, <2>1, <2>2, StepServes
<1>4. TypeOK /\ TypeOK' /\ StreamInv /\ [Next]_vars =>
         [\A i \in Sids : (sessions[i].st = "running" /\ ~exit_now) =>
                              \/ sessions'[i].st \in {"running", "exited"}
                              \/ \E c \in Conns : UpgradeDies(c) \/ UpgradeKilled(c)]_vars
  BY <1>3
<1>. QED  BY <1>1, <1>2, <1>4, PTL DEF Spec, RunningOnlyExits

-----------------------------------------------------------------------------
(***************************************************************************)
(* The owner's lease.  Inductive with: a process that is down has no owner *)
(* (Serve starts the orphan clock and leaves `owner` alone), and           *)
(* ConnsFresh, as AcceptAll would else reset the owner's connection.       *)
(***************************************************************************)
OwnerInv == OwnerLease /\ (~up => owner = NoConn)

\* A step that makes no connection an owner's and lets none off.
LeaseKept ==
    /\ up' = up /\ owner' = owner
    /\ ownerless_since' = Never <=> ownerless_since = Never
    /\ \A d \in Conns :
          /\ conns'[d].kind = "owner" <=> conns[d].kind = "owner"
          /\ conns[d].closing => conns'[d].closing

\* Such a step keeps the lease.
LEMMA LeaseKeptInv ==
    ASSUME TypeOK, OwnerInv, LeaseKept
    PROVE  OwnerInv'
<1>1. owner \in Conns \cup {NoConn}
  BY DEF TypeOK
<1>. QED  BY <1>1 DEF OwnerInv, OwnerLease, LeaseKept

\* So does one that drops every connection and starts the clock.
LEMMA LeaseGoneInv ==
    ASSUME conns' = [d \in Conns |-> Absent], owner' = NoConn, up' => ownerless_since' # Never
    PROVE  OwnerInv'
  BY DEF OwnerInv, OwnerLease, Absent

\* Connections that keep their kind and are not un-closed.
LEMMA SameRolesLease ==
    ASSUME up' = up, owner' = owner, ownerless_since' = ownerless_since,
           \A d \in Conns : conns'[d].kind = conns[d].kind /\ (conns[d].closing => conns'[d].closing)
    PROVE  LeaseKept
  BY DEF LeaseKept

\* drop_conn: the owner's clock starts with the owner's connection.
LEMMA DropLease ==
    ASSUME TypeOK, OwnerInv, NEW c \in Conns, DropConn(c)
    PROVE  OwnerInv'
<1>. USE DEF lifecycle
<1>0. conns \in [Conns -> Conn]
  BY DEF TypeOK
<1>1. /\ conns' = [conns EXCEPT ![c] = Absent] /\ up' = up
      /\ owner' = IF owner = c THEN NoConn ELSE owner
      /\ ownerless_since' = IF owner = c THEN 0 ELSE ownerless_since
  BY DEF DropConn
<1>2. conns'[c].kind = "none" /\ \A d \in Conns \ {c} : conns'[d] = conns[d]
  BY <1>0, <1>1 DEF Absent
<1>3. owner \in Conns \cup {NoConn} /\ c # NoConn
  BY DEF TypeOK, Conns, NoConn
<1>4. CASE owner = c
  <2>1. owner' = NoConn /\ ownerless_since' = 0
    BY <1>1, <1>4
  <2>2. \A d \in Conns : conns'[d].kind = "owner" => d # c /\ conns'[d].closing
    BY <1>2, <1>4 DEF OwnerInv, OwnerLease
  <2>. QED  BY <2>1, <2>2 DEF OwnerInv, OwnerLease, Never
<1>5. CASE owner # c
  BY <1>1, <1>2, <1>3, <1>5 DEF OwnerInv, OwnerLease
<1>. QED  BY <1>4, <1>5

\* A handler that pushed to a ring.
LEMMA PushLease ==
    ASSUME TypeOK, OwnerInv, NEW i \in Sids, NEW r \in ServerRings,
           NEW ended \in BOOLEAN, NEW T, UNCHANGED <<up, owner, ownerless_since>>,
           AfterPush([sessions EXCEPT ![i].ring = r], i, ended, T)
    PROVE  OwnerInv'
<1>. DEFINE S == [sessions EXCEPT ![i].ring = r]
<1>1. sessions \in [Sids -> Session] /\ conns \in [Conns -> Conn]
  BY DEF TypeOK
<1>2. S \in [Sids -> Session]
  BY <1>1, PushedFacts
<1>. HIDE DEF S
<1>3. AfterPush(S, i, ended, T)
  BY DEF S
<1>4. PushEffect(S, i, ended)
  BY <1>1, <1>2, <1>3, AfterPushFacts
<1>5. LeaseKept
  BY <1>4, SameRolesLease DEF PushEffect
<1>. QED  BY <1>5, LeaseKeptInv

\* What connections do keeps the lease.
LEMMA ConnStepLease ==
    ASSUME TypeOK, TypeOK', OwnerInv, NEW c \in Conns, ConnStep(c)
    PROVE  OwnerInv'
<1>. USE DEF ownership, lifecycle
<1>0. sessions \in [Sids -> Session] /\ conns \in [Conns -> Conn]
  BY DEF TypeOK
<1>1. CASE ConnEof(c) \/ ReapClosedConn(c)
  BY <1>1, DropLease DEF ConnEof, ReapClosedConn
<1>2. CASE ConnWritable(c)
  <2>. DEFINE D == [conns EXCEPT ![c].wbuf = FALSE]
  <2>1. D \in [Conns -> Conn] /\ \A d \in Conns : D[d].kind = conns[d].kind /\ D[d].closing = conns[d].closing
    BY <1>0 DEF Conn
  <2>2. \A d \in Conns : conns'[d].kind = conns[d].kind /\ (conns[d].closing => conns'[d].closing)
    <3>1. CASE conns[c].wbuf /\ conns[c].gone
      <4>1. conns' = [conns EXCEPT ![c] = [conns[c] EXCEPT !.closing = TRUE, !.wbuf = FALSE]]
        BY <1>2, <3>1 DEF ConnWritable
      <4>. QED  BY <1>0, <4>1 DEF Conn
    <3>2. CASE ~(conns[c].wbuf /\ conns[c].gone)
      <4>1. FlushStream(sessions, D, c)
        BY <1>2, <3>2 DEF ConnWritable
      <4>. HIDE DEF D
      <4>2. \A d \in Conns : SameRole(conns'[d], D[d])
        BY <1>0, <2>1, <4>1, FlushFacts
      <4>. QED  BY <2>1, <4>2 DEF SameRole
    <3>. QED  BY <3>1, <3>2
  <2>3. UNCHANGED <<up, owner, ownerless_since>>
    BY <1>2 DEF ConnWritable
  <2>. QED  BY <2>2, <2>3, SameRolesLease, LeaseKeptInv
<1>3. CASE HelloRefused(c) \/ PeerVanishes(c)
  <2>1. \/ conns' = [conns EXCEPT ![c] = [conns[c] EXCEPT !.wbuf = TRUE, !.closing = TRUE]]
        \/ conns' = [conns EXCEPT ![c] = [conns[c] EXCEPT !.gone = TRUE]]
    BY <1>3 DEF HelloRefused, PeerVanishes
  <2>2. /\ [conns[c] EXCEPT !.wbuf = TRUE, !.closing = TRUE].kind = conns[c].kind
        /\ [conns[c] EXCEPT !.wbuf = TRUE, !.closing = TRUE].closing
        /\ [conns[c] EXCEPT !.gone = TRUE].kind = conns[c].kind
        /\ [conns[c] EXCEPT !.gone = TRUE].closing = conns[c].closing
    BY <1>0 DEF Conn
  <2>3. \A d \in Conns : conns'[d].kind = conns[d].kind /\ (conns[d].closing => conns'[d].closing)
    BY <1>0, <2>1, <2>2
  <2>4. UNCHANGED <<up, owner, ownerless_since>>
    BY <1>3 DEF HelloRefused, PeerVanishes
  <2>. QED  BY <2>3, <2>4, SameRolesLease, LeaseKeptInv
<1>4. CASE HelloData(c)
  <2>1. conns' = [conns EXCEPT ![c] = [conns[c] EXCEPT !.kind = "data", !.wbuf = TRUE]]
    BY <1>4 DEF HelloData
  <2>2. conns[c].kind = "hello" /\ UNCHANGED <<up, owner, ownerless_since>>
    BY <1>4 DEF HelloData, Hello
  <2>3. /\ [conns[c] EXCEPT !.kind = "data", !.wbuf = TRUE].kind = "data"
        /\ [conns[c] EXCEPT !.kind = "data", !.wbuf = TRUE].closing = conns[c].closing
    BY <1>0 DEF Conn
  <2>4. LeaseKept
    BY <1>0, <2>1, <2>2, <2>3 DEF LeaseKept
  <2>. QED  BY <2>4, LeaseKeptInv
<1>5. CASE HelloOwner(c)
  <2>1. conns[c].kind = "hello" /\ up /\ up' = up /\ owner' = c /\ ownerless_since' = Never
    BY <1>5 DEF HelloOwner, Hello
  <2>2. ASSUME NEW d \in Conns
        PROVE  /\ d = c => conns'[d].kind = "owner"
               /\ d # c /\ d = owner => conns'[d].closing
               /\ d # c /\ d # owner => conns'[d] = conns[d]
    <3>1. /\ [conns[d] EXCEPT !.kind = "owner", !.wbuf = TRUE].kind = "owner"
          /\ [conns[d] EXCEPT !.wbuf = TRUE, !.closing = TRUE].closing
      BY <1>0 DEF Conn
    <3>2. conns'[d] = CASE d = c     -> [conns[d] EXCEPT !.kind = "owner", !.wbuf = TRUE]
                        [] d = owner -> [conns[d] EXCEPT !.wbuf = TRUE, !.closing = TRUE]
                        [] OTHER     -> conns[d]
      BY <1>5 DEF HelloOwner
    <3>3. CASE d = c
      <4>1. d # owner
        BY <2>1, <3>3 DEF OwnerInv, OwnerLease, Conns, NoConn
      <4>. QED  BY <3>1, <3>2, <3>3, <4>1
    <3>4. CASE d # c /\ d = owner
      BY <3>1, <3>2, <3>4
    <3>5. CASE d # c /\ d # owner
      BY <3>2, <3>5
    <3>. QED  BY <3>3, <3>4, <3>5
  <2>3. c # NoConn
    BY DEF Conns, NoConn
  <2>. QED  BY <2>1, <2>2, <2>3 DEF OwnerInv, OwnerLease
<1>6. CASE InputTo(c)
  <2>1. conns' = conns /\ UNCHANGED <<up, owner, ownerless_since>>
    BY <1>6 DEF InputTo
  <2>. QED  BY <2>1, SameRolesLease, LeaseKeptInv
<1>7. CASE DataAnswered(c)
  <2>1. \A d \in Conns : SameRole(conns'[d], conns[d])
    BY <1>0, <1>7, ConnRoles DEF DataAnswered
  <2>2. UNCHANGED <<up, owner, ownerless_since>>
    BY <1>7 DEF DataAnswered
  <2>. QED  BY <2>1, <2>2, SameRolesLease, LeaseKeptInv DEF SameRole
<1>8. ASSUME NEW i \in Sids, NEW from \in 0..MaxOut, Attach(c, i, from)
      PROVE  OwnerInv'
  <2>. DEFINE D == [conns EXCEPT ![c].sid = i, ![c].wbuf = TRUE]
              T == {sessions[i].stream} \ {c}
  <2>1. conns' = Kick(D, T) /\ UNCHANGED <<up, owner, ownerless_since>>
    BY <1>8 DEF Attach
  <2>2. \A d \in Conns : D[d].kind = conns[d].kind /\ D[d].closing = conns[d].closing /\ D[d] \in Conn
    <3>1. /\ [conns[c] EXCEPT !.sid = i, !.wbuf = TRUE].kind = conns[c].kind
          /\ [conns[c] EXCEPT !.sid = i, !.wbuf = TRUE].closing = conns[c].closing
          /\ [conns[c] EXCEPT !.sid = i, !.wbuf = TRUE] \in Conn
      BY <1>0 DEF Conn
    <3>2. D = [conns EXCEPT ![c] = [conns[c] EXCEPT !.sid = i, !.wbuf = TRUE]]
      OBVIOUS
    <3>. QED  BY <1>0, <3>1, <3>2
  <2>. HIDE DEF D, T
  <2>3. \A d \in Conns : conns'[d].kind = D[d].kind /\ (D[d].closing => conns'[d].closing)
    BY <2>1, <2>2 DEF Kick, Conn
  <2>. QED  BY <2>1, <2>2, <2>3, SameRolesLease, LeaseKeptInv
<1>. QED  BY <1>1, <1>2, <1>3, <1>4, <1>5, <1>6, <1>7, <1>8 DEF ConnStep

\* So do an owner's requests.
LEMMA RequestStepLease ==
    ASSUME TypeOK, TypeOK', OwnerInv, NEW c \in Conns, RequestStep(c)
    PROVE  OwnerInv'
<1>. USE DEF ownership, lifecycle
<1>0. conns \in [Conns -> Conn]
  BY DEF TypeOK
<1>1. CASE UpgradeResumes(c) \/ UpgradeDies(c) \/ UpgradeKilled(c)
  BY <1>1, LeaseGoneInv DEF UpgradeResumes, UpgradeDies, UpgradeKilled, ExitProcess, Never
<1>2. CASE UpgradeExecFails(c)
  <2>1. up /\ up' = up /\ conns' = [d \in Conns |-> Absent] /\ owner' = NoConn
        /\ ownerless_since' = IF owner = NoConn THEN ownerless_since ELSE 0
    BY <1>2 DEF UpgradeExecFails, UpgradeAllowed, FromOwner
  <2>2. ownerless_since' # Never
    BY <2>1 DEF OwnerInv, OwnerLease, Never
  <2>. QED  BY <2>1, <2>2, LeaseGoneInv
<1>3. ASSUME RequestStep(c), ~UpgradeResumes(c), ~UpgradeDies(c), ~UpgradeKilled(c),
             ~UpgradeExecFails(c)
      PROVE  OwnerInv'
  <2>1. UNCHANGED <<up, owner, ownerless_since>>
    BY <1>3 DEF RequestStep, RequestAnswered, List, Shutdown, BeginShutdown, Kill, AckExit,
       UpdateMeta, Spawn
  <2>2. conns' \in {conns, Queue(conns, {c}), Close(conns, c)}
    BY <1>3 DEF RequestStep, RequestAnswered, List, Shutdown, BeginShutdown, Kill, AckExit,
       UpdateMeta, Spawn
  <2>3. \A d \in Conns : conns'[d].kind = conns[d].kind /\ (conns[d].closing => conns'[d].closing)
    BY <1>0, <2>2, ConnRoles DEF SameRole
  <2>. QED  BY <2>1, <2>3, SameRolesLease, LeaseKeptInv
<1>. QED  BY <1>1, <1>2, <1>3

\* So do terminals and children.
LEMMA SessionStepLease ==
    ASSUME TypeOK, OwnerInv, NEW i \in Sids, SessionStep(i)
    PROVE  OwnerInv'
<1>. USE DEF ownership, lifecycle
<1>0. sessions[i] \in Session /\ pty[i] \in Pty
  BY DEF TypeOK
<1>1. UNCHANGED <<up, owner, ownerless_since>>
  BY DEF SessionStep, MasterReadable, MasterHup, MasterWritable, OnSigchld, TimerKill,
     ChildWrites, ChildExits, SlaveCloses
<1>2. CASE MasterReadable(i)
  <2>. DEFINE r == PushN(sessions[i].ring, Least(pty[i].out, ReadMax))
  <2>1. r \in ServerRings
    BY <1>0, ReadFacts, PushNFacts DEF Session, ServerRings
  <2>2. AfterPush([sessions EXCEPT ![i].ring = r], i, FALSE, {})
    BY <1>2 DEF MasterReadable
  <2>. HIDE DEF r
  <2>. QED  BY <1>1, <2>1, <2>2, PushLease
<1>3. CASE TryReap(i)
  <2>0. PICK n, late \in Nat : Reaps(i, n, late)
    BY <1>3, ReapFacts
  <2>. DEFINE r == PushN(sessions[i].ring, n)
              T == sessions[i].kill_waiters \cup {owner}
  <2>1. r \in ServerRings
    BY <2>0 DEF Reaps
  <2>2. AfterPush([sessions EXCEPT ![i].ring = r], i, TRUE, T)
    BY <2>0 DEF Reaps
  <2>. HIDE DEF r, T
  <2>. QED  BY <1>1, <2>1, <2>2, PushLease
<1>4. ASSUME ~MasterReadable(i), ~TryReap(i)
      PROVE  conns' = conns
  BY <1>4 DEF SessionStep, MasterHup, MasterWritable, OnSigchld, TimerKill,
     ChildWrites, ChildExits, SlaveCloses
<1>. QED  BY <1>1, <1>2, <1>3, <1>4, SameRolesLease, LeaseKeptInv

\* So does the process itself.
LEMMA ProcessStepLease ==
    ASSUME TypeOK, ConnsFresh, OwnerInv,
           \/ AcceptAll \/ Serve \/ OnSigterm \/ LoopEnds
           \/ TimerShutdown \/ TimerExitedTtl \/ TimerOrphan \/ TimerIdle
           \/ Tick \/ Sigterm
    PROVE  OwnerInv'
<1>. USE DEF ownership, lifecycle
<1>0. conns \in [Conns -> Conn] /\ next_conn \in Nat /\ ownerless_since \in Nat \cup {Never}
  BY DEF TypeOK
<1>1. CASE ExitProcess
  BY <1>1, LeaseGoneInv DEF ExitProcess
<1>2. CASE AcceptAll
  <2>. DEFINE h == [kind |-> "hello", sid |-> NoSid, wbuf |-> TRUE, closing |-> FALSE, gone |-> FALSE]
  <2>1. next_conn \in Conns /\ conns' = [conns EXCEPT ![next_conn] = h]
        /\ UNCHANGED <<up, owner, ownerless_since>>
    BY <1>2 DEF AcceptAll
  <2>2. conns[next_conn].kind = "none" /\ h.kind = "hello"
    BY <1>0, <2>1 DEF ConnsFresh
  <2>. HIDE DEF h
  <2>3. \A d \in Conns : /\ conns'[d].kind = "owner" <=> conns[d].kind = "owner"
                         /\ conns[d].kind = "owner" /\ conns[d].closing => conns'[d].closing
    BY <1>0, <2>1, <2>2
  <2>4. owner \in Conns \cup {NoConn}
    BY DEF TypeOK
  <2>. QED  BY <2>1, <2>3, <2>4 DEF OwnerInv, OwnerLease
<1>3. CASE Serve
  <2>1. ~up /\ up' /\ ownerless_since' = 0 /\ owner' = owner /\ conns' = conns
    BY <1>3 DEF Serve
  <2>. QED  BY <2>1 DEF OwnerInv, OwnerLease, Never
<1>4. CASE Tick
  <2>1. UNCHANGED <<up, owner, conns>> /\ ownerless_since' = Older(ownerless_since, Greatest(Orphan, ExitedTtl))
    BY <1>4 DEF Tick
  <2>2. ownerless_since' = Never <=> ownerless_since = Never
    <3>1. Greatest(Orphan, ExitedTtl) \in Nat
      BY Constants DEF Greatest
    <3>. QED  BY <1>0, <2>1, <3>1 DEF Older, Least, Never
  <2>3. LeaseKept
    BY <2>1, <2>2 DEF LeaseKept
  <2>. QED  BY <2>3, LeaseKeptInv
<1>5. CASE \/ OnSigterm \/ TimerOrphan \/ TimerExitedTtl \/ Sigterm
           \/ (TimerShutdown /\ ~ExitProcess) \/ (TimerIdle /\ ~ExitProcess)
  <2>1. UNCHANGED <<up, owner, ownerless_since, conns>>
    BY <1>5 DEF OnSigterm, BeginShutdown, TimerOrphan, TimerExitedTtl, Sigterm, TimerShutdown, TimerIdle
  <2>. QED  BY <2>1, SameRolesLease, LeaseKeptInv
<1>. QED  BY <1>1, <1>2, <1>3, <1>4, <1>5 DEF LoopEnds

\* Every step keeps the lease.
LEMMA OwnerStep == TypeOK /\ TypeOK' /\ StreamInv /\ OwnerInv /\ [Next]_vars => OwnerInv'
<1>. SUFFICES ASSUME TypeOK, TypeOK', StreamInv, OwnerInv, [Next]_vars PROVE OwnerInv'
  OBVIOUS
<1>1. CASE UNCHANGED vars
  BY <1>1, SameRolesLease, LeaseKeptInv DEF vars
<1>2. CASE Next
  BY <1>2, ConnStepLease, RequestStepLease, SessionStepLease, ProcessStepLease
  DEF Next, StreamInv
<1>. QED  BY <1>1, <1>2

\* A fresh process has no owner and its clock runs.
LEMMA OwnerInit == Init => OwnerInv
  BY DEF Init, OwnerInv, OwnerLease, Absent, Never

(* At most one owner counts, for every instance: the owner's connection    *)
(* exists, every other owner connection is being closed, and the orphan    *)
(* clock runs exactly while there is no owner - through takeovers, lost    *)
(* connections, restarts, upgrades and failed upgrades.                    *)
THEOREM OneOwner == Spec => []OwnerLease
<1>1. Init => TypeOK /\ StreamInv /\ OwnerInv
  BY TypeInit, StreamInit, OwnerInit
<1>2. TypeOK /\ StreamInv /\ OwnerInv /\ [Next]_vars => (TypeOK /\ StreamInv /\ OwnerInv)'
  BY TypeStep, StreamStep, OwnerStep
<1>3. OwnerInv => OwnerLease
  BY DEF OwnerInv
<1>. QED  BY <1>1, <1>2, <1>3, PTL DEF Spec

-----------------------------------------------------------------------------
(***************************************************************************)
(* End of file.  EofMeansComplete is inductive with the life invariant (an *)
(* ended session has no master, so nothing is pushed after the end of file *)
(* was decided) and with the lease (HelloOwner closes the old owner, which *)
(* must not be somebody's stream).                                         *)
(***************************************************************************)
\* A closing connection whose peer is there.
Shut(e) == e.closing /\ ~e.gone

\* A stream's connection is shut only if it was before, or with all sent.
ShutWell(j) ==
    (sessions'[j].stream # NoConn /\ Shut(conns'[sessions'[j].stream])) =>
        \/ sessions'[j].stream = sessions[j].stream /\ Shut(conns[sessions[j].stream])
        \/ Drained(sessions'[j])

\* A step that attaches nobody and shuts no data connection.
LEMMA QuietShut ==
    ASSUME TypeOK, StreamInv,
           \A j \in Sids : sessions'[j].stream \in {sessions[j].stream, NoConn},
           \A d \in Conns : Shut(conns'[d]) => Shut(conns[d]) \/ conns[d].kind # "data"
    PROVE  \A j \in Sids : ShutWell(j)
<1>. SUFFICES ASSUME NEW j \in Sids, sessions'[j].stream # NoConn, Shut(conns'[sessions'[j].stream])
              PROVE  sessions'[j].stream = sessions[j].stream /\ Shut(conns[sessions[j].stream])
  BY DEF ShutWell
<1>1. sessions'[j].stream = sessions[j].stream
  OBVIOUS
<1>2. sessions[j].stream \in Conns /\ conns[sessions[j].stream].kind = "data"
  BY <1>1 DEF TypeOK, Session, StreamInv, StreamOK
<1>. QED  BY <1>1, <1>2

\* After an exit or an upgrade there are no streams.
LEMMA GoneShut ==
    ASSUME \A j \in Sids : sessions'[j].stream = NoConn
    PROVE  \A j \in Sids : ShutWell(j)
  BY DEF ShutWell

\* A handler that pushed to a ring.
LEMMA PushShut ==
    ASSUME TypeOK, TypeOK', StreamInv, NEW i \in Sids, NEW r \in ServerRings,
           NEW ended \in BOOLEAN, NEW T,
           AfterPush([sessions EXCEPT ![i].ring = r], i, ended, T)
    PROVE  \A j \in Sids : ShutWell(j)
<1>. SUFFICES ASSUME NEW j \in Sids, sessions'[j].stream # NoConn, Shut(conns'[sessions'[j].stream]),
                     ~Drained(sessions'[j])
              PROVE  sessions'[j].stream = sessions[j].stream /\ Shut(conns[sessions[j].stream])
  BY DEF ShutWell
<1>. DEFINE S == [sessions EXCEPT ![i].ring = r]
            d == sessions'[j].stream
<1>1. sessions \in [Sids -> Session] /\ conns \in [Conns -> Conn]
  BY DEF TypeOK
<1>2. S \in [Sids -> Session] /\ \A k \in Sids : S[k].stream = sessions[k].stream
  BY <1>1, PushedFacts
<1>. HIDE DEF S
<1>3. AfterPush(S, i, ended, T)
  BY DEF S
<1>4. PushEffect(S, i, ended)
  BY <1>1, <1>2, <1>3, AfterPushFacts
<1>5. d = sessions[j].stream
  BY <1>2, <1>4 DEF PushEffect
<1>6. d \in Conns
  BY <1>1, <1>5 DEF Session
<1>7. conns[d].sid = j
  BY <1>5 DEF StreamInv, StreamOK
<1>8. ~conns[d].gone /\ conns'[d].closing
  BY <1>4, <1>6 DEF PushEffect, Shut
<1>9. ASSUME NEW k \in Sids, S[k].stream = d
      PROVE  k = j
  BY <1>2, <1>5, <1>7, <1>9 DEF StreamInv, StreamOK
<1>10. conns[d].closing
  BY <1>4, <1>6, <1>8, <1>9 DEF PushEffect
<1>. QED  BY <1>5, <1>8, <1>10 DEF Shut

\* What connections do.
LEMMA ConnStepShut ==
    ASSUME TypeOK, TypeOK', StreamInv, OwnerInv, NEW c \in Conns, ConnStep(c)
    PROVE  \A j \in Sids : ShutWell(j)
<1>0. sessions \in [Sids -> Session] /\ conns \in [Conns -> Conn]
  BY DEF TypeOK
<1>1. CASE ConnEof(c) \/ ReapClosedConn(c)
  <2>1. DropConn(c)
    BY <1>1 DEF ConnEof, ReapClosedConn
  <2>2. \A j \in Sids : sessions'[j].stream \in {sessions[j].stream, NoConn}
    BY <1>0, <2>1 DEF DropConn, Detach, Session
  <2>3. \A d \in Conns : Shut(conns'[d]) => Shut(conns[d])
    BY <1>0, <2>1 DEF DropConn, Absent, Shut
  <2>. QED  BY <2>2, <2>3, QuietShut
<1>2. CASE ConnWritable(c)
  <2>. DEFINE D == [conns EXCEPT ![c].wbuf = FALSE]
  <2>1. D \in [Conns -> Conn] /\ \A d \in Conns : D[d].closing = conns[d].closing /\ D[d].gone = conns[d].gone
    BY <1>0 DEF Conn
  <2>2. CASE conns[c].wbuf /\ conns[c].gone
    <3>1. /\ conns' = [conns EXCEPT ![c] = [conns[c] EXCEPT !.closing = TRUE, !.wbuf = FALSE]]
          /\ sessions' = sessions
      BY <1>2, <2>2 DEF ConnWritable
    <3>2. [conns[c] EXCEPT !.closing = TRUE, !.wbuf = FALSE].gone = conns[c].gone
      BY <1>0 DEF Conn
    <3>3. \A d \in Conns : Shut(conns'[d]) => Shut(conns[d])
      BY <1>0, <2>2, <3>1, <3>2 DEF Shut
    <3>. QED  BY <3>1, <3>3, QuietShut
  <2>3. CASE ~(conns[c].wbuf /\ conns[c].gone)
    <3>1. FlushStream(sessions, D, c)
      BY <1>2, <2>3 DEF ConnWritable
    <3>. HIDE DEF D
    <3>2. /\ \A j \in Sids : SameButSent(sessions'[j], sessions[j])
          /\ \A d \in Conns : /\ SameRole(conns'[d], D[d])
                              /\ conns'[d].closing =>
                                    \/ D[d].closing \/ D[d].gone
                                    \/ \E j \in Sids : sessions[j].stream = d /\ Drained(sessions'[j])
      BY <1>0, <2>1, <3>1, FlushFacts
    <3>. SUFFICES ASSUME NEW j \in Sids, sessions'[j].stream # NoConn, Shut(conns'[sessions'[j].stream]),
                         ~Drained(sessions'[j])
                  PROVE  sessions'[j].stream = sessions[j].stream /\ Shut(conns[sessions[j].stream])
      BY DEF ShutWell
    <3>. DEFINE d == sessions'[j].stream
    <3>3. d = sessions[j].stream
      BY <3>2 DEF SameButSent
    <3>4. d \in Conns /\ conns[d].sid = j
      BY <1>0, <3>3 DEF Session, StreamInv, StreamOK
    <3>5. ASSUME NEW k \in Sids, sessions[k].stream = d
          PROVE  k = j
      BY <3>3, <3>4, <3>5 DEF StreamInv, StreamOK
    <3>6. ~conns[d].gone /\ conns'[d].closing
      BY <2>1, <3>2, <3>4 DEF SameRole, Shut
    <3>7. conns[d].closing
      BY <2>1, <3>2, <3>4, <3>5, <3>6
    <3>. QED  BY <3>3, <3>6, <3>7 DEF Shut
  <2>. QED  BY <2>2, <2>3
<1>3. CASE HelloRefused(c) \/ HelloData(c) \/ PeerVanishes(c)
  <2>1. sessions' = sessions
    BY <1>3 DEF HelloRefused, HelloData, PeerVanishes
  <2>2. \/ /\ conns[c].kind = "hello"
           /\ \/ conns' = [conns EXCEPT ![c] = [conns[c] EXCEPT !.wbuf = TRUE, !.closing = TRUE]]
              \/ conns' = [conns EXCEPT ![c] = [conns[c] EXCEPT !.kind = "data", !.wbuf = TRUE]]
        \/ conns' = [conns EXCEPT ![c] = [conns[c] EXCEPT !.gone = TRUE]]
    BY <1>3 DEF HelloRefused, HelloData, PeerVanishes, Hello
  <2>3. [conns[c] EXCEPT !.gone = TRUE].gone
    BY <1>0 DEF Conn
  <2>4. \A d \in Conns : Shut(conns'[d]) => Shut(conns[d]) \/ conns[d].kind # "data"
    BY <1>0, <2>2, <2>3 DEF Shut
  <2>. QED  BY <2>1, <2>4, QuietShut
<1>4. CASE HelloOwner(c)
  <2>1. sessions' = sessions /\ conns[c].kind = "hello"
    BY <1>4 DEF HelloOwner, Hello
  <2>2. ASSUME NEW d \in Conns, conns[d].kind = "data"
        PROVE  conns'[d] = conns[d]
    <3>1. d # c /\ d # owner
      BY <2>1, <2>2 DEF OwnerInv, OwnerLease, Conns, NoConn
    <3>. QED  BY <1>4, <3>1 DEF HelloOwner
  <2>3. \A d \in Conns : Shut(conns'[d]) => Shut(conns[d]) \/ conns[d].kind # "data"
    BY <2>2 DEF Shut
  <2>. QED  BY <2>1, <2>3, QuietShut
<1>5. CASE InputTo(c)
  <2>. DEFINE i == conns[c].sid
  <2>1. conns' = conns /\ i \in Sids
    BY <1>0, <1>5 DEF InputTo, Conn
  <2>. HIDE DEF i
  <2>2. PICK n : \/ sessions' = [sessions EXCEPT ![i] = [sessions[i] EXCEPT !.input = n]]
                 \/ \E m : sessions' = [sessions EXCEPT ![i] =
                              [[sessions[i] EXCEPT !.input = m] EXCEPT !.input = n]]
    BY <1>5 DEF InputTo, i
  <2>3. \A m : /\ [sessions[i] EXCEPT !.input = n].stream = sessions[i].stream
               /\ [[sessions[i] EXCEPT !.input = m] EXCEPT !.input = n].stream = sessions[i].stream
    BY <1>0, <2>1 DEF Session
  <2>4. \A j \in Sids : sessions'[j].stream = sessions[j].stream
    BY <1>0, <2>1, <2>2, <2>3
  <2>. QED  BY <2>1, <2>4, QuietShut DEF Shut
<1>6. CASE DataAnswered(c)
  <2>1. sessions' = sessions /\ conns' = Queue(conns, {c})
    BY <1>6 DEF DataAnswered
  <2>2. \A d \in Conns : Shut(conns'[d]) => Shut(conns[d])
    BY <1>0, <2>1, ConnRoles DEF Shut, SameRole
  <2>. QED  BY <2>1, <2>2, QuietShut
<1>7. ASSUME NEW i \in Sids, NEW from \in 0..MaxOut, Attach(c, i, from)
      PROVE  \A j \in Sids : ShutWell(j)
  <2>. DEFINE t == [conns[c] EXCEPT !.sid = i, !.wbuf = TRUE]
              D == [conns EXCEPT ![c] = t]
              T == {sessions[i].stream} \ {c}
  <2>1. conns' = Kick(D, T) /\ ~conns[c].closing /\ conns[c].sid = NoSid
    BY <1>7 DEF Attach
  <2>2. t.closing = conns[c].closing
    BY <1>0 DEF Conn
  <2>3. PICK n : sessions' = [sessions EXCEPT ![i] = [sessions[i] EXCEPT !.stream = c, !.sent = n]]
    BY <1>7 DEF Attach
  <2>4. sessions'[i].stream = c /\ \A j \in Sids \ {i} : sessions'[j] = sessions[j]
    BY <1>0, <2>3 DEF Session
  <2>. HIDE DEF t
  <2>5. \A d \in Conns \ T : conns'[d] = D[d]
    BY <2>1 DEF Kick
  <2>6. ~conns'[c].closing
    BY <1>0, <2>1, <2>2, <2>5
  <2>. SUFFICES ASSUME NEW j \in Sids, sessions'[j].stream # NoConn, Shut(conns'[sessions'[j].stream])
                PROVE  sessions'[j].stream = sessions[j].stream /\ Shut(conns[sessions[j].stream])
    BY DEF ShutWell
  <2>7. j # i
    BY <2>4, <2>6 DEF Shut
  <2>. DEFINE d == sessions[j].stream
  <2>8. sessions'[j].stream = d
    BY <2>4, <2>7
  <2>9. d \in Conns /\ conns[d].sid = j
    BY <1>0, <2>8 DEF Session, StreamInv, StreamOK
  <2>10. d # c /\ d \notin T
    <3>1. d # c
      BY <2>1, <2>9, Constants
    <3>2. d # sessions[i].stream
      BY <2>7, <2>8, <2>9 DEF StreamInv, StreamOK
    <3>. QED  BY <3>1, <3>2
  <2>11. conns'[d] = conns[d]
    BY <1>0, <2>5, <2>9, <2>10
  <2>. QED  BY <2>8, <2>11 DEF Shut
<1>. QED  BY <1>1, <1>2, <1>3, <1>4, <1>5, <1>6, <1>7 DEF ConnStep

\* What an owner's requests do.
LEMMA RequestStepShut ==
    ASSUME TypeOK, TypeOK', StreamInv, NEW c \in Conns, RequestStep(c)
    PROVE  \A j \in Sids : ShutWell(j)
<1>0. sessions \in [Sids -> Session] /\ conns \in [Conns -> Conn]
  BY DEF TypeOK
<1>1. CASE UpgradeResumes(c)
  BY <1>0, <1>1, ResumedFacts, GoneShut DEF UpgradeResumes
<1>2. CASE UpgradeDies(c) \/ UpgradeKilled(c)
  BY <1>2, GoneShut DEF UpgradeDies, UpgradeKilled, ExitProcess, NoSession
<1>3. CASE UpgradeExecFails(c)
  BY <1>0, <1>3, GoneShut DEF UpgradeExecFails, Session
<1>4. ASSUME ~UpgradeResumes(c), ~UpgradeDies(c), ~UpgradeKilled(c), ~UpgradeExecFails(c)
      PROVE  \A j \in Sids : ShutWell(j)
  <2>1. conns[c].kind = "owner" /\ conns' \in {conns, Queue(conns, {c}), Close(conns, c)}
    BY <1>4 DEF RequestStep, RequestAnswered, List, Shutdown, BeginShutdown, Kill, AckExit,
       UpdateMeta, Spawn, FromOwner
  <2>2. \A d \in Conns : Shut(conns'[d]) => Shut(conns[d]) \/ conns[d].kind # "data"
    <3>1. \A d \in Conns : /\ SameRole(Queue(conns, {c})[d], conns[d])
                           /\ Queue(conns, {c})[d].closing = conns[d].closing
                           /\ d # c => Close(conns, c)[d] = conns[d]
      BY <1>0, ConnRoles
    <3>. QED  BY <2>1, <3>1 DEF Shut, SameRole
  <2>3. \A j \in Sids : sessions'[j].stream \in {sessions[j].stream, NoConn}
    <3>1. CASE RequestAnswered(c) \/ List(c) \/ Shutdown(c)
      BY <3>1 DEF RequestAnswered, List, Shutdown, BeginShutdown
    <3>2. ASSUME NEW i \in Sids, Kill(c, i) \/ \E meta \in MetaSizes : UpdateMeta(c, i, meta)
          PROVE  \A j \in Sids : sessions'[j].stream \in {sessions[j].stream, NoConn}
      <4>1. \/ \E n, W : sessions' = [sessions EXCEPT ![i] =
                            [sessions[i] EXCEPT !.kill_deadline = n, !.kill_waiters = W]]
            \/ \E n : sessions' = [sessions EXCEPT ![i] = [sessions[i] EXCEPT !.meta = n]]
        <5>1. ASSUME Kill(c, i)
              PROVE  \E n, W : sessions' = [sessions EXCEPT ![i] =
                            [sessions[i] EXCEPT !.kill_deadline = n, !.kill_waiters = W]]
          BY <5>1 DEF Kill
        <5>2. ASSUME NEW meta \in MetaSizes, UpdateMeta(c, i, meta)
              PROVE  \E n : sessions' = [sessions EXCEPT ![i] = [sessions[i] EXCEPT !.meta = n]]
          BY <5>2 DEF UpdateMeta
        <5>. QED  BY <3>2, <5>1, <5>2
      <4>2. \A n, W : /\ [sessions[i] EXCEPT !.kill_deadline = n, !.kill_waiters = W].stream = sessions[i].stream
                      /\ [sessions[i] EXCEPT !.meta = n].stream = sessions[i].stream
        BY <1>0 DEF Session
      <4>3. ASSUME NEW j \in Sids
            PROVE  sessions'[j].stream = sessions[j].stream
        <5>1. PICK t : t.stream = sessions[i].stream /\ sessions' = [sessions EXCEPT ![i] = t]
          BY <4>1, <4>2
        <5>. QED  BY <1>0, <5>1
      <4>. QED  BY <4>3
    <3>3. ASSUME NEW i \in Sids,
                 AckExit(c, i) \/ \E cap \in RingCaps, meta \in MetaSizes : Spawn(c, i, cap, meta)
          PROVE  \A j \in Sids : sessions'[j].stream \in {sessions[j].stream, NoConn}
      <4>1. PICK t : t.stream = NoConn /\ sessions' = [sessions EXCEPT ![i] = t]
        BY <3>3 DEF AckExit, Spawn, NoSession
      <4>. QED  BY <1>0, <4>1
    <3>. QED  BY <1>4, <3>1, <3>2, <3>3 DEF RequestStep
  <2>. QED  BY <2>2, <2>3, QuietShut
<1>. QED  BY <1>1, <1>2, <1>3, <1>4

\* What terminals and children do.
LEMMA SessionStepShut ==
    ASSUME TypeOK, TypeOK', StreamInv, NEW i \in Sids, SessionStep(i)
    PROVE  \A j \in Sids : ShutWell(j)
<1>0. sessions \in [Sids -> Session] /\ sessions[i] \in Session /\ pty[i] \in Pty
  BY DEF TypeOK
<1>1. CASE MasterReadable(i)
  <2>. DEFINE r == PushN(sessions[i].ring, Least(pty[i].out, ReadMax))
  <2>1. r \in ServerRings
    BY <1>0, ReadFacts, PushNFacts DEF Session, ServerRings
  <2>2. AfterPush([sessions EXCEPT ![i].ring = r], i, FALSE, {})
    BY <1>1 DEF MasterReadable
  <2>. HIDE DEF r
  <2>. QED  BY <2>1, <2>2, PushShut
<1>2. CASE TryReap(i)
  <2>0. PICK n, late \in Nat : Reaps(i, n, late)
    BY <1>2, ReapFacts
  <2>. DEFINE r == PushN(sessions[i].ring, n)
              T == sessions[i].kill_waiters \cup {owner}
  <2>1. r \in ServerRings
    BY <2>0 DEF Reaps
  <2>2. AfterPush([sessions EXCEPT ![i].ring = r], i, TRUE, T)
    BY <2>0 DEF Reaps
  <2>. HIDE DEF r, T
  <2>. QED  BY <2>1, <2>2, PushShut
<1>3. ASSUME ~MasterReadable(i), ~TryReap(i)
      PROVE  \A j \in Sids : ShutWell(j)
  <2>1. conns' = conns
    BY <1>3 DEF SessionStep, MasterHup, MasterWritable, OnSigchld, TimerKill,
       ChildWrites, ChildExits, SlaveCloses
  <2>2. \/ sessions' = sessions
        \/ sessions' = [sessions EXCEPT ![i] = [sessions[i] EXCEPT !.master = FALSE]]
        \/ sessions' = [sessions EXCEPT ![i] = [sessions[i] EXCEPT !.kill_deadline = Never]]
        \/ \E n : sessions' = [sessions EXCEPT ![i] = [sessions[i] EXCEPT !.input = n]]
    BY <1>3 DEF SessionStep, MasterHup, MasterWritable, OnSigchld, TimerKill,
       ChildWrites, ChildExits, SlaveCloses
  <2>3. /\ [sessions[i] EXCEPT !.master = FALSE].stream = sessions[i].stream
        /\ [sessions[i] EXCEPT !.kill_deadline = Never].stream = sessions[i].stream
        /\ \A n : [sessions[i] EXCEPT !.input = n].stream = sessions[i].stream
    BY <1>0 DEF Session
  <2>4. \A j \in Sids : sessions'[j].stream = sessions[j].stream
    BY <1>0, <2>2, <2>3, ZenonT(40)
  <2>. QED  BY <2>1, <2>4, QuietShut DEF Shut
<1>. QED  BY <1>1, <1>2, <1>3

\* What the process itself does.
LEMMA ProcessStepShut ==
    ASSUME TypeOK, StreamInv,
           \/ AcceptAll \/ Serve \/ OnSigterm \/ LoopEnds
           \/ TimerShutdown \/ TimerExitedTtl \/ TimerOrphan \/ TimerIdle
           \/ Tick \/ Sigterm
    PROVE  \A j \in Sids : ShutWell(j)
<1>0. sessions \in [Sids -> Session] /\ conns \in [Conns -> Conn]
  BY DEF TypeOK
<1>1. CASE ExitProcess
  BY <1>1, GoneShut DEF ExitProcess, NoSession
<1>2. CASE AcceptAll
  <2>1. sessions' = sessions
    BY <1>2 DEF AcceptAll
  <2>2. \A d \in Conns : Shut(conns'[d]) => Shut(conns[d])
    BY <1>0, <1>2 DEF AcceptAll, Shut
  <2>. QED  BY <2>1, <2>2, QuietShut
<1>3. CASE \/ Serve \/ OnSigterm \/ TimerOrphan \/ Sigterm
           \/ (TimerShutdown /\ ~ExitProcess) \/ (TimerIdle /\ ~ExitProcess)
  <2>1. sessions' = sessions /\ conns' = conns
    BY <1>3 DEF Serve, OnSigterm, BeginShutdown, TimerOrphan, Sigterm, TimerShutdown, TimerIdle
  <2>. QED  BY <2>1, QuietShut DEF Shut
<1>4. CASE TimerExitedTtl
  <2>1. conns' = conns /\ \A j \in Sids : sessions'[j] \in {sessions[j], NoSession}
    BY <1>4 DEF TimerExitedTtl
  <2>2. NoSession.stream = NoConn
    BY DEF NoSession
  <2>3. \A j \in Sids : sessions'[j].stream \in {sessions[j].stream, NoConn}
    BY <2>1, <2>2
  <2>. QED  BY <2>1, <2>3, QuietShut DEF Shut
<1>5. CASE Tick
  <2>1. conns' = conns
    BY <1>5 DEF Tick
  <2>2. \A j \in Sids : sessions'[j].stream = sessions[j].stream
    BY <1>0, <1>5 DEF Tick, Session
  <2>. QED  BY <2>1, <2>2, QuietShut DEF Shut
<1>. QED  BY <1>1, <1>2, <1>3, <1>4, <1>5 DEF LoopEnds

\* Every step shuts streams well.
LEMMA StepShut ==
    TypeOK /\ TypeOK' /\ StreamInv /\ OwnerInv /\ [Next]_vars => \A j \in Sids : ShutWell(j)
<1>. SUFFICES ASSUME TypeOK, TypeOK', StreamInv, OwnerInv, [Next]_vars
              PROVE  \A j \in Sids : ShutWell(j)
  OBVIOUS
<1>1. CASE UNCHANGED vars
  BY <1>1, QuietShut DEF vars, Shut
<1>2. CASE Next
  BY <1>2, ConnStepShut, RequestStepShut, SessionStepShut, ProcessStepShut DEF Next
<1>. QED  BY <1>1, <1>2

\* The output of an ended session no longer changes.
LEMMA EndedStays ==
    ASSUME TypeOK, MastersRun, NEW j \in Sids, sessions[j].st = "exited",
           sessions'[j].st # "none", Accounted(j)
    PROVE  EndN(sessions'[j].ring) = EndN(sessions[j].ring)
<1>1. ~sessions[j].master
  BY DEF MastersRun
<1>. QED  BY <1>1 DEF Accounted, Calm, Forgotten, NoSession, Left, Created, Wrote, Read, HungUp, Reaped, Holds

\* Every step keeps the promise of end of file.
LEMMA EofStep ==
    TypeOK /\ TypeOK' /\ StreamInv /\ StreamInv' /\ LifeInv /\ OwnerInv /\ EofMeansComplete
        /\ [Next]_vars => EofMeansComplete'
<1>. SUFFICES ASSUME TypeOK, TypeOK', StreamInv, StreamInv', LifeInv, OwnerInv, EofMeansComplete,
                     [Next]_vars,
                     NEW j \in Sids, sessions'[j].stream # NoConn, Shut(conns'[sessions'[j].stream])
              PROVE  /\ sessions'[j].st = "exited"
                     /\ sessions'[j].sent = EndN(sessions'[j].ring)
  BY DEF EofMeansComplete, Shut
<1>1. /\ sessions[j].sent \in Nat /\ EndN(sessions[j].ring) \in Nat
      /\ sessions'[j].sent \in Nat /\ EndN(sessions'[j].ring) \in Nat
  BY DEF TypeOK, Session, EndN
<1>2. sessions'[j].sent <= EndN(sessions'[j].ring) /\ sessions'[j].st # "none"
  BY DEF StreamInv, StreamOK, NoSilentGap
<1>3. CASE Drained(sessions'[j])
  BY <1>1, <1>2, <1>3 DEF Drained
<1>4. CASE ~Drained(sessions'[j])
  <2>1. sessions'[j].stream = sessions[j].stream /\ Shut(conns[sessions[j].stream])
    BY <1>4, StepShut DEF ShutWell
  <2>2. sessions[j].st = "exited" /\ sessions[j].sent = EndN(sessions[j].ring)
    BY <2>1 DEF EofMeansComplete, Shut
  <2>3. Serves
    BY <1>2, StepServes DEF Quits, ExitProcess, NoSession
  <2>4. Lived(j)
    BY <2>3 DEF Serves
  <2>5. sessions'[j].st = "exited"
    BY <1>2, <2>2, <2>4 DEF Lived, GoesOn, Begins, Ends, Leaves
  <2>6. sessions[j].sent <= sessions'[j].sent
    BY <2>1, <2>4 DEF Lived, Reading, Follows, Attached
  <2>7. Accounted(j)
    BY StepAccounted
  <2>8. EndN(sessions'[j].ring) = EndN(sessions[j].ring)
    BY <1>2, <2>2, <2>7, EndedStays DEF LifeInv
  <2>. QED  BY <1>1, <1>2, <2>2, <2>5, <2>6, <2>8
<1>. QED  BY <1>3, <1>4

(* End of file means complete, for every instance: a reader that is there  *)
(* and whose stream ptyd closes has been sent every byte of a session that *)
(* is over - through partial writes, a reap that drains and flushes,       *)
(* overruns, takeovers of the stream and refused lists.                    *)
THEOREM EofComplete == Spec => []EofMeansComplete
<1>. DEFINE IInv == TypeOK /\ StreamInv /\ LifeInv /\ OwnerInv /\ EofMeansComplete
<1>1. Init => IInv
  <2>1. Init => EofMeansComplete
    BY DEF Init, EofMeansComplete, NoSession
  <2>. QED  BY <2>1, TypeInit, StreamInit, LifeInit, OwnerInit
<1>2. IInv /\ [Next]_vars => IInv'
  BY TypeStep, StreamStep, LifeStep, OwnerStep, EofStep
<1>3. IInv => EofMeansComplete
  OBVIOUS
<1>. QED  BY <1>1, <1>2, <1>3, PTL DEF Spec
=============================================================================
