-------------------------- MODULE PtydOutputProofs --------------------------
(***************************************************************************)
(* No output is lost and offsets never go back, for every instance of      *)
(* Ptyd.  The argument has two parts: what a step may do to one session's  *)
(* ring, master and terminal (Accounted, shown for every action), and that *)
(* such steps keep the books.                                              *)
(***************************************************************************)
EXTENDS PtydProofs, FiniteSetTheorems

\* The ring's window moved at most forward, its end is where it was.
Holds(t, s) ==
    /\ t.st = s.st /\ t.master = s.master /\ t.ring.cap = s.ring.cap
    /\ EndN(t.ring) = EndN(s.ring) /\ t.ring.start >= s.ring.start

\* The terminal's counts are untouched.
Still(j) ==
    pty'[j].out = pty[j].out /\ pty'[j].wrote = pty[j].wrote /\ pty'[j].late = pty[j].late

\* All that a step may do to a session: forget it, leave it, create it, count
\* a byte its processes wrote, move bytes from terminal to ring, close a dry
\* master, or end it with the terminal drained as far as the reap gets.
Forgotten(j) == sessions'[j] = NoSession
Left(j) == Holds(sessions'[j], sessions[j]) /\ Still(j)
Created(j) ==
    /\ sessions[j].st = "none" /\ sessions'[j].master
    /\ EndN(sessions'[j].ring) = 0 /\ pty'[j].out = 0 /\ pty'[j].wrote = 0
Wrote(j) ==
    /\ sessions' = sessions /\ sessions[j].master
    /\ pty'[j].out = pty[j].out + 1 /\ pty'[j].wrote = pty[j].wrote + 1
    /\ pty'[j].late = pty[j].late
Read(j) ==
    /\ sessions[j].master /\ sessions'[j].master /\ sessions'[j].st = sessions[j].st
    /\ sessions'[j].ring.start >= sessions[j].ring.start
    /\ \E n \in Nat : /\ EndN(sessions'[j].ring) = EndN(sessions[j].ring) + n
                      /\ pty'[j].out = pty[j].out - n
    /\ pty'[j].wrote = pty[j].wrote /\ pty'[j].late = pty[j].late
HungUp(j) ==
    /\ sessions'[j].st = sessions[j].st /\ sessions'[j].ring = sessions[j].ring
    /\ pty[j].out = 0 /\ Still(j)
Reaped(j) ==
    /\ sessions[j].st = "running" /\ sessions'[j].st = "exited"
    /\ sessions'[j].ring.start >= sessions[j].ring.start
    /\ pty'[j].out = 0
    /\ \E n, late, over \in Nat :
          /\ EndN(sessions'[j].ring) = EndN(sessions[j].ring) + n
          /\ pty'[j].wrote = pty[j].wrote + late /\ pty'[j].late = late + over
          /\ n <= pty[j].out + late
          /\ sessions[j].master => pty[j].out <= n + over

\* The ones that put nothing into a ring.
Calm(j) == Forgotten(j) \/ Left(j) \/ Created(j) \/ Wrote(j) \/ HungUp(j)

Accounted(j) == Calm(j) \/ Read(j) \/ Reaped(j)

\* The offsets of a session are natural numbers.
LEMMA OffsetTypes ==
    ASSUME TypeOK, NEW j \in Sids
    PROVE  /\ sessions[j] \in Session /\ pty[j] \in Pty
           /\ sessions[j].ring \in ServerRings
           /\ sessions[j].ring.start \in Nat /\ EndN(sessions[j].ring) \in Nat
           /\ pty[j].out \in Nat /\ pty[j].wrote \in Nat /\ pty[j].late \in Nat
           /\ sessions[j].master \in BOOLEAN
<1>1. sessions[j] \in Session /\ pty[j] \in Pty
  BY DEF TypeOK
<1>. QED  BY <1>1 DEF Session, Pty, ServerRings, EndN

\* The updates of other fields leave the ring and the master alone.
LEMMA UpdatesHold ==
    ASSUME NEW s \in Session, NEW n
    PROVE  /\ Holds(s, s)
           /\ Holds([s EXCEPT !.stream = NoConn], s)
           /\ Holds([s EXCEPT !.input = n], s)
           /\ \A m : Holds([[s EXCEPT !.input = m] EXCEPT !.input = n], s)
           /\ Holds([s EXCEPT !.kill_deadline = Never], s)
           /\ Holds([s EXCEPT !.meta = n], s)
           /\ \A c : Holds([s EXCEPT !.stream = c, !.sent = n], s)
           /\ \A W : Holds([s EXCEPT !.kill_deadline = n, !.kill_waiters = W], s)
           /\ \A w : Holds([s EXCEPT !.kill_deadline = n, !.when = w], s)
<1>1. s.ring.start \in Nat
  BY DEF Session
<1>2. \A t : (t.st = s.st /\ t.master = s.master /\ t.ring = s.ring) => Holds(t, s)
  BY <1>1 DEF Holds
<1>3. Holds(s, s) /\ Holds([s EXCEPT !.stream = NoConn], s) /\ Holds([s EXCEPT !.input = n], s)
  BY <1>2 DEF Session
<1>4. \A m : Holds([[s EXCEPT !.input = m] EXCEPT !.input = n], s)
  BY <1>2 DEF Session
<1>5. Holds([s EXCEPT !.kill_deadline = Never], s) /\ Holds([s EXCEPT !.meta = n], s)
  BY <1>2 DEF Session
<1>6. \A c : Holds([s EXCEPT !.stream = c, !.sent = n], s)
  BY <1>2 DEF Session
<1>7. \A W : Holds([s EXCEPT !.kill_deadline = n, !.kill_waiters = W], s)
  BY <1>2 DEF Session
<1>8. \A w : Holds([s EXCEPT !.kill_deadline = n, !.when = w], s)
  BY <1>2 DEF Session
<1>. QED  BY <1>3, <1>4, <1>5, <1>6, <1>7, <1>8

\* A step that updates one session so, or none, and no terminal.
LEMMA OneUpdate ==
    ASSUME TypeOK, NEW i \in Sids, pty' = pty,
           \/ sessions' = sessions
           \/ \E t : sessions' = [sessions EXCEPT ![i] = t] /\ Holds(t, sessions[i])
    PROVE  \A j \in Sids : Calm(j)
<1>. SUFFICES ASSUME NEW j \in Sids PROVE Left(j)
  BY DEF Calm
<1>1. sessions \in [Sids -> Session]
  BY DEF TypeOK
<1>2. Holds(sessions[j], sessions[j])
  BY <1>1, UpdatesHold
<1>3. Holds(sessions'[j], sessions[j])
  BY <1>1, <1>2
<1>. QED  BY <1>3 DEF Left, Still

\* A step that touches neither.
LEMMA NoUpdate ==
    ASSUME TypeOK, pty' = pty, sessions' = sessions
    PROVE  \A j \in Sids : Calm(j)
  BY OneUpdate

\* What connections do.
LEMMA ConnStepCalm ==
    ASSUME TypeOK, NEW c \in Conns, ConnStep(c)
    PROVE  \A j \in Sids : Calm(j)
<1>0. sessions \in [Sids -> Session] /\ conns \in [Conns -> Conn]
  BY DEF TypeOK
<1>1. CASE ConnEof(c) \/ ReapClosedConn(c)
  <2>. SUFFICES ASSUME NEW j \in Sids PROVE Left(j)
    BY DEF Calm
  <2>1. DropConn(c)
    BY <1>1 DEF ConnEof, ReapClosedConn
  <2>2. sessions'[j] \in {sessions[j], [sessions[j] EXCEPT !.stream = NoConn]} /\ pty' = pty
    BY <2>1 DEF DropConn, Detach
  <2>3. Holds(sessions'[j], sessions[j])
    BY <1>0, <2>2, UpdatesHold
  <2>. QED  BY <2>2, <2>3 DEF Left, Still
<1>2. CASE ConnWritable(c)
  <2>0. pty' = pty
    BY <1>2 DEF ConnWritable
  <2>1. CASE sessions' = sessions
    BY <2>0, <2>1, NoUpdate
  <2>2. CASE FlushStream(sessions, [conns EXCEPT ![c].wbuf = FALSE], c)
    <3>1. [conns EXCEPT ![c].wbuf = FALSE] \in [Conns -> Conn]
      BY <1>0 DEF Conn
    <3>2. \A j \in Sids : SameButSent(sessions'[j], sessions[j])
      BY <1>0, <2>2, <3>1, FlushFacts
    <3>3. \A j \in Sids : Left(j)
      BY <2>0, <3>2, OffsetTypes DEF SameButSent, Left, Holds, Still
    <3>. QED  BY <3>3 DEF Calm
  <2>. QED  BY <1>2, <2>1, <2>2 DEF ConnWritable
<1>3. CASE HelloRefused(c) \/ HelloData(c) \/ PeerVanishes(c) \/ HelloOwner(c) \/ DataAnswered(c)
  <2>1. pty' = pty /\ sessions' = sessions
    BY <1>3 DEF HelloRefused, HelloData, PeerVanishes, HelloOwner, DataAnswered
  <2>. QED  BY <2>1, NoUpdate
<1>4. CASE InputTo(c)
  <2>. DEFINE i == conns[c].sid
  <2>1. i \in Sids /\ pty' = pty
    BY <1>0, <1>4 DEF InputTo, Conn
  <2>. HIDE DEF i
  <2>2. PICK n : \/ sessions' = [sessions EXCEPT ![i] = [sessions[i] EXCEPT !.input = n]]
                 \/ \E m : sessions' = [sessions EXCEPT ![i] =
                              [[sessions[i] EXCEPT !.input = m] EXCEPT !.input = n]]
    BY <1>4 DEF InputTo, i
  <2>3. /\ Holds([sessions[i] EXCEPT !.input = n], sessions[i])
        /\ \A m : Holds([[sessions[i] EXCEPT !.input = m] EXCEPT !.input = n], sessions[i])
    BY <1>0, <2>1, UpdatesHold
  <2>. QED  BY <2>1, <2>2, <2>3, OneUpdate
<1>5. ASSUME NEW i \in Sids, NEW from \in 0..MaxOut, Attach(c, i, from)
      PROVE  \A j \in Sids : Calm(j)
  <2>1. PICK n : sessions' = [sessions EXCEPT ![i] = [sessions[i] EXCEPT !.stream = c, !.sent = n]]
    BY <1>5 DEF Attach
  <2>2. Holds([sessions[i] EXCEPT !.stream = c, !.sent = n], sessions[i])
    BY <1>0, UpdatesHold
  <2>3. pty' = pty
    BY <1>5 DEF Attach
  <2>. QED  BY <2>1, <2>2, <2>3, OneUpdate
<1>. QED  BY <1>1, <1>2, <1>3, <1>4, <1>5 DEF ConnStep

\* What an owner's requests do.
LEMMA RequestStepCalm ==
    ASSUME TypeOK, NEW c \in Conns, RequestStep(c)
    PROVE  \A j \in Sids : Calm(j)
<1>0. sessions \in [Sids -> Session] /\ pty \in [Sids -> Pty]
  BY DEF TypeOK
<1>1. CASE RequestAnswered(c) \/ List(c) \/ Shutdown(c)
  <2>1. pty' = pty /\ sessions' = sessions
    BY <1>1 DEF RequestAnswered, List, Shutdown, BeginShutdown
  <2>. QED  BY <2>1, NoUpdate
<1>2. CASE UpgradeResumes(c)
  <2>. SUFFICES ASSUME NEW j \in Sids PROVE Left(j)
    BY DEF Calm
  <2>1. sessions'[j] = Resumed(sessions[j]) /\ pty' = pty
    BY <1>2 DEF UpgradeResumes
  <2>2. /\ Resumed(sessions[j]).st = sessions[j].st /\ Resumed(sessions[j]).master = sessions[j].master
        /\ Resumed(sessions[j]).ring = RestoreN(sessions[j].ring)
    BY <1>0, ResumedFacts
  <2>3. /\ EndN(RestoreN(sessions[j].ring)) = EndN(sessions[j].ring)
        /\ RestoreN(sessions[j].ring).start >= sessions[j].ring.start
        /\ RestoreN(sessions[j].ring).cap = sessions[j].ring.cap
    BY OffsetTypes, RestoreNFacts
  <2>. QED  BY <2>1, <2>2, <2>3 DEF Left, Holds, Still
<1>3. CASE UpgradeDies(c) \/ UpgradeKilled(c)
  BY <1>3 DEF UpgradeDies, UpgradeKilled, ExitProcess, NoSession, Calm, Forgotten
<1>4. CASE UpgradeExecFails(c)
  <2>. SUFFICES ASSUME NEW j \in Sids PROVE Left(j)
    BY DEF Calm
  <2>1. sessions'[j] = [sessions[j] EXCEPT !.stream = NoConn] /\ pty' = pty
    BY <1>4 DEF UpgradeExecFails
  <2>. QED  BY <1>0, <2>1, UpdatesHold DEF Left, Still
<1>5. ASSUME NEW i \in Sids, Kill(c, i)
      PROVE  \A j \in Sids : Calm(j)
  <2>1. PICK n, W : sessions' = [sessions EXCEPT ![i] =
                        [sessions[i] EXCEPT !.kill_deadline = n, !.kill_waiters = W]]
    BY <1>5 DEF Kill
  <2>2. Holds([sessions[i] EXCEPT !.kill_deadline = n, !.kill_waiters = W], sessions[i])
    BY <1>0, UpdatesHold
  <2>3. pty' = pty
    BY <1>5 DEF Kill
  <2>. QED  BY <2>1, <2>2, <2>3, OneUpdate
<1>6. ASSUME NEW i \in Sids, NEW meta \in MetaSizes, UpdateMeta(c, i, meta)
      PROVE  \A j \in Sids : Calm(j)
  <2>1. sessions' = [sessions EXCEPT ![i] = [sessions[i] EXCEPT !.meta = meta]]
    BY <1>6 DEF UpdateMeta
  <2>2. Holds([sessions[i] EXCEPT !.meta = meta], sessions[i])
    BY <1>0, UpdatesHold
  <2>3. pty' = pty
    BY <1>6 DEF UpdateMeta
  <2>. QED  BY <2>1, <2>2, <2>3, OneUpdate
<1>7. ASSUME NEW i \in Sids, AckExit(c, i)
      PROVE  \A j \in Sids : Calm(j)
  <2>. SUFFICES ASSUME NEW j \in Sids PROVE Calm(j)
    OBVIOUS
  <2>1. sessions' = [sessions EXCEPT ![i] = NoSession] /\ pty' = pty
    BY <1>7 DEF AckExit
  <2>2. CASE j = i
    BY <1>0, <2>1, <2>2 DEF Calm, Forgotten, NoSession
  <2>3. CASE j # i
    <3>1. sessions'[j] = sessions[j]
      BY <1>0, <2>1, <2>3
    <3>. QED  BY <1>0, <2>1, <3>1, UpdatesHold DEF Calm, Left, Still
  <2>. QED  BY <2>2, <2>3
<1>8. ASSUME NEW i \in Sids, NEW meta \in MetaSizes, NEW cap \in RingCaps, Spawn(c, i, cap, meta)
      PROVE  \A j \in Sids : Calm(j)
  <2>. SUFFICES ASSUME NEW j \in Sids PROVE Calm(j)
    OBVIOUS
  <2>. DEFINE t == [NoSession EXCEPT !.st = "running", !.master = TRUE,
                                     !.ring = NewN(cap), !.meta = meta]
              p == [NoPty EXCEPT !.child = "alive", !.slave = TRUE]
  <2>1. /\ sessions[i].st = "none"
        /\ sessions' = [sessions EXCEPT ![i] = t] /\ pty' = [pty EXCEPT ![i] = p]
    BY <1>8 DEF Spawn
  <2>2. t.master = TRUE /\ EndN(t.ring) = 0 /\ p.out = 0 /\ p.wrote = 0
    BY DEF NoSession, NewN, EndN, NoPty
  <2>. HIDE DEF t, p
  <2>3. CASE j = i
    BY <1>0, <2>1, <2>2, <2>3 DEF Calm, Created
  <2>4. CASE j # i
    <3>1. sessions'[j] = sessions[j] /\ pty'[j] = pty[j]
      BY <1>0, <2>1, <2>4
    <3>. QED  BY <1>0, <3>1, UpdatesHold DEF Calm, Left, Still
  <2>. QED  BY <2>3, <2>4
<1>. QED
  BY <1>1, <1>2, <1>3, <1>4, <1>5, <1>6, <1>7, <1>8 DEF RequestStep

\* A handler that pushed r to the ring of session i: every other session is
\* left, and the window of i ends where r ends.
LEMMA PushAccounted ==
    ASSUME TypeOK, NEW i \in Sids, NEW r \in ServerRings, NEW ended \in BOOLEAN, NEW T,
           r.start >= sessions[i].ring.start,
           AfterPush([sessions EXCEPT ![i].ring = r], i, ended, T)
    PROVE  /\ \A j \in Sids \ {i} : Holds(sessions'[j], sessions[j])
           /\ EndN(sessions'[i].ring) = EndN(r)
           /\ sessions'[i].ring.start >= sessions[i].ring.start
           /\ ended => sessions'[i].st = "exited"
           /\ ~ended => /\ sessions'[i].st = sessions[i].st
                        /\ sessions'[i].master = sessions[i].master
<1>. DEFINE S == [sessions EXCEPT ![i].ring = r]
<1>1. sessions \in [Sids -> Session] /\ conns \in [Conns -> Conn]
  BY DEF TypeOK
<1>2. /\ S \in [Sids -> Session]
      /\ S[i].ring = r
      /\ \A j \in Sids : /\ j # i => S[j] = sessions[j]
                         /\ S[j].st = sessions[j].st
                         /\ S[j].master = sessions[j].master
  BY <1>1, PushedFacts
<1>. HIDE DEF S
<1>3. AfterPush(S, i, ended, T)
  BY DEF S
<1>4. PushEffect(S, i, ended) /\ sessions' \in [Sids -> Session]
  BY <1>1, <1>2, <1>3, AfterPushFacts
<1>5. \A j \in Sids \ {i} : Holds(sessions'[j], sessions[j])
  BY <1>2, <1>4 DEF PushEffect, Shifted, Holds
<1>6. EndN(sessions'[i].ring) = EndN(r) /\ sessions'[i].ring.start >= r.start
  BY <1>2, <1>4 DEF PushEffect, Shifted
<1>7. sessions'[i].ring.start \in Nat /\ sessions[i].ring.start \in Nat /\ r.start \in Nat
  BY <1>1, <1>4 DEF Session, ServerRings
<1>8. sessions'[i].ring.start >= sessions[i].ring.start
  BY <1>6, <1>7
<1>. QED  BY <1>2, <1>4, <1>5, <1>6, <1>8 DEF PushEffect

\* What terminals and children do, other than bytes read and reaps.
LEMMA SessionStepCalm ==
    ASSUME TypeOK, NEW i \in Sids, SessionStep(i), ~MasterReadable(i), ~TryReap(i)
    PROVE  \A j \in Sids : Calm(j)
<1>. SUFFICES ASSUME NEW j \in Sids PROVE Calm(j)
  OBVIOUS
<1>0. sessions \in [Sids -> Session] /\ pty \in [Sids -> Pty]
  BY DEF TypeOK
<1>1. \A k \in Sids : Holds(sessions[k], sessions[k])
  BY <1>0, UpdatesHold
<1>2. CASE MasterHup(i) /\ ~TryReap(i)
  <2>1. /\ sessions' = [sessions EXCEPT ![i] = [sessions[i] EXCEPT !.master = FALSE]]
        /\ pty' = pty /\ pty[i].out = 0
    BY <1>2 DEF MasterHup
  <2>2. /\ sessions'[i].st = sessions[i].st /\ sessions'[i].ring = sessions[i].ring
        /\ \A k \in Sids \ {i} : sessions'[k] = sessions[k]
    BY <1>0, <2>1 DEF Session
  <2>3. CASE j = i
    BY <2>1, <2>2, <2>3 DEF Calm, HungUp, Still
  <2>4. CASE j # i
    BY <1>1, <2>1, <2>2, <2>4 DEF Calm, Left, Still
  <2>. QED  BY <2>3, <2>4
<1>3. CASE MasterWritable(i)
  <2>1. PICK n : sessions' = [sessions EXCEPT ![i] = [sessions[i] EXCEPT !.input = n]]
    BY <1>3 DEF MasterWritable
  <2>2. Holds([sessions[i] EXCEPT !.input = n], sessions[i])
    BY <1>0, UpdatesHold
  <2>3. pty' = pty
    BY <1>3 DEF MasterWritable
  <2>. QED  BY <2>1, <2>2, <2>3, OneUpdate
<1>4. CASE TimerKill(i) /\ ~TryReap(i)
  <2>1. /\ sessions' = [sessions EXCEPT ![i] = [sessions[i] EXCEPT !.kill_deadline = Never]]
        /\ pty' = [pty EXCEPT ![i] = [pty[i] EXCEPT !.killed = TRUE]]
    BY <1>4 DEF TimerKill
  <2>2. Still(j)
    BY <1>0, <2>1 DEF Still, Pty
  <2>3. Holds([sessions[i] EXCEPT !.kill_deadline = Never], sessions[i])
    BY <1>0, UpdatesHold
  <2>4. Holds(sessions'[j], sessions[j])
    BY <1>0, <1>1, <2>1, <2>3
  <2>. QED  BY <2>2, <2>4 DEF Calm, Left
<1>5. CASE SlaveCloses(i) \/ ChildExits(i)
  <2>1. sessions' = sessions
    BY <1>5 DEF SlaveCloses, ChildExits
  <2>2. ASSUME SlaveCloses(i) PROVE Still(j)
    BY <1>0, <2>2 DEF SlaveCloses, Still, Pty
  <2>3. ASSUME ChildExits(i) PROVE Still(j)
    <3>1. PICK s \in {pty[i].slave, FALSE} :
             pty' = [pty EXCEPT ![i] = [pty[i] EXCEPT !.child = "zombie", !.slave = s]]
      BY <2>3 DEF ChildExits
    <3>2. /\ [pty[i] EXCEPT !.child = "zombie", !.slave = s].out = pty[i].out
          /\ [pty[i] EXCEPT !.child = "zombie", !.slave = s].wrote = pty[i].wrote
      BY <1>0 DEF Pty
    <3>. QED  BY <1>0, <3>1, <3>2 DEF Still
  <2>. QED  BY <1>1, <1>5, <2>1, <2>2, <2>3 DEF Calm, Left
<1>6. CASE ChildWrites(i)
  <2>1. /\ sessions' = sessions /\ sessions[i].master
        /\ pty' = [pty EXCEPT ![i] = [pty[i] EXCEPT !.out = pty[i].out + 1,
                                                    !.wrote = pty[i].wrote + 1]]
    BY <1>6 DEF ChildWrites
  <2>2. /\ pty'[i].out = pty[i].out + 1 /\ pty'[i].wrote = pty[i].wrote + 1
        /\ \A k \in Sids \ {i} : pty'[k] = pty[k]
    BY <1>0, <2>1 DEF Pty
  <2>3. CASE j = i
    BY <2>1, <2>2, <2>3 DEF Calm, Wrote
  <2>4. CASE j # i
    BY <1>1, <2>1, <2>2, <2>4 DEF Calm, Left, Still
  <2>. QED  BY <2>3, <2>4
<1>. QED
  BY <1>2, <1>3, <1>4, <1>5, <1>6 DEF SessionStep, OnSigchld, MasterHup, TimerKill

\* What terminals and children do.
LEMMA SessionStepAccounted ==
    ASSUME TypeOK, NEW i \in Sids, SessionStep(i)
    PROVE  \A j \in Sids : Accounted(j)
<1>. SUFFICES ASSUME NEW j \in Sids PROVE Accounted(j)
  OBVIOUS
<1>0. sessions \in [Sids -> Session] /\ pty \in [Sids -> Pty]
  BY DEF TypeOK
<1>1. \A k \in Sids : Holds(sessions[k], sessions[k])
  BY <1>0, UpdatesHold
<1>2. CASE MasterReadable(i)
  <2>. DEFINE n == Least(pty[i].out, ReadMax)
              r == PushN(sessions[i].ring, n)
  <2>1. n \in Nat
    BY ReadFacts
  <2>2. /\ AfterPush([sessions EXCEPT ![i].ring = r], i, FALSE, {})
        /\ pty' = [pty EXCEPT ![i] = [pty[i] EXCEPT !.out = pty[i].out - n]]
        /\ sessions[i].master
    BY <1>2 DEF MasterReadable
  <2>. HIDE DEF n
  <2>3. /\ r \in ServerRings /\ EndN(r) = EndN(sessions[i].ring) + n
        /\ r.start >= sessions[i].ring.start
    BY <2>1, OffsetTypes, PushNFacts
  <2>. HIDE DEF r
  <2>4. /\ \A k \in Sids \ {i} : Holds(sessions'[k], sessions[k])
        /\ EndN(sessions'[i].ring) = EndN(r)
        /\ sessions'[i].ring.start >= sessions[i].ring.start
        /\ sessions'[i].st = sessions[i].st
        /\ sessions'[i].master = sessions[i].master
    BY <2>2, <2>3, PushAccounted
  <2>5. /\ pty'[i].out = pty[i].out - n /\ pty'[i].wrote = pty[i].wrote
        /\ pty'[i].late = pty[i].late
        /\ \A k \in Sids \ {i} : pty'[k] = pty[k]
    BY <1>0, <2>2 DEF Pty
  <2>6. CASE j = i
    <3>1. Read(i)
      BY <2>1, <2>2, <2>3, <2>4, <2>5 DEF Read
    <3>. QED  BY <2>6, <3>1 DEF Accounted
  <2>7. CASE j # i
    BY <2>4, <2>5, <2>7 DEF Accounted, Calm, Left, Still
  <2>. QED  BY <2>6, <2>7
<1>3. CASE TryReap(i)
  <2>0. PICK n, late \in Nat : Reaps(i, n, late)
    BY <1>3, ReapFacts
  <2>. DEFINE r == PushN(sessions[i].ring, n)
              T == sessions[i].kill_waiters \cup {owner}
              over == Over(pty[i].out, DrainReads)
  <2>1. /\ AfterPush([sessions EXCEPT ![i].ring = r], i, TRUE, T)
        /\ pty' = [pty EXCEPT ![i] = Hung(pty[i], late)]
        /\ sessions[i].st = "running"
    BY <1>3, <2>0 DEF TryReap, Reaps
  <2>2. /\ r \in ServerRings /\ EndN(r) = EndN(sessions[i].ring) + n
        /\ r.start >= sessions[i].ring.start
        /\ n <= pty[i].out + late
        /\ sessions[i].master => pty[i].out <= n + over
    BY <2>0 DEF Reaps
  <2>7. over \in Nat
    BY OffsetTypes, Constants DEF Over
  <2>. HIDE DEF r, T
  <2>3. /\ \A k \in Sids \ {i} : Holds(sessions'[k], sessions[k])
        /\ EndN(sessions'[i].ring) = EndN(r)
        /\ sessions'[i].ring.start >= sessions[i].ring.start
        /\ sessions'[i].st = "exited"
    BY <2>1, <2>2, PushAccounted
  <2>4. /\ pty'[i].out = 0 /\ pty'[i].wrote = pty[i].wrote + late
        /\ pty'[i].late = late + over
        /\ \A k \in Sids \ {i} : pty'[k] = pty[k]
    BY <1>0, <2>1, HungFacts
  <2>. HIDE DEF over
  <2>5. CASE j = i
    <3>1. Reaped(i)
      BY <2>1, <2>2, <2>3, <2>4, <2>7 DEF Reaped
    <3>. QED  BY <2>5, <3>1 DEF Accounted
  <2>6. CASE j # i
    BY <2>3, <2>4, <2>6 DEF Accounted, Calm, Left, Still
  <2>. QED  BY <2>5, <2>6
<1>4. CASE ~MasterReadable(i) /\ ~TryReap(i)
  BY <1>4, SessionStepCalm DEF Accounted
<1>. QED  BY <1>2, <1>3, <1>4

\* What the process itself does.
LEMMA ProcessStepCalm ==
    ASSUME TypeOK,
           \/ AcceptAll \/ Serve \/ OnSigterm \/ LoopEnds
           \/ TimerShutdown \/ TimerExitedTtl \/ TimerOrphan \/ TimerIdle
           \/ Tick \/ Sigterm
    PROVE  \A j \in Sids : Calm(j)
<1>0. sessions \in [Sids -> Session] /\ pty \in [Sids -> Pty]
  BY DEF TypeOK
<1>1. \A k \in Sids : Holds(sessions[k], sessions[k])
  BY <1>0, UpdatesHold
<1>2. CASE \/ AcceptAll \/ Serve \/ Sigterm \/ OnSigterm \/ TimerOrphan
           \/ (TimerIdle /\ ~ExitProcess)
  <2>1. pty' = pty /\ sessions' = sessions
    BY <1>2 DEF AcceptAll, Serve, Sigterm, OnSigterm, BeginShutdown, TimerOrphan, TimerIdle
  <2>. QED  BY <2>1, NoUpdate
<1>3. CASE ExitProcess
  BY <1>3 DEF ExitProcess, NoSession, Calm, Forgotten
<1>4. CASE TimerShutdown /\ ~ExitProcess
  <2>. SUFFICES ASSUME NEW j \in Sids PROVE Left(j)
    BY DEF Calm
  <2>1. sessions' = sessions /\ pty'[j] \in {pty[j], [pty[j] EXCEPT !.killed = TRUE]}
    BY <1>4 DEF TimerShutdown
  <2>2. Still(j)
    BY <1>0, <2>1 DEF Still, Pty
  <2>. QED  BY <1>1, <2>1, <2>2 DEF Left
<1>5. CASE TimerExitedTtl
  <2>. SUFFICES ASSUME NEW j \in Sids PROVE Calm(j)
    OBVIOUS
  <2>1. pty' = pty /\ sessions'[j] \in {sessions[j], NoSession}
    BY <1>5 DEF TimerExitedTtl
  <2>2. CASE sessions'[j] = NoSession
    BY <2>2 DEF Calm, Forgotten, NoSession
  <2>3. CASE sessions'[j] = sessions[j]
    BY <1>1, <2>1, <2>3 DEF Calm, Left, Still
  <2>. QED  BY <2>1, <2>2, <2>3
<1>6. CASE Tick
  <2>. SUFFICES ASSUME NEW j \in Sids PROVE Left(j)
    BY DEF Calm
  <2>1. PICK k, w : sessions'[j] = [sessions[j] EXCEPT !.kill_deadline = k, !.when = w]
    BY <1>6 DEF Tick
  <2>2. Holds([sessions[j] EXCEPT !.kill_deadline = k, !.when = w], sessions[j])
    BY <1>0, UpdatesHold
  <2>3. pty' = pty
    BY <1>6 DEF Tick
  <2>. QED  BY <2>1, <2>2, <2>3 DEF Left, Still
<1>. QED
  BY <1>2, <1>3, <1>4, <1>5, <1>6 DEF LoopEnds, TimerShutdown, TimerIdle

\* Every step accounts for every session.
LEMMA StepAccounted == TypeOK /\ [Next]_vars => \A j \in Sids : Accounted(j)
<1>. SUFFICES ASSUME TypeOK, [Next]_vars PROVE \A j \in Sids : Accounted(j)
  OBVIOUS
<1>1. CASE UNCHANGED vars
  BY <1>1, NoUpdate DEF vars, Accounted
<1>2. CASE Next
  BY <1>2, ConnStepCalm, RequestStepCalm, SessionStepAccounted, ProcessStepCalm
  DEF Next, Accounted
<1>. QED  BY <1>1, <1>2

-----------------------------------------------------------------------------
\* A master is only closed when the terminal behind it is empty.  Without
\* this NeverLosesOutput is not inductive: drain_master reads nothing once the
\* master is closed.
Dry == \A i \in Sids : (sessions[i].st # "none" /\ ~sessions[i].master) => pty[i].out = 0

\* Steps that account for every session keep the books.
LEMMA OutputStep ==
    ASSUME TypeOK, TypeOK', NeverLosesOutput, Dry, \A j \in Sids : Accounted(j)
    PROVE  NeverLosesOutput' /\ Dry'
<1>. DEFINE Missing(s, p) == p.wrote - (EndN(s.ring) + p.out)
<1>1. ASSUME NEW j \in Sids, sessions'[j].st # "none"
      PROVE  /\ Missing(sessions'[j], pty'[j]) >= 0
             /\ sessions'[j].st = "exited" => Missing(sessions'[j], pty'[j]) <= pty'[j].late
             /\ sessions'[j].st # "exited" => Missing(sessions'[j], pty'[j]) = 0
             /\ ~sessions'[j].master => pty'[j].out = 0
  <2>0. /\ EndN(sessions[j].ring) \in Nat /\ pty[j].out \in Nat /\ pty[j].wrote \in Nat
        /\ pty[j].late \in Nat /\ sessions[j].master \in BOOLEAN
    BY OffsetTypes
  <2>1. sessions[j].st # "none" =>
           /\ Missing(sessions[j], pty[j]) >= 0
           /\ sessions[j].st = "exited" => Missing(sessions[j], pty[j]) <= pty[j].late
           /\ sessions[j].st # "exited" => Missing(sessions[j], pty[j]) = 0
           /\ ~sessions[j].master => pty[j].out = 0
    BY <2>0 DEF NeverLosesOutput, Dry
  <2>2. CASE Left(j) \/ HungUp(j)
    BY <1>1, <2>0, <2>1, <2>2 DEF Left, HungUp, Holds, Still
  <2>3. CASE Created(j)
    <3>1. pty'[j].late \in Nat
      BY DEF TypeOK, Pty
    <3>. QED  BY <2>3, <3>1 DEF Created
  <2>4. CASE Wrote(j)
    BY <1>1, <2>0, <2>1, <2>4 DEF Wrote
  <2>5. CASE Read(j)
    BY <1>1, <2>0, <2>1, <2>5 DEF Read
  <2>6. CASE Reaped(j)
    <3>1. PICK n, late, over \in Nat :
             /\ EndN(sessions'[j].ring) = EndN(sessions[j].ring) + n
             /\ pty'[j].wrote = pty[j].wrote + late /\ pty'[j].late = late + over
             /\ n <= pty[j].out + late
             /\ sessions[j].master => pty[j].out <= n + over
      BY <2>6 DEF Reaped
    <3>2. /\ sessions[j].st = "running" /\ sessions'[j].st = "exited" /\ pty'[j].out = 0
      BY <2>6 DEF Reaped
    <3>3. pty[j].out <= n + over
      BY <2>0, <2>1, <3>1, <3>2
    <3>. QED  BY <2>0, <2>1, <3>1, <3>2, <3>3
  <2>. QED  BY <1>1, <2>2, <2>3, <2>4, <2>5, <2>6 DEF Accounted, Calm, Forgotten, NoSession
<1>2. \A j \in Sids : EndN(sessions'[j].ring) \in Nat /\ pty'[j] \in Pty
  BY DEF TypeOK, Session, EndN
<1>3. \A j \in Sids : Missing(sessions'[j], pty'[j]) \in Int /\ pty'[j].late \in Nat
  BY <1>2 DEF Pty
<1>. QED  BY <1>1, <1>3 DEF NeverLosesOutput, Dry

\* A step never moves the offsets of a session that lives on backwards.
LEMMA OffsetStep ==
    ASSUME TypeOK, NEW j \in Sids, Accounted(j),
           sessions[j].st # "none", sessions'[j].st # "none"
    PROVE  /\ sessions'[j].ring.start >= sessions[j].ring.start
           /\ EndN(sessions'[j].ring) >= EndN(sessions[j].ring)
<1>0. /\ sessions[j].ring.start \in Nat /\ EndN(sessions[j].ring) \in Nat /\ pty[j].out \in Nat
      /\ sessions[j].master \in BOOLEAN
  BY OffsetTypes
<1>1. CASE Left(j) \/ HungUp(j) \/ Wrote(j)
  BY <1>0, <1>1 DEF Left, HungUp, Wrote, Holds
<1>2. CASE Read(j)
  BY <1>0, <1>2 DEF Read
<1>3. CASE Reaped(j)
  BY <1>0, <1>3 DEF Reaped
<1>. QED  BY <1>1, <1>2, <1>3 DEF Accounted, Calm, Forgotten, Created, NoSession

(* Never loses output, for every instance: what a session's processes      *)
(* wrote is counted in its ring or still in the terminal, through partial  *)
(* reads, ring overruns, the total cap, hangups and upgrades; the reap     *)
(* loses at most what lay beyond its 1024 reads and what processes that    *)
(* outlived the child wrote during it.                                     *)
THEOREM OutputKept == Spec => []NeverLosesOutput
<1>1. Init => TypeOK /\ NeverLosesOutput /\ Dry
  BY TypeInit DEF Init, NeverLosesOutput, Dry, NoSession
<1>2. TypeOK /\ NeverLosesOutput /\ Dry /\ [Next]_vars => (TypeOK /\ NeverLosesOutput /\ Dry)'
  BY TypeStep, StepAccounted, OutputStep
<1>. QED  BY <1>1, <1>2, PTL DEF Spec

(* The offsets of a session never go back, for every instance: a client    *)
(* that re-attaches where it stopped reading gets the byte that follows.   *)
THEOREM OffsetsNeverGoBack == Spec => OffsetsMonotonic
<1>1. TypeOK /\ [Next]_vars =>
         [\A i \in Sids :
            (sessions[i].st # "none" /\ sessions'[i].st # "none") =>
                /\ sessions'[i].ring.start >= sessions[i].ring.start
                /\ EndN(sessions'[i].ring) >= EndN(sessions[i].ring)]_vars
  BY StepAccounted, OffsetStep
<1>. QED  BY <1>1, TypeCorrect, PTL DEF Spec, OffsetsMonotonic

-----------------------------------------------------------------------------
(***************************************************************************)
(* The bound on the memory of all rings.  Only a handler that pushes puts  *)
(* bytes into a ring, and it ends with enforce_total_cap.                  *)
(***************************************************************************)
\* The bytes of a stretch of one ring.
LEMMA StretchSize ==
    ASSUME NEW b, NEW m \in Nat, NEW n \in Nat, m <= n
    PROVE  IsFiniteSet({b} \X ((m + 1) .. n)) /\ Cardinality({b} \X ((m + 1) .. n)) = n - m
<1>. DEFINE I == (m + 1) .. n
<1>1. IsFiniteSet(I) /\ Cardinality(I) = IF m + 1 > n THEN 0 ELSE n - (m + 1) + 1
  <2>1. m + 1 \in Int /\ n \in Int
    OBVIOUS
  <2>. QED  BY <2>1, FS_Interval, Zenon
<1>2. Cardinality(I) = n - m
  BY <1>1
<1>. HIDE DEF I
<1>3. IsFiniteSet({b}) /\ Cardinality({b}) = 1
  BY FS_Singleton
<1>4. IsFiniteSet({b} \X I) /\ Cardinality({b} \X I) = Cardinality({b}) * Cardinality(I)
  BY <1>1, <1>3, FS_Product
<1>5. Cardinality({b} \X I) = 1 * (n - m)
  BY <1>2, <1>3, <1>4
<1>6. 1 * (n - m) = n - m
  OBVIOUS
<1>. QED  BY <1>4, <1>5, <1>6 DEF I

\* Two disjoint sets together.
LEMMA DisjointSize ==
    ASSUME NEW A, NEW B, IsFiniteSet(A), IsFiniteSet(B), A \cap B = {}
    PROVE  /\ IsFiniteSet(A \cup B)
           /\ Cardinality(A \cup B) = Cardinality(A) + Cardinality(B)
<1>1. Cardinality(A) \in Nat /\ Cardinality(B) \in Nat
  BY FS_CardinalityType
<1>2. /\ IsFiniteSet(A \cup B)
      /\ Cardinality(A \cup B) = Cardinality(A) + Cardinality(B) - Cardinality(A \cap B)
  BY FS_Union
<1>3. Cardinality(A \cap B) = 0
  BY FS_EmptySet
<1>. QED  BY <1>1, <1>2, <1>3

\* No ring holds more than its size.
Fits(S) == \A j \in Sids : S[j].ring.len \in 0..RingMax

\* The bytes held are finitely many pairs of a session and a position.
LEMMA HeldFacts ==
    ASSUME NEW S, Fits(S), NEW T \in SUBSET Sids
    PROVE  /\ IsFiniteSet(Held(S, T))
           /\ TotalLen(S, T) \in Nat
           /\ \A x : x \in Held(S, T) <=> \E j \in T : \E k \in 1..S[j].ring.len : x = <<j, k>>
           /\ \A j, k : <<j, k>> \in Held(S, T) <=> (j \in T /\ k \in 1..S[j].ring.len)
<1>1. \A x : x \in Held(S, T) <=> \E j \in T : \E k \in 1..S[j].ring.len : x = <<j, k>>
  BY DEF Held
<1>2. \A j, k : <<j, k>> \in Held(S, T) <=> (j \in T /\ k \in 1..S[j].ring.len)
  BY <1>1
<1>3. Held(S, T) \in SUBSET (Sids \X (1..RingMax))
  BY <1>1, Constants DEF Fits
<1>4. IsFiniteSet(Sids \X (1..RingMax))
  <2>1. IsFiniteSet(Sids)
    BY PtydAssumption
  <2>2. IsFiniteSet(1..RingMax)
    BY Constants, FS_Interval
  <2>. QED  BY <2>1, <2>2, FS_Product
<1>5. IsFiniteSet(Held(S, T))
  BY <1>3, <1>4, FS_Subset
<1>. QED  BY <1>1, <1>2, <1>5, FS_CardinalityType DEF TotalLen

\* Rings that only lost bytes hold no more together.
LEMMA HeldShrinks ==
    ASSUME NEW S, NEW R, Fits(S), Fits(R), \A j \in Sids : R[j].ring.len <= S[j].ring.len
    PROVE  TotalLen(R, Sids) <= TotalLen(S, Sids)
<1>1. Held(R, Sids) \in SUBSET Held(S, Sids)
  <2>. SUFFICES ASSUME NEW x \in Held(R, Sids) PROVE x \in Held(S, Sids)
    OBVIOUS
  <2>1. PICK j \in Sids : \E k \in 1..R[j].ring.len : x = <<j, k>>
    BY HeldFacts
  <2>2. PICK k \in 1..R[j].ring.len : x = <<j, k>>
    BY <2>1
  <2>3. k \in 1..S[j].ring.len
    BY <2>2 DEF Fits
  <2>. QED  BY <2>2, <2>3, HeldFacts
<1>. QED  BY <1>1, HeldFacts, FS_Subset DEF TotalLen

\* enforce_total_cap: what is left after the cut is at most TOTAL_CAP.
LEMMA CutReachesCap ==
    ASSUME NEW S \in [Sids -> Session], NEW R, NEW cut \in Cuts, Fits(S), Fits(R),
           TotalCapCut(S, cut), \A j \in Sids : R[j].ring = TrimN(S[j].ring, cut[j])
    PROVE  TotalLen(R, Sids) <= TotalCap
<1>. DEFINE len(j) == S[j].ring.len
<1>0. TotalCap \in Nat /\ \A j \in Sids : len(j) \in Nat /\ cut[j] \in Nat
  BY PtydAssumption DEF Fits, Cuts
<1>1. \A j \in Sids : R[j].ring.len = len(j) - (IF cut[j] < len(j) THEN cut[j] ELSE len(j))
  <2>1. ASSUME NEW r \in ServerRings, NEW c
        PROVE  TrimN(r, c).len = r.len - (IF c < r.len THEN c ELSE r.len)
    BY DEF TrimN, ServerRings
  <2>2. \A j \in Sids : S[j].ring \in ServerRings
    BY DEF Session, ServerRings
  <2>. QED  BY <2>1, <2>2
<1>2. TotalLen(S, Sids) \in Nat /\ TotalLen(R, Sids) \in Nat
  BY HeldFacts
<1>3. CASE TotalLen(S, Sids) - TotalCap <= 0
  <2>1. \A j \in Sids : cut[j] = 0
    BY <1>3 DEF TotalCapCut
  <2>2. \A j \in Sids : R[j].ring.len <= len(j)
    BY <1>0, <1>1, <2>1
  <2>3. TotalLen(R, Sids) <= TotalLen(S, Sids)
    BY <2>2, HeldShrinks
  <2>. QED  BY <1>0, <1>2, <1>3, <2>3
<1>4. CASE ~(TotalLen(S, Sids) - TotalCap <= 0)
  <2>1. PICK E \in SUBSET Sids, b \in Sids :
           /\ b \notin E
           /\ cut[b] = TotalLen(S, Sids) - TotalCap - TotalLen(S, E)
           /\ cut[b] \in 1..len(b)
           /\ \A j \in Sids \ {b} : cut[j] = IF j \in E THEN len(j) ELSE 0
    BY <1>4 DEF TotalCapCut
  <2>. DEFINE D == {b} \X ((len(b) - cut[b] + 1) .. len(b))
              H == Held(R, Sids)
              G == Held(S, E)
  <2>2. /\ \A j \in E : R[j].ring.len = 0
        /\ \A j \in Sids \ E : j # b => R[j].ring.len = len(j)
        /\ R[b].ring.len = len(b) - cut[b]
    BY <1>0, <1>1, <2>1
  <2>3. IsFiniteSet(H) /\ IsFiniteSet(G) /\ TotalLen(S, E) \in Nat
    BY HeldFacts
  <2>4. IsFiniteSet(D) /\ Cardinality(D) = cut[b]
    <3>1. len(b) \in Nat /\ len(b) - cut[b] \in Nat /\ len(b) - cut[b] <= len(b)
      BY <1>0, <2>1
    <3>2. len(b) - (len(b) - cut[b]) = cut[b]
      BY <1>0
    <3>. QED  BY <3>1, <3>2, StretchSize
  <2>5. \A j, k : <<j, k>> \in D <=> (j = b /\ k \in (len(b) - cut[b] + 1) .. len(b))
    OBVIOUS
  <2>6. \A x \in D : \E k : x = <<b, k>>
    OBVIOUS
  <2>. HIDE DEF D
  <2>7. Held(S, Sids) = (H \cup D) \cup G
    <3>1. ASSUME NEW x \in Held(S, Sids) PROVE x \in (H \cup D) \cup G
      <4>1. PICK j \in Sids : \E k \in 1..len(j) : x = <<j, k>>
        BY HeldFacts
      <4>2. PICK k \in 1..len(j) : x = <<j, k>>
        BY <4>1
      <4>3. CASE j \in E
        BY <4>2, <4>3, HeldFacts
      <4>4. CASE j \notin E /\ j # b
        <5>1. k \in 1..R[j].ring.len
          BY <2>2, <4>4
        <5>. QED  BY <4>2, <5>1, HeldFacts
      <4>5. CASE j = b
        <5>1. k \in 1..R[b].ring.len \/ k \in (len(b) - cut[b] + 1) .. len(b)
          BY <1>0, <2>1, <2>2, <4>5
        <5>. QED  BY <2>5, <4>2, <4>5, <5>1, HeldFacts
      <4>. QED  BY <4>3, <4>4, <4>5
    <3>2. ASSUME NEW x \in H PROVE x \in Held(S, Sids)
      <4>1. PICK j \in Sids : \E k \in 1..R[j].ring.len : x = <<j, k>>
        BY HeldFacts
      <4>2. PICK k \in 1..R[j].ring.len : x = <<j, k>>
        BY <4>1
      <4>3. k \in 1..len(j)
        BY <1>0, <1>1
      <4>. QED  BY <4>2, <4>3, HeldFacts
    <3>3. ASSUME NEW x \in D PROVE x \in Held(S, Sids)
      <4>1. PICK k : x = <<b, k>>
        BY <2>6
      <4>2. k \in 1..len(b)
        BY <1>0, <2>1, <2>5, <4>1
      <4>. QED  BY <4>1, <4>2, HeldFacts
    <3>4. ASSUME NEW x \in G PROVE x \in Held(S, Sids)
      <4>1. PICK j \in E : \E k \in 1..len(j) : x = <<j, k>>
        BY HeldFacts
      <4>. QED  BY <4>1, HeldFacts
    <3>. QED  BY <3>1, <3>2, <3>3, <3>4
  <2>8. H \cap D = {}
    <3>. SUFFICES ASSUME NEW x \in H, x \in D PROVE FALSE
      OBVIOUS
    <3>1. PICK k : x = <<b, k>>
      BY <2>6
    <3>2. k \in 1..(len(b) - cut[b]) /\ k \in (len(b) - cut[b] + 1) .. len(b)
      BY <2>2, <2>5, <3>1, HeldFacts
    <3>. QED  BY <1>0, <3>2
  <2>9. (H \cup D) \cap G = {}
    <3>. SUFFICES ASSUME NEW x \in G, x \in H \cup D PROVE FALSE
      OBVIOUS
    <3>1. PICK j \in E : \E k \in 1..len(j) : x = <<j, k>>
      BY HeldFacts
    <3>2. PICK k : x = <<j, k>>
      BY <3>1
    <3>3. x \notin D
      BY <2>1, <2>5, <3>2
    <3>4. x \notin H
      <4>1. k \notin 1..R[j].ring.len
        BY <2>2
      <4>. QED  BY <3>2, <4>1, HeldFacts
    <3>. QED  BY <3>3, <3>4
  <2>. HIDE DEF H, G
  <2>10. Cardinality(H \cup D) = Cardinality(H) + Cardinality(D) /\ IsFiniteSet(H \cup D)
    BY <2>3, <2>4, <2>8, DisjointSize
  <2>11. Cardinality((H \cup D) \cup G) = Cardinality(H) + Cardinality(D) + Cardinality(G)
    BY <2>3, <2>9, <2>10, DisjointSize
  <2>12. TotalLen(S, Sids) = TotalLen(R, Sids) + cut[b] + TotalLen(S, E)
    BY <2>4, <2>7, <2>11 DEF TotalLen, H, G
  <2>. QED  BY <1>0, <1>2, <2>1, <2>3, <2>12
<1>. QED  BY <1>3, <1>4

\* A handler that pushed leaves the rings within both bounds.
LEMMA PushBounded ==
    ASSUME TypeOK, MemoryBounded, NEW i \in Sids, NEW r \in ServerRings,
           NEW ended \in BOOLEAN, NEW T,
           r.cap = sessions[i].ring.cap, r.len <= r.cap,
           AfterPush([sessions EXCEPT ![i].ring = r], i, ended, T)
    PROVE  MemoryBounded'
<1>. DEFINE S == [sessions EXCEPT ![i].ring = r]
<1>1. sessions \in [Sids -> Session] /\ conns \in [Conns -> Conn]
  BY DEF TypeOK
<1>2. S \in [Sids -> Session] /\ S[i].ring = r /\ \A j \in Sids : j # i => S[j] = sessions[j]
  BY <1>1, PushedFacts
<1>. HIDE DEF S
<1>3. AfterPush(S, i, ended, T)
  BY DEF S
<1>4. \A j \in Sids : S[j].ring.len <= S[j].ring.cap
  BY <1>2 DEF MemoryBounded
<1>5. /\ PushEffect(S, i, ended) /\ sessions' \in [Sids -> Session]
      /\ \E cut \in Cuts : /\ TotalCapCut(S, cut)
                          /\ \A j \in Sids : sessions'[j].ring = TrimN(S[j].ring, cut[j])
  BY <1>1, <1>2, <1>3, AfterPushFacts
<1>6. \A j \in Sids : sessions'[j].ring.len <= sessions'[j].ring.cap
  BY <1>4, <1>5 DEF PushEffect, Shifted
<1>7. Fits(S) /\ Fits(sessions')
  BY <1>2, <1>4, <1>5, <1>6, Constants DEF Fits, Session
<1>8. TotalLen(sessions', Sids) <= TotalCap
  BY <1>2, <1>5, <1>7, CutReachesCap
<1>. QED  BY <1>6, <1>8 DEF MemoryBounded

\* A calm step leaves them there.
LEMMA CalmBounded ==
    ASSUME TypeOK, TypeOK', MemoryBounded, \A j \in Sids : Calm(j)
    PROVE  MemoryBounded'
<1>0. \A j \in Sids : sessions[j] \in Session /\ sessions'[j] \in Session
  BY DEF TypeOK
<1>1. ASSUME NEW j \in Sids
      PROVE  /\ sessions'[j].ring.len <= sessions'[j].ring.cap
             /\ sessions'[j].ring.len <= sessions[j].ring.len
  <2>1. /\ sessions[j].ring.start \in Nat /\ sessions[j].ring.len \in Nat
        /\ sessions[j].ring.cap \in Nat /\ sessions'[j].ring.start \in Nat
        /\ sessions'[j].ring.len \in Nat /\ sessions'[j].ring.cap \in Nat
    BY <1>0, Constants DEF Session
  <2>2. sessions[j].ring.len <= sessions[j].ring.cap
    BY DEF MemoryBounded
  <2>3. CASE Forgotten(j)
    <3>1. sessions'[j].ring.len = 0
      BY <2>3 DEF Forgotten, NoSession, NewN
    <3>. QED  BY <2>1, <3>1
  <2>4. CASE Left(j)
    BY <2>1, <2>2, <2>4 DEF Left, Holds, EndN
  <2>5. CASE Created(j)
    BY <2>1, <2>5 DEF Created, EndN
  <2>6. CASE Wrote(j) \/ HungUp(j)
    BY <2>1, <2>2, <2>6 DEF Wrote, HungUp
  <2>. QED  BY <2>3, <2>4, <2>5, <2>6 DEF Calm
<1>2. Fits(sessions) /\ Fits(sessions')
  <2>1. \A j \in Sids : sessions[j].ring.len <= sessions[j].ring.cap
    BY DEF MemoryBounded
  <2>. QED  BY <1>0, <1>1, <2>1, Constants DEF Fits, Session
<1>3. TotalLen(sessions', Sids) <= TotalLen(sessions, Sids)
  BY <1>1, <1>2, HeldShrinks
<1>4. /\ TotalLen(sessions, Sids) \in Nat /\ TotalLen(sessions', Sids) \in Nat /\ TotalCap \in Nat
      /\ TotalLen(sessions, Sids) <= TotalCap
  BY <1>2, HeldFacts, PtydAssumption DEF MemoryBounded
<1>5. TotalLen(sessions', Sids) <= TotalCap
  BY <1>3, <1>4
<1>. QED  BY <1>1, <1>5 DEF MemoryBounded

\* Every step keeps the rings within both bounds.
LEMMA MemoryStep == TypeOK /\ TypeOK' /\ MemoryBounded /\ [Next]_vars => MemoryBounded'
<1>. SUFFICES ASSUME TypeOK, TypeOK', MemoryBounded, [Next]_vars PROVE MemoryBounded'
  OBVIOUS
<1>1. ASSUME NEW i \in Sids, MasterReadable(i) PROVE MemoryBounded'
  <2>. DEFINE n == Least(pty[i].out, ReadMax)
              r == PushN(sessions[i].ring, n)
  <2>1. n \in Nat /\ sessions[i].ring \in ServerRings
    BY ReadFacts, OffsetTypes
  <2>2. AfterPush([sessions EXCEPT ![i].ring = r], i, FALSE, {})
    BY <1>1 DEF MasterReadable
  <2>3. sessions[i].ring.len <= sessions[i].ring.cap
    BY DEF MemoryBounded
  <2>. HIDE DEF n
  <2>4. r \in ServerRings /\ r.cap = sessions[i].ring.cap /\ r.len <= r.cap
    BY <2>1, <2>3, PushNFacts
  <2>. HIDE DEF r
  <2>. QED  BY <2>2, <2>4, PushBounded
<1>2. ASSUME NEW i \in Sids, TryReap(i) PROVE MemoryBounded'
  <2>1. PICK n, late \in Nat : Reaps(i, n, late)
    BY <1>2, ReapFacts
  <2>. DEFINE r == PushN(sessions[i].ring, n)
              T == sessions[i].kill_waiters \cup {owner}
  <2>2. AfterPush([sessions EXCEPT ![i].ring = r], i, TRUE, T)
    BY <2>1 DEF Reaps
  <2>3. sessions[i].ring.len <= sessions[i].ring.cap
    BY DEF MemoryBounded
  <2>4. r \in ServerRings /\ r.cap = sessions[i].ring.cap /\ r.len <= r.cap
    BY <2>1, <2>3 DEF Reaps
  <2>. HIDE DEF r, T
  <2>. QED  BY <2>2, <2>4, PushBounded
<1>3. ASSUME NEW i \in Sids, SessionStep(i) PROVE MemoryBounded'
  BY <1>1, <1>2, <1>3, SessionStepCalm, CalmBounded
<1>4. CASE UNCHANGED vars
  BY <1>4, NoUpdate, CalmBounded DEF vars
<1>5. CASE Next
  BY <1>3, <1>5, ConnStepCalm, RequestStepCalm, ProcessStepCalm, CalmBounded DEF Next
<1>. QED  BY <1>4, <1>5

(* Memory stays bounded, for every instance: whatever the sessions write   *)
(* and however many there are, the rings together hold at most TOTAL_CAP   *)
(* bytes after every handler and each at most its own size.                *)
THEOREM MemoryKept == Spec => []MemoryBounded
<1>1. Init => TypeOK /\ MemoryBounded
  <2>. SUFFICES ASSUME Init PROVE TypeOK /\ MemoryBounded
    OBVIOUS
  <2>1. \A j \in Sids : sessions[j].ring.len = 0 /\ sessions[j].ring.cap \in Nat
    BY Constants DEF Init, NoSession, NewN
  <2>2. Held(sessions, Sids) = {}
    <3>1. Fits(sessions)
      BY <2>1, Constants DEF Fits
    <3>. QED  BY <2>1, <3>1, HeldFacts
  <2>3. TotalLen(sessions, Sids) = 0 /\ TotalCap \in Nat
    BY <2>2, FS_EmptySet, PtydAssumption DEF TotalLen
  <2>. QED  BY <2>1, <2>3, TypeInit DEF MemoryBounded
<1>2. TypeOK /\ MemoryBounded /\ [Next]_vars => (TypeOK /\ MemoryBounded)'
  BY TypeStep, MemoryStep
<1>. QED  BY <1>1, <1>2, PTL DEF Spec
=============================================================================
