-------------------------------- MODULE Ptyd --------------------------------
(***************************************************************************)
(* k2-ptyd, the process that owns the PTYs of the agents                   *)
(* (crates/k2-ptyd/src/server.rs and server/upgrade.rs).                   *)
(*                                                                         *)
(* One thread runs one poll(2) loop.  Every handler of the loop is one     *)
(* action here: accepting a connection, a frame read from a connection, a  *)
(* socket that became writable, a PTY master that became readable or hung  *)
(* up, a child that died, and every clause of timers().  A loop over the   *)
(* sessions or connections whose rounds are independent (on_signals reaps  *)
(* every dead child, flush_streams writes to every stream) is one action   *)
(* per round; the model then allows other handlers in between, which the   *)
(* program does not.                                                       *)
(*                                                                         *)
(* The environment is the kernel (PTYs, children, signals, the clock) and  *)
(* the clients, which may send any request at any time, stop reading, or   *)
(* vanish.  Bytes are counted, not stored: a ring is its extent, control   *)
(* replies queued on a connection are one flag (wbuf is not empty).        *)
(***************************************************************************)
EXTENDS Integers, FiniteSets, PtydRing

CONSTANTS
    Sids,           \* session ids a client may use
    NoSid,          \* "no session" in Kind::Data { sid: None }
    MaxConn,        \* bound: connections accepted per process image
    RingCaps,       \* ring sizes a spawn may ask for (after clamp_ring)
    RingMax,        \* MAX_RING
    TotalCap,       \* TOTAL_CAP, over all rings
    ReadMax,        \* MAX_READ_PER_WAKE
    DrainReads,     \* reads of drain_master (1024), of at least one byte each
    MaxOut,         \* bound: bytes a child writes to its PTY
    MaxInput,       \* bound: input bytes pending for one session
    InputMax,       \* what read_state accepts as pending input (CTRL_WBUF_MAX)
    HeaderMetas,    \* how many full-size metas fit the upgrade state (MAX_HEADER / MAX_META)
    FrameMetas,     \* how many full-size metas fit one reply frame (MAX_FRAME / MAX_META)
    MetaSizes,      \* meta sizes in use: 0 small, 1 full-size
    KillGrace,      \* ticks from kill to SIGKILL
    ShutdownGrace,  \* ticks from shutdown to SIGKILL (SHUTDOWN_GRACE_MS)
    Orphan,         \* cfg.orphan, in ticks
    ExitedTtl,      \* cfg.exited_ttl, in ticks
    Idle,           \* cfg.idle, in ticks
    Stimuli         \* what clients and kernel do in an instance

ASSUME PtydAssumption ==
    /\ NoSid \notin Sids
    /\ IsFiniteSet(Sids)
    /\ MaxConn \in Nat
    /\ RingMax \in Nat \ {0}
    /\ RingCaps \subseteq 1..RingMax
    /\ {TotalCap, DrainReads, MaxOut, MaxInput, InputMax, HeaderMetas, FrameMetas} \subseteq Nat
    /\ ReadMax \in Nat \ {0}
    /\ MetaSizes \subseteq {0, 1}
    /\ {KillGrace, ShutdownGrace, Orphan, ExitedTtl, Idle} \subseteq Nat
    /\ Stimuli \subseteq {"spawn", "meta", "kill", "ack", "upgrade", "shutdown",
                          "takeover", "attach", "input", "term", "die", "hangup",
                          "vanish", "time", "fault"}

Conns == 1..MaxConn
NoConn == 0
Never == -1          \* Option::<Instant>::None

VARIABLES
    up,               \* the process runs
    exit_now,         \* Server.exit_now: the loop ends after this round
    sessions,         \* Server.sessions
    conns,            \* Server.conns
    next_conn,        \* Server.next_conn
    owner,            \* Server.owner
    ownerless_since,  \* ticks since the owner left, or Never
    idle_since,       \* ticks since ptyd became idle, or Never
    shutting_down,    \* ticks until SIGKILL of a pending shutdown, or Never
    pty,              \* kernel: child process and terminal of each session
    term              \* kernel: a SIGTERM byte waits in the signal pipe

ownership == <<next_conn, owner, ownerless_since>>
lifecycle == <<up, exit_now, idle_since, shutting_down, term>>
vars == <<up, exit_now, sessions, conns, next_conn, owner, ownerless_since, idle_since,
          shutting_down, pty, term>>

-----------------------------------------------------------------------------
(***************************************************************************)
(* State.                                                                  *)
(***************************************************************************)
Session ==
    [st: {"none", "running", "exited"},  \* "none": no record under this sid
     master: BOOLEAN,                    \* the PTY master is open
     ring: [cap: 1..RingMax, start: Nat, len: Nat],
     input: Nat,                         \* bytes waiting for the master
     stream: Conns \cup {NoConn},        \* attached data connection
     sent: Nat,                          \* next ring offset to send to it
     kill_deadline: Nat \cup {Never},    \* ticks until SIGKILL
     kill_waiters: SUBSET Conns,         \* who waits for the kill's answer
     meta: {0, 1},
     when: Nat]                          \* ticks since the exit

Conn ==
    [kind: {"none", "hello", "owner", "data"},
     sid: Sids \cup {NoSid},             \* Kind::Data { sid }
     wbuf: BOOLEAN,                      \* control bytes are queued
     closing: BOOLEAN,
     gone: BOOLEAN]                      \* kernel: the peer closed its end

\* `child` is "zombie" between the death and waitpid; `slave`: someone still
\* has the terminal open; `killed`: SIGKILL was sent; `out`: bytes in the
\* terminal's buffer; `wrote`: all bytes ever accepted from the session;
\* `late`: bytes the reap found beyond its reads or that came during it.
Pty ==
    [child: {"none", "alive", "zombie"}, slave: BOOLEAN, killed: BOOLEAN,
     out: Nat, wrote: Nat, late: Nat]

NoSession ==
    [st |-> "none", master |-> FALSE, ring |-> NewN(1), input |-> 0,
     stream |-> NoConn, sent |-> 0, kill_deadline |-> Never,
     kill_waiters |-> {}, meta |-> 0, when |-> 0]

Absent ==
    [kind |-> "none", sid |-> NoSid, wbuf |-> FALSE, closing |-> FALSE, gone |-> FALSE]

NoPty == [child |-> "none", slave |-> FALSE, killed |-> FALSE, out |-> 0, wrote |-> 0, late |-> 0]

Running(S) == {i \in Sids : S[i].st = "running"}
Exited(S) == {i \in Sids : S[i].st = "exited"}

\* serve(): a fresh process.
Init == /\ up = TRUE
        /\ exit_now = FALSE
        /\ sessions = [i \in Sids |-> NoSession]
        /\ conns = [c \in Conns |-> Absent]
        /\ next_conn = 1
        /\ owner = NoConn
        /\ ownerless_since = 0
        /\ idle_since = 0
        /\ shutting_down = Never
        /\ pty = [i \in Sids |-> NoPty]
        /\ term = FALSE

-----------------------------------------------------------------------------
(***************************************************************************)
(* Connections.                                                            *)
(***************************************************************************)
Queue(C, T) ==
    [c \in Conns |-> IF c \in T /\ C[c].kind # "none" THEN [C[c] EXCEPT !.wbuf = TRUE] ELSE C[c]]

\* Close a stream's connection without its queued bytes and detach it.
Kick(C, T) ==
    [c \in Conns |-> IF c \in T /\ C[c].kind # "none"
                     THEN [C[c] EXCEPT !.closing = TRUE, !.wbuf = FALSE, !.sid = NoSid]
                     ELSE C[c]]

\* Mutant: the stream of a dropped connection is not cleared.
DetachNothing(S, C, c) == S

\* drop_conn, on the sessions.
Detach(S, C, c) ==
    [i \in Sids |-> IF C[c].kind = "data" /\ C[c].sid = i /\ S[i].stream = c
                    THEN [S[i] EXCEPT !.stream = NoConn] ELSE S[i]]

\* Mutants: any owner connection that goes away, an evicted one too, counts
\* as the owner leaving; the orphan clock is not started.
DropAnyOwner(c) ==
    /\ sessions' = Detach(sessions, conns, c)
    /\ conns' = [conns EXCEPT ![c] = Absent]
    /\ owner' = IF conns[c].kind = "owner" THEN NoConn ELSE owner
    /\ ownerless_since' = IF conns[c].kind = "owner" THEN 0 ELSE ownerless_since
    /\ UNCHANGED <<next_conn, lifecycle, pty>>

DropWithoutClock(c) ==
    /\ sessions' = Detach(sessions, conns, c)
    /\ conns' = [conns EXCEPT ![c] = Absent]
    /\ owner' = IF owner = c THEN NoConn ELSE owner
    /\ UNCHANGED <<next_conn, ownerless_since, lifecycle, pty>>

DropConn(c) ==
    /\ sessions' = Detach(sessions, conns, c)
    /\ conns' = [conns EXCEPT ![c] = Absent]
    /\ owner' = IF owner = c THEN NoConn ELSE owner
    /\ ownerless_since' = IF owner = c THEN 0 ELSE ownerless_since
    /\ UNCHANGED <<next_conn, lifecycle, pty>>

AcceptAll ==
    /\ up
    /\ next_conn \in Conns
    /\ conns' = [conns EXCEPT ![next_conn] =
                    [kind |-> "hello", sid |-> NoSid, wbuf |-> TRUE, closing |-> FALSE, gone |-> FALSE]]
    /\ next_conn' = next_conn + 1
    /\ UNCHANGED <<sessions, owner, ownerless_since, lifecycle, pty>>

\* conn_readable: end of file or an error.
ConnEof(c) ==
    /\ up
    /\ conns[c].kind # "none" /\ conns[c].gone
    /\ DropConn(c)

ReapClosedConn(c) ==
    /\ up
    /\ conns[c].kind # "none" /\ conns[c].closing /\ ~conns[c].wbuf
    /\ DropConn(c)

-----------------------------------------------------------------------------
(***************************************************************************)
(* Output: rings, the total cap, overruns, streams.                        *)
(***************************************************************************)
\* The bytes the rings of T hold, as pairs of session and position, so that
\* the sum of r.len() over the sessions is how many there are.
Held(S, T) == UNION {{i} \X (1 .. S[i].ring.len) : i \in T}

TotalLen(S, T) == Cardinality(Held(S, T))

\* Mutant: nothing is cut.
NoCut(S, cut) == \A i \in Sids : cut[i] = 0

\* How much enforce_total_cap may cut from each ring: it empties the largest
\* rings (E) one after another and shortens the next one (b).
TotalCapCut(S, cut) ==
    LET excess == TotalLen(S, Sids) - TotalCap
        len(i) == S[i].ring.len
    IN  IF excess <= 0
        THEN \A i \in Sids : cut[i] = 0
        ELSE \E E \in SUBSET Sids, b \in Sids :
                /\ b \notin E
                /\ \A e \in E, x \in Sids \ E : len(e) >= len(x)
                /\ \A x \in Sids \ E : len(b) >= len(x)
                /\ cut[b] = excess - TotalLen(S, E)
                /\ cut[b] \in 1..len(b)
                /\ \A i \in Sids \ {b} : cut[i] = IF i \in E THEN len(i) ELSE 0

Cuts == [Sids -> 0..RingMax]

Trimmed(S, cut) == [i \in Sids |-> [S[i] EXCEPT !.ring = TrimN(S[i].ring, cut[i])]]

\* Mutant: off by one.
OverrunByTwo(S) == {i \in Sids : S[i].stream # NoConn /\ S[i].sent + 1 < S[i].ring.start}

\* check_overrun: the streams whose next byte is no longer in the ring.
Overrun(S) == {i \in Sids : S[i].stream # NoConn /\ S[i].sent < S[i].ring.start}

CutStreams(S) ==
    [i \in Sids |-> IF i \in Overrun(S) THEN [S[i] EXCEPT !.stream = NoConn] ELSE S[i]]

\* The stream's connection is kicked and the owner gets an `overrun` event.
CutConns(S, C) ==
    Queue(Kick(C, {S[i].stream : i \in Overrun(S)}),
          IF Overrun(S) = {} THEN {} ELSE {owner})

\* flush_stream writes only when no control bytes are queued and the session
\* still streams to this very connection.
Flushable(S, C, c) ==
    /\ c \in Conns
    /\ C[c].kind = "data" /\ C[c].sid # NoSid /\ ~C[c].wbuf
    /\ S[C[c].sid].stream = c

Unsent(s) == EndN(s.ring) - Clamp(s.ring.start, EndN(s.ring), s.sent)

\* Mutant: end of file as soon as the session is over.
DrainedAtExit(s) == s.st = "exited"

\* The session is over and everything was sent.
Drained(s) == s.st = "exited" /\ s.sent >= EndN(s.ring)

Close(C, c) ==
    [d \in Conns |-> IF d = c THEN [C[d] EXCEPT !.closing = TRUE] ELSE C[d]]

FlushStream(S, C, c) ==
    IF ~Flushable(S, C, c) THEN sessions' = S /\ conns' = C
    ELSE LET i == C[c].sid
             Sent(k) == [S[i] EXCEPT !.sent = @ + k]
         IN
         \/ /\ C[c].gone /\ Unsent(S[i]) > 0          \* EPIPE
            /\ sessions' = S
            /\ conns' = Close(C, c)
         \/ \E k \in 0..Unsent(S[i]) :                \* k < Unsent: WouldBlock
            /\ C[c].gone => Unsent(S[i]) = 0
            /\ sessions' = [j \in Sids |-> IF j = i THEN Sent(k) ELSE S[j]]
            /\ conns' = IF Drained(Sent(k)) THEN Close(C, c) ELSE C

\* conn_writable, from POLLOUT and from flush_streams at the end of a round.
ConnWritable(c) ==
    /\ up
    /\ conns[c].kind # "none"
    /\ conns[c].wbuf \/ (conns[c].kind = "data" /\ conns[c].sid # NoSid)
    /\ IF conns[c].wbuf /\ conns[c].gone
       THEN /\ conns' = [conns EXCEPT ![c].closing = TRUE, ![c].wbuf = FALSE]
            /\ UNCHANGED sessions
       ELSE FlushStream(sessions, [conns EXCEPT ![c].wbuf = FALSE], c)
    /\ UNCHANGED <<ownership, lifecycle, pty>>

\* What try_reap makes of a session record.
Ended(s) ==
    [s EXCEPT !.st = "exited", !.master = FALSE, !.input = 0,
              !.kill_deadline = Never, !.kill_waiters = {}, !.when = 0]

\* The rest of a handler that pushed to a ring: enforce_total_cap, which ends
\* with check_overrun on every session; in try_reap the record is then closed
\* and the waiters of T and the owner are told; last, the stream is flushed.
AfterPush(S, i, ended, T) ==
    \E cut \in Cuts :
        /\ TotalCapCut(S, cut)
        /\ LET S1 == Trimmed(S, cut)
               S2 == CutStreams(S1)
               S3 == [j \in Sids |-> IF ended /\ j = i THEN Ended(S2[j]) ELSE S2[j]]
           IN  FlushStream(S3, Queue(CutConns(S1, conns), T), S3[i].stream)

Least(a, b) == IF a < b THEN a ELSE b

\* Mutants: the buffer's size is taken for the number of bytes read; a
\* master is read only while somebody is attached.
ReadWholeBuffer(i) ==
    /\ up
    /\ sessions[i].master /\ pty[i].out > 0
    /\ AfterPush([sessions EXCEPT ![i].ring = PushN(sessions[i].ring, ReadMax)], i, FALSE, {})
    /\ pty' = [pty EXCEPT ![i].out = @ - ReadMax]
    /\ UNCHANGED <<ownership, lifecycle>>

ReadIfAttached(i) ==
    LET n == Least(pty[i].out, ReadMax) IN
    /\ up
    /\ sessions[i].master /\ n > 0 /\ sessions[i].stream # NoConn
    /\ AfterPush([sessions EXCEPT ![i].ring = PushN(sessions[i].ring, n)], i, FALSE, {})
    /\ pty' = [pty EXCEPT ![i].out = @ - n]
    /\ UNCHANGED <<ownership, lifecycle>>

\* master_readable with bytes to read.
MasterReadable(i) ==
    LET n == Least(pty[i].out, ReadMax) IN
    /\ up
    /\ sessions[i].master /\ n > 0
    /\ AfterPush([sessions EXCEPT ![i].ring = PushN(sessions[i].ring, n)], i, FALSE, {})
    /\ pty' = [pty EXCEPT ![i].out = @ - n]
    /\ UNCHANGED <<ownership, lifecycle>>

Over(n, limit) == IF n > limit THEN n - limit ELSE 0

\* What processes that outlived the child may still write to the terminal
\* between waitpid and the close of the master.
LateWrites(s, p) == IF s.master /\ p.slave THEN 0..Over(MaxOut, p.wrote) ELSE {0}

\* Mutant: the master is closed unread.
CloseUndrained(s, p, late) == {0}

\* drain_master: how many bytes its reads may get.  They stop at an empty
\* terminal, at the latest after 1024 of them.
DrainMaster(s, p, late) ==
    IF s.master THEN Least(p.out, DrainReads) .. (p.out + late) ELSE {0}

Hung(p, late) ==
    [p EXCEPT !.child = "none", !.slave = FALSE, !.out = 0, !.wrote = p.wrote + late,
              !.late = late + Over(p.out, DrainReads)]

\* try_reap of a session whose child is dead (waitpid answers its pid).
\* Closing the master hangs up on whoever still has the terminal open; what
\* was not read by then is gone.
TryReap(i) ==
    /\ sessions[i].st = "running" /\ pty[i].child = "zombie"
    /\ \E late \in LateWrites(sessions[i], pty[i]) :
       \E n \in DrainMaster(sessions[i], pty[i], late) :
          /\ AfterPush([sessions EXCEPT ![i].ring = PushN(sessions[i].ring, n)], i, TRUE,
                       sessions[i].kill_waiters \cup {owner})
          /\ pty' = [pty EXCEPT ![i] = Hung(pty[i], late)]

\* One round of the reaping loop of on_signals (and of resume, after exec).
OnSigchld(i) ==
    /\ up
    /\ TryReap(i)
    /\ UNCHANGED <<ownership, lifecycle>>

\* master_readable at end of file or EIO: nobody has the terminal open.
MasterHup(i) ==
    /\ up
    /\ sessions[i].master /\ ~pty[i].slave /\ pty[i].out = 0
    /\ IF pty[i].child = "zombie" THEN TryReap(i)
       ELSE /\ sessions' = [sessions EXCEPT ![i].master = FALSE]
            /\ UNCHANGED <<conns, pty>>
    /\ UNCHANGED <<ownership, lifecycle>>

-----------------------------------------------------------------------------
(***************************************************************************)
(* Input.                                                                  *)
(***************************************************************************)
\* master_writable: any part of the input may fit; without a master it is dropped.
Written(s) == IF s.master THEN 0..s.input ELSE {0}

\* Bytes on an attached data connection (conn_readable, input_to).
InputTo(c) ==
    LET i    == conns[c].sid
        mine == sessions[i].stream = c /\ sessions[i].st = "running" /\ sessions[i].master
        s    == IF mine THEN [sessions[i] EXCEPT !.input = @ + 1] ELSE sessions[i]
    IN  /\ up /\ "input" \in Stimuli
        /\ conns[c].kind = "data" /\ i # NoSid
        /\ sessions[i].st # "none" /\ sessions[i].input < MaxInput
        /\ \E left \in Written(s) : sessions' = [sessions EXCEPT ![i] = [s EXCEPT !.input = left]]
        /\ UNCHANGED <<conns, ownership, lifecycle, pty>>

MasterWritable(i) ==
    /\ up
    /\ sessions[i].master /\ sessions[i].input > 0
    /\ \E left \in 0..(sessions[i].input - 1) :
          sessions' = [sessions EXCEPT ![i].input = left]
    /\ UNCHANGED <<conns, ownership, lifecycle, pty>>

-----------------------------------------------------------------------------
(***************************************************************************)
(* The handshake.  A client sends one hello per connection                 *)
(* (k2-ptyd client.rs, Client::connect and Client::attach).                *)
(***************************************************************************)
Hello(c) == up /\ conns[c].kind = "hello" /\ ~conns[c].closing

\* bad_mac, proto, an unexpected frame; busy: an owner and no takeover.
HelloRefused(c) ==
    /\ Hello(c)
    /\ conns' = [conns EXCEPT ![c].wbuf = TRUE, ![c].closing = TRUE]
    /\ UNCHANGED <<sessions, ownership, lifecycle, pty>>

HelloOwner(c) ==
    /\ Hello(c)
    /\ owner # NoConn => "takeover" \in Stimuli
    /\ conns' = [d \in Conns |->
                    CASE d = c     -> [conns[d] EXCEPT !.kind = "owner", !.wbuf = TRUE]
                      [] d = owner -> [conns[d] EXCEPT !.wbuf = TRUE, !.closing = TRUE]
                      [] OTHER     -> conns[d]]
    /\ owner' = c
    /\ ownerless_since' = Never
    /\ UNCHANGED <<sessions, next_conn, lifecycle, pty>>

HelloData(c) ==
    /\ Hello(c)
    /\ conns' = [conns EXCEPT ![c].kind = "data", ![c].wbuf = TRUE]
    /\ UNCHANGED <<sessions, ownership, lifecycle, pty>>

\* on_attach; a client attaches once per connection.
Attach(c, i, from) ==
    LET s == sessions[i] IN
    /\ up /\ "attach" \in Stimuli
    /\ conns[c].kind = "data" /\ conns[c].sid = NoSid /\ ~conns[c].closing
    /\ s.st # "none"
    /\ sessions' = [sessions EXCEPT ![i].stream = c,
                                    ![i].sent = Clamp(s.ring.start, EndN(s.ring), from)]
    /\ conns' = Kick([conns EXCEPT ![c].sid = i, ![c].wbuf = TRUE], {s.stream} \ {c})
    /\ UNCHANGED <<ownership, lifecycle, pty>>

\* Any other frame on a data connection that is not attached: attach to an
\* unknown session, or what a client whose stream was just cut still sends as
\* input.
DataAnswered(c) ==
    /\ up
    /\ conns[c].kind = "data" /\ conns[c].sid = NoSid
    /\ conns' = Queue(conns, {c})
    /\ UNCHANGED <<sessions, ownership, lifecycle, pty>>

-----------------------------------------------------------------------------
(***************************************************************************)
(* Requests on an owner connection.  handle_frame dispatches on the kind   *)
(* of the connection; being the current owner is not checked.              *)
(***************************************************************************)
FromOwner(c, request) == up /\ conns[c].kind = "owner" /\ request \in Stimuli

\* Every request that only answers: ping, resize, fg_pgrp, take_fd, signal
\* (its effect is the child's, see ChildExits), kill of an exited session,
\* and every error return.
RequestAnswered(c) ==
    /\ up /\ conns[c].kind = "owner"
    /\ conns' = Queue(conns, {c})
    /\ UNCHANGED <<sessions, ownership, lifecycle, pty>>

\* list: the answer carries every session's meta; an answer over MAX_FRAME
\* does not encode, and queue() then closes the connection.
ListFits(S) == Cardinality({i \in Sids : S[i].meta = 1}) <= FrameMetas

List(c) ==
    /\ FromOwner(c, "meta")
    /\ conns' = IF ListFits(sessions) THEN Queue(conns, {c})
                ELSE Close(conns, c)
    /\ UNCHANGED <<sessions, ownership, lifecycle, pty>>

UpdateMeta(c, i, meta) ==
    /\ FromOwner(c, "meta")
    /\ sessions[i].st # "none"
    /\ sessions' = [sessions EXCEPT ![i].meta = meta]
    /\ conns' = Queue(conns, {c})
    /\ UNCHANGED <<ownership, lifecycle, pty>>

Spawn(c, i, cap, meta) ==
    /\ FromOwner(c, "spawn")
    /\ shutting_down = Never
    /\ sessions[i].st = "none"
    /\ sessions' = [sessions EXCEPT ![i] =
                       [NoSession EXCEPT !.st = "running", !.master = TRUE,
                                         !.ring = NewN(cap), !.meta = meta]]
    /\ pty' = [pty EXCEPT ![i] = [NoPty EXCEPT !.child = "alive", !.slave = TRUE]]
    /\ idle_since' = Never
    /\ conns' = Queue(conns, {c})
    /\ UNCHANGED <<ownership, up, exit_now, shutting_down, term>>

\* SIGHUP now (the child may ignore it), SIGKILL at the deadline; answered by
\* try_reap.
Kill(c, i) ==
    /\ FromOwner(c, "kill")
    /\ sessions[i].st = "running"
    /\ sessions' = [sessions EXCEPT
                       ![i].kill_deadline = IF @ = Never THEN KillGrace ELSE @,
                       ![i].kill_waiters = @ \cup {c}]
    /\ UNCHANGED <<conns, ownership, lifecycle, pty>>

\* Mutant: a running session may be acked too.
AckAny(c, i) ==
    /\ FromOwner(c, "ack")
    /\ sessions[i].st # "none"
    /\ sessions' = [sessions EXCEPT ![i] = NoSession]
    /\ conns' = Queue(conns, {c})
    /\ UNCHANGED <<ownership, lifecycle, pty>>

AckExit(c, i) ==
    /\ FromOwner(c, "ack")
    /\ sessions[i].st = "exited"
    /\ sessions' = [sessions EXCEPT ![i] = NoSession]
    /\ conns' = Queue(conns, {c})
    /\ UNCHANGED <<ownership, lifecycle, pty>>

-----------------------------------------------------------------------------
(***************************************************************************)
(* Shutdown and exit.                                                      *)
(***************************************************************************)
\* The loop ends and the process exits: its memory and sockets are gone, and
\* a child that is left is nobody's any more.
ExitProcess ==
    /\ up' = FALSE
    /\ exit_now' = FALSE
    /\ sessions' = [i \in Sids |-> NoSession]
    /\ conns' = [c \in Conns |-> Absent]
    /\ next_conn' = 1
    /\ owner' = NoConn
    /\ ownerless_since' = Never
    /\ idle_since' = Never
    /\ shutting_down' = Never
    /\ pty' = [i \in Sids |-> NoPty]
    /\ term' = FALSE

\* Mutant: no deadline is set, SIGHUP is all there is.
HangupOnly ==
    /\ exit_now' = (Running(sessions) = {})
    /\ UNCHANGED <<up, sessions, conns, ownership, idle_since, shutting_down, pty>>

\* SIGHUP to every running session (a child may ignore it); with none
\* running the loop ends after this round.
BeginShutdown ==
    /\ IF Running(sessions) = {}
       THEN exit_now' = TRUE /\ UNCHANGED shutting_down
       ELSE shutting_down' = ShutdownGrace /\ UNCHANGED exit_now
    /\ UNCHANGED <<up, sessions, conns, ownership, idle_since, pty>>

\* shutdown { end_sessions: true }, or with no session running.
Shutdown(c) ==
    /\ FromOwner(c, "shutdown")
    /\ BeginShutdown
    /\ UNCHANGED term

\* on_signals with SIGTERM or SIGINT; its loop has reaped every dead child.
OnSigterm ==
    /\ up /\ term
    /\ \A i \in Running(sessions) : pty[i].child = "alive"
    /\ term' = FALSE
    /\ IF shutting_down = Never THEN BeginShutdown
       ELSE UNCHANGED <<up, exit_now, sessions, conns, ownership, idle_since, shutting_down, pty>>

\* The round in which a handler set exit_now is over.
LoopEnds ==
    /\ up /\ exit_now
    /\ ExitProcess

\* serve(): a launcher starts the next ptyd.
Serve ==
    /\ ~up
    /\ up' = TRUE
    /\ ownerless_since' = 0
    /\ idle_since' = 0
    /\ UNCHANGED <<exit_now, sessions, conns, next_conn, owner, shutting_down, pty, term>>

-----------------------------------------------------------------------------
(***************************************************************************)
(* Self-upgrade (server/upgrade.rs).  A refusal is RequestAnswered; input  *)
(* that waits on a data connection is read first, an InputTo step.         *)
(***************************************************************************)
\* Mutants: the old connection ids survive; a ring starts empty at the old
\* start, or full at offset 0; kill waiters survive.
ResumeStreams(s) ==
    [s EXCEPT !.ring = RestoreN(s.ring), !.kill_deadline = Never, !.kill_waiters = {}]

ResumeEmpty(s) ==
    [s EXCEPT !.ring = [s.ring EXCEPT !.len = 0], !.stream = NoConn, !.sent = 0,
              !.kill_deadline = Never, !.kill_waiters = {}]

ResumeAtZero(s) ==
    [s EXCEPT !.ring = [s.ring EXCEPT !.start = 0], !.stream = NoConn, !.sent = 0,
              !.kill_deadline = Never, !.kill_waiters = {}]

ResumeWaiters(s) ==
    [s EXCEPT !.ring = RestoreN(s.ring), !.stream = NoConn, !.sent = 0,
              !.kill_deadline = Never]

\* What resume_server makes of the state that write_state handed over.
Resumed(s) ==
    [s EXCEPT !.ring = RestoreN(s.ring), !.stream = NoConn, !.sent = 0,
              !.kill_deadline = Never, !.kill_waiters = {}]

\* read_state refuses a header over MAX_HEADER and a session with too much
\* pending input; write_state checks neither.
ReadState(S) ==
    /\ Cardinality({i \in Sids : S[i].meta = 1}) <= HeaderMetas
    /\ \A i \in Sids : S[i].input <= InputMax

UpgradeAllowed(c) ==
    /\ FromOwner(c, "upgrade")
    /\ shutting_down = Never
    /\ \A i \in Sids : sessions[i].kill_deadline = Never

\* exec succeeded and the new image resumes.  It handles nothing until then,
\* so exec and resume are one step: same pid, same children, no
\* connections, a new signal pipe.
UpgradeResumes(c) ==
    /\ UpgradeAllowed(c) /\ ReadState(sessions)
    /\ sessions' = [i \in Sids |-> Resumed(sessions[i])]
    /\ conns' = [d \in Conns |-> Absent]
    /\ next_conn' = 1
    /\ owner' = NoConn
    /\ ownerless_since' = 0
    /\ idle_since' = IF \A i \in Sids : sessions[i].st = "none" THEN 0 ELSE Never
    /\ exit_now' = FALSE
    /\ term' = FALSE
    /\ UNCHANGED <<up, shutting_down, pty>>

\* exec succeeded but resume_server fails and the new image exits: it refuses
\* the state, or the kernel refuses it an inherited descriptor, a read of the
\* state or the signal pipe.
UpgradeDies(c) ==
    /\ UpgradeAllowed(c)
    /\ ~ReadState(sessions) \/ "fault" \in Stimuli
    /\ ExitProcess

\* exec succeeded and SIGTERM or SIGINT comes before install_signals: exec
\* has reset its handler, so the default action ends the new image.
UpgradeKilled(c) ==
    /\ UpgradeAllowed(c) /\ "term" \in Stimuli
    /\ ExitProcess

\* exec failed: every connection was dropped, the old image serves on.
UpgradeExecFails(c) ==
    /\ UpgradeAllowed(c)
    /\ sessions' = [i \in Sids |-> [sessions[i] EXCEPT !.stream = NoConn]]
    /\ conns' = [d \in Conns |-> Absent]
    /\ owner' = NoConn
    /\ ownerless_since' = IF owner = NoConn THEN ownerless_since ELSE 0
    /\ UNCHANGED <<next_conn, lifecycle, pty>>

-----------------------------------------------------------------------------
(***************************************************************************)
(* timers(), clause by clause.                                             *)
(***************************************************************************)
\* Mutant: the deadline passes without SIGKILL.
TimerForgets(i) ==
    /\ up
    /\ sessions[i].st = "running" /\ sessions[i].kill_deadline = 0
    /\ sessions' = [sessions EXCEPT ![i].kill_deadline = Never]
    /\ UNCHANGED <<conns, ownership, lifecycle, pty>>

TimerKill(i) ==
    /\ up
    /\ sessions[i].st = "running" /\ sessions[i].kill_deadline = 0
    /\ IF pty[i].child = "zombie" THEN TryReap(i)
       ELSE /\ sessions' = [sessions EXCEPT ![i].kill_deadline = Never]
            /\ pty' = [pty EXCEPT ![i].killed = TRUE]
            /\ UNCHANGED conns
    /\ UNCHANGED <<ownership, lifecycle>>

\* Mutant: ptyd exits at the deadline without waiting for the children.
TimerGivesUp ==
    /\ up
    /\ shutting_down = 0
    /\ ExitProcess

\* SIGKILL again every 200 ms until every child is reaped (its reaping loop
\* is OnSigchld); then answer and exit.
TimerShutdown ==
    /\ up
    /\ shutting_down # Never
    /\ \/ /\ Running(sessions) = {}
          /\ ExitProcess
       \/ /\ Running(sessions) # {} /\ shutting_down = 0
          /\ pty' = [i \in Sids |-> IF i \in Running(sessions)
                                    THEN [pty[i] EXCEPT !.killed = TRUE] ELSE pty[i]]
          /\ shutting_down' = 1
          /\ UNCHANGED <<up, exit_now, sessions, conns, ownership, idle_since, term>>

TimerExitedTtl ==
    LET old == {i \in Exited(sessions) : sessions[i].when >= ExitedTtl} IN
    /\ up
    /\ owner = NoConn /\ old # {}
    /\ sessions' = [i \in Sids |-> IF i \in old THEN NoSession ELSE sessions[i]]
    /\ UNCHANGED <<conns, ownership, lifecycle, pty>>

TimerOrphan ==
    /\ up
    /\ owner = NoConn /\ shutting_down = Never
    /\ ownerless_since # Never /\ ownerless_since >= Orphan
    /\ Running(sessions) # {}
    /\ BeginShutdown
    /\ UNCHANGED term

IsIdle == (\A i \in Sids : sessions[i].st = "none") /\ owner = NoConn /\ shutting_down = Never

TimerIdle ==
    /\ up
    /\ \/ /\ IsIdle /\ idle_since # Never /\ idle_since >= Idle
          /\ ExitProcess
       \/ /\ idle_since' = IF IsIdle THEN 0 ELSE Never
          /\ IsIdle <=> idle_since = Never
          /\ UNCHANGED <<up, exit_now, sessions, conns, ownership, shutting_down, pty, term>>

-----------------------------------------------------------------------------
(***************************************************************************)
(* The environment: clock, peers, children, signals.                       *)
(***************************************************************************)
Greatest(a, b) == IF a > b THEN a ELSE b

\* Ages are cut off where no clause of timers() tells them apart any more.
Older(age, limit) == IF age = Never THEN Never ELSE Least(age + 1, limit)
Sooner(left) == IF left > 0 THEN left - 1 ELSE left

Tick ==
    /\ up /\ "time" \in Stimuli
    /\ sessions' = [i \in Sids |-> [sessions[i] EXCEPT
                       !.kill_deadline = Sooner(sessions[i].kill_deadline),
                       !.when = IF sessions[i].st = "exited" THEN Least(sessions[i].when + 1, ExitedTtl) ELSE @]]
    /\ ownerless_since' = Older(ownerless_since, Greatest(Orphan, ExitedTtl))
    /\ idle_since' = Older(idle_since, Idle)
    /\ shutting_down' = Sooner(shutting_down)
    /\ UNCHANGED <<up, exit_now, conns, next_conn, owner, pty, term>>

PeerVanishes(c) ==
    /\ "vanish" \in Stimuli
    /\ conns[c].kind # "none" /\ ~conns[c].gone
    /\ conns' = [conns EXCEPT ![c].gone = TRUE]
    /\ UNCHANGED <<sessions, ownership, lifecycle, pty>>

\* The session's processes write while the terminal is open on both ends.
ChildWrites(i) ==
    /\ up
    /\ pty[i].slave /\ sessions[i].master
    /\ pty[i].wrote < MaxOut
    /\ pty' = [pty EXCEPT ![i].out = @ + 1, ![i].wrote = @ + 1]
    /\ UNCHANGED <<sessions, conns, ownership, lifecycle>>

\* On its own, on any signal, or because of SIGKILL; grandchildren may keep
\* the terminal open.
ChildExits(i) ==
    /\ pty[i].child = "alive"
    /\ "die" \in Stimuli \/ pty[i].killed
    /\ \E s \in {pty[i].slave, FALSE} :
          pty' = [pty EXCEPT ![i].child = "zombie", ![i].slave = s]
    /\ UNCHANGED <<sessions, conns, ownership, lifecycle>>

KilledChildExits(i) == pty[i].killed /\ ChildExits(i)

SlaveCloses(i) ==
    /\ "hangup" \in Stimuli
    /\ pty[i].slave
    /\ pty' = [pty EXCEPT ![i].slave = FALSE]
    /\ UNCHANGED <<sessions, conns, ownership, lifecycle>>

Sigterm ==
    /\ up /\ "term" \in Stimuli /\ ~term
    /\ term' = TRUE
    /\ UNCHANGED <<up, exit_now, sessions, conns, ownership, idle_since, shutting_down, pty>>

-----------------------------------------------------------------------------
ConnStep(c) ==
    \/ ConnEof(c) \/ ReapClosedConn(c) \/ ConnWritable(c)
    \/ HelloRefused(c) \/ HelloOwner(c) \/ HelloData(c)
    \/ InputTo(c) \/ DataAnswered(c) \/ PeerVanishes(c)
    \/ \E i \in Sids : \E from \in 0..MaxOut : Attach(c, i, from)

RequestStep(c) ==
    \/ RequestAnswered(c) \/ List(c) \/ Shutdown(c)
    \/ UpgradeResumes(c) \/ UpgradeDies(c) \/ UpgradeKilled(c) \/ UpgradeExecFails(c)
    \/ \E i \in Sids :
          \/ Kill(c, i) \/ AckExit(c, i)
          \/ \E meta \in MetaSizes :
                UpdateMeta(c, i, meta) \/ \E cap \in RingCaps : Spawn(c, i, cap, meta)

SessionStep(i) ==
    \/ MasterReadable(i) \/ MasterHup(i) \/ MasterWritable(i)
    \/ OnSigchld(i) \/ TimerKill(i)
    \/ ChildWrites(i) \/ ChildExits(i) \/ SlaveCloses(i)

Next ==
    \/ AcceptAll \/ Serve \/ OnSigterm \/ LoopEnds
    \/ TimerShutdown \/ TimerExitedTtl \/ TimerOrphan \/ TimerIdle
    \/ Tick \/ Sigterm
    \/ \E c \in Conns : ConnStep(c) \/ RequestStep(c)
    \/ \E i \in Sids : SessionStep(i)

Spec == Init /\ [][Next]_vars

\* The poll loop comes round (at most 1 s apart, next_timeout_ms) and then
\* services what is ready and due; time passes; SIGKILL kills.
Fairness ==
    /\ WF_vars(Tick)
    /\ WF_vars(OnSigterm) /\ WF_vars(LoopEnds)
    /\ WF_vars(TimerShutdown) /\ WF_vars(TimerExitedTtl)
    /\ WF_vars(TimerOrphan) /\ WF_vars(TimerIdle)
    /\ \A i \in Sids : /\ WF_vars(MasterReadable(i))
                       /\ WF_vars(OnSigchld(i))
                       /\ WF_vars(TimerKill(i))
                       /\ WF_vars(KilledChildExits(i))

FairSpec == Spec /\ Fairness

-----------------------------------------------------------------------------
(***************************************************************************)
(* Properties.                                                             *)
(***************************************************************************)
(* The types of the variables. *)
TypeOK ==
    /\ up \in BOOLEAN /\ exit_now \in BOOLEAN
    /\ sessions \in [Sids -> Session]
    /\ conns \in [Conns -> Conn]
    /\ next_conn \in Nat /\ next_conn > 0
    /\ owner \in Conns \cup {NoConn}
    /\ ownerless_since \in Nat \cup {Never}
    /\ idle_since \in Nat \cup {Never}
    /\ shutting_down \in Nat \cup {Never}
    /\ pty \in [Sids -> Pty]
    /\ term \in BOOLEAN

(* `sessions` and `conns` agree on who streams what: a session's stream is *)
(* a live data connection attached to exactly that session, whatever order *)
(* attaches, overruns, acks, drops and upgrades came in.  So two sessions  *)
(* never share a connection and no byte goes to a wrong or dead one.       *)
StreamOK ==
    \A i \in Sids :
        sessions[i].stream # NoConn =>
            /\ sessions[i].st # "none"
            /\ conns[sessions[i].stream].kind = "data"
            /\ conns[sessions[i].stream].sid = i

(* No silent gap: the next byte an attached stream is to get is still in   *)
(* the ring.  slices_from would otherwise clamp and skip bytes without the *)
(* reader noticing; every handler that pushes to or trims a ring must have *)
(* cut the overrun streams before anything is flushed.                     *)
NoSilentGap ==
    \A i \in Sids :
        sessions[i].stream # NoConn =>
            /\ sessions[i].ring.start <= sessions[i].sent
            /\ sessions[i].sent <= EndN(sessions[i].ring)

(* Never loses output: everything a session's processes wrote to their     *)
(* terminal is counted in the ring or still in the kernel's buffer, in a   *)
(* running session, after its exit and across upgrades.  Only the reap may *)
(* lose anything, and at most what lay beyond its 1024 reads and what      *)
(* processes that outlived the child wrote while it drained and closed the *)
(* terminal: what the child left there itself is kept.                     *)
NeverLosesOutput ==
    \A i \in Sids :
        sessions[i].st # "none" =>
            pty[i].wrote - (EndN(sessions[i].ring) + pty[i].out)
                \in 0 .. (IF sessions[i].st = "exited" THEN pty[i].late ELSE 0)

(* End of file means complete: a stream's connection that ptyd closes while *)
(* the reader is there has been sent all output of a session that is over. *)
EofMeansComplete ==
    \A i \in Sids :
        LET c == sessions[i].stream IN
        (c # NoConn /\ conns[c].closing /\ ~conns[c].gone) =>
            /\ sessions[i].st = "exited"
            /\ sessions[i].sent = EndN(sessions[i].ring)

(* The rings together stay within TOTAL_CAP and each within its own size.  *)
MemoryBounded ==
    /\ TotalLen(sessions, Sids) <= TotalCap
    /\ \A i \in Sids : sessions[i].ring.len <= sessions[i].ring.cap

(* No agent is lost: a child that is alive or waits to be reaped always    *)
(* has a running record, so it is polled, reaped and listed; no ack, expiry *)
(* or upgrade forgets a session before its child.                          *)
ChildTracked ==
    \A i \in Sids : pty[i].child # "none" => up /\ sessions[i].st = "running"

(* At most one owner counts: the current owner's connection exists, every  *)
(* other owner connection is on its way out, and the orphan clock runs     *)
(* exactly while there is no owner.                                        *)
OwnerLease ==
    /\ owner # NoConn => conns[owner].kind = "owner"
    /\ \A c \in Conns : conns[c].kind = "owner" /\ c # owner => conns[c].closing
    /\ up => ((owner = NoConn) <=> (ownerless_since # Never))

(* Every pending kill answer is addressed to a connection id of this       *)
(* process image: after an upgrade restarts the ids at 1, no old waiter is *)
(* left that would answer a stranger.                                      *)
WaitersKnown ==
    \A i \in Sids : \A w \in sessions[i].kill_waiters : w < next_conn

(* A running session only ever becomes an exited one: no request, timer,   *)
(* signal or shutdown makes its record vanish, and ptyd does not exit      *)
(* before its sessions did.  The only way is an upgrade whose new image    *)
(* ends before it serves: its resume fails or a signal kills it, and       *)
(* nothing can be undone any more.  (For a session spawned after exit_now  *)
(* was set see NobodyOrphaned.)                                            *)
RunningOnlyExits ==
    [][\A i \in Sids : (sessions[i].st = "running" /\ ~exit_now) =>
                           \/ sessions'[i].st \in {"running", "exited"}
                           \/ \E c \in Conns : UpgradeDies(c) \/ UpgradeKilled(c)]_vars

(* ptyd never exits while a child of it is alive.  on_signals says so of   *)
(* SIGTERM, which ends the agents with grace rather than orphaning them,   *)
(* and upgrade.rs of an upgrade, which either changes nothing or leaves    *)
(* the old image serving.                                                  *)
NobodyOrphaned ==
    [][\A i \in Sids : pty[i].child = "alive" => up']_vars

(* Only one owner at a time: a session is spawned only at the request of   *)
(* the current owner, never of one that a takeover evicted.                *)
OnlyOwnerSpawns ==
    [][\A i \in Sids :
          (sessions[i].st = "none" /\ sessions'[i].st = "running") =>
              \E c \in Conns \cap {owner}, cap \in RingCaps, meta \in MetaSizes :
                  Spawn(c, i, cap, meta)]_vars

(* Offsets never go back while a session's record lives, so a client that  *)
(* re-attaches at the offset it reached continues with the right byte,     *)
(* upgrades and exits included.                                            *)
OffsetsMonotonic ==
    [][\A i \in Sids :
          (sessions[i].st # "none" /\ sessions'[i].st # "none") =>
              /\ sessions'[i].ring.start >= sessions[i].ring.start
              /\ EndN(sessions'[i].ring) >= EndN(sessions[i].ring)]_vars

(* A kill ends: once kill was asked for, the session exits, though the     *)
(* child may ignore SIGHUP and the client may be gone.                     *)
KillEnds ==
    \A i \in Sids : (sessions[i].kill_deadline # Never) ~> (sessions[i].st # "running")

(* Masters are always read: output of a session reaches its ring whether   *)
(* or not anybody is connected, attached or reading.                       *)
MastersAlwaysRead ==
    \A i \in Sids : (pty[i].out > 0) ~> (pty[i].out = 0)

(* A ptyd that is left alone for good ends: the orphan timeout ends its    *)
(* sessions, exited records expire, and it exits idle.                     *)
AbandonedPtydExits ==
    <>[](up => owner = NoConn) => []<>(~up \/ owner # NoConn)

(* SIGTERM is an explicit stop: the sessions end and ptyd exits.           *)
TermStops == term ~> ~up
=============================================================================
