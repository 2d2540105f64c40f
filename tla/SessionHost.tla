----------------------------- MODULE SessionHost -----------------------------
(***************************************************************************)
(* What k2-ptyd promises its clients, without connections, rings, timers   *)
(* or signals.  A session is a growing stream of output of which a window  *)
(* is kept.  One reader at a time follows it: it is attached at a position *)
(* in the window and gets every byte from there, in order, or is cut off;  *)
(* it is never carried over a byte that was dropped.  A session's stream   *)
(* ends once, and only an ended session is forgotten while the host lives. *)
(***************************************************************************)
EXTENDS Integers

CONSTANT Sids

VARIABLES
    live,     \* the host runs
    host      \* per session: st, the window start..end, the reader

NoReader == -1

Gone == [st |-> "none", start |-> 0, end |-> 0, reader |-> NoReader]
Fresh == [Gone EXCEPT !.st = "running"]

Starts(s, t) == s.st = "none" /\ t = Fresh

Attaches(s, t) ==
    /\ s.st # "none"
    /\ \E p \in s.start .. s.end : t = [s EXCEPT !.reader = p]

\* Output arrives and old output is dropped, the reader moves on or is cut
\* off, the session ends: any of these together, as one push to a full host
\* drops output of other sessions, cuts their readers and serves its own.
Streams(s, t) ==
    /\ s.st # "none"
    /\ t.st \in {s.st} \cup (IF s.st = "running" THEN {"exited"} ELSE {})
    /\ s.start <= t.start /\ t.start <= t.end
    /\ IF s.st = "exited" THEN t.end = s.end ELSE s.end <= t.end
    /\ t.reader # NoReader =>
          /\ s.reader # NoReader
          /\ t.start <= s.reader
          /\ s.reader <= t.reader /\ t.reader <= t.end

Forgotten(s, t) == s.st = "exited" /\ t = Gone

SessionNext(s, t) ==
    t = s \/ Starts(s, t) \/ Attaches(s, t) \/ Streams(s, t) \/ Forgotten(s, t)

Init ==
    /\ live = TRUE
    /\ host = [i \in Sids |-> Gone]

SessionsMove ==
    /\ live /\ live'
    /\ DOMAIN host' = Sids
    /\ \A i \in Sids : SessionNext(host[i], host'[i])

\* The host ends with everything it has; a new one starts empty.
HostEnds ==
    /\ live /\ ~live'
    /\ host' = [i \in Sids |-> Gone]

HostStarts ==
    /\ ~live /\ live'
    /\ UNCHANGED host

Next == SessionsMove \/ HostEnds \/ HostStarts

Spec == Init /\ [][Next]_<<live, host>>
=============================================================================
