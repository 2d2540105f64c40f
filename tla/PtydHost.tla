------------------------------ MODULE PtydHost ------------------------------
(***************************************************************************)
(* k2-ptyd as a SessionHost: the kept window is the ring, the reader is    *)
(* the attached data connection at the next offset to send.                *)
(***************************************************************************)
EXTENDS Ptyd

HostView ==
    [i \in Sids |->
        LET s == sessions[i] IN
        [st     |-> s.st,
         start  |-> IF s.st = "none" THEN 0 ELSE s.ring.start,
         end    |-> IF s.st = "none" THEN 0 ELSE EndN(s.ring),
         reader |-> IF s.stream = NoConn THEN -1 ELSE s.sent]]

Host == INSTANCE SessionHost WITH live <- up, host <- HostView

(* Every behaviour of the server, with its connections, handshakes, rings, *)
(* timers, reaping and upgrades, is one of the session host: a reader is   *)
(* never carried over a gap, output never shrinks, a session's stream ends *)
(* once, an upgrade keeps sessions and offsets, and no session but an      *)
(* ended one disappears while the process lives.                           *)
ImplementsSessionHost == Host!Spec
=============================================================================
