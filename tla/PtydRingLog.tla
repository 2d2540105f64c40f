---------------------------- MODULE PtydRingLog ----------------------------
(***************************************************************************)
(* One ring driven by pushes, trims and self-upgrades in every order, next *)
(* to `log`, everything ever pushed: what the ring holds can be compared   *)
(* with the newest bytes written.                                          *)
(***************************************************************************)
EXTENDS PtydRing

CONSTANTS Byte,      \* the values a byte can take
          Caps,      \* ring capacities in use (clamp_ring keeps them >= MIN_RING)
          MaxChunk,  \* bound: the longest slice one push is given
          MaxLog     \* bound: how many bytes are ever pushed

ASSUME RingAssumption == /\ Caps \subseteq Nat \ {0}
                         /\ MaxChunk \in Nat
                         /\ MaxLog \in Nat

VARIABLES ring, log

vars == <<ring, log>>

Rings == [cap: Caps, start: Nat, buf: Seq(Byte)]

Chunks == UNION {[1..n -> Byte] : n \in 0..MaxChunk}

Init == /\ \E cap \in Caps : ring = New(cap)
        /\ log = <<>>

DoPush(bytes) == /\ Len(log) + Len(bytes) <= MaxLog
                 /\ ring' = Push(ring, bytes)
                 /\ log' = log \o bytes

DoTrim(n) == /\ ring' = TrimFront(ring, n)
             /\ UNCHANGED log

\* Upgrade: write_state copies the ring out, resume_server rebuilds it.
DoRestore(cut) == /\ ring' = Restore(ring.cap, ring.start, CopyFrom(ring, cut, ring.start))
                  /\ UNCHANGED log

Next == \/ \E bytes \in Chunks : DoPush(bytes)
        \/ \E n \in 0..MaxChunk : DoTrim(n)
        \/ \E cut \in 0..Len(ring.buf) : DoRestore(cut)

Spec == Init /\ [][Next]_vars

-----------------------------------------------------------------------------
(* The type of the two variables. *)
TypeOK == /\ ring \in Rings
          /\ log \in Seq(Byte)

(* The ring never holds more than its capacity. *)
Bounded == Len(ring.buf) <= ring.cap

(* The ring's end offset is the number of bytes ever pushed, and what it   *)
(* holds is exactly the newest part of the log: no push, wrap, trim or     *)
(* upgrade shifts, duplicates or drops a byte inside the window.           *)
HoldsTail == /\ End(ring) = Len(log)
             /\ ring.buf = Drain(log, ring.start)

(* Reading from any offset, however the VecDeque happens to be split,      *)
(* gives the log from that offset on, clamped to the window; it is what    *)
(* flush_stream sends and what write_state hands over.                     *)
ReadsExact ==
    \A from \in 0..(MaxLog + 1), cut \in 0..Len(ring.buf) :
        CopyFrom(ring, cut, from) = Drain(log, Clamp(ring.start, Len(log), from))

(* Offsets never go back: neither end of the window ever decreases, so an  *)
(* offset a client remembers keeps naming the same byte for ever.          *)
Monotonic == [][ring'.start >= ring.start /\ End(ring') >= End(ring)]_vars
=============================================================================
