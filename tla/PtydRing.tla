------------------------------ MODULE PtydRing ------------------------------
(***************************************************************************)
(* The per-session output ring of k2-ptyd (crates/k2-ptyd/src/ring.rs).    *)
(*                                                                         *)
(* A ring keeps the newest bytes of a session's output, at monotonic       *)
(* offsets: buf[1] is the byte at offset `start`.  The operators of the    *)
(* first half are the methods of `Ring`.  Everything that only needs       *)
(* offsets (the whole server) uses the second half: Extent forgets the     *)
(* bytes of a ring, and PushN, TrimN and RestoreN are Push, TrimFront and  *)
(* Restore on extents.  PtydRingProofs proves that they agree.             *)
(***************************************************************************)
EXTENDS Naturals, Sequences

(***************************************************************************)
(* The methods of Ring.                                                    *)
(***************************************************************************)
New(cap) == [cap |-> cap, start |-> 0, buf |-> <<>>]

End(r) == r.start + Len(r.buf)

\* saturating_sub
Less(a, b) == IF a > b THEN a - b ELSE 0

\* VecDeque::drain(..n)
Drain(s, n) == SubSeq(s, n + 1, Len(s))

\* Mutants of Push: the oldest bytes are not dropped; a slice that replaces
\* the whole ring forgets the bytes it replaced.
PushKeepsAll(r, bytes) == [r EXCEPT !.buf = @ \o bytes]

PushForgetsOld(r, bytes) ==
    IF Len(bytes) >= r.cap
    THEN LET skip == Len(bytes) - r.cap
         IN  [r EXCEPT !.start = @ + skip, !.buf = Drain(bytes, skip)]
    ELSE LET over == Less(Len(r.buf) + Len(bytes), r.cap)
         IN  [r EXCEPT !.start = @ + over, !.buf = Drain(@, over) \o bytes]

Push(r, bytes) ==
    IF Len(bytes) >= r.cap
    THEN LET skip == Len(bytes) - r.cap
         IN  [r EXCEPT !.start = @ + Len(r.buf) + skip,
                       !.buf = Drain(bytes, skip)]
    ELSE LET over == Less(Len(r.buf) + Len(bytes), r.cap)
         IN  [r EXCEPT !.start = @ + over,
                       !.buf = Drain(@, over) \o bytes]

\* Mutant: the start offset moves the wrong way.
TrimBackwards(r, n) ==
    LET m == IF n < Len(r.buf) THEN n ELSE Len(r.buf)
    IN  [r EXCEPT !.start = @ - m, !.buf = Drain(@, m)]

TrimFront(r, n) ==
    LET m == IF n < Len(r.buf) THEN n ELSE Len(r.buf)
    IN  [r EXCEPT !.start = @ + m, !.buf = Drain(@, m)]

\* Mutant: the handed-over offset is dropped.
RestoreAtZero(cap, start, data) ==
    LET over == Less(Len(data), cap)
    IN  [cap |-> cap, start |-> over, buf |-> Drain(data, over)]

\* The ring that a self-upgrade rebuilds from the bytes it handed over.
Restore(cap, start, data) ==
    LET over == Less(Len(data), cap)
    IN  [cap |-> cap, start |-> start + over, buf |-> Drain(data, over)]

\* Mutant: an offset below the window is let through.
ClampAbove(lo, hi, from) == IF from < hi THEN from ELSE hi

\* An offset brought into [start, end]: first the lower bound, then the upper.
Clamp(lo, hi, from) ==
    LET up == IF from > lo THEN from ELSE lo
    IN  IF up < hi THEN up ELSE hi

\* Mutant: the second run is forgotten.
SlicesFromFirst(r, cut, from) ==
    LET skip == Clamp(r.start, End(r), from) - r.start
        a    == SubSeq(r.buf, 1, cut)
        b    == Drain(r.buf, cut)
    IN  IF skip >= Len(a) THEN <<Drain(b, skip - Len(a)), <<>>>>
                          ELSE <<Drain(a, skip), <<>>>>

\* VecDeque holds buf in two runs; `cut` is the length of the first one.
SlicesFrom(r, cut, from) ==
    LET skip == Clamp(r.start, End(r), from) - r.start
        a    == SubSeq(r.buf, 1, cut)
        b    == Drain(r.buf, cut)
    IN  IF skip >= Len(a) THEN <<Drain(b, skip - Len(a)), <<>>>>
                          ELSE <<Drain(a, skip), b>>

CopyFrom(r, cut, from) ==
    LET s == SlicesFrom(r, cut, from) IN s[1] \o s[2]

(***************************************************************************)
(* The same on extents, for the modules that do not look at the bytes.     *)
(***************************************************************************)
Extent(r) == [cap |-> r.cap, start |-> r.start, len |-> Len(r.buf)]

Extents == [cap: Nat \ {0}, start: Nat, len: Nat]

NewN(cap) == [cap |-> cap, start |-> 0, len |-> 0]

EndN(e) == e.start + e.len

PushN(e, n) ==
    IF n >= e.cap
    THEN [e EXCEPT !.start = @ + e.len + (n - e.cap), !.len = e.cap]
    ELSE LET over == Less(e.len + n, e.cap)
         IN  [e EXCEPT !.start = @ + over, !.len = @ + n - over]

TrimN(e, n) ==
    LET m == IF n < e.len THEN n ELSE e.len
    IN  [e EXCEPT !.start = @ + m, !.len = @ - m]

RestoreN(e) ==
    LET over == Less(e.len, e.cap)
    IN  [e EXCEPT !.start = @ + over, !.len = @ - over]
=============================================================================
