------------------------------- MODULE TcpBuffer -------------------------------
(***************************************************************************)
(* The buffer that keeps the incomplete command of a Redis client between  *)
(* two reads (TcpBuffer.cpp), as operations on its two positions: the      *)
(* bytes it holds are those from start up to, not including, end.          *)
(***************************************************************************)
EXTENDS Integers

CONSTANT Capacity          \* m_buffer.size(), 8192

ASSUME CapacityAssumption == Capacity \in Nat \ {0}

Half == Capacity \div 2

Positions == [start : 0 .. Capacity, end : 0 .. Capacity]

EmptyBuffer == [start |-> 0, end |-> 0]

Size(b) == b.end - b.start

\* Mutant: the room before start is counted as well.
FitsAnywhere(b, length) == Size(b) + length <= Capacity

\* The check of append: it never moves what the buffer holds to make room.
Fits(b, length) == b.end + length <= Capacity

AppendBytes(b, length) == [start |-> b.start, end |-> b.end + length]

\* Mutant: what is left is never moved to the front.
ConsumeNeverMoves(b, length) ==
    IF b.start + length = b.end
    THEN EmptyBuffer
    ELSE [b EXCEPT !.start = @ + length]

\* A buffer that is empty starts over, and what is left of one that is more than
\* half used up moves to the front.
Compact(start, end) ==
    IF start = end THEN EmptyBuffer
    ELSE IF start > Half THEN [start |-> 0, end |-> end - start]
    ELSE [start |-> start, end |-> end]

Consume(b, length) == Compact(b.start + length, b.end)

================================================================================
