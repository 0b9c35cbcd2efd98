------------------------ MODULE RedisConnection_proofs -------------------------
(***************************************************************************)
(* Proofs about RedisConnection, whatever the sizes of the buffers, the    *)
(* lengths of the commands and their number: types, one writer at a time,  *)
(* which commands can lose bytes, and that the connection implements       *)
(* PipelinedService.                                                       *)
(***************************************************************************)
EXTENDS RedisConnection, SequenceTheorems, TLAPS

\* The three states of the writing side: idle, an async_write under way, its handler
\* queued.
Writer ==
    \/ queue = <<>> /\ wire = <<>> /\ finished = 0
    \/ queue # <<>> /\ wire = <<Head(queue)>> /\ finished = 0
    \/ queue # <<>> /\ wire = <<>> /\ finished = 1

\* consume keeps the buffer's start in its first half, and an empty buffer at its
\* start.
Room ==
    /\ buffer.start <= Half
    /\ Size(buffer) = 0 => buffer = EmptyBuffer
    /\ dropped => Size(buffer) > Half - ReadSize

\* The client stays registered as long as it is read.
Reading == phase = "reading" => registered

\* The queued messages answer consecutive commands, up to the last one processed.
Chain ==
    /\ \A i \in 1 .. Len(queue) : /\ queue[i].first <= queue[i].last
                                  /\ queue[i].last <= commands
    /\ \A i \in 1 .. Len(queue) - 1 : queue[i + 1].first = queue[i].last + 1
    /\ queue # <<>> => queue[Len(queue)].last = commands

\* The number of replies that the client received, unless the connection broke.
Received ==
    IF queue = <<>> THEN commands
    ELSE IF wire # <<>> THEN Head(queue).first - 1
    ELSE Head(queue).last

Delivery ==
    /\ delivered = [i \in 1 .. Len(delivered) |-> i]
    /\ Len(delivered) <= commands
    /\ ~broken => Len(delivered) = Received

IInv == TypeOK /\ Writer /\ Room /\ Reading /\ Chain /\ Delivery

--------------------------------------------------------------------------------
LEMMA HalfFacts == Half \in Nat /\ 2 * Half <= Capacity /\ Capacity <= 2 * Half + 1
  BY CapacityAssumption DEF Half

\* Consuming part of what a buffer holds leaves a buffer with room after it.
LEMMA ConsumeRoom ==
    ASSUME NEW b \in Positions, b.start <= b.end, b.start <= Half,
           NEW n \in 0 .. Capacity, b.end + n <= Capacity,
           NEW length \in 0 .. Size(b) + n,
           NEW c, c = Consume(AppendBytes(b, n), length)
    PROVE  /\ c \in Positions /\ c.start <= c.end /\ c.start <= Half
           /\ Size(c) = 0 => c = EmptyBuffer
<1> DEFINE a == AppendBytes(b, n)
           start == b.start + length
<1>1. /\ b.start \in 0 .. Capacity /\ b.end \in 0 .. Capacity
      /\ Capacity \in Nat /\ Half \in Nat
  BY CapacityAssumption, HalfFacts DEF Positions
<1>2. a = [start |-> b.start, end |-> b.end + n]
  BY DEF AppendBytes
<1>3. /\ start \in Nat /\ start <= b.end + n
      /\ a.start = b.start /\ a.end = b.end + n
  BY <1>1, <1>2 DEF Size
<1> HIDE DEF a
<1>4. c = Compact(start, b.end + n)
  <2>1. c = Compact(a.start + length, a.end)
    BY DEF Consume, a
  <2>2. a.start + length = start /\ a.end = b.end + n
    BY <1>3
  <2> HIDE DEF start
  <2> QED BY <2>1, <2>2
<1> HIDE DEF start
<1>5. CASE start = b.end + n
  <2>1. c = EmptyBuffer
    BY <1>4, <1>5 DEF Compact
  <2> QED BY <2>1, <1>1 DEF EmptyBuffer, Positions, Size
<1>6. CASE start # b.end + n /\ start > Half
  <2>1. c = [start |-> 0, end |-> b.end + n - start]
    BY <1>4, <1>1, <1>3, <1>6 DEF Compact
  <2> QED BY <2>1, <1>1, <1>3, <1>6 DEF Positions, Size
<1>7. CASE start # b.end + n /\ start <= Half
  <2>1. c = [start |-> start, end |-> b.end + n]
    BY <1>4, <1>1, <1>3, <1>7 DEF Compact
  <2> QED BY <2>1, <1>1, <1>3, <1>7 DEF Positions, Size
<1> QED BY <1>1, <1>3, <1>5, <1>6, <1>7

\* A function on an initial segment of the naturals is a sequence.
LEMMA SegmentIsSeq ==
    ASSUME NEW S, NEW n \in Nat, NEW f \in [1 .. n -> S]
    PROVE  f \in Seq(S) /\ Len(f) = n
  OBVIOUS

\* The replies of a message that continues those received continue them.
LEMMA RepliesContinue ==
    ASSUME NEW s \in Seq(1 .. MaxCommands), s = [i \in 1 .. Len(s) |-> i],
           NEW m \in Messages, m.first = Len(s) + 1, m.first <= m.last
    PROVE  /\ Replies(m) \in Seq(1 .. MaxCommands)
           /\ Len(s \o Replies(m)) = m.last
           /\ s \o Replies(m) = [i \in 1 .. m.last |-> i]
           /\ s \o Replies(m) \in Seq(1 .. MaxCommands)
<1>1. /\ m.first \in 1 .. MaxCommands /\ m.last \in 1 .. MaxCommands
      /\ MaxCommands \in Nat /\ Len(s) \in Nat
  BY SizesAssumption DEF Messages
<1> DEFINE k == m.last - m.first + 1
           r == Replies(m)
           t == [i \in 1 .. m.last |-> i]
<1>2. r = [i \in 1 .. k |-> m.first + i - 1] /\ k \in Nat
  BY <1>1 DEF Replies
<1>3. r \in Seq(1 .. MaxCommands) /\ Len(r) = k
  <2>1. r \in [1 .. k -> 1 .. MaxCommands]
    BY <1>1, <1>2
  <2>2. k \in Nat
    BY <1>2
  <2> HIDE DEF r, k
  <2> QED BY <2>1, <2>2, SegmentIsSeq
<1>4. t \in Seq(1 .. MaxCommands) /\ Len(t) = m.last
  <2>1. t \in [1 .. m.last -> 1 .. MaxCommands]
    BY <1>1
  <2> HIDE DEF t
  <2>2. m.last \in Nat
    BY <1>1
  <2> QED BY <2>1, <2>2, SegmentIsSeq
<1>5. /\ s \o r \in Seq(1 .. MaxCommands)
      /\ Len(s \o r) = Len(s) + k
      /\ \A i \in 1 .. Len(s) + k : (s \o r)[i] = IF i <= Len(s) THEN s[i] ELSE r[i - Len(s)]
  <2>1. s \in Seq(1 .. MaxCommands)
    BY <1>1
  <2>2. r \in Seq(1 .. MaxCommands) /\ Len(r) = k
    BY <1>3
  <2> HIDE DEF r, k, t
  <2> QED BY ONLY <2>1, <2>2, ConcatProperties
<1>6. Len(s) + k = m.last
  BY <1>1
<1>7. \A i \in 1 .. m.last : (s \o r)[i] = t[i]
  <2> SUFFICES ASSUME NEW i \in 1 .. m.last PROVE (s \o r)[i] = i
    OBVIOUS
  <2>1. CASE i <= Len(s)
    BY <1>1, <1>5, <1>6, <2>1
  <2>2. CASE ~(i <= Len(s))
    <3>1. i - Len(s) \in 1 .. k
      BY <1>1, <1>6, <2>2
    <3>2. (s \o r)[i] = r[i - Len(s)]
      BY <1>5, <1>6, <2>2
    <3>3. r[i - Len(s)] = m.first + (i - Len(s)) - 1
      BY <1>2, <3>1
    <3> QED BY <1>1, <3>2, <3>3
  <2> QED BY <2>1, <2>2
<1>8. s \o r = t
  <2> HIDE DEF t, r, k
  <2> QED BY <1>4, <1>5, <1>6, <1>7, SeqEqual
<1> QED BY <1>3, <1>5, <1>6, <1>8

--------------------------------------------------------------------------------
LEMMA InitIInv == Init => IInv
<1> SUFFICES ASSUME Init PROVE IInv
  OBVIOUS
<1>1. TypeOK
  <2>1. buffer \in Positions /\ buffer.start <= buffer.end
    BY CapacityAssumption DEF Init, EmptyBuffer, Positions
  <2>2. queue \in Seq(Messages) /\ wire \in Seq(Messages) /\ delivered \in Seq(1 .. MaxCommands)
    BY DEF Init
  <2>3. commands \in 0 .. MaxCommands /\ finished \in Nat /\ phase = "accepting"
    BY SizesAssumption DEF Init
  <2>4. registered \in BOOLEAN /\ dropped \in BOOLEAN /\ broken \in BOOLEAN
    BY DEF Init
  <2> QED BY <2>1, <2>2, <2>3, <2>4 DEF TypeOK
<1>2. Writer /\ Room /\ Reading
  BY HalfFacts DEF Init, Writer, Room, Reading, Size, EmptyBuffer
<1>3. Chain /\ Delivery
  BY DEF Init, Chain, Delivery, Received
<1> QED BY <1>1, <1>2, <1>3 DEF IInv

\* What was parsed from a chunk leaves the writing side as it should be.
LEMMA ProcessStep ==
    ASSUME IInv, phase = "reading", NEW count \in Nat, Process(count)
    PROVE  /\ commands' \in 0 .. MaxCommands /\ queue' \in Seq(Messages)
           /\ wire' \in Seq(Messages)
           /\ UNCHANGED <<finished, delivered, broken>>
           /\ Writer' /\ Chain' /\ Delivery'
<1>1. /\ commands \in 0 .. MaxCommands /\ MaxCommands \in Nat
      /\ queue \in Seq(Messages) /\ wire \in Seq(Messages)
      /\ delivered \in Seq(1 .. MaxCommands) /\ finished \in Nat
      /\ registered
  BY SizesAssumption DEF IInv, TypeOK, Reading
<1>2. commands' = commands + count /\ commands' \in 0 .. MaxCommands
  BY <1>1 DEF Process
<1>3. CASE count = 0
  <2>1. UNCHANGED <<commands, queue, wire, finished, delivered, broken>>
    BY <1>1, <1>2, <1>3 DEF Process, writeVars
  <2>2. Writer' /\ Chain'
    BY <2>1 DEF IInv, Writer, Chain
  <2>3. Delivery'
    BY <2>1 DEF IInv, Delivery, Received
  <2> QED BY <1>1, <2>1, <2>2, <2>3
<1>4. CASE count > 0
  <2> DEFINE m == [first |-> commands + 1, last |-> commands + count]
  <2>1. m \in Messages /\ m.first = commands + 1 /\ m.last = commands'
        /\ m.first <= m.last
    BY <1>1, <1>2, <1>4 DEF Messages
  <2>2. /\ queue' = Append(queue, m)
        /\ wire' = IF queue = <<>> THEN Append(wire, m) ELSE wire
        /\ UNCHANGED <<finished, delivered, broken>>
    BY <1>1, <1>4 DEF Process, Write
  <2> HIDE DEF m
  <2>3. /\ queue' \in Seq(Messages) /\ wire' \in Seq(Messages)
        /\ Len(queue') = Len(queue) + 1 /\ queue' # <<>>
        /\ queue'[Len(queue) + 1] = m
        /\ \A i \in 1 .. Len(queue) : queue'[i] = queue[i]
        /\ Head(queue') = IF queue = <<>> THEN m ELSE Head(queue)
        /\ Len(queue) \in Nat /\ Len(delivered) \in Nat
    <3>1. /\ queue' \in Seq(Messages) /\ wire' \in Seq(Messages)
          /\ Len(queue') = Len(queue) + 1 /\ queue'[Len(queue) + 1] = m
          /\ \A i \in 1 .. Len(queue) : queue'[i] = queue[i]
      BY <1>1, <2>1, <2>2, AppendProperties
    <3>2. Len(queue) \in Nat /\ Len(delivered) \in Nat
      BY <1>1
    <3>3. queue' # <<>> /\ Head(queue') = queue'[1]
      BY <3>1, <3>2
    <3>4. queue = <<>> => Len(queue) = 0
      BY <1>1
    <3>5. queue # <<>> => 1 \in 1 .. Len(queue) /\ Head(queue) = queue[1]
      BY <1>1
    <3> QED BY <3>1, <3>2, <3>3, <3>4, <3>5
  <2>4. Writer'
    <3>1. CASE queue = <<>>
      <4>1. wire' = <<m>> /\ finished' = 0
        BY <1>1, <2>2, <3>1 DEF IInv, Writer
      <4> QED BY <2>3, <3>1, <4>1 DEF Writer
    <3>2. CASE queue # <<>>
      BY <2>2, <2>3, <3>2 DEF IInv, Writer
    <3> QED BY <3>1, <3>2
  <2>5. Chain'
    <3>1. \A i \in 1 .. Len(queue') : queue'[i].first <= queue'[i].last
                                     /\ queue'[i].last <= commands'
      <4> SUFFICES ASSUME NEW i \in 1 .. Len(queue')
                   PROVE  queue'[i].first <= queue'[i].last /\ queue'[i].last <= commands'
        OBVIOUS
      <4>1. CASE i = Len(queue) + 1
        BY <1>2, <2>1, <2>3, <4>1
      <4>2. CASE i \in 1 .. Len(queue)
        <5>1. queue[i] \in Messages /\ queue'[i] = queue[i]
          BY <1>1, <2>3, <4>2, ElementOfSeq
        <5> QED BY <1>1, <1>2, <4>2, <5>1 DEF IInv, Chain, Messages
      <4> QED BY <2>3, <4>1, <4>2
    <3>2. \A i \in 1 .. Len(queue') - 1 : queue'[i + 1].first = queue'[i].last + 1
      <4> SUFFICES ASSUME NEW i \in 1 .. Len(queue')  - 1
                   PROVE  queue'[i + 1].first = queue'[i].last + 1
        OBVIOUS
      <4>1. i \in 1 .. Len(queue) /\ queue'[i] = queue[i]
        BY <2>3
      <4>2. CASE i = Len(queue)
        <5>1. queue # <<>>
          BY <4>1, <4>2
        <5>2. queue[Len(queue)].last = commands
          BY <5>1 DEF IInv, Chain
        <5> QED BY <2>1, <2>3, <4>1, <4>2, <5>2
      <4>3. CASE i # Len(queue)
        <5>1. i \in 1 .. Len(queue) - 1 /\ i + 1 \in 1 .. Len(queue)
          BY <2>3, <4>1, <4>3
        <5>2. queue[i + 1].first = queue[i].last + 1
          BY <5>1 DEF IInv, Chain
        <5> QED BY <2>3, <4>1, <5>1, <5>2
      <4> QED BY <4>2, <4>3
    <3>3. queue' # <<>> => queue'[Len(queue')].last = commands'
      BY <2>1, <2>3
    <3> QED BY <3>1, <3>2, <3>3 DEF Chain
  <2>6. Delivery'
    <3>1. Len(delivered') <= commands'
      BY <1>1, <1>2, <2>2, <2>3 DEF IInv, Delivery
    <3>2. CASE queue = <<>>
      <4>1. wire' # <<>> /\ Received = commands
        BY <1>1, <2>2, <3>2 DEF IInv, Writer, Received
      <4>2. Received' = m.first - 1
        BY <2>3, <3>2, <4>1 DEF Received
      <4>3. Received' = Received
        BY <1>1, <2>1, <4>1, <4>2
      <4> QED BY <2>2, <3>1, <4>3 DEF IInv, Delivery
    <3>3. CASE queue # <<>>
      <4>1. Received' = Received
        BY <2>2, <2>3, <3>3 DEF Received
      <4> QED BY <2>2, <3>1, <4>1 DEF IInv, Delivery
    <3> QED BY <3>2, <3>3
  <2> QED BY <1>2, <2>2, <2>3, <2>4, <2>5, <2>6
<1> QED BY <1>3, <1>4

\* The actions of the reading side.
LEMMA ReadIntoEmptyStep ==
    ASSUME IInv, NEW n \in 1 .. ReadSize, ReadIntoEmpty(n)
    PROVE  IInv'
<1>1. PICK count \in 0 .. n, length \in 0 .. n :
         /\ Process(count)
         /\ buffer' = IF length < n /\ Fits(buffer, n - length)
                      THEN AppendBytes(buffer, n - length) ELSE buffer
         /\ dropped' = (length < n /\ ~Fits(buffer, n - length))
  BY DEF ReadIntoEmpty
<1>2. /\ phase = "reading" /\ UNCHANGED <<phase, registered>> /\ buffer = EmptyBuffer
  BY DEF ReadIntoEmpty, IInv, Room
<1>3. /\ n \in 1 .. Capacity /\ count \in Nat /\ Capacity \in Nat
      /\ ReadSize \in Nat /\ Half \in Nat
  BY SizesAssumption, CapacityAssumption, HalfFacts
<1>4. /\ commands' \in 0 .. MaxCommands /\ queue' \in Seq(Messages)
      /\ wire' \in Seq(Messages)
      /\ UNCHANGED <<finished, delivered, broken>>
      /\ Writer' /\ Chain' /\ Delivery'
  BY <1>1, <1>2, <1>3, ProcessStep
<1>5. dropped' = FALSE /\ buffer' = [start |-> 0, end |-> n - length]
  <2>1. buffer.start = 0 /\ buffer.end = 0
    BY <1>2 DEF EmptyBuffer
  <2>2. Fits(buffer, n - length)
    BY <1>3, <2>1 DEF Fits
  <2>3. dropped' = FALSE
    BY <1>1, <2>2, Zenon
  <2>4. CASE length < n
    <3>1. buffer' = AppendBytes(buffer, n - length)
      BY <1>1, <2>2, <2>4, Zenon
    <3> QED BY <1>3, <2>1, <2>3, <3>1 DEF AppendBytes
  <2>5. CASE ~(length < n)
    <3>1. n - length = 0
      BY <1>3, <2>5
    <3>2. buffer' = EmptyBuffer
      BY <1>1, <1>2, <2>5, Zenon
    <3> QED BY <2>3, <3>1, <3>2 DEF EmptyBuffer
  <2> QED BY <2>3, <2>4, <2>5
<1>6. buffer' \in Positions /\ buffer'.start <= buffer'.end /\ Room'
  BY <1>3, <1>5 DEF Room, Positions, Size, EmptyBuffer
<1>7. TypeOK'
  BY <1>2, <1>4, <1>5, <1>6 DEF IInv, TypeOK
<1> QED BY <1>2, <1>4, <1>6, <1>7 DEF IInv, Reading

LEMMA ReadMoreStep ==
    ASSUME IInv, NEW n \in 1 .. ReadSize, ReadMore(n)
    PROVE  IInv'
<1>1. PICK count \in 0 .. n, length \in 0 .. Size(buffer) + n :
         /\ Process(count)
         /\ buffer' = Consume(AppendBytes(buffer, n), length)
  BY DEF ReadMore
<1>2. /\ phase = "reading" /\ ~dropped
      /\ UNCHANGED <<phase, registered, dropped>> /\ Fits(buffer, n)
  BY DEF ReadMore
<1>3. n \in 0 .. Capacity /\ count \in Nat
  BY SizesAssumption, CapacityAssumption
<1>4. /\ commands' \in 0 .. MaxCommands /\ queue' \in Seq(Messages)
      /\ wire' \in Seq(Messages)
      /\ UNCHANGED <<finished, delivered, broken>>
      /\ Writer' /\ Chain' /\ Delivery'
  BY <1>1, <1>2, <1>3, ProcessStep
<1>5. /\ buffer \in Positions /\ buffer.start <= buffer.end /\ buffer.start <= Half
      /\ buffer.end + n <= Capacity
  BY <1>2 DEF IInv, TypeOK, Room, Fits
<1>6. /\ buffer' \in Positions /\ buffer'.start <= buffer'.end /\ buffer'.start <= Half
      /\ Size(buffer') = 0 => buffer' = EmptyBuffer
  BY <1>1, <1>3, <1>5, ConsumeRoom
<1>7. Room'
  BY <1>2, <1>6 DEF Room, Size, EmptyBuffer
<1>8. TypeOK'
  BY <1>2, <1>4, <1>6 DEF IInv, TypeOK
<1> QED BY <1>2, <1>4, <1>7, <1>8 DEF IInv, Reading

LEMMA ReadDropsStep ==
    ASSUME IInv, NEW n \in 1 .. ReadSize, ReadDrops(n)
    PROVE  IInv'
<1>1. /\ UNCHANGED <<phase, registered, buffer, commands, writeVars>> /\ dropped' = TRUE
      /\ ~Fits(buffer, n)
  BY DEF ReadDrops
<1>2. Size(buffer) > Half - ReadSize
  <2>1. /\ buffer.start \in Nat /\ buffer.end \in Nat /\ buffer.start <= Half
        /\ buffer.end + n > Capacity
    BY <1>1, CapacityAssumption DEF IInv, TypeOK, Room, Fits, Positions
  <2> QED BY <2>1, SizesAssumption, CapacityAssumption, HalfFacts DEF Size
<1>3. Room' /\ Reading' /\ Writer' /\ Chain'
  BY <1>1, <1>2 DEF IInv, Room, Reading, Writer, Chain, writeVars, Size, EmptyBuffer
<1>4. Delivery'
  BY <1>1 DEF IInv, Delivery, Received, writeVars
<1>5. TypeOK'
  BY <1>1 DEF IInv, TypeOK, writeVars
<1> QED BY <1>3, <1>4, <1>5 DEF IInv

\* Accepting the client and reading for the last time change nothing that is written.
LEMMA EdgeStep ==
    ASSUME IInv, ReadEnds \/ \E error \in BOOLEAN : HandleAccept(error)
    PROVE  IInv'
<1>1. /\ UNCHANGED <<dropped, commands, writeVars>>
      /\ phase' \in {"reading", "closed"} /\ registered' \in BOOLEAN
      /\ phase' = "reading" => registered'
      /\ buffer' = IF phase = "reading" /\ Size(buffer) > 0 THEN Consume(buffer, 0) ELSE buffer
  BY DEF ReadEnds, HandleAccept
<1>2. buffer' = buffer
  <2>1. /\ buffer \in Positions /\ buffer.start \in Nat /\ buffer.end \in Nat
        /\ Half \in Nat /\ buffer.start <= Half
    BY HalfFacts DEF IInv, TypeOK, Room, Positions
  <2>2. [start |-> buffer.start, end |-> buffer.end] = buffer
    BY <2>1 DEF Positions
  <2>3. CASE Size(buffer) > 0
    <3>1. buffer.start + 0 = buffer.start /\ buffer.start # buffer.end /\ ~(buffer.start > Half)
      BY <2>1, <2>3 DEF Size
    <3> QED BY <1>1, <2>2, <3>1 DEF Consume, Compact
  <2> QED BY <1>1, <2>3
<1>3. Room' /\ Reading' /\ Writer' /\ Chain'
  BY <1>1, <1>2 DEF IInv, Room, Reading, Writer, Chain, writeVars, Size, EmptyBuffer
<1>4. Delivery'
  BY <1>1 DEF IInv, Delivery, Received, writeVars
<1>5. TypeOK'
  BY <1>1, <1>2 DEF IInv, TypeOK, writeVars
<1> QED BY <1>3, <1>4, <1>5 DEF IInv

\* The actions of the writing side.  A write that ends adds its replies to those
\* received; here is the message that it carries.
LEMMA OnTheWire ==
    ASSUME IInv, wire # <<>>
    PROVE  /\ queue # <<>> /\ wire = <<Head(queue)>> /\ finished = 0
           /\ Head(queue) = queue[1] /\ Head(queue) \in Messages /\ Len(queue) \in Nat \ {0}
           /\ Head(queue).first <= Head(queue).last /\ Head(queue).last <= commands
           /\ ~broken => Head(queue).first = Len(delivered) + 1
<1>1. queue # <<>> /\ wire = <<Head(queue)>> /\ finished = 0 /\ queue \in Seq(Messages)
  BY DEF IInv, TypeOK, Writer
<1>2. Len(queue) \in Nat \ {0} /\ Head(queue) = queue[1] /\ Head(queue) \in Messages
  BY <1>1
<1>3. Head(queue).first <= Head(queue).last /\ Head(queue).last <= commands
  BY <1>2 DEF IInv, Chain
<1>4. ~broken => Len(delivered) = Head(queue).first - 1
  BY <1>1 DEF IInv, Delivery, Received
<1>5. Head(queue).first \in Nat
  BY <1>2 DEF Messages
<1> QED BY <1>1, <1>2, <1>3, <1>4, <1>5

LEMMA TransmitStep ==
    ASSUME IInv, Transmit
    PROVE  /\ IInv'
           /\ Len(delivered') \in Len(delivered) + 1 .. commands
           /\ delivered' = [i \in 1 .. Len(delivered') |-> i]
           /\ commands' = commands
<1> DEFINE m == Head(queue)
<1>1. /\ queue # <<>> /\ wire = <<m>> /\ finished = 0
      /\ m \in Messages /\ m.first <= m.last /\ m.last <= commands
      /\ m.first = Len(delivered) + 1
  BY OnTheWire DEF Transmit
<1>2. /\ delivered' = delivered \o Replies(m) /\ wire' = <<>> /\ finished' = 1
      /\ UNCHANGED <<readVars, queue, broken>>
  BY <1>1 DEF Transmit
<1> HIDE DEF m
<1>3. /\ commands \in Nat /\ Len(delivered) \in Nat /\ m.last \in Nat
      /\ delivered \in Seq(1 .. MaxCommands)
      /\ delivered = [i \in 1 .. Len(delivered) |-> i]
  BY <1>1, SizesAssumption DEF IInv, TypeOK, Delivery, Messages
<1>4. /\ delivered' \in Seq(1 .. MaxCommands) /\ Len(delivered') = m.last
      /\ delivered' = [i \in 1 .. m.last |-> i]
  BY <1>1, <1>2, <1>3, RepliesContinue
<1>5. commands' = commands /\ queue' = queue
  BY <1>2 DEF readVars
<1>6. Received' = m.last
  BY <1>1, <1>2, <1>5 DEF Received, m
<1>7. Delivery'
  BY <1>1, <1>4, <1>5, <1>6 DEF Delivery
<1>8. Writer' /\ Chain' /\ Room' /\ Reading'
  BY <1>1, <1>2, <1>5 DEF IInv, Writer, Chain, Room, Reading, readVars, Size, EmptyBuffer
<1>9. TypeOK'
  BY <1>2, <1>4 DEF IInv, TypeOK, readVars
<1> QED BY <1>1, <1>3, <1>4, <1>5, <1>7, <1>8, <1>9 DEF IInv

LEMMA TransmitFailsStep ==
    ASSUME IInv, TransmitFails
    PROVE  IInv'
<1>1. /\ queue # <<>> /\ wire = <<Head(queue)>> /\ finished = 0
  BY OnTheWire DEF TransmitFails
<1>2. /\ broken' = TRUE /\ wire' = <<>> /\ finished' = 1
      /\ UNCHANGED <<readVars, queue, delivered>>
  BY <1>1 DEF TransmitFails
<1>3. Writer' /\ Chain' /\ Room' /\ Reading'
  BY <1>1, <1>2 DEF IInv, Writer, Chain, Room, Reading, readVars, Size, EmptyBuffer
<1>4. Delivery'
  BY <1>2 DEF IInv, Delivery, readVars
<1>5. TypeOK'
  BY <1>2 DEF IInv, TypeOK, readVars
<1> QED BY <1>3, <1>4, <1>5 DEF IInv

LEMMA HandleWriteStep ==
    ASSUME IInv, HandleWrite
    PROVE  IInv'
<1>1. queue # <<>> /\ wire = <<>> /\ finished = 1
  BY DEF IInv, TypeOK, Writer, HandleWrite
<1>2. /\ queue \in Seq(Messages) /\ Len(queue) \in Nat \ {0} /\ Head(queue) = queue[1]
  BY <1>1 DEF IInv, TypeOK
<1>3. /\ finished' = 0 /\ queue' = Tail(queue)
      /\ wire' = IF queue' = <<>> THEN <<>> ELSE <<Head(queue')>>
      /\ UNCHANGED <<readVars, delivered, broken>>
  BY <1>1 DEF HandleWrite
<1>4. /\ queue' \in Seq(Messages) /\ Len(queue') = Len(queue) - 1
      /\ \A i \in 1 .. Len(queue') : queue'[i] = queue[i + 1]
  BY <1>2, <1>3, HeadTailProperties, <1>1
<1>5. commands' = commands
  BY <1>3 DEF readVars
<1>6. CASE queue' = <<>>
  <2>1. Len(queue) = 1 /\ wire' = <<>>
    BY <1>2, <1>3, <1>4, <1>6
  <2>2. Received = commands /\ Received' = commands
    BY <1>1, <1>2, <1>5, <1>6, <2>1 DEF IInv, Chain, Received
  <2>3. Delivery'
    BY <1>3, <1>5, <2>2 DEF IInv, Delivery
  <2>4. Chain' /\ Writer'
    BY <1>3, <1>6, <2>1 DEF Chain, Writer
  <2>5. TypeOK'
    BY <1>3, <1>4, <2>1 DEF IInv, TypeOK, readVars
  <2> QED BY <1>3, <2>3, <2>4, <2>5 DEF IInv, Room, Reading, readVars, Size, EmptyBuffer
<1>7. CASE queue' # <<>>
  <2>1. /\ Len(queue) >= 2 /\ wire' = <<Head(queue')>> /\ wire' # <<>>
        /\ Head(queue') = queue[2] /\ queue[2] \in Messages /\ queue[1] \in Messages
    <3>1. Len(queue') # 0 /\ Head(queue') = queue'[1]
      BY <1>4, <1>7
    <3> QED BY <1>2, <1>3, <1>4, <1>7, <3>1, ElementOfSeq
  <2>2. queue[2].first = queue[1].last + 1
    <3>1. 1 \in 1 .. Len(queue) - 1
      BY <1>2, <2>1
    <3> QED BY <3>1 DEF IInv, Chain
  <2>3. Received = queue[1].last /\ Received' = queue[2].first - 1
    BY <1>1, <1>2, <1>7, <2>1 DEF Received
  <2>4. Received' = Received
    BY <2>1, <2>2, <2>3 DEF Messages
  <2>5. Delivery'
    BY <1>3, <1>5, <2>4 DEF IInv, Delivery
  <2>6. Writer'
    BY <1>3, <1>7, <2>1 DEF Writer
  <2>7. Chain'
    <3>1. \A i \in 1 .. Len(queue') : i + 1 \in 1 .. Len(queue)
      BY <1>2, <1>4
    <3>2. \A i \in 1 .. Len(queue') - 1 : i + 1 \in 1 .. Len(queue) - 1 /\ i \in 1 .. Len(queue')
                                         /\ i + 1 \in 1 .. Len(queue')
      BY <1>2, <1>4
    <3>3. queue'[Len(queue')] = queue[Len(queue)]
      BY <1>2, <1>4, <2>1
    <3> QED BY <1>1, <1>4, <1>5, <3>1, <3>2, <3>3 DEF IInv, Chain
  <2>8. TypeOK'
    <3>1. wire' \in Seq(Messages)
      BY <2>1
    <3> QED BY <1>3, <1>4, <3>1 DEF IInv, TypeOK, readVars
  <2> QED BY <1>3, <2>5, <2>6, <2>7, <2>8 DEF IInv, Room, Reading, readVars, Size, EmptyBuffer
<1> QED BY <1>6, <1>7

--------------------------------------------------------------------------------
LEMMA Invariance == Spec => []IInv
<1>1. IInv /\ [Next]_vars => IInv'
  <2> SUFFICES ASSUME IInv, [Next]_vars PROVE IInv'
    OBVIOUS
  <2>1. CASE \E error \in BOOLEAN : HandleAccept(error)
    BY <2>1, EdgeStep
  <2>2. CASE Read
    BY <2>2, ReadIntoEmptyStep, ReadMoreStep, ReadDropsStep DEF Read
  <2>3. CASE ReadEnds
    BY <2>3, EdgeStep
  <2>4. CASE WriteSide
    BY <2>4, TransmitStep, TransmitFailsStep, HandleWriteStep DEF WriteSide
  <2>5. CASE UNCHANGED vars
    <3>1. UNCHANGED <<phase, registered, buffer, dropped, commands, queue, wire, finished,
                      delivered, broken>>
      BY <2>5 DEF vars, readVars, writeVars
    <3>2. TypeOK' /\ Writer' /\ Room' /\ Reading' /\ Chain'
      BY <3>1 DEF IInv, TypeOK, Writer, Room, Reading, Chain, Size, EmptyBuffer
    <3>3. Delivery'
      BY <3>1 DEF IInv, Delivery, Received
    <3> QED BY <3>2, <3>3 DEF IInv
  <2> QED BY <2>1, <2>2, <2>3, <2>4, <2>5 DEF Next
<1> QED BY InitIInv, <1>1, PTL DEF Spec

\* Every variable of a connection keeps its type.
THEOREM ConnectionTypeCorrect == Spec => []TypeOK
<1>1. IInv => TypeOK
  BY DEF IInv
<1> QED BY Invariance, <1>1, PTL

\* Client::write and Client::handle_write never start a write while another one is
\* under way, and never leave a queued message without one.
THEOREM OneWriterAtATime == Spec => []OneWriter
<1>1. IInv => OneWriter
  <2> SUFFICES ASSUME IInv PROVE OneWriter
    OBVIOUS
  <2>1. CASE queue = <<>> /\ wire = <<>> /\ finished = 0
    BY <2>1 DEF OneWriter
  <2>2. CASE queue # <<>> /\ wire = <<Head(queue)>> /\ finished = 0
    BY <2>2 DEF OneWriter
  <2>3. CASE queue # <<>> /\ wire = <<>> /\ finished = 1
    BY <2>3 DEF OneWriter
  <2> QED BY <2>1, <2>2, <2>3 DEF IInv, Writer
<1> QED BY Invariance, <1>1, PTL

\* TcpBuffer::append throws bytes away only when a single incomplete command has
\* filled half the buffer, less one read.
THEOREM OnlyLongCommandsDrop == Spec => []DropOnlyLongCommands
<1>1. IInv => DropOnlyLongCommands
  BY DEF IInv, Room, DropOnlyLongCommands
<1> QED BY Invariance, <1>1, PTL

\* The connection implements PipelinedService: one reply for each command, in the
\* order of the commands.
THEOREM Implements == Spec => RepliesInOrder
<1>1. Init => Service!Init
  BY DEF Init, Service!Init
<1>2. IInv /\ [Next]_vars => [Service!Next]_<<commands, delivered>>
  <2> SUFFICES ASSUME IInv, [Next]_vars
               PROVE  Service!Next \/ UNCHANGED <<commands, delivered>>
    OBVIOUS
  <2>1. ASSUME NEW count \in Nat, Process(count)
        PROVE  Service!Next \/ UNCHANGED <<commands, delivered>>
    <3>1. /\ commands \in Nat /\ commands' = commands + count
          /\ delivered' = delivered
      BY <2>1, SizesAssumption DEF IInv, TypeOK, Process, Write, writeVars
    <3> QED BY <3>1 DEF Service!Next, Service!Ask
  <2>2. CASE Transmit
    <3>1. /\ Len(delivered') \in Len(delivered) + 1 .. commands
          /\ delivered' = [i \in 1 .. Len(delivered') |-> i]
          /\ commands' = commands
      BY <2>2, TransmitStep
    <3> QED BY <3>1 DEF Service!Next, Service!Answer
  <2>3. CASE Read
    BY <2>1, <2>3 DEF Read, ReadIntoEmpty, ReadMore, ReadDrops, writeVars
  <2>4. CASE ReadEnds \/ (\E error \in BOOLEAN : HandleAccept(error)) \/ UNCHANGED vars
    BY <2>4 DEF ReadEnds, HandleAccept, vars, readVars, writeVars
  <2>5. CASE TransmitFails \/ HandleWrite
    BY <2>5 DEF TransmitFails, HandleWrite, readVars
  <2> QED BY <2>2, <2>3, <2>4, <2>5 DEF Next, WriteSide
<1>3. Spec => []([Service!Next]_<<commands, delivered>>)
  BY Invariance, <1>2, PTL DEF Spec
<1> QED BY <1>1, <1>3, PTL DEF Spec, RepliesInOrder, Service!Spec

================================================================================
