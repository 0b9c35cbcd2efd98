---------------------------- MODULE RedisConnection ----------------------------
(***************************************************************************)
(* One connection of the Redis server (Client.cpp, TcpBuffer.cpp, and the  *)
(* parts of Server.cpp and ClientManager.cpp that serve it).  At most one  *)
(* read is outstanding, so handle_read never runs twice at a time; it runs *)
(* concurrently with handle_write, both on threads of the client manager's *)
(* pool, and they meet at the write queue, under its mutex.                *)
(*                                                                         *)
(* The client sends well-formed commands, back to back, of 1 to MaxLength  *)
(* bytes; TCP cuts them into chunks wherever it likes.  A command is its   *)
(* number, and so is its reply; what it does is module RedisDictionary.    *)
(***************************************************************************)
EXTENDS Sequences, TcpBuffer

CONSTANTS ReadSize,        \* m_read_buffer.size(), 2048
          MaxLength,       \* bound: bytes of the longest command
          MaxCommands      \* bound: commands completed in a connection

ASSUME SizesAssumption ==
    /\ ReadSize \in Nat \ {0} /\ MaxLength \in Nat \ {0} /\ MaxCommands \in Nat
    /\ ReadSize <= Capacity

VARIABLES
    phase,       \* the pending operation on the reading side
    registered,  \* ClientManager::m_clients has the client
    buffer,      \* m_input_buffer
    dropped,     \* a chunk did not fit and was thrown away
    commands,    \* number of commands parsed and processed
    queue,       \* m_write_queue
    wire,        \* the messages whose async_write is under way
    finished,    \* number of writes that ended and whose handler is queued
    delivered,   \* the commands whose replies the client received, in that order
    broken       \* a write has failed

readVars  == <<phase, registered, buffer, dropped, commands>>
writeVars == <<queue, wire, finished, delivered, broken>>
vars == <<readVars, writeVars>>

\* A message holds the replies to the commands that one read completed.
Messages == [first : 1 .. MaxCommands, last : 1 .. MaxCommands]

Replies(m) == [i \in 1 .. m.last - m.first + 1 |-> m.first + i - 1]

TypeOK ==
    /\ phase \in {"accepting", "reading", "closed"}
    /\ registered \in BOOLEAN
    /\ buffer \in Positions
    /\ buffer.start <= buffer.end
    /\ dropped \in BOOLEAN
    /\ commands \in 0 .. MaxCommands
    /\ queue \in Seq(Messages)
    /\ wire \in Seq(Messages)
    /\ finished \in Nat
    /\ delivered \in Seq(1 .. MaxCommands)
    /\ broken \in BOOLEAN

\* accept: a client is registered and waits for a connection.
Init ==
    /\ phase = "accepting"
    /\ registered = TRUE
    /\ buffer = EmptyBuffer
    /\ dropped = FALSE
    /\ commands = 0
    /\ queue = <<>>
    /\ wire = <<>>
    /\ finished = 0
    /\ delivered = <<>>
    /\ broken = FALSE

--------------------------------------------------------------------------------
HandleAccept(error) ==
    /\ phase = "accepting"
    /\ phase' = IF error THEN "closed" ELSE "reading"
    /\ registered' = ~error
    /\ UNCHANGED <<buffer, dropped, commands, writeVars>>

\* Mutant: the write is left to the handler of another one.
WriteQueuesOnly(m) ==
    /\ queue' = Append(queue, m)
    /\ UNCHANGED <<wire, finished, delivered, broken>>

\* Client::write: a message waits in the queue while another one is being written.
Write(m) ==
    /\ queue' = Append(queue, m)
    /\ wire' = IF queue = <<>> THEN Append(wire, m) ELSE wire
    /\ UNCHANGED <<finished, delivered, broken>>

\* What RespParser::parse may find in held bytes of an incomplete command and a chunk
\* of n more: count complete commands of length bytes in all, then an incomplete one.
Parses(held, n, count, length) ==
    /\ IF count = 0
       THEN length = 0
       ELSE length \in held + count .. count * MaxLength
    /\ held + n - length \in 0 .. MaxLength - 1

\* on_read_done, for what was parsed: every command is processed, and their replies
\* go to the client, if it is still registered, in one message.
Process(count) ==
    /\ commands + count <= MaxCommands
    /\ commands' = commands + count
    /\ IF count > 0 /\ registered
       THEN Write([first |-> commands + 1, last |-> commands + count])
       ELSE UNCHANGED writeVars

\* handle_read, with nothing held back: the chunk is parsed where it is and what is
\* left of it is kept.
ReadIntoEmpty(n) ==
    /\ phase = "reading" /\ ~dropped
    /\ Size(buffer) = 0
    /\ \E count \in 0 .. n, length \in 0 .. n :
          /\ Parses(0, n, count, length)
          /\ Process(count)
          /\ buffer' = IF length < n /\ Fits(buffer, n - length)
                       THEN AppendBytes(buffer, n - length) ELSE buffer
          /\ dropped' = (length < n /\ ~Fits(buffer, n - length))
    /\ UNCHANGED <<phase, registered>>

\* handle_read, with an incomplete command held back: the chunk is added to it.
ReadMore(n) ==
    /\ phase = "reading" /\ ~dropped
    /\ Size(buffer) > 0
    /\ Fits(buffer, n)
    /\ \E count \in 0 .. n, length \in 0 .. Size(buffer) + n :
          /\ Parses(Size(buffer), n, count, length)
          /\ Process(count)
          /\ buffer' = Consume(AppendBytes(buffer, n), length)
    /\ UNCHANGED <<phase, registered, dropped>>

\* handle_read, when append refuses the chunk: it is thrown away and the next one is
\* read.  From here on the buffer no longer holds the client's stream; what the
\* parser makes of it is not followed.
ReadDrops(n) ==
    /\ phase = "reading" /\ ~dropped
    /\ Size(buffer) > 0
    /\ ~Fits(buffer, n)
    /\ dropped' = TRUE
    /\ UNCHANGED <<phase, registered, buffer, commands, writeVars>>

\* handle_read with eof or connection_reset: the client is removed and not read
\* again.  After any other error it is read again, and nothing has changed.
ReadEnds ==
    /\ phase = "reading"
    /\ phase' = "closed"
    /\ registered' = FALSE
    /\ buffer' = IF Size(buffer) > 0 THEN Consume(buffer, 0) ELSE buffer
    /\ UNCHANGED <<dropped, commands, writeVars>>

--------------------------------------------------------------------------------
\* An async_write ends: its message is with the client, and its handler is queued.
Transmit ==
    /\ wire # <<>> /\ ~broken
    /\ delivered' = delivered \o Replies(Head(wire))
    /\ wire' = Tail(wire)
    /\ finished' = finished + 1
    /\ UNCHANGED <<readVars, queue, broken>>

\* An async_write fails, and those after it do.
TransmitFails ==
    /\ wire # <<>>
    /\ broken' = TRUE
    /\ wire' = Tail(wire)
    /\ finished' = finished + 1
    /\ UNCHANGED <<readVars, queue, delivered>>

\* Mutant: the message at the other end is taken off the queue.
HandleWritePopsBack ==
    /\ finished > 0
    /\ finished' = finished - 1
    /\ queue' = SubSeq(queue, 1, Len(queue) - 1)
    /\ wire' = IF queue' = <<>> THEN wire ELSE Append(wire, Head(queue'))
    /\ UNCHANGED <<readVars, delivered, broken>>

\* Mutant: the next message is not written.
HandleWriteStops ==
    /\ finished > 0
    /\ finished' = finished - 1
    /\ queue' = Tail(queue)
    /\ UNCHANGED <<readVars, wire, delivered, broken>>

\* handle_write, with or without an error: the message is taken off the queue, and
\* the next one is written.
HandleWrite ==
    /\ finished > 0
    /\ finished' = finished - 1
    /\ queue' = Tail(queue)
    /\ wire' = IF queue' = <<>> THEN wire ELSE Append(wire, Head(queue'))
    /\ UNCHANGED <<readVars, delivered, broken>>

Read == \E n \in 1 .. ReadSize : ReadIntoEmpty(n) \/ ReadMore(n) \/ ReadDrops(n)

WriteSide == Transmit \/ TransmitFails \/ HandleWrite

Next ==
    \/ \E error \in BOOLEAN : HandleAccept(error)
    \/ Read \/ ReadEnds
    \/ WriteSide

Spec == Init /\ [][Next]_vars

\* A write ends, one way or the other, and the pool's threads run its handler.  The
\* client may stop sending at any time.
FairSpec == Spec /\ WF_vars(WriteSide)

--------------------------------------------------------------------------------
\* Client::write and Client::handle_write: exactly one async_write is under way, or
\* its handler is queued, while the queue holds a message, and it writes the message
\* at its front.  So writes never overlap on the socket, and none is forgotten.
OneWriter ==
    /\ Len(wire) + finished = (IF queue = <<>> THEN 0 ELSE 1)
    /\ wire # <<>> => Head(wire) = Head(queue)

\* TcpBuffer::append refuses a chunk only for a client that has sent more than half
\* the buffer's capacity, less one read, of a command: consume makes room often
\* enough for every shorter one, however TCP cuts the stream.
DropOnlyLongCommands == dropped => Size(buffer) > Half - ReadSize

\* Replies are delivered one for each command, in order, whatever the interleaving of
\* reads and writes; also those queued when the client closed its side.
Service == INSTANCE PipelinedService WITH asked <- commands, answered <- delivered
RepliesInOrder == Service!Spec

\* Every command that was processed is answered, unless the connection breaks: the
\* replies still queued are sent although the client was removed on eof.
EveryCommandAnswered ==
    \A i \in 1 .. MaxCommands : commands >= i ~> (Len(delivered) >= i \/ broken)

================================================================================
