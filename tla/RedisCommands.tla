----------------------------- MODULE RedisCommands -----------------------------
(***************************************************************************)
(* What the Redis server makes of a command: of its bytes (Server.cpp,     *)
(* on_read_done, over RespParser) and of its arguments (CommandArguments). *)
(* A behaviour processes the arguments of one command, any one, or bytes   *)
(* that come in one or two reads.                                          *)
(***************************************************************************)
EXTENDS CommandArguments, RespParser

CONSTANT Bytes      \* what a client sends, whatever it is

ASSUME BytesAssumption == Bytes \subseteq Input

--------------------------------------------------------------------------------
\* Bytes come in two reads, the first one of cut bytes, or all in one.
Sent == UNION {[bytes : {s}, cut : 1 .. Len(s)] : s \in Bytes}

CommandsInit == request \in Requests \cup Sent /\ outcome = Pending

ProcessBytes ==
    /\ outcome = Pending /\ "bytes" \in DOMAIN request
    /\ outcome' = ReadTwice(request.bytes, request.cut)
    /\ UNCHANGED request

CommandsNext == ArgumentsNext \/ ProcessBytes

CommandsSpec == CommandsInit /\ [][CommandsNext]_argumentVars

--------------------------------------------------------------------------------
BytesProcessed == outcome # Pending /\ "bytes" \in DOMAIN request

\* Where TCP cuts the bytes makes no difference to the answers and to what is left,
\* whether the bytes are well-formed or not, as long as each value begins with the
\* byte of a type (RespParser.cpp, where a value that is not complete must be told
\* from an invalid one in every parse function).  A byte that begins no value,
\* in the second read, costs the values that came in the same read with it, and
\* only them: the commands that had ended in the first read are answered, and the
\* second read is answered by one error (Server.cpp:68-76).
CutsDontMatter ==
    BytesProcessed =>
      LET whole   == parse(request.bytes)
          results == whole.results
      IN  IF whole.ok THEN outcome = Answered(request.bytes, whole)
          ELSE request.cut <= Last(results).begin =>
                 \E n \in 0 .. Len(results) - 1 :
                    /\ outcome.answers = Answers(SubSeq(results, 1, n)) \o <<FormatError>>
                    /\ \A i \in DOMAIN results :
                          results[i].state = "complete" =>
                             (i <= n <=> results[i].end <= request.cut)

================================================================================
