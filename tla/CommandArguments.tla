---------------------------- MODULE CommandArguments ----------------------------
(***************************************************************************)
(* What the Redis server makes of the arguments of a command               *)
(* (CommandProcessor.cpp, process, and DictionaryManager.cpp, get_list):   *)
(* their number, the expiry options of SET, and the offsets of LRANGE.     *)
(* None of it depends on what else the dictionary holds, so a behaviour    *)
(* processes one command, any one.                                         *)
(*                                                                         *)
(* Integers have the width of the program's: Word stands for 2^64, MaxInt  *)
(* for 2^31 - 1.                                                           *)
(***************************************************************************)
EXTENDS Integers, Sequences

CONSTANTS Word,       \* an std::uint64_t is below Word
          MaxInt,     \* an int is in -MaxInt-1 .. MaxInt
          Second,     \* milliseconds in a second
          MaxSize,    \* bound: elements of a command
          MaxLength   \* bound: elements of a list

ASSUME WidthAssumption ==
    /\ Word \in Nat \ {0} /\ MaxInt \in Nat /\ Second \in Nat \ {0}
    /\ MaxSize \in Nat /\ MaxLength \in 0 .. MaxInt

VARIABLES request,  \* what is looked at of the command
          outcome   \* what process makes of it, once it has been called

argumentVars == <<request, outcome>>

Pending == [pending |-> TRUE]

--------------------------------------------------------------------------------
(***************************************************************************)
(* The number of arguments.  A command is an array of size bulk strings,   *)
(* the first one its name.                                                 *)
(***************************************************************************)
Names == {"CONFIG", "PING", "ECHO", "GET", "SET", "EXISTS", "DEL", "INCR", "DECR",
          "LPUSH", "RPUSH", "LRANGE", "SAVE"}

\* Mutant: LRANGE takes its second offset for optional.
HasArgumentsLoose(name, size) ==
    /\ name \in {"PING", "SAVE"} => size = 1
    /\ name \in {"ECHO", "GET", "INCR", "DECR"} => size = 2
    /\ name \in {"EXISTS", "DEL"} => size >= 2
    /\ name \in {"CONFIG", "SET", "LPUSH", "RPUSH", "LRANGE"} => size >= 3

\* The size that a command must have; else the reply is an error.
HasArguments(name, size) ==
    /\ name \in {"PING", "SAVE"} => size = 1
    /\ name \in {"ECHO", "GET", "INCR", "DECR"} => size = 2
    /\ name \in {"EXISTS", "DEL"} => size >= 2
    /\ name \in {"CONFIG", "SET", "LPUSH", "RPUSH"} => size >= 3
    /\ name = "LRANGE" => size = 4

\* The last element that is then read.  A fourth one makes SET look for an option
\* and its value.
LastRead(name, size) ==
    IF name \in {"EXISTS", "DEL", "LPUSH", "RPUSH"} THEN size
    ELSE IF name \in {"PING", "SAVE"} THEN 1
    ELSE IF name \in {"CONFIG", "SET"} THEN IF name = "SET" /\ size > 3 THEN 5 ELSE 3
    ELSE IF name = "LRANGE" THEN 4 ELSE 2

--------------------------------------------------------------------------------
(***************************************************************************)
(* SET key value option n, when the clock shows clock milliseconds.  Under *)
(* any other option name the key is stored without an expiry.              *)
(***************************************************************************)
Options == {"EX", "PX", "EXAT", "PXAT"}

Refused == [ok |-> FALSE]
ExpiresAt(time) == [ok |-> TRUE, time |-> time % Word]

\* A number of seconds in milliseconds; the options with milliseconds stay as they are.
Milliseconds(option, n) == IF option \in {"EX", "EXAT"} THEN n * Second ELSE n

\* Mutant: a timestamp of this very second is accepted.
ExpiryLate(option, n, clock) ==
    IF option \in {"EX", "PX"} THEN ExpiresAt(clock + Milliseconds(option, n))
    ELSE IF option = "EXAT" /\ n < clock \div Second THEN Refused
    ELSE IF option = "PXAT" /\ n <= clock THEN Refused
    ELSE ExpiresAt(Milliseconds(option, n))

\* The timestamp that the entry is stored with, unless SET is refused.  Products and
\* sums wrap around.
Expiry(option, n, clock) ==
    IF option \in {"EX", "PX"} THEN ExpiresAt(clock + Milliseconds(option, n))
    ELSE IF option = "EXAT" /\ n <= clock \div Second THEN Refused
    ELSE IF option = "PXAT" /\ n <= clock THEN Refused
    ELSE ExpiresAt(Milliseconds(option, n))

--------------------------------------------------------------------------------
(***************************************************************************)
(* LRANGE key from to.                                                     *)
(***************************************************************************)
Ints == -MaxInt - 1 .. MaxInt

\* An integer of 64 bits, passed as an int.
AsInt(n) == ((n + MaxInt + 1) % (2 * (MaxInt + 1))) - (MaxInt + 1)

\* An offset from the end becomes one from the start; it may stay negative.
FromStart(offset, size) == IF offset < 0 THEN AsInt(size + offset) ELSE offset

\* Mutant: a range of one element is taken for an empty one.
GetListStrict(list, from, to) ==
    LET size  == Len(list)
        start == FromStart(AsInt(from), size)
        end   == FromStart(AsInt(to), size)
    IN  IF start >= end \/ start >= size THEN <<>>
        ELSE SubSeq(list, 1 + (IF start < 0 THEN 0 ELSE start),
                          1 + (IF end < size THEN end ELSE size - 1))

\* get_list, of a list that is there.
GetList(list, from, to) ==
    LET size  == Len(list)
        start == FromStart(AsInt(from), size)
        end   == FromStart(AsInt(to), size)
    IN  IF start > end \/ start >= size THEN <<>>
        ELSE SubSeq(list, 1 + (IF start < 0 THEN 0 ELSE start),
                          1 + (IF end < size THEN end ELSE size - 1))

--------------------------------------------------------------------------------
\* A command is looked at for its size, for SET's option, or for LRANGE's offsets;
\* the clock and the list are part of the input.  The elements of a list are told
\* apart by their places.
Sized   == [name : Names, size : 1 .. MaxSize]
Expires == [option : Options, n : 0 .. Word - 1, clock : 0 .. Word - 1]
Lists   == {[i \in 1 .. size |-> i] : size \in 0 .. MaxLength}
Ranges  == [list : Lists, from : Ints, to : Ints]

Requests == Sized \cup Expires \cup Ranges

ProcessSized ==
    /\ outcome = Pending /\ request \in Sized
    /\ outcome' = IF HasArguments(request.name, request.size)
                  THEN [lastRead |-> LastRead(request.name, request.size)] ELSE Refused
    /\ UNCHANGED request

ProcessSet ==
    /\ outcome = Pending /\ request \in Expires
    /\ outcome' = Expiry(request.option, request.n, request.clock)
    /\ UNCHANGED request

ProcessLRange ==
    /\ outcome = Pending /\ request \in Ranges
    /\ outcome' = [list |-> GetList(request.list, request.from, request.to)]
    /\ UNCHANGED request

ArgumentsInit == request \in Requests /\ outcome = Pending

ArgumentsNext == ProcessSized \/ ProcessSet \/ ProcessLRange

ArgumentsSpec == ArgumentsInit /\ [][ArgumentsNext]_argumentVars

--------------------------------------------------------------------------------
Processed(S) == outcome # Pending /\ request \in S

\* process never reads an element of a command that is not there.  The exception is a
\* SET with an option and no value, which reads one element past the end of the
\* array (CommandProcessor.cpp:126).
ArgumentsArePresent ==
    Processed(Sized) /\ outcome # Refused /\ request # [name |-> "SET", size |-> 4] =>
        outcome.lastRead <= request.size

\* The time that option stands for, in numbers of any size.
Exact(option, n, clock) ==
    IF option \in {"EX", "PX"} THEN clock + Milliseconds(option, n) ELSE Milliseconds(option, n)

\* SET refuses the timestamps that are not ahead of the clock, and only those, though
\* EXAT compares seconds and stores milliseconds; and what it stores has not expired
\* yet, unless it does not fit in 64 bits (CommandProcessor.cpp:142).
ExpiryIsAhead ==
    Processed(Expires) =>
      LET exact == Exact(request.option, request.n, request.clock)
      IN  IF request.option \in {"EXAT", "PXAT"} /\ exact <= request.clock THEN outcome = Refused
          ELSE outcome.ok /\ (exact < Word => outcome.time = exact /\ outcome.time >= request.clock)

\* What LRANGE means: element i has the offsets i - 1, and i - 1 - Len(list) from the
\* end; it is selected when it is neither before from nor after to.
Selected(list, from, to) ==
    LET Offset(i, other) == IF other < 0 THEN i - 1 - Len(list) ELSE i - 1
    IN  {i \in DOMAIN list : from <= Offset(i, from) /\ Offset(i, to) <= to}

\* get_list gives the elements that LRANGE means, each once and in their order, for
\* offsets of either sign and on either side of the list's ends, as long as they fit
\* in an int (DictionaryManager.cpp:288).
RangeSelects ==
    Processed(Ranges) =>
      LET given == outcome.list
      IN  /\ {given[i] : i \in DOMAIN given} = Selected(request.list, request.from, request.to)
          /\ \A i, j \in DOMAIN given : i < j => given[i] < given[j]

================================================================================
