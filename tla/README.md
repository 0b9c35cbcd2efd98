# TLA+ models of the servers and tools in MySolutionsToCodingChallenges

The repository holds solutions to a dozen coding challenges in C++. Three of
them are concurrent network programs built on asio (`src/load-balancer`,
`src/redis-server`, `src/web-server`); the others are command-line tools
(`grep-tool` with its own regular expression engine, `sort-tool`,
`json-parser`, `calculator-tool`, `compression-tool`, `uniq-tool`, `cut-tool`,
`which-tool`, `word-count-tool`). The models cover what is hardest to test:
handlers that interleave on a pool of threads, locks that are released between a
check and the action it allows, bytes that arrive in pieces, a snapshot file that
a crash may cut short, threads that still run while the program is taken down,
and, of the tools, the regular expression engine, whose answer for every pattern
no list of examples settles.

Contents: [inventory](#1-inventory), [modules](#2-modules-and-the-code),
[runs](#3-runs), [bounds](#4-bounds), [fairness](#5-fairness),
[proofs](#6-proofs), [disagreements](#7-where-code-and-documentation-disagree),
[abstractions](#8-assumptions-and-abstractions), [plan](#9-plan).

To check a run: `tlc -config <cfg> <module>`; to check proofs:
`tlapm <module>_proofs.tla`. The runs are listed in `PROJECT.json`, which also
maps every definition to the lines of source it stands for.

## 1. Inventory

### Load balancer (`src/load-balancer`)

| Part | State | Operations | Correct when |
| --- | --- | --- | --- |
| `LoadBalancer` | none of its own; its handlers carry the ids of the user and of the backend connection | `accept`, `handle_accept`, `on_client_read_done`, the connect callback, `on_server_write_done`, `on_server_read_done`, `on_client_write_done` | each request gets one answer, from the backend chosen for it |
| `UserClientManager`, `UserClient` | map of users; per user one write buffer and a socket | create, get, remove; read, write | a user is kept until it is answered |
| `LbClientManager`, `LbClient` | map from id to backend connection; per connection one read buffer and a socket | add, get, remove; connect, read, write | an entry names a connection to that backend, and is removed by the request that made it |
| `HealthChecker`, `ServerDetails` | availability of each backend, the cursor of the round robin, a timer | timer, connect, write and read callbacks; `get_next_available_server` | dead backends are found out, live ones are used, requests are spread |
| `ThreadPool`, start and end of `LoadBalancer` | one `io_context`, its threads, the signal set, `m_is_stopped` | `start`, `run`, `stop`, the destructors | nothing is destroyed under a thread that may still take a handler; a signal ends the process |

Interaction: everything is a completion handler on one `io_context` that
several threads run; there are no strands. The registries and the backend list
have locks, but each call locks on its own. A backend connection is registered
under `<ip>_<port>_NH` (requests) or `_H` (health checks), **so two requests to
one backend share an id**. That decision is what most of the balancer's
properties are about.

### Redis server (`src/redis-server`)

| Part | State | Operations | Correct when |
| --- | --- | --- | --- |
| `Client`, `TcpBuffer` | read buffer, input buffer with two positions, write queue | `handle_read`, `handle_write`, `write`; append, consume | no byte is lost or used twice; one write at a time |
| `Server`, `ClientManager` | map of clients | accept, `on_read_done` | replies in the order of the commands |
| `RespParser`, `RespGenerator` | none | parse, generate | whole commands are found wherever TCP cuts them |
| `CommandProcessor` | none | one branch for each command | arguments checked before use |
| `DictionaryManager` | the map, a timer and its thread, one `shared_mutex` | set, get, remove, increment, decrement, push, `get_list`, save, load, expiry | updates are not lost; only expired keys disappear |
| `RdbManager` | `dump.rdb` | save, load | what SAVE answered OK to is there after a restart |

Interaction: commands of one connection run one after the other, those of
different connections concurrently; the expiry thread runs beside them. GET,
INCR, DECR and the expiry thread read under the lock, release it, and act.
SAVE copies the map of `shared_ptr`s under the lock and writes the copy after.

### Web server (`src/web-server`)

| Part | State | Operations | Correct when |
| --- | --- | --- | --- |
| `WebServer` | the registered handlers, the root | `accept`, `handle_accept`, `handle_client_read`, `handle_client_write`, `stop` | each complete request gets one response, the right one |
| `Client`, `ClientManager` | request buffer, write buffer; the map of clients | read until the header ends, write; create, get, remove | every client is removed in the end |
| `normalize_request`, `try_handle_static_file_request` | none | from a path to a response | the answer depends only on where the path leads |

Interaction: a connection is read in chunks until its header is complete, one
response is written, and the client is removed. The path is decoded, split at
slashes, and its components pushed and popped before it is looked up among the
handlers and, through `weakly_canonical`, the files.

### grep (`src/grep-tool`)

| Part | State | Operations | Correct when |
| --- | --- | --- | --- |
| parser (`parser.cpp`) | none: every function takes the rest of the pattern and returns what remains | `parse_regex` and one function for each production | nothing of the pattern is lost or read twice when an alternative fails |
| `Nfa` (`nfa.cpp`) | states, transitions, the number of the next group | one builder for each construct | the automaton accepts what the expression means, counted repetitions included |
| `Matcher` (`matcher.cpp`) | the breadth-first queue and the match states that were visited | `match_all`, one function for each kind of transition | what it reports is a match, it misses none, and it ends |
| `grep.cpp` | the options, the files left, `any_match` | the command line, the walk, each line, output and exit status | the selected lines are printed, and the status tells whether any was |

Interaction: sequential. The pattern is parsed and compiled once, and every line
of every file is searched with the same automaton. Patterns and lines are UTF-8,
decoded by hand in two places.

### Other tools

`sort-tool`, `json-parser`, `calculator-tool`, `compression-tool`, `uniq-tool`,
`cut-tool`, `which-tool` and `word-count-tool` are one sequential pass over their
input and are not modelled: section 9.

### What is hard to test

`PROJECT.json` lists every hazard at its line. By kind:

* *interleaving, atomicity, stale state*: shared ids and buffers in the balancer;
  overlapping rounds of health checks; the window between unlock and act in the
  dictionary; a `SAVE` while clients change lists in place;
* *partial failure and ordering*: handlers with and without a `return` after an
  error; early returns that skip a removal; two writes to one user; `stop()` and
  the destructors while pool threads are inside handlers; alternatives of the
  parser that fail after they consumed something;
* *crash recovery*: the snapshot is truncated before it is written;
* *numeric edges*: where the input buffer is compacted; the sign of a byte in a
  stored length; the narrowing of LRANGE's offsets; the end of the input, empty
  matches and counted repetitions in the regular expression engine; the last
  bucket of the radix sort;
* *liveness*: requests that nobody answers, keys that nobody reclaims, messages
  that nobody writes.

## 2. Modules and the code

```
LbClientManager   ServerSelection            TcpBuffer      RdbLength
   |    \          /      \                      |              |
   |     LoadBalancer    RoundRobin       RedisConnection  RedisSnapshot -- MCRedisSnapshot
   |         |                              |    |  \           |
HealthChecker LoadBalancer_proofs           |    |   \     RedisSnapshot_proofs
   |                                        |    |   PipelinedService (refined)
HealthChecker_proofs                        |   RedisConnection_proofs

RedisDictionary --- RedisCommands_proofs        ServerShutdown, RoundRobin -- ServerShutdown_proofs
                   /
CommandArguments --\
RespParser ---------- RedisCommands -- RespGenerator -- MCRedisCommands

RequestPath -- WebServer -- MCWebServer
                   |
            WebServer_proofs

Characters -- RegexConditions -- RegexParser --- RegexNfa, RegexMeaning --- Grep -- MCGrep
                     |                                                   /
                RegexMatcher --------------- GrepFiles -----------------+
                                                   \
Utf8 ----------------------------------------- Grep_proofs
```

The modules on the left of `Grep_proofs`, and those of every other module of proofs,
declare no RECURSIVE operator. That is why GrepFiles takes the automata as
constants and Grep, where they come from the parser and the builder, is apart.

**LbClientManager** is the registry: a function from id to connection, with
`insert` that keeps what is there (`std::unordered_map::insert`), a lookup and
an erase. A backend stands for its id, since the id is made of its endpoint.

**ServerSelection** is `get_next_available_server`: the first available backend
after the cursor, around the ring, the cursor's own last.

**RoundRobin** runs that operator alone, with any verdicts between requests.

**LoadBalancer** is the request path. The state of a request is the operation
it waits for (`phase`); each action is one completion handler from its first
line to its last, except `on_server_read_done`, which is two steps because its
write to the user and its removal of the registry entry are two calls that
other handlers may come between. A read is two steps as well: asio fills the
connection's buffer (`ReadCompletes`), and the handler runs later and copies
it (`OnServerReadDone`), by when another read may have used it. `wire` is what
the backend's end of the socket has done.

**HealthChecker** has the same life of a connection for checks, and `crashed`
for the null pointer at `HealthChecker.cpp:114`. The timer is armed again
without regard to the checks under way, so rounds may overlap. `overlap` is
chosen once for each behaviour: without it, the period leaves every round the
time to end.

**ServerShutdown** is the life of the program around the handlers: the pool's
threads are started, main joins them in `run()`, a signal or an exception makes
threads leave, and main runs the destructors, one step for each (the body of
`~LoadBalancer`, its members in reverse order of declaration, and the pool last,
which joins). What a handler does is left open but for whether it was begun
before the members went. `stop()` is two steps, since it stops the `io_context`
before it sets the flag that the destructor looks at.

**RedisDictionary** has a step for every stretch of code under one lock. A
command that goes on after it released the lock leaves what it read in
`command[c]`; `overtaken` is history: what happened to the entry meanwhile. An
erased entry makes a held reference dangle, so what is read through it is any
timestamp. An expired key's INCR stores a `RespInt`, as in the code.

**RespParser** has an operator for each parse function, over bytes: what it
returns is complete (a value and its length), invalid (how much is given up) or
incomplete. `parse` collects the results up to the end of the bytes or to a byte
that begins no value; `on_read_done` makes answers of them and leaves the rest
for the next read. Where the code loops or calls itself, a function counts: `ElementsFrom`
the elements of an array, `ElementUpTo` how deep arrays may be in one another,
`ParseUpTo` the results. `parse_element` and `parse` apply them to the number of
bytes, which no depth and no count exceeds.

**RespGenerator** is `generate`, and what it says of a server that reads its bytes. `UpTo`
are the values (`RespType`) whose arrays are in one another up to a depth, plain ones or
any others; `GenerateBy` is the text of a value, by its type, and `GenerateUpTo` applies it
depth by depth, as the recursion of `generate_resp_array` does. `Depth` is the depth of
the values that are sent. `ReadablePlain` are the plain values that can be read back.

**CommandArguments** is what a command makes of its arguments, whatever the
dictionary holds: how many elements it must have and which ones are then read;
the timestamp that SET's options stand for, in arithmetic modulo `Word`; and
`get_list`, with offsets passed as 64 bits and narrowed to an int. `Selected` is
what LRANGE means, by the two offsets that every element has; the elements of a
list are told apart by their places.

**RedisCommands** is that, with what the server makes of bytes that come in one or
two reads (`ReadTwice`: what the first one leaves goes before what the second one
brings).

**TcpBuffer** is the pair of positions, with `append`'s refusal and `consume`'s
two rules: an empty buffer goes back to its start, and a start beyond the
middle moves the rest to the front.

**RedisConnection** is a connection over that buffer: each read appends to
what is there (or is parsed in place when nothing is), the whole commands in it
are processed, one message with their replies is queued, and the rest is kept.
The writing side is the queue, `async_write`, and `handle_write`, which pops
the message and starts the next.

**PipelinedService** is what the connection promises: commands are taken up in
batches, and replies arrive one for each command, in order, never before the
command. RedisConnection implements it, with `commands` and `delivered` for its
two variables.

**RdbLength** is `write_length` and `read_length`, with the width and the sign
of every byte.

**RedisSnapshot** is SAVE in steps (copy under the lock; open and truncate;
length; entries; end mark; close), two of them at a time, against clients that
change the dictionary, and `Restart`, which leaves any prefix of an open stream
in the file, perhaps with a torn block, and loads it. `load` past the end of
the file acts on unassigned variables: every outcome is allowed.

**RequestPath** is `normalize_request` over the components of a path, a fold
that pushes and pops; and, beside it, the reference: `Depth` counts how far
below the root a prefix of the path is, and `Denotes` keeps the names that no
later `..` takes back, without a stack.

**WebServer** is the life of a connection: accepted, read in pieces (`received`
counts units of the header), answered, removed; one action for each completion
handler. A handler's answer is computed by `Respond`, through `Normalize`, the
table of handlers, and the files as `tests.sh` lays them out, with a link out
of the root. Nothing else depends on the request, so a read hands over what it is
answered with together with what it calls for (`Exchanges`, `due`). `StopsRunning` is a signal, or an exception that leaves a handler.

**Characters** gives the code points that patterns and lines are made of: a few
of each class that the tools tell apart, and every character that the syntax of
regular expressions uses; ASCII's order and its two cases as in the C library.

**Utf8** is one round of `convert_to_u32string` over bytes, beside `Utf8Bytes`, the
UTF-8 form of a code point by its definition.

**RegexParser** has an operator for each parse function. It takes the rest of the
pattern and returns what it parsed and what remains, or `Failed`.

**RegexNfa** has an operator for each builder. An automaton is the sequence of its
states, each the sequence of its transitions: their order decides which match the
search finds first.

**RegexConditions** and **RegexMatcher** are the search. One step takes a match
state (position, state of the automaton, groups) from the queue and follows
its transitions, as `process_*_transition` does; `match_all` starts the next
search after the last match. The operators take the text as a parameter, so that the
proofs can speak of any line and not just of the one being searched. What a transition does is split in three: whether it
may be taken (`Passes`), how many characters it takes (`Offset`) and what it does
to the groups (`RangesAfter`).

**RegexMeaning** is the reference: the set of *ways* in which an expression can
match from a position, each the place where it ends and its groups, by recursion
over the syntax, with no automaton, no queue and no order. It also writes a
parsed expression down again, which is what the parser is compared with.

**GrepFiles** is `main`: the command line, the walk over files and directories, the
lines, what is printed and the exit status, with RegexMatcher's actions for each
line. A job is an invocation. `LinesRead` says without the walk which lines it reads:
the concatenation of what the arguments hold (`ArgumentText`, `TreeText`). Whether a pattern is accepted and the automaton it
becomes are the constants `Compiles` and `Automaton`. **Grep** gives them their
values (`accepts`, `compile_regex`, over RegexParser and RegexNfa), and states what
RegexMeaning says of the outcome.

## 3. Runs

| Run | Module, cfg | States | What it shows |
| --- | --- | --- | --- |
| `round_robin` | RoundRobin | 144 | while the verdicts stand, no backend gets a second request before each other available one got one |
| `balancer` | LoadBalancer | 55,496 | see below |
| `balancer_answered` | LoadBalancer, LoadBalancerAnswered | violated | a request may never be answered |
| `health` | HealthChecker | 11,842 | see below |
| `shutdown` | ServerShutdown | 1,008 | see below |
| `dictionary` | RedisDictionary | 579,387 | see below |
| `commands` | MCRedisCommands, RedisCommands | 113,812 | see below |
| `connection` | RedisConnection | 25,899 | see below |
| `snapshot` | MCRedisSnapshot, RedisSnapshot | 653,033 | see below |
| `snapshot_lengths` | MCRedisSnapshot, RedisSnapshotLengths | violated | a length of 128 comes back as 65408 |
| `web_server` | MCWebServer, WebServer | 13,830 | see below |
| `grep` | MCGrep, Grep | 171,669 | see below |

`TypeOK` is a property of the run `connection`; in LoadBalancer, HealthChecker,
RedisDictionary, ServerShutdown and WebServer it is a part of the invariant that
the proofs establish. The other properties:

*balancer.* `AloneIsServed`: a request that shares its backend with no other is
always answered, with its own reply or a 503, unless its own connection died.
Everything that goes wrong in the balancer thus needs two requests to one
backend or a failure. What still holds between such requests:
`AnswerFromChosenServer` (a reply may be another request's, but never another
backend's), `RegistryMatchesServer`,
`UserKeptUntilAnswered`, and `RequestEnds` (no handler waits for ever on a
connection that another request has used up). With failures:
`TwoAnswersOnlyAfterFailure` and `LeakOnlyAfterFailure` say exactly when the
missing `return` and the early return bite.

*health.* `NoLeakedEntry`: however rounds overlap, no entry outlives its checks.
`DownIsDetected`: a backend that goes down for good is found out, or a handler
has crashed. When rounds do not overlap, `FoundWhenSerial`: every handler finds
its own connection and none crashes; and `UpIsDetected`: a backend that comes
up for good is used in the end.

*shutdown.* `DestroyedInOrder`: the members go only after the `io_context` was
stopped, so that no thread takes a new handler on a balancer that is being
destroyed, and the `io_context` goes only after every thread left it. That a
handler begun before may still meet destroyed members is possible in the code,
and in the model (`EndHandler` may abort). `EndsOnceAsked`: after a signal, or an
exception that takes main out of `run()`, the process ends.

*dictionary.* `ExpiredUnlessOvertaken` and `IncrementUnlessOvertaken`: what was
decided under the lock still holds when it is acted on, unless someone stored
or removed that key in between. `LiveKeyStaysUnlessStale`: apart from those
cases a live key is never lost and keeps its expiry.
`ExpiredIsReclaimed`: an expired key goes, though no client may ask for it. The
exceptions are real: two INCRs may add one, and GET may remove a key that a SET
has renewed in between. The properties say that there are no others.

*commands.* `ArgumentsArePresent` (no element is read that is not there, but for a SET with
an option and no value), `ExpiryIsAhead` (SET refuses the timestamps that are
not ahead, and what it accepts has not expired, unless it wraps around; EXAT
compares seconds and stores milliseconds), and `RangeSelects` (LRANGE against
its meaning, for offsets of both signs on and beyond both ends that fit an int). The
wrap-around and offsets outside an int do go wrong; the two properties
leave them out (section 7). Of the bytes:
`CutsDontMatter` (the answers, and the bytes that are left, are the same wherever
TCP cuts the bytes, well-formed or not, unless a byte begins no value; such a
byte, when it comes with the second read, costs the values of that read their
answers, and no others), and `WrittenIsRead` (the server reads back what
RespGenerator writes, each value once and in order. The exceptions are null, which
is written `_`, with which parse lets no value begin; a bulk string with a CRLF in it,
which is cut there; and a simple string or an error with a CR or an LF in it).

*connection.* `OneWriter`: one `async_write` at a time, none forgotten, with
reads and writes on different threads. `RepliesInOrder`: the refinement of
PipelinedService. `DropOnlyLongCommands`: `append`'s refusal, which
`handle_read` ignores, only ever meets a command that fills half the buffer
less one read, however TCP cuts the stream. `EveryCommandAnswered`: replies
that are queued when the client closes its side are still sent.

*snapshot.* `RestartRestores`: after a SAVE answered OK, with no other writing
along, a restart finds the dictionary as it was at one moment. The antecedent
lists what spoils it: a length that is not read back, a list that grew between
its length and its elements, and a number. Nothing is promised from the moment that
the next SAVE empties the file, as there is no second one to fall back on: a
kill before that SAVE ends is among the steps, and loses both (section 7). `AllOrNothing`: with a number
the restart finds everything or nothing, never a part.

*web_server.* `RegistryIsLive`: `m_clients` holds exactly the clients that an
operation is pending for, on every way through the handlers. `OneResponse`: at
most one response for each connection, and none before the whole header has
arrived, however it was cut and whatever follows it. `ResponseMeetsRequest`:
for every path within the bounds the client gets the response that the place it
denotes calls for; a path that ends in `.` is the exception, since the last
component is not compared with it. `EveryRequestEnds`: after a whole header the
client is removed in the end; what it got by then is the other two's matter, and it
got nothing where the write failed. The header's end is a number of units: that
`find` sees it where two reads cut it is not exercised.

*grep.* `PatternIsReadWhole`: what the parser made of a pattern, written down
again, together with what it left, is the pattern, and it leaves nothing but what
follows an unmatched parenthesis. `OutcomeIsAWay`: a match that the automaton and
the search arrive at, with its groups, is one of the ways that the expression's
meaning allows, and a search throws only where the meaning runs past the end of
the line. Both sides are counted from where the match begins, so that it
holds whether positions are those in the line, as `match_all` reports them, or those
within each match, as its test expects (section 7). `MatchesDisjointAndComplete`:
matches do not overlap, and no place was passed over where the expression matches; so
dropping visited match states loses nothing. `PrintsSelectedLines`: the output is the lines of the files that
the options and the pattern ask for, in their order. `StatusTellsOutput`: what the
exit status says of the output, but for a directory with a file that does not open,
whose status is a failure whatever was printed; what is printed then is in
`PrintsSelectedLines`. `GrepEnds`: every invocation ends, whatever the
pattern repeats. Groups that a counted repetition copies are numbered anew by each
copy, and a capital in the pattern changes under `-i`; the properties name these
two cases (`NumberedAnew`, `CaseMatters`) and leave them out.

Each property of a passing run has a mutant in `PROJECT.json`, an operator
beside the one it replaces ("Mutant:" in the comment), that violates it: a
dropped guard, a missing removal, a wrong cursor, a lost write.

Deadlock checking is off where the system may stop: when all users have been
served or web clients answered, a client has gone, the bound on changes is
reached, a process has ended (ServerShutdown, Grep), or (HealthChecker) a handler
has crashed. RoundRobin and the dictionary can always go on.

## 4. Bounds

* **balancer**: two users and two backends. The hazards are between two
  requests that share an id (both users to one backend) and are absent between
  two that do not (one each); a third user adds no new pair of handlers.
  Backends may flip at any time, and every accept, read, write and connect may
  fail. `balancer_answered` uses one backend to force the sharing.
* **health checks**: one backend; backends have ids and verdicts of their own and
  share nothing but the timer. `Rounds` bounds the rounds with a live
  connection: two overlap. A name is used again once nothing of its round is
  alive, so the number of rounds in a behaviour is unbounded.
* **round robin**: four backends, so that up to three are skipped.
* **dictionary**: two clients, two keys and the expiry thread; the clock has
  two values, so a key may expire once or not; numbers up to 1. A lost or stale update needs two actors on one key. The
  second key makes the sample of the expiry thread choose.
* **commands**: bytes: values of each type alone, in pairs, in arrays and in
  arrays of arrays, as they are written; every sequence of up to four out of ten
  bytes (one for each type, a digit, a letter, CR and LF); and three requests
  with any one byte changed or lost; each of them cut anywhere. Four bytes hold
  a whole value and the next one's first byte, or a value with its CRLF cut.
  `Depth = 2` holds an array in an array.
  Commands of up to six elements, one more than any is asked for;
  `Word = 16`, `Second = 3`, with every clock and number below `Word`; an int
  from -8 to 7 and lists of up to four elements, so that offsets lie on both
  sides of both ends.
* **connection**: 12 bytes of buffer and reads of 3 for 8192 and 2048: 4 to 1
  as in the code. Commands up to 9 bytes, longer than half the buffer plus one
  read, so that chunks are dropped. `MaxCommands = 5` leaves room for two
  messages in the queue behind one being written. The proof holds for all
  values.
* **snapshot**: two keys, two SAVEs, three changes, one restart. Lengths 1 and
  128: one that survives and one that does not. Savers and keys are
  interchangeable (`SYMMETRY`; the properties of this run are safety properties).
* **shutdown**: three pool threads and main. A thread can be in a handler, in
  `stop()`, and about to leave at once with main in a destructor; the proof of
  `DestroyedInOrder` holds for any number.
* **grep**: every pattern of up to four characters out of `a b * ? ( ) | .`
  against four lines; some 70 longer patterns, a few for each construct
  (bounded and lazy repetition, sets, classes, categories, anchors, groups and
  backreferences, and malformed ones of each) against eight lines; `-i` on
  patterns with capitals; and 360 invocations with several files, directories,
  files that are binary, missing or do not open, and standard input twice. The
  engine is sequential, so the jobs are the only choice; four characters nest a
  repetition in a group and put an alternative beside it.
* **web server**: three clients (one accepted, one being read, one being
  answered); a header of three units read two at a time, so that its end falls
  within, at the end of, and between reads. Paths of up to four components, each
  empty, `.`, `..`, a handler's, a file's, the link's, the name of a file beside
  the root, or undecodable: four suffice to go down the link and to leave the
  root and come back.

## 5. Fairness

* *LoadBalancer*: weak fairness of each request's handlers, of the completion of
  writes to users, and of each backend's side of a connection. The first two are
  what the pool does: threads run queued handlers, and an asynchronous
  operation on a socket ends. The third is an assumption about backends, since
  the code has no timeout: a backend that holds a connection open without
  answering would keep a request for ever. Accepts and users' reads are not
  fair: a user may never connect or never send.
* *HealthChecker*: the same, and the timer fires. Backends flip freely; the
  liveness properties speak of a backend that stays up or down.
* *RedisDictionary*: the expiry thread runs (a timer of ten seconds on a thread
  of its own). Clients are not fair. `ExpiredIsReclaimed` needs a sample that
  covers the keys with an expiry; a smaller random sample gets to every key
  with probability one, which weak fairness does not express.
* *RedisConnection*: writes end and their handlers run. Reads are not fair.
* *WebServer*: the same.
* *ServerShutdown*: main's steps, the end of each handler and a thread's leaving
  are weakly fair: every thread gets processor time and no handler runs for ever.
  The signal's handler is strongly fair, over all threads together: it is enabled
  again and again between other handlers, and the `io_context` takes handlers in
  the order of its queue.
* *Grep*: the process goes on (weak fairness of the next step).

## 6. Proofs

All theorems hold for every value of the constants under the `ASSUME`s named in
the modules (a positive number of backends; `NoLbClient` is no user; buffer
sizes positive, and a read no longer than the buffer; lengths that `write_length`
stores; the characters of the Redis protocol are characters; integers of some width; files, lines and automata that are well-formed; paths that have a
component; at most 63 keys and changes in a snapshot).

**LoadBalancer_proofs.** `TypeCorrect` proves `TypeOK` with `Chosen` (a request
past the choice has a backend; one that reads has a target), since the
functions are applied to both. `ServedWhenAlone` (`AloneIsServed`),
`RegistryMatches` and `UserKept` come from one invariant, `IInv`:

* `Fresh`: nothing has been sent on the connection of a request that has not
  connected, or to its user. It is what keeps a new request from disturbing
  an old one.
* `RegistryMatchesServer` and `SameServer`: an entry, and hence the connection
  that a request reads from, belongs to the request's own backend. From it: a
  request alone on its backend can only find its own connection, and the
  removal at the end of another request cannot take its entry.
* `UserKeptUntilAnswered`.
* `AloneServed`: for a request that is alone, what holds at each point of its
  way (its entry is there when it looks it up; its buffer holds its own reply
  when its handler copies it; it has been answered when it ends). `AloneIsServed`
  by itself speaks only of the end and is not inductive.

**RedisConnection_proofs.** `IInv` is `TypeOK`, `Writer` (the writing side is
idle, writing the head of the queue, or about to run its handler), `Room` (the
buffer starts in its first half, since `consume` moves it otherwise; an empty
one is at 0), `Reading`, `Chain` (the messages in the queue answer consecutive
commands up to the last one processed) and `Delivery` (what the client has is
1, 2, 3, ... up to what the queue's head begins with). From it
`ConnectionTypeCorrect`, `OneWriterAtATime`, `OnlyLongCommandsDrop` (if a chunk
does not fit behind `end`, and `start` is in the first half, then what is held
exceeds half the capacity less a read), and `Implements`: every step is a step of
PipelinedService or leaves `commands` and `delivered` alone.

**WebServer_proofs.** `IInv` is `TypeOK`, `RegistryIsLive` and `AtMostOne`: what a
client got and what is being written to it are at most one response, and none
while its connection is new, being accepted or read. The last part is what
`OneResponse` lacks to be inductive: it says that a client whose header is
complete is not read again. From it `WebTypeCorrect`, `RegistryLive`, and
`OneResponseEach`.

`ResponseIsDue` (`ResponseMeetsRequest`) adds that a response is the one due, which
comes to `RespondsAsDue`: for every request the code's answer is the expected one. Its
heart is `NormalizeDenotes`, by induction over the components of a path of any
length: what `normalize_request` has kept after n components has as many names as
`Depth` counts, and its k-th name is the one that `Leads` at depth k; it has given
up exactly when a prefix left the root.

**LoadBalancer_proofs**, further on, builds on that invariant for what holds of
users that do share a backend. `Sources` (a buffer holds its own backend's reply;
a reply that a user got is from its own backend) gives
`RepliesFromChosenServer`. `Counts` relates the writes to a user, under way or
completed, to the stage of its request: at most one, and a second one only after
the write to the backend failed. It gives `TwoAnswersNeedFailure`. Both are shown
in two moves: `StepBounds` says, action by action, what a step may do to one
user (`Sourced`, `Counted`), and the invariants follow from that alone. For
`LeaksNeedFailure` the same is done by `StepLeaves` (`Leaves`, `Enters`): a
request that stops using its backend has removed the entry, or its user was
gone and its connection dead.

**HealthChecker_proofs.** `IInv` is `TypeOK`, `NoLeakedEntry` and `Serial`: of
rounds that do not overlap, each check owns the id of its backend from its connect
to its removal (`Owns`) and no handler has crashed. `NoEntryLeaks` holds with any
number of overlapping rounds; `SerialRoundsFind` is `Serial`'s consequence.

**ServerShutdown_proofs.** `IInv` is `TypeOK`, `StopIsKnown` (the flag, and a
thread inside `stop()`, mean that the `io_context` is stopped) and `Stages`: what
main has done by each of its stages; the members go only in the stages after it
was stopped, and the `io_context` only when every thread has left. From it
`DestroyedInOrderAlways`, for any number of threads.

**RedisCommands_proofs** begins with RedisDictionary. `IInv` is `TypeOK`, `AbsentNeverExpires` (without it a
key that was found expired could be absent, and its removal would overtake
nobody), `ExpiredUnlessOvertaken` and `IncrementUnlessOvertaken`. Storing and
removing are shown to keep it once (`StoreKeeps`, `RemoveKeeps`), and each action
cites them. The theorems are `ExpiredStands`, `IncrementStands`, and, from the
same invariant by `KeyStays`, the action property `LiveKeyStays`.

Its other theorems are of `CommandsSpec`, whose behaviours are one step each; `Right`
says that what the step made of the request is right. `CutsNeverMatter`
(`CutsDontMatter`) holds for any bytes, whatever their number and however deep their
arrays, and any cut:

* A parse function decides by a part of its bytes (`Used`): those of a value that is
  complete, and at most one more than those that are given up. Bytes that agree on that part
  (`Agree`) get the same result, and the first bytes of a value are never taken for an
  invalid one. That is `SimpleDecided`, `IntegerDecided`, `BulkDecided`,
  `NullDecided`; for arrays `ArrayDecided`, by induction over the elements, and
  `ElementDecided`, by induction over the depth; together `ValueDecided`. The byte
  more is needed: `$-2` is known not to be null by the 2, which is not given up with it.
* By induction over the number of bytes, `ParseFine` (what `parse` finds ends within the bytes,
  and the refused byte is one of them) and `CutsFine`. For a cut behind the first value,
  both reads begin with that value, and what is behind it is cut (`CutBehindValue`). A cut
  inside of the value leaves the first read incomplete (`NothingYet`), or the value is
  invalid and given up at the same place by both.
* `TwoReads` puts what the first read leaves before the second one.

`WrittenIsAlwaysRead` (`WrittenIsRead`) holds for values of any depth, with any texts and
numbers, and any number of values one after the other. `Reads(g, v)` says that wherever the bytes
g stand at the beginning of others, the value v is read from them and takes just them.

* The digits that are written of a number are read as this number (`DigitsAreNumber`,
  `NumberIsRead`, by induction over the digits; `IntegerIsRead` with the sign). A text without a
  CRLF, followed by one, is a line (`LineStands`, `HeadedLine`).
* With them `LinesAreRead` and `BulkIsRead`, which has two lines, and a digit where null has
  its minus sign (`NotNull`). `ItemsAreRead`, by induction over the elements, and `ArrayIsRead` go
  from the elements to the array, and `ValuesAreRead`, by induction over the depth, to all values.
* `JoinedIsAnswered`, by induction from the last value to the first one, says that `on_read_done`
  of the bytes answers each value once and in order, and leaves nothing; `CutsNeverMatter` says
  that it makes no difference where they are cut.

The lemmas about `FlattenSeq` are `FlattenIsJoined` and `JoinedFacts`: the parts stand one behind
the other, each at its place.

The recursive functions are shown to be what their definitions say (`NumberRule`,
`ElementsRule`, `ElementRule`, `ParseRule`, `DigitsRule`, `UpToRule`, `GenerateRule`,
`JoinedRule`), and their bounds not to matter
(`ParseEnough`: more results than there are bytes are never found).

**RedisSnapshot_proofs.** `LengthRoundTrip`: a length up to 2^32 - 1 survives a
snapshot exactly when it is at most 63, above 16383, or its low byte is below
128. The run shows one length that does not; the theorem shows which.

`IInv` is `TypeOK` with what a SAVE has done at each of its steps: `Started` (the
file's first block is the preamble), `Kept` (what was
answered with OK is in the file, whole, and no stream is open), `Copied` (before the file is
opened, the whole copy is pending) and `Written` (the blocks behind the preamble are,
one for each key, the entries of the copy that are neither pending nor a number).
`SnapshotTypeCorrect` comes from its first part. `SavedIsRestored` (`RestartRestores`) and
`NeverAPart` (`AllOrNothing`) need more: `Greatest` (a set of numbers with a bound
has a greatest one) and `LoadsWhole`, that load gives back, key by key, what the
records of a whole file say. Both hold for all keys, values, lengths, and
any number of SAVEs at a time. There are at most 63 keys and changes, whose counts
are stored in one byte: of more, `LengthRoundTrip` says which survive.

**Grep_proofs** holds for all jobs and all automata with two assumptions:
`JobsAssumption` (arguments, lines and entries are sequences, at most one directory
deep, since a tree is the list of its files) and `AutomatonAssumption` (the
transitions of an accepted pattern lead from states to states). TLC checks both
on the run `grep`, with the automata that `compile_regex` makes.

* `StatusIsTold` (`StatusTellsOutput`). At the end the property relates the exit status
  to everything that was printed on the way, so `ToldInv` says what accounts for
  the output at each point: `Remaining` (the files and entries that are left were
  given) and `Accounted` (where something was printed, either `any_match` or
  the open file's own `any_match` knows, or a walk is under way that will set it,
  or one was cut short; where `any_match` is set, something was printed, or a
  binary file or a directory was given).
* `MatchesNeverOverlap` (`MatchesDisjoint`, one half of `MatchesDisjointAndComplete`).
  `MatchInv` adds `Placed` (the last match begins where the search began while it is
  the current one, and afterwards the search is behind it) and `Queued` (the
  match states in the queue are at or behind the place where the search
  started, so that no match has a negative length). `AfterIsState` is the step: no
  transition goes back.
* `SearchIsExact` and `NoMatchIsMissed`. What the search should find is said without
  queue and visited states: a *run* of the automaton over a text (`IsRun`) is a
  sequence of match states from `StartState(p)`, each reached from the one before by
  a transition that `Passes`; the automaton accepts from p if a run gets to its
  accept state. For any automaton and line: a search that found something found the end
  and the groups of a run to the accept state; one that found nothing began where there
  is no such run; one that threw was at a match state of a run whose transitions throw
  (`OutcomeIsExact`). And when `match_all` is through with a line, every result is one of a run
  from the place where it began, and no run from any place that no match takes gets
  to the accept state (`MatchesAreComplete`). The invariant is `ExactInv`. `Explored`:
  what is queued or visited is reached, and of what is visited nothing is at the
  accept state, and each of its branches is visited or queued; so when
  the queue is empty, what is visited is closed, and by induction along a run it is
  everything that can be reached (`RunsStay`). That is where dropping what was visited
  (`matcher.cpp:98-109`) could lose a match, and does not. `Swept`: every place before
  `from` is taken by a match or was searched in vain. The lemmas about `FlattenSeq`
  (`FlattenFirst`, `FlattenRange`) say that the queue gets the branches and nothing else.
* `PrintsAcceptedLines`. `AskedOf(LinesRead)` are the lines of the files, the directories and
  standard input that the automaton accepts after the change of their case (with `-v`,
  does not accept), without those that are no UTF-8; `PrintsAskedLines` says that a
  process which ends by itself has printed just that, in order. The invariant
  (`PrintedInv`) is that the lines printed so far, and those asked for among the lines
  not yet searched to their end (`Unread`: the line that is searched, the rest of the file,
  of the directory and of the arguments), are together always the same:
  `output \o AskedOf(Unread(k)) = AskedOf(LinesRead)`, with k arguments opened. The proof has
  a case for each action, and `SearchInv` for the one that prints:
  `SelectedIsAskedFor` goes from the matches that were found to what the automaton accepts.
* `DecodesWhatIsEncoded`, of Utf8: for every code point of up to 21 bits, whatever bytes
  follow, one round of `convert_to_u32string` takes the code point's UTF-8 form whole
  and returns the code point.

The rest of two modules is about smaller parts. In **RedisCommands_proofs**,
`ArgumentsAreRead`, `ExpiryIsExact` and `RangesAreExact`, of CommandArguments, for every
width of the numbers, length of a list and unit of the clock: a behaviour is one
step, and each kind of command has a lemma (`SizedRight`; `ExpiryRight`, with
`PastInSeconds`: to compare in seconds is to compare in milliseconds; `RangeRight`,
with `Fits`: nothing is narrowed that is an int). In **ServerShutdown_proofs**,
`TurnsAreAlwaysFair`, of RoundRobin: `TurnsInv` says that every available backend
between a chosen one and the cursor, in cyclic order, has been chosen since, and
that nobody was chosen who is not available; with it the choice of a backend again
means that all the others had their turn.

*Induction over data.* The library's induction theorems take an operator, which the
provers cannot instantiate. WebServer_proofs has them for sets and functions, from
the well-foundedness of the naturals: `NatSetInduction` (a set with 0 and every
successor holds all naturals; Grep_proofs and RedisCommands_proofs have it too) and `Recursion` (a function that
is computed step by step exists). With a definition by a recursive function, what
it computes for every input can be proved; a RECURSIVE operator cannot be reasoned
about.

Only model-checked: the liveness properties; and of Grep what relates the pattern's
syntax to the automaton: `PatternIsReadWhole`, `OutcomeIsAWay`, `PrintsSelectedLines` and the
other half of `MatchesDisjointAndComplete` compare with RegexMeaning, which is RECURSIVE
over syntax trees, as the parser and the builder are. For the last three, all behind the
automaton is proved: the search finds what the automaton accepts, and the tool prints
what the search finds. What is left to TLC is that the automaton of a pattern accepts what
the pattern means.

## 7. Where code and documentation disagree

1. `balancer_answered`: of two requests to one backend, the first one's read
   handler removes the shared id before the second one's write handler looks it
   up; that handler logs "Server not found" and returns. The second user gets
   neither an answer nor an error. The README invites concurrent requests.
2. `snapshot_lengths`: "the combined 14 bits represent the length": the low
   eight are sign-extended, and a string of 128 bytes is read as one of 65408.

Seen while modelling, with no run of their own:

* Load balancer: the branch for a missing connection in
  `HealthChecker::on_server_write_done` goes through the pointer that is null,
  and two overlapping rounds reach it (a period of 0 is accepted); a failed
  read's connection is shared, so a 500 may reach a user whose own connection
  worked.
* Redis: two INCRs read the same number and store the same successor, where the
  comment says "if exists and is a number, then increment"; INCR of a key that
  does not exist answers null and stores nothing, against the comment two lines
  above; GET (or the expiry thread) finds a key expired, a SET renews it, and the
  key is removed all the same; SAVE empties the last snapshot before it writes the
  next, so a kill in between leaves neither; what load makes of a file without its end
  hangs on variables that were never assigned; a huge `EX` wraps around to a
  timestamp in the past; SET with an option and no value reads past the end
  of its arguments; LRANGE accepts offsets of 64 bits and uses 32 of them;
  RespGenerator writes null as `_`, which RespParser knows as a null variant and
  refuses before it gets there; it reads `+\r\n` and `-\r\n` as empty values,
  which `invalid_tests_resp.txt` lists among the invalid ones, with a test that only
  prints; a bulk string with a CRLF inside is refused,
  though its length says where it ends.
* Web server: `/.` is not the same path as `/./`.
* grep: `.` does not look whether the line has ended (`matcher.cpp:56`); behind it
  the position is past the end, the next `substr` throws and the tool aborts.
  `-i` makes small letters of escapes in the pattern as well (`\W` becomes `\w`).
  Groups that a counted repetition copies get new numbers.
  `match_all` reports positions in the line (`matcher.cpp:119`), and two registered
  tests contradict it: `matcher_test.cpp:147-148` expects `Range{0, 0, 2}` for both
  matches of `ab` in `zababx`, where the code has 1 to 3 and 3 to 5, and `:190`
  expects `Range{0, 0, 0}` for all three of `a*` in `bbb`, where it has 0, 1 and 2.
  The tool only asks whether there is a match, so its output is the same either way,
  and no property decides between them.
  `\G` is called `PreviousMatchEnd` (`parser_types.hpp:261`) and holds at the start
  of the line only (`matcher.cpp:473`); RegexMeaning takes the code's meaning.
* Load balancer: `handle_accept` asks `is_open` to learn whether a signal has
  stopped the server, as its comment says; nothing closes the acceptor on a
  signal.

## 8. Assumptions and abstractions

* Handlers are atomic except where another thread can see between two of their
  calls: `on_server_read_done`, GET, INCR, DECR, the expiry thread, SAVE.
* `it->second` is read after the unlock in INCR and DECR
  (`DictionaryManager.cpp:179`). The read of the timestamp is one step: a torn
  read of a `std::optional` that is being written is not modelled; a read
  through an erased entry gives any timestamp.
* Numbers in the dictionary stay in a small range: the overflow at `INT64_MAX`
  is a hazard with no property. So do the numbers that RespParser reads; digits
  beyond 64 bits, which it refuses, are left out.
* Backend replies are one read long. A longer reply is cut by the code after one
  read of 2048 bytes; the model does not tell a cut reply from a whole one.
* RedisConnection's client sends well-formed commands, of given sizes; other
  bytes are in RespParser and RedisCommands. After a chunk was dropped, the stream
  the parser sees is no longer the client's, and reads are not followed further;
  the writes are.
* A snapshot that two streams wrote is marked `mixed`, and load may make anything
  of it. The file is a sequence of blocks, and a crash leaves any prefix of
  them, perhaps with a torn block: when exactly a stream flushes is left open.
  Expiry timestamps are written and read with their entries and left out.
* TLC's integers have 32 bits, hence `length \div 65536 <= 65535` for
  `length <= 0xFFFFFFFF` in RdbLength.
* A path's text is abstracted to its components after `url_decode` and the
  replacement of backslashes; a component whose escape does not decode is
  `malformed`. The decoding itself is not modelled.
* Files do not change while the web server runs, and the only link is the one
  of `tests.sh`.
* `char` is signed, as where the program is built by default (x86-64).
* grep: the path in front of a line, colours and the text of messages are left
  out, and so are exceptions of `recursive_directory_iterator` (a directory
  that may not be read); counts beyond 32 bits; `match_one`, which the tool does
  not call. The C library's character tests are taken for ASCII.

Not modelled:

* the shutdown of the Redis and web servers, and the health checker's `stop()`.
  The web server's pool is that of the balancer, which ServerShutdown is about;
  the Redis server has three `io_context`s, each with threads of its own;
* `sort-tool`: five sequential algorithms over one array, whose promise (a sorted
  permutation) a unit test checks on any input;
* `json-parser`: sequential, and its behaviour is the grammar itself; the depth
  of its recursion grows with the input, which no bounded model shows;
* `calculator-tool`: its results are floating-point numbers, which TLA+ has not;
* `compression-tool`: bit and file I/O over a code table, sequential;
* `uniq-tool`, `cut-tool`, `which-tool`, `word-count-tool`: single passes over a
  stream or a list of directories;
* the wording of messages, and logging.

## 9. Plan

What is left, in this order:

1. **LoadBalancer composed with HealthChecker**, in place of verdicts that change
   freely: how many requests a dead backend gets before it is found out.
2. The shutdown of the Redis server (the expiry thread is joined by its
   destructor) and of the web server, as ServerShutdown.
3. A proof that the automata that RegexNfa builds are as `AutomatonAssumption` says.
4. **SortAlgorithms**: quick, heap, merge and radix sort, a step for each
   iteration; indices in range and termination.
