------------------------------ MODULE RequestPath ------------------------------
(***************************************************************************)
(* What the web server makes of a request's path (WebServer.cpp,           *)
(* normalize_request), and what the path denotes.                          *)
(*                                                                         *)
(* A path is the sequence of its components: what url_decode and the       *)
(* replacement of backslashes leave of it, split at every slash, so that   *)
(* it begins with "" for the leading slash and ends with "" for a trailing *)
(* one.  A component with an escape that does not decode is "malformed".   *)
(***************************************************************************)
EXTENDS Integers, FiniteSets, SequencesExt

Rejected == [ok |-> FALSE, path |-> <<>>]
Kept(path) == [ok |-> TRUE, path |-> path]

\* Mutant: a component "." is kept wherever it is.
PushedWithDots(path, done, i) ==
    CASE ~done.ok \/ path[i] = "" -> done
      [] done.ok /\ path[i] = ".." ->
           IF done.path = <<>> THEN Rejected ELSE Kept(Front(done.path))
      [] OTHER -> Kept(Append(done.path, path[i]))

\* What component i makes of done, the components that are kept so far.  The last one,
\* with no slash behind it, is not compared with ".".
Pushed(path, done, i) ==
    CASE ~done.ok \/ path[i] = "" \/ (path[i] = "." /\ i < Len(path)) -> done
      [] done.ok /\ path[i] = ".." ->
           IF done.path = <<>> THEN Rejected ELSE Kept(Front(done.path))
      [] OTHER -> Kept(Append(done.path, path[i]))

\* normalize_request: components are pushed and popped from left to right.
Normalize(path) ==
    LET done[i \in 0 .. Len(path)] ==
            IF i = 0 THEN Kept(<<>>) ELSE Pushed(path, done[i - 1], i)
    IN  IF "malformed" \in ToSet(path) THEN Rejected ELSE done[Len(path)]

--------------------------------------------------------------------------------
(***************************************************************************)
(* The reference: where a path leads in a tree, with no stack.             *)
(***************************************************************************)
IsName(component) == component \notin {"", ".", ".."}

\* How far below the root the first n components lead.
Depth(path, n) ==
    Cardinality({i \in 1 .. n : IsName(path[i])}) - Cardinality({i \in 1 .. n : path[i] = ".."})

LeavesRoot(path) == \E n \in 1 .. Len(path) : Depth(path, n) < 0

\* Component i goes down to depth k, and none of the ones up to n goes back above it.
Leads(path, n, i, k) ==
    /\ IsName(path[i])
    /\ Depth(path, i) = k
    /\ \A j \in i .. n : Depth(path, j) >= k

\* The names that no later ".." takes back, one for each depth.
Denotes(path) ==
    LET n == Len(path)
    IN  [k \in 1 .. Depth(path, n) |-> path[CHOOSE i \in 1 .. n : Leads(path, n, i, k)]]

================================================================================
