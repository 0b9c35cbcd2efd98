--------------------------- MODULE WebServer_proofs ----------------------------
(***************************************************************************)
(* Proofs about WebServer, for any clients, paths and header length: the   *)
(* registry holds the live clients, each gets at most one response, and    *)
(* that is the one that its request calls for.                             *)
(*                                                                         *)
(* What normalize_request makes of a path is found by induction over its   *)
(* components (NormalizeDenotes).                                          *)
(***************************************************************************)
EXTENDS WebServer, FiniteSetTheorems, TLAPS

--------------------------------------------------------------------------------
(***************************************************************************)
(* Induction and recursion over the naturals, with sets and functions for  *)
(* what the library's theorems take operators for.                         *)
(***************************************************************************)
\* A set that holds 0 and each number's successor holds every natural number.
LEMMA NatSetInduction ==
    ASSUME NEW S, 0 \in S, \A n \in Nat : n \in S => n + 1 \in S
    PROVE  Nat \subseteq S
<1>1. SUFFICES ASSUME Nat \ S # {} PROVE FALSE
  OBVIOUS
<1>2. PICK x \in Nat \ S : \A y \in Nat \ S : ~(<<y, x>> \in OpToRel(<, Nat))
  BY <1>1, NatLessThanWellFounded, WFMin
<1>3. \A y \in Nat \ S : ~(y < x)
  BY <1>2 DEF OpToRel
<1>4. x \in Nat /\ x # 0 /\ x \notin S
  OBVIOUS
<1>5. x - 1 \in Nat /\ x - 1 < x /\ (x - 1) + 1 = x
  BY <1>4
<1>6. x - 1 \in S
  BY <1>3, <1>5
<1> QED BY <1>4, <1>5, <1>6

\* The first n results of applying step again and again.
Steps(g, S, start, step, n) ==
    /\ g \in [0 .. n -> S]
    /\ g[0] = start
    /\ \A i \in 0 .. n - 1 : g[i + 1] = step[<<g[i], i + 1>>]

\* The function f is computed from start, one step at a time.
Obeys(f, start, step) == f[0] = start /\ \A n \in Nat : f[n + 1] = step[<<f[n], n + 1>>]

LEMMA Recursion ==
    ASSUME NEW S, NEW start \in S, NEW step \in [S \X Nat -> S]
    PROVE  \E f \in [Nat -> S] : Obeys(f, start, step)
<1> DEFINE Part(g, n) == Steps(g, S, start, step, n)
           Has == {n \in Nat : \E g : Part(g, n)}
<1>1. Part([i \in 0 .. 0 |-> start], 0)
  BY DEF Steps
<1>2. ASSUME NEW n \in Nat, NEW g, Part(g, n) PROVE \E h : Part(h, n + 1)
  <2> DEFINE next == step[<<g[n], n + 1>>]
             h == [i \in 0 .. n + 1 |-> IF i = n + 1 THEN next ELSE g[i]]
  <2>1. n \in 0 .. n /\ n + 1 \in Nat
    OBVIOUS
  <2>2. g[n] \in S
    BY <1>2, <2>1 DEF Steps
  <2>3. <<g[n], n + 1>> \in S \X Nat
    BY <2>1, <2>2
  <2>4. next \in S
    BY <2>3
  <2> HIDE DEF next
  <2>5. h \in [0 .. n + 1 -> S] /\ h[0] = start
    BY <1>2, <2>4 DEF Steps
  <2>6. ASSUME NEW i \in 0 .. (n + 1) - 1 PROVE h[i + 1] = step[<<h[i], i + 1>>]
    <3>1. CASE i = n
      <4>1. h[i + 1] = next /\ h[i] = g[n]
        BY <3>1
      <4> QED BY <3>1, <4>1 DEF next
    <3>2. CASE i # n
      <4>1. i \in 0 .. n - 1 /\ h[i + 1] = g[i + 1] /\ h[i] = g[i]
        BY <3>2
      <4> QED BY <1>2, <4>1 DEF Steps
    <3> QED BY <3>1, <3>2
  <2>7. Part(h, n + 1)
    BY <2>5, <2>6 DEF Steps
  <2> QED BY <2>7
<1> HIDE DEF Part
<1>3. \A n \in Nat : \E g : Part(g, n)
  <2>1. 0 \in Has /\ \A n \in Nat : n \in Has => n + 1 \in Has
    BY <1>1, <1>2
  <2>2. Nat \subseteq Has
    <3> HIDE DEF Has
    <3> QED BY <2>1, NatSetInduction
  <2> QED BY <2>2
<1> DEFINE g(n) == CHOOSE h : Part(h, n)
           f == [n \in Nat |-> g(n)[n]]
<1>4. ASSUME NEW n \in Nat PROVE Part(g(n), n)
  BY <1>3
<1> HIDE DEF g
<1>5. ASSUME NEW n \in Nat PROVE g(n + 1)[n] = g(n)[n]
  <2> DEFINE same == {i \in Nat : i <= n => g(n + 1)[i] = g(n)[i]}
  <2>1. Part(g(n), n) /\ Part(g(n + 1), n + 1)
    BY <1>4
  <2>2. 0 \in same
    BY <2>1 DEF Part, Steps
  <2>3. ASSUME NEW i \in Nat, i \in same PROVE i + 1 \in same
    <3>1. SUFFICES ASSUME i + 1 <= n PROVE g(n + 1)[i + 1] = g(n)[i + 1]
      OBVIOUS
    <3>2. i \in 0 .. n - 1 /\ i \in 0 .. (n + 1) - 1 /\ g(n + 1)[i] = g(n)[i]
      BY <2>3, <3>1
    <3> QED BY <2>1, <3>2 DEF Part, Steps
  <2>4. Nat \subseteq same
    <3> HIDE DEF same
    <3> QED BY <2>2, <2>3, NatSetInduction
  <2> QED BY <2>4
<1>6. f \in [Nat -> S] /\ f[0] = start
  <2>1. ASSUME NEW n \in Nat PROVE g(n)[n] \in S
    <3>1. n \in 0 .. n
      OBVIOUS
    <3> QED BY <1>4, <3>1 DEF Part, Steps
  <2>2. g(0)[0] = start
    BY <1>4 DEF Part, Steps
  <2> QED BY <2>1, <2>2
<1>7. ASSUME NEW n \in Nat PROVE f[n + 1] = step[<<f[n], n + 1>>]
  <2>1. n \in 0 .. (n + 1) - 1 /\ n + 1 \in Nat
    OBVIOUS
  <2>2. g(n + 1)[n + 1] = step[<<g(n + 1)[n], n + 1>>]
    BY <1>4, <2>1 DEF Part, Steps
  <2> QED BY <2>1, <2>2, <1>5
<1> HIDE DEF f
<1> QED BY <1>6, <1>7 DEF Obeys

--------------------------------------------------------------------------------
\* The results of the loop of normalize_request.
Results == [ok : BOOLEAN, path : Seq(STRING)]

LEMMA PushedTyped ==
    ASSUME NEW path \in Seq(STRING), NEW i \in 1 .. Len(path), NEW done \in Results
    PROVE  Pushed(path, done, i) \in Results
<1>1. path[i] \in STRING
  OBVIOUS
<1>2. ASSUME done.path # <<>> PROVE Front(done.path) \in Seq(STRING)
  BY <1>2 DEF Results, Front
<1>3. Append(done.path, path[i]) \in Seq(STRING)
  BY <1>1 DEF Results
<1> QED BY <1>2, <1>3 DEF Pushed, Rejected, Kept, Results

\* Normalize is the last of the loop's results.
LEMMA NormalizeSteps ==
    ASSUME NEW path \in Seq(STRING)
    PROVE  \E done \in [0 .. Len(path) -> Results] :
              /\ done[0] = Kept(<<>>)
              /\ \A i \in 1 .. Len(path) : done[i] = Pushed(path, done[i - 1], i)
              /\ Normalize(path) = IF "malformed" \in ToSet(path) THEN Rejected
                                   ELSE done[Len(path)]
<1> DEFINE Is(d) == d = [i \in 0 .. Len(path) |-> IF i = 0 THEN Kept(<<>>)
                                                  ELSE Pushed(path, d[i - 1], i)]
           step == [x \in Results \X Nat |-> IF x[2] \in 1 .. Len(path) THEN Pushed(path, x[1], x[2]) ELSE x[1]]
<1>1. step \in [Results \X Nat -> Results]
  <2>1. ASSUME NEW x \in Results \X Nat PROVE step[x] \in Results
    <3>1. x[1] \in Results /\ x[2] \in Nat
      OBVIOUS
    <3> QED BY <3>1, PushedTyped
  <2> QED BY <2>1
<1>2. Kept(<<>>) \in Results
  BY DEF Kept, Results
<1>3. PICK f \in [Nat -> Results] :
         f[0] = Kept(<<>>) /\ \A n \in Nat : f[n + 1] = step[<<f[n], n + 1>>]
  <2> HIDE DEF step, Is
  <2>1. \E f \in [Nat -> Results] : Obeys(f, Kept(<<>>), step)
    BY <1>1, <1>2, Recursion, Zenon
  <2> QED BY <2>1 DEF Obeys
<1>4. ASSUME NEW i \in 1 .. Len(path) PROVE f[i] = Pushed(path, f[i - 1], i)
  <2>1. i - 1 \in Nat /\ (i - 1) + 1 = i
    OBVIOUS
  <2>2. f[i] = step[<<f[i - 1], i>>]
    BY <1>3, <2>1
  <2>3. <<f[i - 1], i>> \in Results \X Nat
    BY <1>3, <2>1
  <2> QED BY <2>2, <2>3
<1> DEFINE d0 == [i \in 0 .. Len(path) |-> f[i]]
<1>5. Is(d0)
  <2>1. ASSUME NEW i \in 0 .. Len(path)
        PROVE  d0[i] = IF i = 0 THEN Kept(<<>>) ELSE Pushed(path, d0[i - 1], i)
    <3>1. CASE i = 0
      BY <1>3, <3>1
    <3>2. CASE i # 0
      <4>1. i \in 1 .. Len(path) /\ i - 1 \in 0 .. Len(path)
        BY <3>2
      <4> QED BY <1>4, <3>2, <4>1
    <3> QED BY <3>1, <3>2
  <2> QED BY <2>1
<1> DEFINE done == CHOOSE d : Is(d)
<1>6. Is(done)
  <2> HIDE DEF Is, d0
  <2> QED BY <1>5
<1>7. Normalize(path) = IF "malformed" \in ToSet(path) THEN Rejected ELSE done[Len(path)]
  BY DEF Normalize
<1> HIDE DEF done, d0, step
<1>8. done[0] = Kept(<<>>) /\ \A i \in 1 .. Len(path) : done[i] = Pushed(path, done[i - 1], i)
  BY <1>6
<1>9. done \in [0 .. Len(path) -> Results]
  <2> DEFINE Typed == {i \in Nat : i <= Len(path) => done[i] \in Results}
  <2>1. 0 \in Typed
    BY <1>2, <1>8
  <2>2. ASSUME NEW i \in Nat, i \in Typed PROVE i + 1 \in Typed
    <3>1. SUFFICES ASSUME i + 1 <= Len(path) PROVE done[i + 1] \in Results
      OBVIOUS
    <3>2. i + 1 \in 1 .. Len(path) /\ (i + 1) - 1 = i /\ done[i] \in Results
      BY <2>2, <3>1
    <3>3. done[i + 1] = Pushed(path, done[i], i + 1)
      BY <1>8, <3>2
    <3> QED BY <3>2, <3>3, PushedTyped
  <2>3. Nat \subseteq Typed
    <3> HIDE DEF Typed
    <3> QED BY <2>1, <2>2, NatSetInduction
  <2>4. \A i \in 0 .. Len(path) : done[i] \in Results
    BY <2>3
  <2>5. DOMAIN done = 0 .. Len(path) /\ done = [i \in DOMAIN done |-> done[i]]
    BY <1>6
  <2> QED BY <2>4, <2>5
<1> HIDE DEF Is
<1> QED BY <1>7, <1>8, <1>9

--------------------------------------------------------------------------------
\* Counting the members of S up to n.
LEMMA Counting ==
    ASSUME NEW S, NEW n \in Nat
    PROVE  /\ Cardinality({i \in 1 .. n : i \in S}) \in Nat
           /\ Cardinality({i \in 1 .. 0 : i \in S}) = 0
           /\ Cardinality({i \in 1 .. n + 1 : i \in S})
                 = Cardinality({i \in 1 .. n : i \in S}) + (IF n + 1 \in S THEN 1 ELSE 0)
<1> DEFINE Up(m) == {i \in 1 .. m : i \in S}
<1>1. ASSUME NEW m \in Nat PROVE IsFiniteSet(Up(m)) /\ Cardinality(Up(m)) \in Nat
  <2>1. IsFiniteSet(1 .. m)
    BY FS_Interval
  <2>2. Up(m) \subseteq 1 .. m
    OBVIOUS
  <2>3. IsFiniteSet(Up(m))
    <3> HIDE DEF Up
    <3> QED BY <2>1, <2>2, FS_Subset
  <2>4. Cardinality(Up(m)) \in Nat
    <3> HIDE DEF Up
    <3> QED BY <2>3, FS_CardinalityType
  <2> QED BY <2>3, <2>4
<1>2. Cardinality(Up(0)) = 0
  <2>1. Up(0) = {}
    OBVIOUS
  <2> HIDE DEF Up
  <2> QED BY <2>1, FS_EmptySet
<1>3. Cardinality(Up(n + 1)) = Cardinality(Up(n)) + (IF n + 1 \in S THEN 1 ELSE 0)
  <2>1. CASE n + 1 \in S
    <3>1. Up(n + 1) = Up(n) \cup {n + 1} /\ n + 1 \notin Up(n)
      BY <2>1
    <3>2. IsFiniteSet(Up(n))
      BY <1>1
    <3> HIDE DEF Up
    <3>3. Cardinality(Up(n) \cup {n + 1}) = Cardinality(Up(n)) + 1
      BY <3>1, <3>2, FS_AddElement
    <3> QED BY <2>1, <3>1, <3>3
  <2>2. CASE n + 1 \notin S
    <3>1. Up(n + 1) = Up(n)
      BY <2>2
    <3>2. Cardinality(Up(n)) \in Nat
      BY <1>1
    <3> HIDE DEF Up
    <3> QED BY <2>2, <3>1, <3>2
  <2> QED BY <2>1, <2>2
<1> QED BY <1>1, <1>2, <1>3

\* One component takes the depth down by one, up by one, or leaves it.
LEMMA DepthSteps ==
    ASSUME NEW path, NEW n \in Nat
    PROVE  /\ Depth(path, 0) = 0
           /\ Depth(path, n) \in Int
           /\ IsName(path[n + 1]) => Depth(path, n + 1) = Depth(path, n) + 1
           /\ path[n + 1] = ".." => Depth(path, n + 1) = Depth(path, n) - 1
           /\ path[n + 1] \in {"", "."} => Depth(path, n + 1) = Depth(path, n)
<1> DEFINE names == {i \in Nat : IsName(path[i])}
           ups == {i \in Nat : path[i] = ".."}
           Names(m) == Cardinality({i \in 1 .. m : i \in names})
           Ups(m) == Cardinality({i \in 1 .. m : i \in ups})
<1>1. ASSUME NEW m \in Nat PROVE Depth(path, m) = Names(m) - Ups(m)
  <2>1. /\ {i \in 1 .. m : IsName(path[i])} = {i \in 1 .. m : i \in names}
        /\ {i \in 1 .. m : path[i] = ".."} = {i \in 1 .. m : i \in ups}
    OBVIOUS
  <2> QED BY <2>1 DEF Depth
<1>2. n + 1 \in names <=> IsName(path[n + 1])
  OBVIOUS
<1>3. n + 1 \in ups <=> path[n + 1] = ".."
  OBVIOUS
<1> HIDE DEF names, ups
<1>4. /\ Names(n) \in Nat /\ Names(0) = 0
      /\ Names(n + 1) = Names(n) + (IF n + 1 \in names THEN 1 ELSE 0)
  BY Counting
<1>5. /\ Ups(n) \in Nat /\ Ups(0) = 0
      /\ Ups(n + 1) = Ups(n) + (IF n + 1 \in ups THEN 1 ELSE 0)
  BY Counting
<1> HIDE DEF Names, Ups
<1>6. ~IsName("..") /\ ~IsName("") /\ ~IsName(".")
  BY DEF IsName
<1>7. "" # ".." /\ "." # ".."
  OBVIOUS
<1>8. /\ Depth(path, 0) = Names(0) - Ups(0)
      /\ Depth(path, n) = Names(n) - Ups(n)
      /\ Depth(path, n + 1) = Names(n + 1) - Ups(n + 1)
  BY <1>1
<1>9. IsName(path[n + 1]) => path[n + 1] # ".."
  BY <1>6
<1>10. path[n + 1] \in {"", "."} => ~IsName(path[n + 1]) /\ path[n + 1] # ".."
  BY <1>6, <1>7
<1>11. path[n + 1] = ".." => ~IsName(path[n + 1])
  BY <1>6
<1>12. Depth(path, 0) = 0 /\ Depth(path, n) \in Int
  BY <1>4, <1>5, <1>8
<1>13. IsName(path[n + 1]) => Depth(path, n + 1) = Depth(path, n) + 1
  BY <1>2, <1>3, <1>4, <1>5, <1>8, <1>9
<1>14. path[n + 1] = ".." => Depth(path, n + 1) = Depth(path, n) - 1
  BY <1>2, <1>3, <1>4, <1>5, <1>8, <1>11
<1>15. path[n + 1] \in {"", "."} => Depth(path, n + 1) = Depth(path, n)
  <2>1. ASSUME path[n + 1] \in {"", "."} PROVE n + 1 \notin names /\ n + 1 \notin ups
    BY <1>2, <1>3, <1>10, <2>1
  <2>2. n + 1 \notin names /\ n + 1 \notin ups => Depth(path, n + 1) = Depth(path, n)
    BY <1>4, <1>5, <1>8
  <2> QED BY <2>1, <2>2
<1> QED BY <1>12, <1>13, <1>14, <1>15

\* No two components lead to the same depth.
LEMMA OneLeads ==
    ASSUME NEW path, NEW n \in Nat, NEW k \in Int,
           NEW i \in 1 .. n, Leads(path, n, i, k), NEW j \in 1 .. n, Leads(path, n, j, k)
    PROVE  i = j
<1>1. ASSUME NEW a \in 1 .. n, Leads(path, n, a, k), NEW b \in 1 .. n, Leads(path, n, b, k), a < b
      PROVE  FALSE
  <2>1. b - 1 \in Nat /\ (b - 1) + 1 = b /\ b - 1 \in a .. n
    BY <1>1
  <2>2. IsName(path[b]) /\ Depth(path, b) = k /\ Depth(path, b - 1) >= k
    BY <1>1, <2>1 DEF Leads
  <2>3. Depth(path, b) = Depth(path, b - 1) + 1 /\ Depth(path, b - 1) \in Int
    BY <2>1, <2>2, DepthSteps
  <2> QED BY <2>2, <2>3
<1> QED BY <1>1

--------------------------------------------------------------------------------
\* What a component makes of the ones before it, one lemma for each kind.
LEMMA PushedRejected ==
    ASSUME NEW path, NEW i, NEW done \in Results, ~done.ok
    PROVE  Pushed(path, done, i) = done
  BY Zenon DEF Pushed

LEMMA PushedNothing ==
    ASSUME NEW path, NEW i, NEW done \in Results,
           path[i] = "" \/ (path[i] = "." /\ i < Len(path))
    PROVE  Pushed(path, done, i) = done
  BY Zenon DEF Pushed

LEMMA PushedUp ==
    ASSUME NEW path, NEW i, NEW done \in Results, done.ok, path[i] = ".."
    PROVE  Pushed(path, done, i)
              = IF done.path = <<>> THEN Rejected ELSE Kept(Front(done.path))
<1>1. path[i] # "" /\ path[i] # "."
  OBVIOUS
<1> QED BY <1>1 DEF Pushed

LEMMA PushedName ==
    ASSUME NEW path, NEW i, NEW done \in Results, done.ok,
           IsName(path[i]) \/ (path[i] = "." /\ ~(i < Len(path)))
    PROVE  Pushed(path, done, i) = Kept(Append(done.path, path[i]))
<1>1. path[i] # "" /\ path[i] # ".." /\ ~(path[i] = "." /\ i < Len(path))
  BY DEF IsName
<1> QED BY <1>1 DEF Pushed

\* The stack after n components is what they denote, and there is one unless they have
\* led out of the root.
Follows(path, result, n) ==
    /\ result \in Results
    /\ result.ok <=> \A m \in 1 .. n : Depth(path, m) >= 0
    /\ result.ok => /\ Len(result.path) = Depth(path, n)
                    /\ \A k \in 1 .. Depth(path, n) :
                          \E i \in 1 .. n : Leads(path, n, i, k) /\ result.path[k] = path[i]

LEMMA FollowsStep ==
    ASSUME NEW path \in Seq(STRING), NEW n \in Nat, n + 1 <= Len(path),
           n + 1 < Len(path) \/ path[n + 1] # ".",
           NEW done, Follows(path, done, n)
    PROVE  Follows(path, Pushed(path, done, n + 1), n + 1)
<1> DEFINE next == Pushed(path, done, n + 1)
<1>1. next \in Results /\ done \in Results
  BY PushedTyped DEF Follows
<1>2. Depth(path, n) \in Int /\ Depth(path, n + 1) \in Int
  <2>1. n + 1 \in Nat
    OBVIOUS
  <2>2. \A m \in Nat : Depth(path, m) \in Int
    BY DepthSteps
  <2> QED BY <2>1, <2>2
<1>3. \A m \in 1 .. n + 1 : m \in 1 .. n \/ m = n + 1
  OBVIOUS
<1>4. n >= 1 /\ done.ok => Depth(path, n) >= 0
  BY DEF Follows
<1>5. done.ok => Depth(path, n) >= 0
  <2>1. Depth(path, 0) = 0
    BY DepthSteps
  <2> QED BY <1>4, <2>1
<1>6. ASSUME NEW k \in Int, NEW i \in 1 .. n, Leads(path, n, i, k), Depth(path, n + 1) >= k
      PROVE  i \in 1 .. n + 1 /\ Leads(path, n + 1, i, k)
  <2>1. \A j \in i .. n + 1 : j \in i .. n \/ j = n + 1
    OBVIOUS
  <2> QED BY <1>6, <2>1 DEF Leads
<1> HIDE DEF next
<1>7. CASE ~done.ok
  <2>1. next = done
    BY <1>1, <1>7, PushedRejected DEF next
  <2>2. \E m \in 1 .. n + 1 : ~(Depth(path, m) >= 0)
    BY <1>7 DEF Follows
  <2> QED BY <1>1, <1>7, <2>1, <2>2 DEF Follows, next
<1>8. CASE done.ok /\ path[n + 1] \in {"", "."}
  <2>1. next = done
    BY <1>1, <1>8, PushedNothing DEF next
  <2>2. Depth(path, n + 1) = Depth(path, n)
    BY <1>8, DepthSteps
  <2>3. \A m \in 1 .. n + 1 : Depth(path, m) >= 0
    BY <1>3, <1>5, <1>8, <2>2 DEF Follows
  <2>4. ASSUME NEW k \in 1 .. Depth(path, n + 1)
        PROVE  \E i \in 1 .. n + 1 : Leads(path, n + 1, i, k) /\ next.path[k] = path[i]
    <3>1. PICK i \in 1 .. n : Leads(path, n, i, k) /\ done.path[k] = path[i]
      BY <1>8, <2>2 DEF Follows
    <3> QED BY <1>2, <1>6, <2>1, <3>1
  <2>5. Len(next.path) = Depth(path, n + 1)
    BY <1>8, <2>1, <2>2 DEF Follows
  <2> QED BY <1>1, <1>8, <2>1, <2>3, <2>4, <2>5 DEF Follows, next
<1>9. CASE done.ok /\ path[n + 1] = ".." /\ done.path = <<>>
  <2>1. next = Rejected
    BY <1>1, <1>9, PushedUp DEF next
  <2>2. Depth(path, n) = 0
    BY <1>9 DEF Follows
  <2>3. Depth(path, n + 1) = Depth(path, n) - 1
    BY <1>9, DepthSteps
  <2>4. ~(Depth(path, n + 1) >= 0) /\ n + 1 \in 1 .. n + 1
    BY <2>2, <2>3
  <2> QED BY <1>1, <2>1, <2>4 DEF Follows, Rejected, next
<1>10. CASE done.ok /\ path[n + 1] = ".." /\ done.path # <<>>
  <2>1. next = Kept(Front(done.path))
    BY <1>1, <1>10, PushedUp DEF next
  <2>2. done.path \in Seq(STRING) /\ Len(done.path) \in Nat \ {0}
    BY <1>1, <1>10 DEF Results
  <2>3. Depth(path, n + 1) = Depth(path, n) - 1 /\ Depth(path, n) = Len(done.path)
    BY <1>10, DepthSteps DEF Follows
  <2>4. \A m \in 1 .. n + 1 : Depth(path, m) >= 0
    BY <1>3, <1>10, <2>2, <2>3 DEF Follows
  <2>5. next.path = Front(done.path) /\ next.ok
    BY <2>1 DEF Kept
  <2>6. /\ Len(next.path) = Len(done.path) - 1
        /\ \A k \in 1 .. Len(done.path) - 1 : next.path[k] = done.path[k]
    BY <2>2, <2>5 DEF Front
  <2>7. ASSUME NEW k \in 1 .. Depth(path, n + 1)
        PROVE  \E i \in 1 .. n + 1 : Leads(path, n + 1, i, k) /\ next.path[k] = path[i]
    <3>1. k \in 1 .. Depth(path, n) /\ k \in 1 .. Len(done.path) - 1
      BY <2>2, <2>3
    <3>2. PICK i \in 1 .. n : Leads(path, n, i, k) /\ done.path[k] = path[i]
      BY <1>10, <3>1 DEF Follows
    <3>3. next.path[k] = done.path[k] /\ Depth(path, n + 1) >= k /\ k \in Int
      BY <1>2, <2>6, <3>1
    <3> QED BY <1>6, <3>2, <3>3
  <2>8. Len(next.path) = Depth(path, n + 1)
    BY <2>3, <2>6
  <2> QED BY <1>1, <2>4, <2>5, <2>7, <2>8 DEF Follows, next
<1>11. CASE done.ok /\ IsName(path[n + 1])
  <2>1. next = Kept(Append(done.path, path[n + 1]))
    BY <1>1, <1>11, PushedName DEF next
  <2>2. done.path \in Seq(STRING) /\ Len(done.path) \in Nat /\ path[n + 1] \in STRING
    BY <1>1 DEF Results
  <2>3. Depth(path, n + 1) = Depth(path, n) + 1 /\ Depth(path, n) = Len(done.path)
    BY <1>11, DepthSteps DEF Follows
  <2>4. \A m \in 1 .. n + 1 : Depth(path, m) >= 0
    BY <1>3, <1>11, <2>2, <2>3 DEF Follows
  <2>5. next.path = Append(done.path, path[n + 1]) /\ next.ok
    BY <2>1 DEF Kept
  <2>6. /\ Len(next.path) = Len(done.path) + 1
        /\ \A k \in 1 .. Len(done.path) : next.path[k] = done.path[k]
        /\ next.path[Len(done.path) + 1] = path[n + 1]
    BY <2>2, <2>5
  <2>7. ASSUME NEW k \in 1 .. Depth(path, n + 1)
        PROVE  \E i \in 1 .. n + 1 : Leads(path, n + 1, i, k) /\ next.path[k] = path[i]
    <3>1. CASE k \in 1 .. Depth(path, n)
      <4>1. PICK i \in 1 .. n : Leads(path, n, i, k) /\ done.path[k] = path[i]
        BY <1>11, <3>1 DEF Follows
      <4>2. next.path[k] = done.path[k] /\ Depth(path, n + 1) >= k /\ k \in Int
        BY <1>2, <2>3, <2>6, <3>1
      <4> QED BY <1>6, <4>1, <4>2
    <3>2. CASE k = Depth(path, n) + 1
      <4>1. Leads(path, n + 1, n + 1, k)
        BY <1>2, <1>11, <2>3, <3>2 DEF Leads
      <4>2. n + 1 \in 1 .. n + 1 /\ next.path[k] = path[n + 1]
        BY <2>3, <2>6, <3>2
      <4> QED BY <4>1, <4>2
    <3> QED BY <1>2, <2>3, <3>1, <3>2
  <2>8. Len(next.path) = Depth(path, n + 1)
    BY <2>3, <2>6
  <2> QED BY <1>1, <2>4, <2>5, <2>7, <2>8 DEF Follows, next
<1> QED BY <1>7, <1>8, <1>9, <1>10, <1>11 DEF IsName, next

\* With the components that the stack holds known, it is what the path denotes.
LEMMA FollowsDenotes ==
    ASSUME NEW path \in Seq(STRING), NEW result, Follows(path, result, Len(path)), result.ok
    PROVE  result.path = Denotes(path)
<1> DEFINE n == Len(path)
           at(k) == CHOOSE i \in 1 .. n : Leads(path, n, i, k)
<1>1. n \in Nat /\ Depth(path, n) = Len(result.path) /\ result.path \in Seq(STRING)
  BY DEF Follows, Results
<1>2. ASSUME NEW k \in 1 .. Len(result.path) PROVE result.path[k] = path[at(k)]
  <2>1. PICK i \in 1 .. n : Leads(path, n, i, k) /\ result.path[k] = path[i]
    BY <1>1 DEF Follows
  <2>2. at(k) \in 1 .. n /\ Leads(path, n, at(k), k)
    BY <2>1
  <2>3. k \in Int
    BY <1>1
  <2> HIDE DEF at, n
  <2>4. at(k) = i
    BY <1>1, <2>1, <2>2, <2>3, OneLeads
  <2> QED BY <2>1, <2>4
<1>3. Denotes(path) = [k \in 1 .. Len(result.path) |-> path[at(k)]]
  BY <1>1 DEF Denotes
<1>4. result.path = [k \in 1 .. Len(result.path) |-> result.path[k]]
  BY <1>1
<1> HIDE DEF at
<1>5. [k \in 1 .. Len(result.path) |-> result.path[k]]
         = [k \in 1 .. Len(result.path) |-> path[at(k)]]
  BY <1>2
<1> QED BY <1>3, <1>4, <1>5

\* Without a malformed escape, normalize_request rejects the paths that lead out of the
\* root and keeps what the others denote, but for a "." at the very end.
LEMMA NormalizeDenotes ==
    ASSUME NEW path \in Seq(STRING) \ {<<>>}, "malformed" \notin ToSet(path)
    PROVE  /\ Normalize(path) \in Results
           /\ Normalize(path).ok <=> ~LeavesRoot(path)
           /\ Normalize(path).ok /\ Last(path) # "." => Normalize(path).path = Denotes(path)
           /\ Normalize(path).ok /\ Last(path) = "." =>
                 \E names \in Seq(STRING) : Normalize(path).path = Append(names, ".")
<1> DEFINE len == Len(path)
<1>1. PICK done \in [0 .. len -> Results] :
         /\ done[0] = Kept(<<>>)
         /\ \A i \in 1 .. len : done[i] = Pushed(path, done[i - 1], i)
         /\ Normalize(path) = done[len]
  BY NormalizeSteps
<1>2. len \in Nat \ {0} /\ Last(path) = path[len]
  BY DEF Last
<1> HIDE DEF len
<1> DEFINE plain == {n \in Nat : n < len \/ (n = len /\ path[len] # ".") => Follows(path, done[n], n)}
<1>3. 0 \in plain
  <2>1. Depth(path, 0) = 0
    BY DepthSteps
  <2>2. Kept(<<>>).ok /\ Kept(<<>>).path = <<>> /\ Kept(<<>>) \in Results
    BY DEF Kept, Results
  <2>3. Follows(path, Kept(<<>>), 0)
    BY <2>1, <2>2 DEF Follows
  <2> QED BY <1>1, <2>3
<1>4. ASSUME NEW n \in Nat, n \in plain PROVE n + 1 \in plain
  <2>1. SUFFICES ASSUME n + 1 < len \/ (n + 1 = len /\ path[len] # ".")
                 PROVE  Follows(path, done[n + 1], n + 1)
    OBVIOUS
  <2>2. n + 1 \in 1 .. len /\ (n + 1) - 1 = n /\ n < len
    BY <1>2, <2>1
  <2>3. Follows(path, done[n], n) /\ done[n + 1] = Pushed(path, done[n], n + 1)
    BY <1>1, <1>4, <2>2
  <2>4. n + 1 <= Len(path) /\ (n + 1 < Len(path) \/ path[n + 1] # ".")
    BY <1>2, <2>1, <2>2 DEF len
  <2> QED BY <2>3, <2>4, FollowsStep
<1>5. Nat \subseteq plain
  <2> HIDE DEF plain
  <2> QED BY <1>3, <1>4, NatSetInduction
<1>6. LeavesRoot(path) <=> ~(\A m \in 1 .. len : Depth(path, m) >= 0)
  <2>1. \A m \in Nat : Depth(path, m) \in Int
    BY DepthSteps
  <2>2. \A m \in 1 .. len : Depth(path, m) \in Int
    BY <1>2, <2>1
  <2> QED BY <2>2 DEF LeavesRoot, len
<1>7. CASE path[len] # "."
  <2>1. Follows(path, done[len], len)
    BY <1>2, <1>5, <1>7
  <2>2. done[len].ok <=> ~LeavesRoot(path)
    BY <1>6, <2>1 DEF Follows
  <2>3. done[len].ok => done[len].path = Denotes(path)
    BY <2>1, FollowsDenotes DEF len
  <2> QED BY <1>1, <1>2, <1>7, <2>1, <2>2, <2>3 DEF Follows
<1>8. CASE path[len] = "."
  <2> DEFINE n == len - 1
  <2>1. n \in Nat /\ n < len /\ n + 1 = len /\ len \in 1 .. len
    BY <1>2
  <2>2. Follows(path, done[n], n) /\ done[n] \in Results /\ done[len] = Pushed(path, done[n], len)
    BY <1>1, <1>5, <2>1
  <2>3. Depth(path, len) = Depth(path, n)
    <3> HIDE DEF n
    <3>1. path[n + 1] \in {"", "."}
      BY <1>8, <2>1
    <3> QED BY <2>1, <3>1, DepthSteps
  <2>4. (\A m \in 1 .. len : Depth(path, m) >= 0) <=> (\A m \in 1 .. n : Depth(path, m) >= 0)
    <3>1. Depth(path, 0) = 0
      BY DepthSteps
    <3>2. \A m \in 1 .. len : m \in 1 .. n \/ m = len
      BY <2>1
    <3>3. n = 0 \/ n \in 1 .. n
      BY <2>1
    <3>4. (\A m \in 1 .. n : Depth(path, m) >= 0) => Depth(path, len) >= 0
      BY <2>3, <3>1, <3>3
    <3> QED BY <1>2, <3>2, <3>4
  <2>5. done[n].ok <=> ~LeavesRoot(path)
    BY <1>6, <2>2, <2>4 DEF Follows
  <2>6. CASE ~done[n].ok
    <3>1. done[len] = done[n]
      BY <2>2, <2>6, PushedRejected
    <3> QED BY <1>1, <2>2, <2>5, <2>6, <3>1
  <2>7. CASE done[n].ok
    <3>1. ~(len < Len(path))
      BY <1>2 DEF len
    <3>2. done[len] = Kept(Append(done[n].path, "."))
      BY <1>8, <2>2, <2>7, <3>1, PushedName
    <3>3. done[len].ok /\ done[len].path = Append(done[n].path, ".") /\ done[n].path \in Seq(STRING)
      BY <2>2, <3>2 DEF Kept, Results
    <3> QED BY <1>1, <1>2, <1>8, <2>1, <2>5, <2>7, <3>3
  <2> QED BY <2>6, <2>7
<1> QED BY <1>7, <1>8

--------------------------------------------------------------------------------
\* The server's answer to a path that leads to the place q is the file's, and 404 for
\* one that a link takes out of the root.
FileOf(q) == IF q = <<>> THEN <<"www", "index.html">> ELSE <<"www">> \o q

LEMMA FilesAgree ==
    ASSUME NEW method, NEW q \in Seq(STRING)
    PROVE  StaticFile(method, q) = IF method = "GET" /\ IsRegularFile(FileOf(q)) THEN Ok(FileOf(q))
                                   ELSE NotFound
<1> DEFINE name == IF q = <<>> THEN <<"index.html">> ELSE q
           place == Canonical(name)
           Strings == STRING \cup {"www", "index.html"}
<1>1. name \in Seq(Strings) /\ name # <<>>
  <2>1. q \in Seq(Strings)
    OBVIOUS
  <2>2. <<"index.html">> \in Seq(Strings) /\ <<"index.html">> # <<>>
    OBVIOUS
  <2> QED BY <2>1, <2>2
<1>2. FileOf(q) = <<"www">> \o name
  <2> DEFINE file == <<"www">> \o <<"index.html">>
  <2>1. file \in Seq(Strings) /\ Len(file) = 2 /\ file[1] = "www" /\ file[2] = "index.html"
    OBVIOUS
  <2>2. file = <<"www", "index.html">>
    <3> HIDE DEF file
    <3> QED BY <2>1
  <2> QED BY <2>2 DEF FileOf
<1> HIDE DEF name
<1>3. CASE Head(name) = "prefix_escape"
  <2>1. place = <<"www2">> \o Tail(name)
    BY <1>1, <1>3 DEF Canonical
  <2>2. Tail(name) \in Seq(Strings)
    BY <1>1
  <2>3. Head(place) = "www2"
    BY <2>1, <2>2
  <2>4. ~InsideRoot(place)
    BY <2>3 DEF InsideRoot
  <2>5. FileOf(q)[2] = "prefix_escape"
    BY <1>1, <1>2, <1>3
  <2>6. ~IsRegularFile(FileOf(q))
    BY <2>5 DEF IsRegularFile
  <2> HIDE DEF place
  <2> QED BY <2>4, <2>6 DEF StaticFile, name, place
<1>4. CASE Head(name) # "prefix_escape"
  <2>1. place = FileOf(q)
    BY <1>2, <1>4 DEF Canonical
  <2>2. Head(place) = "www"
    BY <1>1, <1>2, <2>1
  <2>3. InsideRoot(place)
    BY <2>2 DEF InsideRoot
  <2> HIDE DEF place
  <2> QED BY <2>1, <2>3 DEF StaticFile, name, place
<1> QED BY <1>3, <1>4

\* Whatever the path looks like, the answer is the one that it calls for.
LEMMA RespondsAsDue == \A r \in Requests : Respond(r) = Expected(r)
<1> SUFFICES ASSUME NEW r \in Requests PROVE Respond(r) = Expected(r)
  OBVIOUS
<1>1. CASE r = NoRequest
  BY <1>1 DEF Respond, Expected
<1>2. CASE r # NoRequest
  <2> DEFINE path == r.path
             normal == Normalize(path)
  <2>1. path \in Seq(STRING) \ {<<>>}
    BY <1>2, PathsAssumption DEF Requests
  <2>2. CASE "malformed" \in ToSet(path)
    <3>1. ~normal.ok
      <4>1. normal = Rejected
        BY <2>1, <2>2, NormalizeSteps
      <4> QED BY <4>1 DEF Rejected
    <3> QED BY <1>2, <2>2, <3>1 DEF Respond, Expected
  <2>3. CASE "malformed" \notin ToSet(path) /\ LeavesRoot(path)
    <3>1. ~normal.ok
      BY <2>1, <2>3, NormalizeDenotes
    <3> QED BY <1>2, <2>3, <3>1 DEF Respond, Expected
  <2>4. CASE "malformed" \notin ToSet(path) /\ ~LeavesRoot(path)
    <3> DEFINE q == normal.path
    <3>1. normal.ok /\ q \in Seq(STRING)
      BY <2>1, <2>4, NormalizeDenotes DEF Results
    <3>2. Respond(r) = IF IsHandled(r.method, q) THEN Ok(Version) ELSE StaticFile(r.method, q)
      BY <1>2, <3>1 DEF Respond
    <3>3. StaticFile(r.method, q) = IF r.method = "GET" /\ IsRegularFile(FileOf(q)) THEN Ok(FileOf(q))
                                    ELSE NotFound
      <4> HIDE DEF q
      <4> QED BY <3>1, FilesAgree
    <3>4. CASE Last(path) = "."
      <4>1. Expected(r) = NotFound
        BY <1>2, <2>4, <3>4 DEF Expected
      <4>2. PICK names \in Seq(STRING) : q = Append(names, ".")
        BY <2>1, <2>4, <3>1, <3>4, NormalizeDenotes
      <4>3. Len(q) >= 1 /\ q[Len(q)] = "."
        BY <4>2
      <4> HIDE DEF q
      <4>4. ~IsHandled(r.method, q)
        BY <4>3 DEF IsHandled, Version
      <4>5. ~IsRegularFile(FileOf(q))
        <5>1. q # <<>> /\ FileOf(q) = <<"www">> \o q
          BY <3>1, <4>3 DEF FileOf
        <5>2. Len(FileOf(q)) = Len(q) + 1 /\ FileOf(q)[Len(q) + 1] = "."
          BY <3>1, <4>3, <5>1
        <5>3. Len(q) + 1 = 2 => FileOf(q)[2] = "."
          BY <5>2
        <5> QED BY <3>1, <5>2, <5>3 DEF IsRegularFile
      <4> QED BY <3>2, <3>3, <4>1, <4>4, <4>5
    <3>5. CASE Last(path) # "."
      <4>1. q = Denotes(path)
        BY <2>1, <2>4, <3>1, <3>5, NormalizeDenotes
      <4>2. Expected(r) = IF r.method # "GET" THEN NotFound
                          ELSE IF q = Version THEN Ok(Version)
                          ELSE IF IsRegularFile(FileOf(q)) THEN Ok(FileOf(q))
                          ELSE NotFound
        BY <1>2, <2>4, <3>5, <4>1 DEF Expected, FileOf
      <4> HIDE DEF q
      <4> QED BY <3>2, <3>3, <4>2 DEF IsHandled
    <3> QED BY <3>4, <3>5
  <2> QED BY <2>2, <2>3, <2>4
<1> QED BY <1>1, <1>2

--------------------------------------------------------------------------------
\* Nothing is written to a client that is still read, and after that one response.
AtMostOne(c) ==
    /\ phase[c] # "done" => /\ writing[c] = 0 /\ sent[c] = <<>>
                            /\ received[c] < HeaderLength
    /\ Len(sent[c]) + writing[c] <= 1
    /\ Len(sent[c]) + writing[c] = 1 => received[c] = HeaderLength

IInv == TypeOK /\ RegistryIsLive /\ \A c \in Clients : AtMostOne(c)

--------------------------------------------------------------------------------
\* Every answer is one of the Responses: a file that is served is a regular file
\* inside the root.
LEMMA AnswersTyped == \A r \in Requests : Respond(r) \in Responses
<1> SUFFICES ASSUME NEW r \in Requests PROVE Respond(r) \in Responses
  OBVIOUS
<1>1. BadRequest \in Responses /\ NotFound \in Responses /\ Ok(Version) \in Responses
  BY DEF Responses
<1>2. ASSUME NEW method, NEW path PROVE StaticFile(method, path) \in Responses
  <2> DEFINE place == Canonical(IF path = <<>> THEN <<"index.html">> ELSE path)
  <2>1. CASE method = "GET" /\ InsideRoot(place) /\ IsRegularFile(place)
    <3>1. place # <<"www2", "secret.txt">>
      BY <2>1 DEF InsideRoot
    <3>2. place = <<"www", "index.html">> \/ place = <<"www", "my_pic.png">>
      BY <2>1, <3>1 DEF IsRegularFile
    <3>3. Ok(place) \in Responses
      BY <3>2 DEF Responses
    <3> QED BY <2>1, <3>3 DEF StaticFile
  <2>2. CASE ~(method = "GET" /\ InsideRoot(place) /\ IsRegularFile(place))
    BY <1>1, <2>2 DEF StaticFile
  <2> QED BY <2>1, <2>2
<1> QED BY <1>1, <1>2 DEF Respond

LEMMA InitIInv == Init => IInv
<1> SUFFICES ASSUME Init PROVE IInv
  OBVIOUS
<1>1. PICK c \in Clients : /\ clients = {c}
                           /\ phase = [d \in Clients |-> IF d = c THEN "accepting" ELSE "new"]
  BY DEF Init
<1>2. BadRequest \in Responses /\ BadRequest \in Called
  <2>1. NoRequest \in Requests /\ Expected(NoRequest) = BadRequest
    BY DEF Requests, Expected
  <2>2. [response |-> Respond(NoRequest), due |-> Expected(NoRequest)] \in Exchanges
    BY <2>1 DEF Exchanges
  <2>3. Expected(NoRequest) \in Called
    BY <2>2 DEF Called
  <2> QED BY <2>1, <2>3 DEF Responses
<1>3. TypeOK
  BY <1>1, <1>2, HeaderAssumption DEF Init, TypeOK
<1>4. RegistryIsLive
  BY <1>1 DEF Init, RegistryIsLive
<1>5. ASSUME NEW d \in Clients PROVE AtMostOne(d)
  BY <1>1, HeaderAssumption DEF Init, AtMostOne
<1> QED BY <1>3, <1>4, <1>5 DEF IInv

LEMMA StepIInv == IInv /\ [Next]_vars => IInv'
<1> SUFFICES ASSUME IInv, [Next]_vars PROVE IInv'
  OBVIOUS
<1>t. TypeOK /\ RegistryIsLive /\ \A c \in Clients : AtMostOne(c)
  BY DEF IInv
<1>1. ASSUME NEW c \in Clients, NEW error \in BOOLEAN, HandleAccept(c, error) PROVE IInv'
  <2> DEFINE next == IF error THEN "done" ELSE "reading"
             kept == IF error THEN clients \ {c} ELSE clients
  <2>1. /\ phase[c] = "accepting" /\ writing[c] = 0
        /\ UNCHANGED <<received, writing, response, sent, due, running>>
    BY <1>1, <1>t DEF HandleAccept, AtMostOne
  <2>2. CASE /\ phase' = [phase EXCEPT ![c] = next]
             /\ clients' = kept
    <3>1. TypeOK'
      BY <1>t, <2>1, <2>2 DEF TypeOK
    <3>2. RegistryIsLive'
      BY <1>t, <2>1, <2>2 DEF TypeOK, RegistryIsLive
    <3>3. ASSUME NEW d \in Clients PROVE AtMostOne(d)'
      BY <1>t, <2>1, <2>2 DEF TypeOK, AtMostOne
    <3> QED BY <3>1, <3>2, <3>3 DEF IInv
  <2>3. ASSUME NEW d \in Unborn,
               phase' = [phase EXCEPT ![c] = next, ![d] = "accepting"],
               clients' = kept \cup {d}
        PROVE  IInv'
    <3>1. d \in Clients /\ d # c /\ phase[d] = "new"
      BY <2>1 DEF Unborn
    <3>2. TypeOK'
      BY <1>t, <2>1, <2>3, <3>1 DEF TypeOK
    <3>3. RegistryIsLive'
      BY <1>t, <2>1, <2>3, <3>1 DEF TypeOK, RegistryIsLive
    <3>4. ASSUME NEW e \in Clients PROVE AtMostOne(e)'
      BY <1>t, <2>1, <2>3, <3>1 DEF TypeOK, AtMostOne
    <3> QED BY <3>2, <3>3, <3>4 DEF IInv
  <2> QED BY <1>1, <2>2, <2>3 DEF HandleAccept
<1>2. ASSUME NEW c \in Clients, NEW n \in 1 .. ReadSize, ReadPart(c, n) PROVE IInv'
  <2>1. /\ received[c] \in Nat /\ n \in Nat /\ received[c] + n < HeaderLength
        /\ received' = [received EXCEPT ![c] = received[c] + n]
        /\ UNCHANGED <<clients, phase, writing, response, sent, due, running>>
    BY <1>2, <1>t, HeaderAssumption DEF ReadPart, TypeOK
  <2>2. TypeOK'
    BY <1>t, <2>1, HeaderAssumption DEF TypeOK
  <2>3. RegistryIsLive'
    BY <1>t, <2>1 DEF RegistryIsLive
  <2>4. ASSUME NEW d \in Clients PROVE AtMostOne(d)'
    <3>1. phase[c] # "done" /\ writing[c] = 0 /\ sent[c] = <<>>
      BY <1>2, <1>t DEF ReadPart, AtMostOne
    <3>2. Len(sent[c]) = 0
      BY <3>1
    <3>3. received'[c] \in Nat /\ received'[c] < HeaderLength /\ HeaderLength \in Nat
      BY <1>t, <2>1, HeaderAssumption DEF TypeOK
    <3>4. CASE d = c
      BY <2>1, <3>1, <3>2, <3>3, <3>4 DEF AtMostOne
    <3>5. CASE d # c
      BY <1>t, <2>1, <3>5 DEF TypeOK, AtMostOne
    <3> QED BY <3>4, <3>5
  <2> QED BY <2>2, <2>3, <2>4 DEF IInv
<1>3. ASSUME NEW c \in Clients, NEW exchange \in Exchanges, ReadHeader(c, exchange) PROVE IInv'
  <2>1. c \in clients /\ writing[c] = 0 /\ sent[c] = <<>>
    BY <1>3, <1>t DEF ReadHeader, RegistryIsLive, AtMostOne
  <2>a. exchange.response \in Responses /\ exchange.due \in Called
    BY AnswersTyped DEF Exchanges, Called
  <2>2. /\ phase' = [phase EXCEPT ![c] = "done"]
        /\ received' = [received EXCEPT ![c] = HeaderLength]
        /\ response' = [response EXCEPT ![c] = exchange.response]
        /\ due' = [due EXCEPT ![c] = exchange.due]
        /\ writing' = [writing EXCEPT ![c] = 1]
        /\ UNCHANGED <<clients, sent, running>>
    BY <1>3, <1>t, <2>1 DEF ReadHeader, Write, TypeOK
  <2>3. TypeOK'
    BY <1>t, <2>1, <2>a, <2>2, HeaderAssumption DEF TypeOK
  <2>4. RegistryIsLive'
    BY <1>t, <2>1, <2>2 DEF TypeOK, RegistryIsLive
  <2>5. ASSUME NEW d \in Clients PROVE AtMostOne(d)'
    <3>1. Len(sent[c]) = 0
      BY <2>1
    <3> QED BY <1>t, <2>1, <2>2, <3>1, HeaderAssumption DEF TypeOK, AtMostOne
  <2> QED BY <2>3, <2>4, <2>5 DEF IInv
<1>4. ASSUME NEW c \in Clients, ReadFails(c) PROVE IInv'
  <2>1. phase[c] = "reading" /\ writing[c] = 0
    BY <1>4, <1>t DEF ReadFails, AtMostOne
  <2>2. TypeOK'
    BY <1>4, <1>t DEF ReadFails, TypeOK
  <2>3. RegistryIsLive'
    BY <1>4, <1>t, <2>1 DEF ReadFails, TypeOK, RegistryIsLive
  <2>4. ASSUME NEW d \in Clients PROVE AtMostOne(d)'
    BY <1>4, <1>t DEF ReadFails, TypeOK, AtMostOne
  <2> QED BY <2>2, <2>3, <2>4 DEF IInv
<1>5. ASSUME NEW c \in Clients, NEW error \in BOOLEAN, WriteDone(c, error) PROVE IInv'
  <2>1. writing[c] = 1 /\ Len(sent[c]) = 0 /\ phase[c] = "done" /\ received[c] = HeaderLength
    <3>1. writing[c] \in Nat /\ writing[c] > 0 /\ Len(sent[c]) \in Nat
      BY <1>5, <1>t DEF WriteDone, TypeOK
    <3> QED BY <1>t, <3>1 DEF AtMostOne
  <2>2. /\ writing' = [writing EXCEPT ![c] = 0]
        /\ clients' = clients \ {c}
        /\ UNCHANGED <<phase, received, response, due, running>>
    BY <1>5, <1>t, <2>1 DEF WriteDone, TypeOK
  <2>3. /\ sent' \in [Clients -> Seq(Responses)]
        /\ Len(sent'[c]) <= 1 /\ Len(sent'[c]) \in Nat
        /\ \A d \in Clients : d # c => sent'[d] = sent[d]
    <3>1. sent[c] \in Seq(Responses) /\ response[c] \in Responses
      BY <1>t DEF TypeOK
    <3>2. Append(sent[c], response[c]) \in Seq(Responses) /\ Len(Append(sent[c], response[c])) = 1
      BY <2>1, <3>1
    <3>3. CASE error
      BY <1>5, <1>t, <2>1, <3>3 DEF WriteDone, TypeOK
    <3>4. CASE ~error
      BY <1>5, <1>t, <3>2, <3>4 DEF WriteDone, TypeOK
    <3> QED BY <3>3, <3>4
  <2>4. TypeOK'
    BY <1>t, <2>2, <2>3 DEF TypeOK
  <2>5. RegistryIsLive'
    BY <1>t, <2>1, <2>2 DEF TypeOK, RegistryIsLive
  <2>6. ASSUME NEW d \in Clients PROVE AtMostOne(d)'
    BY <1>t, <2>1, <2>2, <2>3 DEF TypeOK, AtMostOne
  <2> QED BY <2>4, <2>5, <2>6 DEF IInv
<1>6. CASE StopsRunning
  BY <1>6, <1>t DEF StopsRunning, IInv, TypeOK, RegistryIsLive, AtMostOne
<1>7. CASE UNCHANGED vars
  BY <1>7, <1>t DEF vars, IInv, TypeOK, RegistryIsLive, AtMostOne
<1> QED
  BY <1>1, <1>2, <1>3, <1>4, <1>5, <1>6, <1>7 DEF Next, Answering, Writing

\* The write buffer holds the response to the client's own request until it is sent, and
\* the request is not replaced.
LEMMA StepMeets == IInv /\ ResponseMeetsRequest /\ [Next]_vars => ResponseMeetsRequest'
<1> DEFINE Meets(c) == /\ writing[c] > 0 => response[c] = due[c]
                       /\ sent[c] # <<>> => sent[c] = <<due[c]>>
<1> SUFFICES ASSUME IInv, ResponseMeetsRequest, [Next]_vars, NEW d \in Clients
             PROVE  Meets(d)'
  BY DEF ResponseMeetsRequest
<1>t. TypeOK /\ (\A c \in Clients : AtMostOne(c)) /\ Meets(d)
  BY DEF IInv, ResponseMeetsRequest
<1>1. ASSUME UNCHANGED <<writing, response, sent, due>> PROVE Meets(d)'
  BY <1>1, <1>t
<1>2. ASSUME NEW c \in Clients, NEW exchange \in Exchanges, ReadHeader(c, exchange) PROVE Meets(d)'
  <2>1. exchange.response = exchange.due
    BY RespondsAsDue DEF Exchanges
  <2>2. writing[c] = 0 /\ sent[c] = <<>> /\ sent' = sent
    BY <1>2, <1>t DEF ReadHeader, AtMostOne
  <2>3. CASE d # c
    <3>1. writing'[d] = writing[d] /\ response'[d] = response[d] /\ due'[d] = due[d]
      BY <1>2, <1>t, <2>3 DEF ReadHeader, Write, TypeOK
    <3> QED BY <1>t, <2>2, <3>1
  <2>4. CASE d = c
    <3>1. due'[c] = exchange.due
      BY <1>2, <1>t DEF ReadHeader, TypeOK
    <3>2. writing'[c] = 0 \/ response'[c] = exchange.response
      BY <1>2, <1>t, <2>2 DEF ReadHeader, Write, TypeOK
    <3> QED BY <2>1, <2>2, <2>4, <3>1, <3>2
  <2> QED BY <2>3, <2>4
<1>3. ASSUME NEW c \in Clients, NEW error \in BOOLEAN, WriteDone(c, error) PROVE Meets(d)'
  <2>1. response' = response /\ due' = due /\ writing[c] > 0 /\ writing[c] \in Nat
    BY <1>3, <1>t DEF WriteDone, TypeOK
  <2>2. CASE d # c
    <3>1. writing'[d] = writing[d] /\ sent'[d] = sent[d]
      BY <1>3, <1>t, <2>2 DEF WriteDone, TypeOK
    <3> QED BY <1>t, <2>1, <3>1
  <2>3. CASE d = c
    <3>1. sent[c] = <<>> /\ writing'[c] = 0
      BY <1>3, <1>t, <2>1 DEF WriteDone, TypeOK, AtMostOne
    <3>2. sent'[c] = <<>> \/ sent'[c] = <<response[c]>>
      BY <1>3, <1>t, <3>1 DEF WriteDone, TypeOK
    <3> QED BY <1>t, <2>1, <2>3, <3>1, <3>2
  <2> QED BY <2>2, <2>3
<1> HIDE DEF Meets
<1>4. CASE \E c \in Clients, error \in BOOLEAN : HandleAccept(c, error)
  BY <1>1, <1>4 DEF HandleAccept
<1>5. CASE \E c \in Clients, n \in 1 .. ReadSize : ReadPart(c, n)
  BY <1>1, <1>5 DEF ReadPart
<1>6. CASE \E c \in Clients : ReadFails(c)
  BY <1>1, <1>6 DEF ReadFails
<1>7. CASE StopsRunning \/ UNCHANGED vars
  BY <1>1, <1>7 DEF StopsRunning, vars
<1> QED BY <1>2, <1>3, <1>4, <1>5, <1>6, <1>7 DEF Next, Answering, Writing

LEMMA Invariance == Spec => []IInv
  BY InitIInv, StepIInv, PTL DEF Spec

--------------------------------------------------------------------------------
\* Every variable of the server keeps its type, and what is sent is one of the
\* responses that the code builds.
THEOREM WebTypeCorrect == Spec => []TypeOK
<1>1. IInv => TypeOK
  BY DEF IInv
<1> QED BY Invariance, <1>1, PTL

\* m_clients holds exactly the clients that an operation is pending for.
THEOREM RegistryLive == Spec => []RegistryIsLive
<1>1. IInv => RegistryIsLive
  BY DEF IInv
<1> QED BY Invariance, <1>1, PTL

\* A connection carries at most one response, after a whole header.
THEOREM OneResponseEach == Spec => []OneResponse
<1>1. ASSUME IInv, NEW c \in Clients
      PROVE  Len(sent[c]) + writing[c] <= (IF received[c] = HeaderLength THEN 1 ELSE 0)
  <2>1. Len(sent[c]) \in Nat /\ writing[c] \in Nat
    BY <1>1 DEF IInv, TypeOK
  <2> QED BY <1>1, <2>1 DEF IInv, AtMostOne
<1>2. IInv => OneResponse
  BY <1>1 DEF OneResponse
<1> QED BY Invariance, <1>2, PTL

\* Whatever its path looks like, a request is answered with what the place that the path
\* denotes calls for, and the response that a client gets is the one to its own request.
THEOREM ResponseIsDue == Spec => []ResponseMeetsRequest
<1>1. Init => ResponseMeetsRequest
  BY DEF Init, ResponseMeetsRequest
<1> QED BY Invariance, StepMeets, <1>1, PTL DEF Spec

================================================================================
