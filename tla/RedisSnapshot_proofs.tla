------------------------- MODULE RedisSnapshot_proofs --------------------------
(***************************************************************************)
(* Proofs about RedisSnapshot, for any keys, connections and sizes: which  *)
(* lengths survive a snapshot, and what a restart finds after a SAVE that  *)
(* was answered with OK.                                                   *)
(***************************************************************************)
EXTENDS RedisSnapshot, FiniteSetTheorems, TLAPS

\* write_length and read_length agree on lengths of one byte and of four, and on those
\* of two bytes whose low byte is below 128; on no other.
THEOREM LengthRoundTrip ==
    ASSUME NEW n \in Nat, n \div 65536 <= 65535
    PROVE  Survives(n) <=> (n <= 63 \/ n > 16383 \/ n % 256 < 128)
<1>1. CASE n <= 63
  <2>1. WriteLength(n) = <<n>>
    BY <1>1 DEF WriteLength
  <2>2. n \div 64 = 0 /\ n % 64 = n
    BY <1>1
  <2>3. ReadLength(<<n>>) = n
    BY <2>2 DEF ReadLength
  <2> QED BY <1>1, <2>1, <2>3 DEF Survives
<1>2. CASE n > 63 /\ n <= 16383
  <2> DEFINE high == n \div 256
             low == n % 256
  <2>1. WriteLength(n) = <<64 + high, low>>
    BY <1>2 DEF WriteLength
  <2>2. high \in 0 .. 63 /\ low \in 0 .. 255 /\ n = 256 * high + low
    BY <1>2
  <2> HIDE DEF high, low
  <2>3. (64 + high) \div 64 = 1 /\ (64 + high) % 64 = high
    BY <2>2
  <2>4. ReadLength(<<64 + high, low>>) = AsUint16(low) + high * 256
    BY <2>3 DEF ReadLength
  <2>5. AsUint16(low) = low <=> low < 128
    <3>1. CASE low < 128
      BY <2>2, <3>1 DEF AsUint16
    <3>2. CASE ~(low < 128)
      <4>1. low - 256 \in -128 .. -1
        BY <2>2, <3>2
      <4>2. (low - 256) % 65536 = low - 256 + 65536
        BY <4>1
      <4> QED BY <2>2, <3>2, <4>2 DEF AsUint16
    <3> QED BY <3>1, <3>2
  <2>6. AsUint16(low) \in Int
    BY <2>2 DEF AsUint16
  <2>7. Survives(n) <=> AsUint16(low) = low
    BY <2>1, <2>2, <2>4, <2>6 DEF Survives
  <2> QED BY <1>2, <2>5, <2>7 DEF low
<1>3. CASE n > 16383
  <2> DEFINE b1 == n % 256
             b2 == (n \div 256) % 256
             b3 == (n \div 65536) % 256
             b4 == (n \div 16777216) % 256
  <2>1. WriteLength(n) = <<128, b1, b2, b3, b4>>
    <3>1. ~(n <= 63) /\ ~(n <= 16383)
      BY <1>3
    <3> QED BY <3>1 DEF WriteLength, InFourBytes
  <2>2. n = b1 + 256 * b2 + 65536 * b3 + 16777216 * b4
    <3>1. n = b1 + 256 * (n \div 256)
      OBVIOUS
    <3>2. n \div 256 = b2 + 256 * (n \div 65536)
      OBVIOUS
    <3>3. n \div 65536 = b3 + 256 * (n \div 16777216)
      OBVIOUS
    <3>4. n \div 16777216 = b4
      OBVIOUS
    <3> QED BY <3>1, <3>2, <3>3, <3>4
  <2> HIDE DEF b1, b2, b3, b4
  <2>3. ReadLength(<<128, b1, b2, b3, b4>>) = b1 + 256 * b2 + 65536 * b3 + 16777216 * b4
    BY DEF ReadLength
  <2> QED BY <1>3, <2>1, <2>2, <2>3 DEF Survives
<1> QED BY <1>1, <1>2, <1>3

--------------------------------------------------------------------------------
\* A length that is read is read back once it is stored again.
LEMMA SizesClosed ==
    \A n \in Sizes \cup SizesRead : ReadLength(WriteLength(n)) \in SizesRead
<1> SUFFICES ASSUME NEW n \in Sizes \cup SizesRead
             PROVE  ReadLength(WriteLength(n)) \in SizesRead
  OBVIOUS
<1>1. CASE n \in Sizes
  BY <1>1 DEF SizesRead
<1>2. CASE n \in SizesRead
  <2>1. PICK m \in Sizes : n = ReadLength(WriteLength(m))
    BY <1>2 DEF SizesRead
  <2>2. m \in Nat /\ m \div 65536 <= 65535
    BY SnapshotBounds
  <2>3. CASE Survives(m)
    BY <1>2, <2>1, <2>3 DEF Survives
  <2>4. CASE ~Survives(m)
    <3>1. 63 < m /\ m <= 16383 /\ m % 256 >= 128
      BY <2>2, <2>4, LengthRoundTrip
    <3> DEFINE high == m \div 256
               low == m % 256
    <3>2. WriteLength(m) = <<64 + high, low>>
      BY <2>2, <3>1 DEF WriteLength
    <3>3. high \in 0 .. 63 /\ low \in 128 .. 255
      BY <2>2, <3>1
    <3> HIDE DEF high, low
    <3>4. (64 + high) \div 64 = 1 /\ (64 + high) % 64 = high
      BY <3>3
    <3>5. n = AsUint16(low) + high * 256
      BY <2>1, <3>2, <3>4 DEF ReadLength
    <3>6. AsUint16(low) = low - 256 + 65536
      <4>1. low - 256 \in -128 .. -1
        BY <3>3
      <4>2. (low - 256) % 65536 = low - 256 + 65536
        BY <4>1
      <4> QED BY <3>3, <4>2 DEF AsUint16
    <3>7. n \in Nat /\ n > 16383 /\ n <= 100000
      BY <3>3, <3>5, <3>6
    <3>8. Survives(n)
      <4>1. n \div 65536 <= 65535
        BY <3>7
      <4> QED BY <3>7, <4>1, LengthRoundTrip
    <3> QED BY <1>2, <3>8 DEF Survives
  <2> QED BY <2>3, <2>4
<1> QED BY <1>1, <1>2

\* What an entry is, by its kind.
LEMMA EntryFields ==
    ASSUME NEW e \in Entries
    PROVE  /\ e.kind \in {"string", "list", "number"}
           /\ AsRead(e) \in Entries
           /\ AsRead(e).kind = e.kind
           /\ e.kind = "list" => /\ [e EXCEPT !.size = @ + 1] \in Entries
                                 /\ [e EXCEPT !.size = @ + 1].kind = "list"
                                 /\ [e EXCEPT !.size = @ + 1].made = e.made
                                 /\ [e EXCEPT !.size = @ + 1].size > e.size
                                 /\ e.size \in Nat \ {0}
<1>1. CASE e \in [kind : {"string"}, size : Sizes \cup SizesRead, made : 0 .. MaxChanges]
  <2>1. ReadLength(WriteLength(e.size)) \in SizesRead
    BY <1>1, SizesClosed
  <2>2. [e EXCEPT !.size = ReadLength(WriteLength(e.size))] \in Entries
    BY <1>1, <2>1 DEF Entries
  <2> QED BY <1>1, <2>2 DEF AsRead
<1>2. CASE e \in [kind : {"list"}, size : Nat \ {0}, made : 1 .. MaxChanges]
  <2>1. e.kind = "list" /\ e.size \in Nat \ {0} /\ AsRead(e) = e
    BY <1>2 DEF AsRead
  <2>2. [e EXCEPT !.size = @ + 1] \in [kind : {"list"}, size : Nat \ {0}, made : 1 .. MaxChanges]
    BY <1>2
  <2>3. /\ [e EXCEPT !.size = @ + 1].kind = "list"
        /\ [e EXCEPT !.size = @ + 1].made = e.made
        /\ [e EXCEPT !.size = @ + 1].size > e.size
    BY <1>2
  <2> QED BY <2>1, <2>2, <2>3 DEF Entries
<1>3. CASE e \in [kind : {"number"}, size : {0}, made : 1 .. MaxChanges]
  BY <1>3 DEF AsRead
<1> QED BY <1>1, <1>2, <1>3 DEF Entries

LEMMA ContentsAre ==
    \A c : c \in Contents <=> DOMAIN c \subseteq Keys /\ c \in [DOMAIN c -> Entries]
  BY DEF Contents

LEMMA ContentsOf ==
    ASSUME NEW held \in SUBSET Keys, NEW c \in [held -> Entries]
    PROVE  c \in Contents
  BY DEF Contents

LEMMA ContentsEntry ==
    ASSUME NEW c \in Contents, NEW k \in DOMAIN c
    PROVE  k \in Keys /\ c[k] \in Entries
  BY ContentsAre

LEMMA WithTyped ==
    ASSUME NEW c \in Contents, NEW k \in Keys, NEW e \in Entries
    PROVE  With(c, k, e) \in Contents
<1>1. DOMAIN c \cup {k} \subseteq Keys
  BY ContentsAre
<1>2. With(c, k, e) \in [DOMAIN c \cup {k} -> Entries]
  BY ContentsEntry DEF With
<1> QED BY <1>1, <1>2, ContentsOf

LEMMA NothingTyped == Nothing \in Contents /\ DOMAIN Nothing = {}
<1>1. Nothing \in [{} -> Entries] /\ DOMAIN Nothing = {}
  BY DEF Nothing
<1> QED BY <1>1, ContentsOf

--------------------------------------------------------------------------------
\* The members of Undefined are typed, and so is what the first records hold.
LEMMA UndefinedTyped ==
    ASSUME NEW c \in Contents
    PROVE  Undefined(c) \subseteq Contents
<1> SUFFICES ASSUME NEW d \in Undefined(c) PROVE d \in Contents
  OBVIOUS
<1>1. CASE d = Nothing
  BY <1>1, NothingTyped
<1>2. CASE d # Nothing
  <2> DEFINE Made(held) == [held -> [kind : {"string"}, size : Sizes, made : {0}]]
             Over(held, made) == [k \in held \cup DOMAIN c |-> IF k \in held THEN made[k] ELSE c[k]]
             Mixes(held) == {Over(held, made) : made \in Made(held)}
  <2>u. Undefined(c) = {Nothing} \cup UNION {Mixes(held) : held \in SUBSET Keys}
    BY DEF Undefined
  <2>1. PICK held \in SUBSET Keys : d \in Mixes(held)
    <3> HIDE DEF Mixes
    <3> QED BY <1>2, <2>u
  <2>2. PICK made \in Made(held) : d = Over(held, made)
    BY <2>1
  <2>3. \A k \in held : made[k] \in Entries
    BY SnapshotBounds DEF Entries
  <2>4. held \cup DOMAIN c \subseteq Keys
    BY ContentsAre
  <2>5. d \in [held \cup DOMAIN c -> Entries]
    BY <2>2, <2>3, ContentsEntry
  <2> QED BY <2>4, <2>5, ContentsOf
<1> QED BY <1>1, <1>2

LEMMA BlockFields ==
    ASSUME NEW b \in Blocks
    PROVE  /\ b.what = "entry" => b.key \in Keys /\ b.entry \in Entries
           /\ b.what = "preamble" => b.count \in Nat
           /\ b = EndMark => b.what = "end"
           /\ b = Torn => b.what = "torn"
<1>1. CASE b \in [what : {"preamble"}, count : Nat]
  BY <1>1 DEF EndMark, Torn
<1>2. CASE b \in [what : {"entry"}, key : Keys, entry : Entries]
  BY <1>2 DEF EndMark, Torn
<1>3. CASE b = EndMark
  BY <1>3 DEF EndMark, Torn
<1>4. CASE b = Torn
  BY <1>4 DEF EndMark, Torn
<1> QED BY <1>1, <1>2, <1>3, <1>4 DEF Blocks

LEMMA FirstReadTyped ==
    ASSUME NEW blocks \in Seq(Blocks), NEW n \in Nat,
           \A i \in 1 .. n : i + 1 <= Len(blocks) /\ blocks[i + 1].what = "entry"
    PROVE  FirstRead(blocks, n) \in Contents
<1> DEFINE places == 2 .. n + 1
           held == {blocks[i].key : i \in places}
           at(k) == CHOOSE i \in places : blocks[i].key = k
<1>1. ASSUME NEW i \in places PROVE blocks[i].key \in Keys /\ blocks[i].entry \in Entries
  <2>1. i - 1 \in 1 .. n /\ (i - 1) + 1 = i
    OBVIOUS
  <2>2. i <= Len(blocks) /\ blocks[i].what = "entry"
    BY <2>1
  <2>3. i \in 1 .. Len(blocks)
    BY <2>2
  <2>4. blocks[i] \in Blocks
    BY <2>3
  <2> QED BY <2>2, <2>4, BlockFields
<1>2. FirstRead(blocks, n) = [k \in held |-> AsRead(blocks[at(k)].entry)]
  BY DEF FirstRead
<1>3. ASSUME NEW k \in held PROVE at(k) \in places
  OBVIOUS
<1> HIDE DEF places, at
<1>4. ASSUME NEW k \in held PROVE AsRead(blocks[at(k)].entry) \in Entries
  BY <1>1, <1>3, EntryFields
<1>5. held \subseteq Keys
  BY <1>1
<1> HIDE DEF held
<1>6. FirstRead(blocks, n) \in [held -> Entries]
  BY <1>2, <1>4
<1> QED BY <1>5, <1>6, ContentsOf

\* A set of numbers up to n has a greatest member.
LEMMA Greatest ==
    ASSUME NEW n \in Nat, NEW S \in SUBSET (0 .. n), S # {}
    PROVE  \E m \in S : \A j \in S : j <= m
<1> DEFINE below == {k \in Nat : n - k \in S}
<1>1. below \subseteq Nat /\ below # {}
  <2>1. PICK j \in S : TRUE
    OBVIOUS
  <2>2. j \in 0 .. n
    OBVIOUS
  <2>3. n - j \in Nat /\ n - (n - j) = j
    BY <2>2
  <2>4. n - j \in below
    BY <2>1, <2>3
  <2> QED BY <2>4
<1> HIDE DEF below
<1>2. PICK k \in below : \A i \in below : ~(<<i, k>> \in OpToRel(<, Nat))
  BY <1>1, NatLessThanWellFounded, WFMin
<1>3. \A i \in below : ~(i < k)
  BY <1>1, <1>2 DEF OpToRel
<1>4. k \in Nat /\ n - k \in S
  BY DEF below
<1>5. ASSUME NEW j \in S PROVE j <= n - k
  <2>1. j \in 0 .. n
    OBVIOUS
  <2>2. n - j \in Nat /\ n - (n - j) = j
    BY <2>1
  <2>3. n - j \in below
    BY <2>2 DEF below
  <2>4. ~(n - j < k)
    BY <1>3, <2>3
  <2> QED BY <1>4, <2>1, <2>4
<1> QED BY <1>4, <1>5

Files == [exists : BOOLEAN, mixed : BOOLEAN, blocks : Seq(Blocks)]

\* A file begins with its preamble, unless that was torn.
Started(f) == f.blocks # <<>> => f.blocks[1] = Torn \/ f.blocks[1].what = "preamble"

\* The records that load can follow, as far as the first that it cannot.
EntryAt(f, i) == i + 1 <= Len(f.blocks) /\ f.blocks[i + 1].what = "entry"
SameAt(f, i)  == EntryAt(f, i) /\ AsRead(f.blocks[i + 1].entry) = f.blocks[i + 1].entry

LoadsUpTo(f, n, last) ==
    IF last = n \/ (last + 1 = n /\ EntryAt(f, n)) THEN {FirstRead(f.blocks, n)}
    ELSE IF EntryAt(f, last + 1) THEN Undefined(FirstRead(f.blocks, last + 1))
    ELSE IF last + 2 <= Len(f.blocks) /\ f.blocks[last + 2] = EndMark THEN {Nothing}
    ELSE Undefined(FirstRead(f.blocks, last))

LEMMA LoadsFollows ==
    ASSUME NEW f \in Files, Started(f),
           f.exists, ~f.mixed, f.blocks # <<>>, f.blocks[1] # Torn
    PROVE  LET n == f.blocks[1].count
           IN  /\ n \in Nat
               /\ \E last \in 0 .. n :
                    /\ \A i \in 1 .. last : SameAt(f, i)
                    /\ \A m \in 0 .. n : (\A i \in 1 .. m : SameAt(f, i)) => m <= last
                    /\ Loads(f) = LoadsUpTo(f, n, last)
<1> DEFINE n == f.blocks[1].count
           followed == {i \in 0 .. n : \A j \in 1 .. i : SameAt(f, j)}
           last == CHOOSE i \in followed : \A j \in followed : j <= i
<1>1. n \in Nat
  <2>1. f.blocks \in Seq(Blocks) /\ 1 \in 1 .. Len(f.blocks)
    BY DEF Files
  <2>2. f.blocks[1] \in Blocks
    BY <2>1
  <2> QED BY <2>2, BlockFields DEF Started
<1>2. Loads(f) = LoadsUpTo(f, n, last)
  BY Zenon DEF Loads, LoadsUpTo, EntryAt, SameAt
<1> HIDE DEF n
<1>3. 0 \in followed /\ followed \in SUBSET (0 .. n)
  BY <1>1
<1>4. last \in followed /\ \A j \in followed : j <= last
  <2> HIDE DEF followed
  <2>1. \E m \in followed : \A j \in followed : j <= m
    BY <1>1, <1>3, Greatest
  <2> QED BY <2>1
<1> HIDE DEF last
<1>5. /\ last \in 0 .. n
      /\ \A i \in 1 .. last : SameAt(f, i)
      /\ \A m \in 0 .. n : (\A i \in 1 .. m : SameAt(f, i)) => m <= last
  BY <1>4
<1> HIDE DEF followed
<1> QED BY <1>1, <1>2, <1>5 DEF n

LEMMA LoadsTyped ==
    ASSUME NEW f \in Files, Started(f)
    PROVE  Loads(f) \subseteq Contents
<1>1. CASE ~f.exists
  BY <1>1, NothingTyped DEF Loads
<1>2. CASE f.exists /\ (f.mixed \/ f.blocks = <<>> \/ f.blocks[1] = Torn)
  <2>1. Loads(f) = Undefined(Nothing)
    BY <1>2 DEF Loads
  <2> QED BY <2>1, NothingTyped, UndefinedTyped
<1>3. CASE f.exists /\ ~(f.mixed \/ f.blocks = <<>> \/ f.blocks[1] = Torn)
  <2> DEFINE n == f.blocks[1].count
  <2>1. n \in Nat /\ \E last \in 0 .. n :
                    /\ \A i \in 1 .. last : SameAt(f, i)
                    /\ \A m \in 0 .. n : (\A i \in 1 .. m : SameAt(f, i)) => m <= last
                    /\ Loads(f) = LoadsUpTo(f, n, last)
    BY <1>3, LoadsFollows
  <2>2. PICK last \in 0 .. n :
                    /\ \A i \in 1 .. last : SameAt(f, i)
                    /\ Loads(f) = LoadsUpTo(f, n, last)
    BY <2>1
  <2> HIDE DEF n
  <2>3. ASSUME NEW m \in Nat, \A i \in 1 .. m : EntryAt(f, i)
        PROVE  FirstRead(f.blocks, m) \in Contents
    <3>1. f.blocks \in Seq(Blocks)
      BY DEF Files
    <3> QED BY <2>3, <3>1, FirstReadTyped DEF EntryAt
  <2>4. \A i \in 1 .. last : EntryAt(f, i)
    BY <2>2 DEF SameAt
  <2>5. FirstRead(f.blocks, last) \in Contents
    BY <2>1, <2>3, <2>4
  <2>6. EntryAt(f, last + 1) => FirstRead(f.blocks, last + 1) \in Contents
    <3>1. \A i \in 1 .. last + 1 : i \in 1 .. last \/ i = last + 1
      BY <2>1
    <3>2. last + 1 \in Nat
      BY <2>1
    <3> QED BY <2>3, <2>4, <3>1, <3>2
  <2> QED BY <2>2, <2>5, <2>6, UndefinedTyped, NothingTyped DEF LoadsUpTo
<1> QED BY <1>1, <1>2, <1>3

--------------------------------------------------------------------------------
Actives == [at : {"copied", "writing"}, copied : Seq(Pairs), copy : Contents, lengthWritten : Nat]

\* The pairs that a SAVE copies.
LEMMA PairsTyped ==
    ASSUME NEW d \in Contents, NEW order \in SetToSeqs(DOMAIN d)
    PROVE  /\ [i \in DOMAIN order |-> [key |-> order[i], entry |-> d[order[i]]]] \in Seq(Pairs)
           /\ IsFiniteSet(DOMAIN d) /\ Cardinality(DOMAIN d) \in Nat
           /\ order \in [1 .. Cardinality(DOMAIN d) -> DOMAIN d]
           /\ \A i, j \in 1 .. Cardinality(DOMAIN d) : i # j => order[i] # order[j]
           /\ \A k \in DOMAIN d : \E i \in 1 .. Cardinality(DOMAIN d) : order[i] = k
<1> DEFINE n == Cardinality(DOMAIN d)
<1>1. IsFiniteSet(DOMAIN d)
  BY SnapshotBounds, ContentsAre, FS_Subset
<1>2. n \in Nat
  BY <1>1, FS_CardinalityType
<1>3. order \in [1 .. n -> DOMAIN d] /\ \A i, j \in 1 .. n : i # j => order[i] # order[j]
  BY DEF SetToSeqs
<1> HIDE DEF n
<1>4. ASSUME NEW i \in 1 .. n PROVE [key |-> order[i], entry |-> d[order[i]]] \in Pairs
  BY <1>3, ContentsEntry DEF Pairs
<1>5. DOMAIN order = 1 .. n
  BY <1>3
<1>6. [i \in DOMAIN order |-> [key |-> order[i], entry |-> d[order[i]]]] \in Seq(Pairs)
  BY <1>2, <1>4, <1>5
<1>7. order \in Surjection(1 .. n, DOMAIN d)
  <2>1. order \in Injection(1 .. n, DOMAIN d)
    BY <1>3 DEF Injection, IsInjective
  <2>2. Cardinality(1 .. n) = Cardinality(DOMAIN d)
    BY <1>2, FS_Interval DEF n
  <2> QED BY <1>1, <2>1, <2>2, FS_Injection
<1>8. \A k \in DOMAIN d : \E i \in 1 .. n : order[i] = k
  BY <1>7 DEF Surjection
<1> QED BY <1>1, <1>2, <1>3, <1>6, <1>8 DEF n

LEMMA InitTyped == Init => TypeOK
<1> SUFFICES ASSUME Init PROVE TypeOK
  OBVIOUS
<1>1. dictionary \in Contents /\ Unknown \in [known : BOOLEAN, copy : Contents]
  BY NothingTyped DEF Init, Unknown
<1>2. file \in [exists : BOOLEAN, mixed : BOOLEAN, blocks : Seq(Blocks)]
  BY DEF Init, NoFile
<1>3. changes \in 0 .. MaxChanges /\ restarts \in 0 .. MaxRestarts
  BY SnapshotBounds DEF Init
<1> QED BY <1>1, <1>2, <1>3 DEF Init, TypeOK

\* What a record is, as blocks.
LEMMA RecordTyped ==
    ASSUME NEW c \in Pairs, NEW length \in Nat
    PROVE  Record(c, length) \in Seq(Blocks)
<1>1. Stored(c) \in Blocks
  BY DEF Stored, Pairs, Blocks
<1>2. Torn \in Blocks
  BY DEF Blocks
<1> QED BY <1>1, <1>2 DEF Record

LEMMA LeftTyped ==
    ASSUME TypeOK, NEW left \in Left
    PROVE  left \in Files /\ (Started(file) => Started(left))
<1>1. file \in Files /\ Torn \in Blocks
  BY DEF TypeOK, Files, Blocks
<1>2. CASE Open = {} \/ file.mixed
  <2>1. left = file
    BY <1>2 DEF Left
  <2> QED BY <1>1, <2>1
<1>3. CASE ~(Open = {} \/ file.mixed)
  <2> DEFINE whole == {SubSeq(file.blocks, 1, n) : n \in 0 .. Len(file.blocks)}
  <2>1. PICK blocks \in whole \cup {Append(b, Torn) : b \in whole} : left = File(FALSE, blocks)
    BY <1>3 DEF Left
  <2>2. file.blocks \in Seq(Blocks)
    BY <1>1 DEF Files
  <2>3. ASSUME NEW b \in whole
        PROVE  b \in Seq(Blocks) /\ (b # <<>> => b[1] = file.blocks[1] /\ file.blocks # <<>>)
    <3>1. PICK n \in 0 .. Len(file.blocks) : b = SubSeq(file.blocks, 1, n)
      OBVIOUS
    <3> QED BY <2>2, <3>1
  <2>4. ASSUME NEW b \in whole
        PROVE  /\ Append(b, Torn) \in Seq(Blocks)
               /\ Append(b, Torn)[1] = IF b = <<>> THEN Torn ELSE b[1]
    BY <1>1, <2>3
  <2> HIDE DEF whole
  <2>5. blocks \in Seq(Blocks)
    BY <2>1, <2>3, <2>4
  <2>6. blocks # <<>> => blocks[1] = Torn \/ (blocks[1] = file.blocks[1] /\ file.blocks # <<>>)
    BY <2>1, <2>3, <2>4
  <2>7. left = [exists |-> TRUE, mixed |-> FALSE, blocks |-> blocks]
    BY <2>1 DEF File
  <2> QED BY <2>5, <2>6, <2>7 DEF Files, Started
<1> QED BY <1>2, <1>3

LEMMA StepTyped == TypeOK /\ Started(file) /\ [Next]_vars => TypeOK'
<1> SUFFICES ASSUME TypeOK, Started(file), [Next]_vars PROVE TypeOK'
  OBVIOUS
<1>t. /\ dictionary \in Contents /\ changes \in 0 .. MaxChanges
      /\ save \in [Savers -> {Idle} \cup Actives]
      /\ file \in Files
      /\ promised \in [known : BOOLEAN, copy : Contents] /\ restarts \in 0 .. MaxRestarts
  BY DEF TypeOK, Actives, Files
<1>a. ASSUME NEW s \in Savers, save[s] # Idle PROVE save[s] \in Actives
  BY <1>a, <1>t
<1>n. changes < MaxChanges => changes + 1 \in 1 .. MaxChanges /\ changes + 1 \in 0 .. MaxChanges
  BY <1>t, SnapshotBounds
<1>c. ASSUME NEW contents \in Contents, Change(contents), save' = save PROVE TypeOK'
  <2>1. changes' \in 0 .. MaxChanges
    BY <1>c, <1>n DEF Change
  <2> QED BY <1>c, <1>t, <2>1 DEF Change, TypeOK, Actives, Files
<1>1. ASSUME NEW k \in Keys, Set(k) PROVE TypeOK'
  <2>1. PICK size \in Sizes :
           Change(With(dictionary, k, [kind |-> "string", size |-> size, made |-> changes + 1]))
    BY <1>1 DEF Set
  <2>2. [kind |-> "string", size |-> size, made |-> changes + 1] \in Entries
    BY <1>n, <2>1 DEF Change, Entries
  <2> QED BY <1>1, <1>c, <1>t, <2>1, <2>2, WithTyped DEF Set
<1>2. ASSUME NEW k \in Keys, SetExpiredToOne(k) PROVE TypeOK'
  <2>1. [kind |-> "number", size |-> 0, made |-> changes + 1] \in Entries
    BY <1>2, <1>n DEF SetExpiredToOne, Change, Entries
  <2> QED BY <1>2, <1>c, <1>t, <2>1, WithTyped DEF SetExpiredToOne
<1>3. ASSUME NEW k \in Keys, Del(k) PROVE TypeOK'
  <2>1. [l \in DOMAIN dictionary \ {k} |-> dictionary[l]] \in [DOMAIN dictionary \ {k} -> Entries]
    BY <1>t, ContentsEntry
  <2>2. DOMAIN dictionary \ {k} \subseteq Keys
    BY <1>t, ContentsAre
  <2>3. [l \in DOMAIN dictionary \ {k} |-> dictionary[l]] \in Contents
    BY <2>1, <2>2, ContentsOf
  <2> QED BY <1>3, <1>c, <2>3 DEF Del
<1>4. ASSUME NEW k \in Keys, PushNew(k) PROVE TypeOK'
  <2>1. [kind |-> "list", size |-> 1, made |-> changes + 1] \in Entries
    BY <1>4, <1>n DEF PushNew, Change, Entries
  <2> QED BY <1>4, <1>c, <1>t, <2>1, WithTyped DEF PushNew
<1>5. ASSUME NEW k \in Keys, Push(k) PROVE TypeOK'
  <2> DEFINE Longer(e) == IF e = dictionary[k] THEN [e EXCEPT !.size = @ + 1] ELSE e
             Shared(copied) == [i \in DOMAIN copied |-> [copied[i] EXCEPT !.entry = Longer(@)]]
  <2>1. /\ k \in DOMAIN dictionary /\ dictionary[k].kind = "list"
        /\ Change([dictionary EXCEPT ![k] = Longer(@)])
        /\ save' = [s \in Savers |-> IF save[s] = Idle THEN Idle
                                     ELSE [save[s] EXCEPT !.copied = Shared(@)]]
    BY <1>5 DEF Push
  <2>2. ASSUME NEW e \in Entries PROVE Longer(e) \in Entries
    BY <2>1, EntryFields
  <2> HIDE DEF Longer
  <2>3. ASSUME NEW copied \in Seq(Pairs) PROVE Shared(copied) \in Seq(Pairs)
    <3>1. ASSUME NEW i \in 1 .. Len(copied) PROVE [copied[i] EXCEPT !.entry = Longer(@)] \in Pairs
      <4>1. copied[i] \in Pairs
        OBVIOUS
      <4> QED BY <2>2, <4>1 DEF Pairs
    <3>2. Len(copied) \in Nat /\ DOMAIN copied = 1 .. Len(copied)
      OBVIOUS
    <3> QED BY <3>1, <3>2
  <2> HIDE DEF Shared
  <2>4. ASSUME NEW s \in Savers, save[s] # Idle
        PROVE  [save[s] EXCEPT !.copied = Shared(@)] \in Actives
    BY <1>a, <2>3, <2>4 DEF Actives
  <2>5. save' \in [Savers -> {Idle} \cup Actives]
    BY <2>1, <2>4
  <2>6. [dictionary EXCEPT ![k] = Longer(@)] \in Contents
    <3>1. dictionary \in [DOMAIN dictionary -> Entries] /\ DOMAIN dictionary \subseteq Keys
      BY <1>t, ContentsAre
    <3>2. [dictionary EXCEPT ![k] = Longer(@)] \in [DOMAIN dictionary -> Entries]
      BY <2>1, <2>2, <3>1
    <3> QED BY <3>1, <3>2, ContentsOf
  <2> QED BY <1>t, <1>n, <2>1, <2>5, <2>6 DEF Change, TypeOK, Actives, Files
<1>6. ASSUME NEW s \in Savers, SaveCopies(s) PROVE TypeOK'
  <2>1. PICK order \in SetToSeqs(DOMAIN dictionary) :
           save' = [save EXCEPT ![s] =
              Active("copied",
                     [i \in DOMAIN order |-> [key |-> order[i], entry |-> dictionary[order[i]]]],
                     dictionary)]
    BY <1>6 DEF SaveCopies
  <2>2. [i \in DOMAIN order |-> [key |-> order[i], entry |-> dictionary[order[i]]]] \in Seq(Pairs)
    BY <1>t, PairsTyped
  <2>3. Active("copied",
               [i \in DOMAIN order |-> [key |-> order[i], entry |-> dictionary[order[i]]]],
               dictionary) \in Actives
    BY <1>t, <2>2 DEF Active, Actives
  <2>4. save' \in [Savers -> {Idle} \cup Actives]
    BY <1>t, <2>1, <2>3
  <2> QED BY <1>6, <1>t, <2>4 DEF SaveCopies, TypeOK, Actives, Files
<1>7. ASSUME NEW s \in Savers, SaveOpens(s) PROVE TypeOK'
  <2>1. save[s] \in Actives
    BY <1>7, <1>a DEF SaveOpens, Idle
  <2>2. [save[s] EXCEPT !.at = "writing"] \in Actives
    BY <2>1 DEF Actives
  <2>3. save' \in [Savers -> {Idle} \cup Actives]
    BY <1>7, <1>t, <2>2 DEF SaveOpens
  <2>4. Preamble(Len(save[s].copied)) \in Blocks
    BY <2>1 DEF Actives, Blocks, Preamble
  <2>5. file' \in Files
    BY <1>7, <2>4 DEF SaveOpens, File, Files
  <2>6. promised' \in [known : BOOLEAN, copy : Contents]
    BY <1>7, NothingTyped DEF SaveOpens, Unknown
  <2> QED BY <1>7, <1>t, <2>3, <2>5, <2>6 DEF SaveOpens, TypeOK, Actives, Files
<1>8. ASSUME NEW s \in Savers, SaveFails(s) PROVE TypeOK'
  <2>1. save' \in [Savers -> {Idle} \cup Actives]
    BY <1>8, <1>t DEF SaveFails
  <2> QED BY <1>8, <1>t, <2>1 DEF SaveFails, TypeOK, Actives, Files
<1>w. ASSUME NEW blocks \in Seq(Blocks), Writes(blocks) PROVE file' \in Files
  <2>1. file.blocks \o blocks \in Seq(Blocks) /\ file.mixed \in BOOLEAN
    BY <1>t DEF Files
  <2> QED BY <1>w, <2>1 DEF Writes, File, Files
<1>9. ASSUME NEW s \in Savers, SaveWritesLength(s) PROVE TypeOK'
  <2>1. save[s] \in Actives /\ save[s].copied # <<>>
    BY <1>9, <1>a DEF SaveWritesLength, Idle
  <2>2. Head(save[s].copied) \in Pairs
    BY <2>1 DEF Actives
  <2>3. Head(save[s].copied).entry.size \in Nat
    BY <1>9, <2>2, EntryFields DEF Pairs, SaveWritesLength
  <2>4. [save[s] EXCEPT !.lengthWritten = Head(save[s].copied).entry.size] \in Actives
    BY <2>1, <2>3 DEF Actives
  <2>5. save' \in [Savers -> {Idle} \cup Actives]
    BY <1>9, <1>t, <2>4 DEF SaveWritesLength
  <2> QED BY <1>9, <1>t, <2>5 DEF SaveWritesLength, TypeOK, Actives, Files
<1>10. ASSUME NEW s \in Savers, SaveWrites(s) PROVE TypeOK'
  <2>1. save[s] \in Actives /\ save[s].copied # <<>>
    BY <1>10, <1>a DEF SaveWrites, Idle
  <2>2. Head(save[s].copied) \in Pairs /\ Tail(save[s].copied) \in Seq(Pairs)
    BY <2>1 DEF Actives
  <2>3. file' \in Files
    BY <1>10, <1>w, <2>1, <2>2, RecordTyped DEF SaveWrites, Actives
  <2>4. [save[s] EXCEPT !.copied = Tail(save[s].copied), !.lengthWritten = 0] \in Actives
    BY <2>1, <2>2 DEF Actives
  <2>5. save' \in [Savers -> {Idle} \cup Actives]
    BY <1>10, <1>t, <2>4 DEF SaveWrites
  <2> QED BY <1>10, <1>t, <2>3, <2>5 DEF SaveWrites, TypeOK, Actives, Files
<1>11. ASSUME NEW s \in Savers, SaveEnds(s) PROVE TypeOK'
  <2>1. save[s] \in Actives
    BY <1>11, <1>a DEF SaveEnds, Idle
  <2>2. file' \in Files
    <3>1. <<EndMark>> \in Seq(Blocks)
      BY DEF Blocks
    <3> QED BY <1>11, <1>w, <3>1 DEF SaveEnds
  <2>3. promised' \in [known : BOOLEAN, copy : Contents]
    BY <1>11, <2>1, NothingTyped DEF SaveEnds, Unknown, Actives
  <2>4. save' \in [Savers -> {Idle} \cup Actives]
    BY <1>11, <1>t DEF SaveEnds
  <2> QED BY <1>11, <1>t, <2>2, <2>3, <2>4 DEF SaveEnds, TypeOK, Actives, Files
<1>12. CASE Restart
  <2>1. PICK left \in Left : file' = left /\ dictionary' \in Loads(left)
    BY <1>12 DEF Restart
  <2>2. left \in Files /\ Started(left)
    BY <2>1, LeftTyped
  <2>3. dictionary' \in Contents
    BY <2>1, <2>2, LoadsTyped
  <2>4. restarts' \in 0 .. MaxRestarts
    BY <1>12, <1>t, SnapshotBounds DEF Restart
  <2> QED BY <1>12, <1>t, <2>1, <2>2, <2>3, <2>4 DEF Restart, TypeOK, Actives, Files
<1>13. CASE UNCHANGED vars
  BY <1>13, <1>t DEF vars, TypeOK, Actives, Files
<1> QED
  BY <1>1, <1>2, <1>3, <1>4, <1>5, <1>6, <1>7, <1>8, <1>9, <1>10, <1>11, <1>12, <1>13 DEF Next

--------------------------------------------------------------------------------
\* An entry of a copy is the one that was copied, or the same list grown since.
Grown(c, e) ==
    \/ e = c
    \/ c.kind = "list" /\ e.kind = "list" /\ e.made = c.made /\ e.size > c.size

\* The entries still to be written: one for each key, and each as it was or grown.
Pending(copied, copy) ==
    /\ \A i, j \in DOMAIN copied : copied[i].key = copied[j].key => i = j
    /\ \A i \in DOMAIN copied : /\ copied[i].key \in DOMAIN copy
                                /\ Grown(copy[copied[i].key], copied[i].entry)

\* The records in blocks 2 .. last: one for each key that is neither pending nor that
\* of a number, with its entry as it was copied or grown.
Recorded(blocks, last, copied, copy) ==
    /\ \A i \in 2 .. last : /\ blocks[i].what = "entry"
                            /\ blocks[i].key \in DOMAIN copy
                            /\ Grown(copy[blocks[i].key], blocks[i].entry)
    /\ \A i, j \in 2 .. last : blocks[i].key = blocks[j].key => i = j
    /\ \A i \in 2 .. last, j \in DOMAIN copied : blocks[i].key # copied[j].key
    /\ \A k \in DOMAIN copy : \/ copy[k].kind = "number"
                              \/ \E i \in 2 .. last : blocks[i].key = k
                              \/ \E j \in DOMAIN copied : copied[j].key = k

Begins(blocks, copy) == blocks # <<>> /\ blocks[1] = Preamble(Cardinality(DOMAIN copy))

\* Before a SAVE opens the file, nothing of its copy is written.
Copied(s) ==
    save[s].at = "copied" =>
       /\ Pending(save[s].copied, save[s].copy)
       /\ Len(save[s].copied) = Cardinality(DOMAIN save[s].copy)
       /\ \A k \in DOMAIN save[s].copy : \E i \in DOMAIN save[s].copied : save[s].copied[i].key = k

\* While it is the only one that writes, the file and what is pending make up the copy.
Written(s) ==
    save[s].at = "writing" /\ ~file.mixed =>
       /\ Open = {s} /\ file.exists
       /\ Begins(file.blocks, save[s].copy)
       /\ Pending(save[s].copied, save[s].copy)
       /\ Torn \notin ToSet(file.blocks) =>
             Recorded(file.blocks, Len(file.blocks), save[s].copied, save[s].copy)

\* What was answered with OK is in the file, and no stream is open.
Kept ==
    promised.known =>
       /\ Open = {} /\ file.exists /\ ~file.mixed
       /\ Begins(file.blocks, promised.copy)
       /\ Len(file.blocks) > 1 /\ file.blocks[Len(file.blocks)] = EndMark
       /\ Torn \notin ToSet(file.blocks) =>
             Recorded(file.blocks, Len(file.blocks) - 1, <<>>, promised.copy)

IInv == TypeOK /\ Started(file) /\ Kept /\ \A s \in Savers : Copied(s) /\ Written(s)

LEMMA GrownGrows ==
    ASSUME NEW c \in Entries, NEW e \in Entries, Grown(c, e), e.kind = "list"
    PROVE  Grown(c, [e EXCEPT !.size = @ + 1])
<1> DEFINE more == [e EXCEPT !.size = @ + 1]
<1>1. more.kind = "list" /\ more.made = e.made /\ more.size > e.size /\ e.size \in Nat
  BY EntryFields
<1>2. more.size \in Nat
  <2>1. more \in Entries
    BY EntryFields
  <2> HIDE DEF more
  <2> QED BY <1>1, <2>1, EntryFields
<1> HIDE DEF more
<1>3. CASE e = c
  BY <1>1, <1>3 DEF Grown
<1>4. CASE c.kind = "list" /\ e.made = c.made /\ e.size > c.size
  <2>1. c.size \in Nat
    BY <1>4, EntryFields
  <2> QED BY <1>1, <1>2, <1>4, <2>1 DEF Grown
<1> QED BY <1>3, <1>4 DEF Grown, more

\* The first pending entry is written, and the others stay pending.
LEMMA PendingTail ==
    ASSUME NEW copied \in Seq(Pairs), copied # <<>>, NEW copy, Pending(copied, copy)
    PROVE  /\ Pending(Tail(copied), copy)
           /\ Head(copied).key \in DOMAIN copy
           /\ Grown(copy[Head(copied).key], Head(copied).entry)
           /\ \A j \in DOMAIN Tail(copied) : Tail(copied)[j].key # Head(copied).key
           /\ \A j \in DOMAIN copied : \/ copied[j].key = Head(copied).key
                                       \/ \E i \in DOMAIN Tail(copied) : Tail(copied)[i].key = copied[j].key
           /\ \A i \in DOMAIN Tail(copied) : \E j \in DOMAIN copied : copied[j] = Tail(copied)[i]
<1> DEFINE rest == Tail(copied)
<1>1. /\ Len(copied) \in Nat /\ Len(copied) > 0 /\ DOMAIN copied = 1 .. Len(copied)
      /\ DOMAIN rest = 1 .. Len(copied) - 1
      /\ \A i \in 1 .. Len(copied) - 1 : rest[i] = copied[i + 1]
      /\ Head(copied) = copied[1]
  OBVIOUS
<1> HIDE DEF rest
<1>2. \A i \in DOMAIN rest : i + 1 \in DOMAIN copied /\ rest[i] = copied[i + 1] /\ i + 1 # 1
  BY <1>1
<1>3. \A j \in DOMAIN copied : j = 1 \/ (j - 1 \in DOMAIN rest /\ rest[j - 1] = copied[j])
  <2> SUFFICES ASSUME NEW j \in DOMAIN copied, j # 1
               PROVE  j - 1 \in DOMAIN rest /\ rest[j - 1] = copied[j]
    OBVIOUS
  <2>1. j - 1 \in 1 .. Len(copied) - 1 /\ (j - 1) + 1 = j
    BY <1>1
  <2> QED BY <1>1, <2>1
<1>4. 1 \in DOMAIN copied
  BY <1>1
<1>5. Pending(rest, copy)
  <2>1. \A i, j \in DOMAIN rest : rest[i].key = rest[j].key => i = j
    <3> SUFFICES ASSUME NEW i \in DOMAIN rest, NEW j \in DOMAIN rest, rest[i].key = rest[j].key
                 PROVE  i = j
      OBVIOUS
    <3>1. i + 1 = j + 1
      BY <1>2 DEF Pending
    <3> QED BY <1>1, <3>1
  <2> QED BY <1>2, <2>1 DEF Pending
<1> QED BY <1>1, <1>2, <1>3, <1>4, <1>5 DEF Pending, rest

LEMMA RecordedStep ==
    ASSUME NEW blocks \in Seq(Blocks), blocks # <<>>,
           NEW copied \in Seq(Pairs), copied # <<>>,
           NEW copy \in Contents, Pending(copied, copy), NEW length \in Nat,
           Torn \notin ToSet(blocks) => Recorded(blocks, Len(blocks), copied, copy),
           Torn \notin ToSet(blocks \o Record(Head(copied), length))
    PROVE  Recorded(blocks \o Record(Head(copied), length),
                    Len(blocks \o Record(Head(copied), length)), Tail(copied), copy)
<1> DEFINE c == Head(copied)
           rest == Tail(copied)
<1>1. c \in Pairs /\ rest \in Seq(Pairs) /\ Stored(c) \in Blocks
  <2>1. c \in Pairs /\ rest \in Seq(Pairs)
    OBVIOUS
  <2> HIDE DEF c, rest
  <2> QED BY <2>1 DEF Pairs, Blocks, Stored
<1>2. /\ Pending(rest, copy) /\ c.key \in DOMAIN copy
      /\ Grown(copy[c.key], c.entry)
      /\ \A j \in DOMAIN rest : rest[j].key # c.key
      /\ \A j \in DOMAIN copied : \/ copied[j].key = c.key
                                  \/ \E i \in DOMAIN rest : rest[i].key = copied[j].key
      /\ \A i \in DOMAIN rest : \E j \in DOMAIN copied : copied[j] = rest[i]
  BY PendingTail
<1>3. \E j \in DOMAIN copied : copied[j] = c
  BY DEF c
<1> HIDE DEF c, rest
<1>4. CASE c.entry.kind = "number"
  <2>1. blocks \o Record(c, length) = blocks
    BY <1>4 DEF Record
  <2>2. Recorded(blocks, Len(blocks), copied, copy)
    BY <2>1 DEF c
  <2>3. copy[c.key].kind = "number"
    BY <1>2, <1>4 DEF Grown
  <2> DEFINE n == Len(blocks)
  <2> HIDE DEF n
  <2>4. \A i \in 2 .. n, j \in DOMAIN rest : blocks[i].key # rest[j].key
    <3> SUFFICES ASSUME NEW i \in 2 .. n, NEW j \in DOMAIN rest
                 PROVE  blocks[i].key # rest[j].key
      OBVIOUS
    <3>1. PICK h \in DOMAIN copied : copied[h] = rest[j]
      BY <1>2
    <3>2. blocks[i].key # copied[h].key
      BY <2>2 DEF Recorded, n
    <3> QED BY <3>1, <3>2
  <2>5. \A k \in DOMAIN copy : \/ copy[k].kind = "number"
                               \/ \E i \in 2 .. n : blocks[i].key = k
                               \/ \E j \in DOMAIN rest : rest[j].key = k
    <3> SUFFICES ASSUME NEW k \in DOMAIN copy, copy[k].kind # "number"
                 PROVE  \/ \E i \in 2 .. n : blocks[i].key = k
                        \/ \E j \in DOMAIN rest : rest[j].key = k
      OBVIOUS
    <3>1. \/ \E i \in 2 .. n : blocks[i].key = k
          \/ \E j \in DOMAIN copied : copied[j].key = k
      BY <2>2 DEF Recorded, n
    <3>2. CASE \E j \in DOMAIN copied : copied[j].key = k
      BY <1>2, <2>3, <3>2
    <3> QED BY <3>1, <3>2
  <2>6. Recorded(blocks, n, rest, copy)
    BY <2>2, <2>4, <2>5, Zenon DEF Recorded, n
  <2> QED BY <2>1, <2>6 DEF c, rest, n
<1>5. CASE c.entry.kind = "list" /\ c.entry.size # length
  <2>1. Record(c, length) = <<Torn>>
    BY <1>5 DEF Record
  <2>2. Torn \in Blocks
    BY DEF Blocks
  <2>3. (blocks \o <<Torn>>)[Len(blocks) + 1] = Torn /\ Len(blocks) + 1 \in DOMAIN (blocks \o <<Torn>>)
    BY <2>2
  <2>4. Torn \in ToSet(blocks \o <<Torn>>)
    BY <2>3 DEF ToSet
  <2> QED BY <2>1, <2>4 DEF c
<1>6. CASE c.entry.kind # "number" /\ ~(c.entry.kind = "list" /\ c.entry.size # length)
  <2> DEFINE more == blocks \o <<Stored(c)>>
             n == Len(blocks)
  <2>1. Record(c, length) = <<Stored(c)>>
    BY <1>6 DEF Record
  <2>2. /\ n \in Nat \ {0} /\ Len(more) = n + 1 /\ DOMAIN more = 1 .. n + 1
        /\ \A i \in 1 .. n : more[i] = blocks[i]
        /\ more[n + 1] = Stored(c)
        /\ DOMAIN blocks = 1 .. n
    BY <1>1
  <2> HIDE DEF more, n
  <2>3. Recorded(blocks, n, copied, copy)
    <3>1. Torn \notin ToSet(more)
      BY <2>1 DEF c, more
    <3>2. Torn \notin ToSet(blocks)
      BY <2>2, <3>1 DEF ToSet
    <3> QED BY <3>2 DEF n
  <2>4. /\ more[n + 1].what = "entry" /\ more[n + 1].key = c.key /\ more[n + 1].entry = c.entry
        /\ \A i \in 2 .. n : more[i] = blocks[i]
        /\ \A i \in 2 .. n + 1 : i \in 2 .. n \/ i = n + 1
        /\ n + 1 \in 2 .. n + 1 /\ 2 .. n \subseteq 2 .. n + 1
    BY <2>2 DEF Stored
  <2>5. \A i \in 2 .. n : blocks[i].key # c.key
    BY <1>3, <2>3 DEF Recorded
  <2>6. \A i \in 2 .. n + 1 : /\ more[i].what = "entry"
                              /\ more[i].key \in DOMAIN copy
                              /\ Grown(copy[more[i].key], more[i].entry)
    BY <1>2, <2>3, <2>4 DEF Recorded
  <2>7. \A i, j \in 2 .. n + 1 : more[i].key = more[j].key => i = j
    BY <2>3, <2>4, <2>5 DEF Recorded
  <2>8. \A i \in 2 .. n + 1, j \in DOMAIN rest : more[i].key # rest[j].key
    BY <1>2, <2>3, <2>4 DEF Recorded
  <2>9. \A k \in DOMAIN copy : \/ copy[k].kind = "number"
                               \/ \E i \in 2 .. n + 1 : more[i].key = k
                               \/ \E j \in DOMAIN rest : rest[j].key = k
    <3> SUFFICES ASSUME NEW k \in DOMAIN copy, copy[k].kind # "number"
                 PROVE  \/ \E i \in 2 .. n + 1 : more[i].key = k
                        \/ \E j \in DOMAIN rest : rest[j].key = k
      OBVIOUS
    <3>1. CASE \E i \in 2 .. n : blocks[i].key = k
      BY <2>4, <3>1
    <3>2. CASE \E j \in DOMAIN copied : copied[j].key = k
      BY <1>2, <2>4, <3>2
    <3> QED BY <2>3, <3>1, <3>2 DEF Recorded
  <2>10. Recorded(more, n + 1, rest, copy)
    BY <2>6, <2>7, <2>8, <2>9 DEF Recorded
  <2> QED BY <2>1, <2>2, <2>10 DEF c, rest, more
<1> QED BY <1>4, <1>5, <1>6

LEMMA InitIInv == Init => IInv
<1> SUFFICES ASSUME Init PROVE IInv
  OBVIOUS
<1>1. ASSUME NEW s \in Savers PROVE Copied(s) /\ Written(s)
  <2>1. save[s].at = "idle"
    BY DEF Init, Idle
  <2> QED BY <2>1 DEF Copied, Written
<1>2. Started(file) /\ Kept
  BY DEF Init, NoFile, Unknown, Started, Kept
<1> QED BY InitTyped, <1>1, <1>2 DEF IInv

\* A list that is pushed to grows in the copies too, and nothing else changes there.
LEMMA PushIInv ==
    ASSUME IInv, NEW k \in Keys, Push(k)
    PROVE  Started(file)' /\ Kept' /\ \A s \in Savers : Copied(s)' /\ Written(s)'
<1> DEFINE Longer(e) == IF e = dictionary[k] THEN [e EXCEPT !.size = @ + 1] ELSE e
           Shared(copied) == [i \in DOMAIN copied |-> [copied[i] EXCEPT !.entry = Longer(@)]]
<1>1. /\ k \in DOMAIN dictionary /\ dictionary[k].kind = "list"
      /\ save' = [s \in Savers |-> IF save[s] = Idle THEN Idle
                                   ELSE [save[s] EXCEPT !.copied = Shared(@)]]
      /\ UNCHANGED <<file, promised>>
  BY DEF Push, Change
<1>2. ASSUME NEW c \in Entries, NEW e \in Entries, Grown(c, e) PROVE Grown(c, Longer(e))
  BY <1>1, <1>2, GrownGrows
<1> HIDE DEF Longer
<1>3. ASSUME NEW copied \in Seq(Pairs)
      PROVE  /\ DOMAIN Shared(copied) = DOMAIN copied
             /\ \A i \in DOMAIN copied : /\ Shared(copied)[i].key = copied[i].key
                                         /\ Shared(copied)[i].entry = Longer(copied[i].entry)
  <2>1. \A i \in DOMAIN copied : copied[i] \in Pairs
    OBVIOUS
  <2> QED BY <2>1 DEF Pairs
<1>4. ASSUME NEW copied \in Seq(Pairs), NEW copy \in Contents, Pending(copied, copy)
      PROVE  Pending(Shared(copied), copy)
  <2>1. ASSUME NEW i \in DOMAIN copied PROVE Grown(copy[copied[i].key], Longer(copied[i].entry))
    <3>1. copied[i].key \in DOMAIN copy /\ Grown(copy[copied[i].key], copied[i].entry)
      BY <1>4 DEF Pending
    <3>2. copied[i] \in Pairs
      OBVIOUS
    <3>3. copied[i].entry \in Entries /\ copy[copied[i].key] \in Entries
      BY <3>1, <3>2, ContentsEntry DEF Pairs
    <3> QED BY <1>2, <3>1, <3>3
  <2>2. /\ DOMAIN Shared(copied) = DOMAIN copied
        /\ \A i \in DOMAIN copied : /\ Shared(copied)[i].key = copied[i].key
                                    /\ Shared(copied)[i].entry = Longer(copied[i].entry)
    BY <1>3
  <2> HIDE DEF Shared
  <2> QED BY <1>4, <2>1, <2>2 DEF Pending
<1>5. ASSUME NEW copied \in Seq(Pairs), NEW copy, NEW last, Recorded(file.blocks, last, copied, copy)
      PROVE  Recorded(file.blocks, last, Shared(copied), copy)
  <2>1. /\ DOMAIN Shared(copied) = DOMAIN copied
        /\ \A i \in DOMAIN copied : Shared(copied)[i].key = copied[i].key
    BY <1>3
  <2> HIDE DEF Shared
  <2> QED BY <1>5, <2>1 DEF Recorded
<1>6. ASSUME NEW s \in Savers
      PROVE  /\ save'[s].at = save[s].at
             /\ save[s] # Idle => /\ save[s].copied \in Seq(Pairs) /\ save[s].copy \in Contents
                                  /\ save'[s].copied = Shared(save[s].copied)
                                  /\ save'[s].copy = save[s].copy
  <2> HIDE DEF Shared
  <2>1. CASE save[s] = Idle
    BY <1>1, <2>1
  <2>2. CASE save[s] # Idle
    <3>1. save[s] \in Actives
      BY <2>2 DEF IInv, TypeOK, Actives
    <3>2. save'[s] = [save[s] EXCEPT !.copied = Shared(save[s].copied)]
      BY <1>1, <2>2
    <3> QED BY <3>1, <3>2 DEF Actives
  <2> QED BY <2>1, <2>2
<1>7. Open' = Open
  BY <1>6 DEF Open
<1>8. Started(file)' /\ Kept'
  BY <1>1, <1>7 DEF IInv, Started, Kept
<1>9. ASSUME NEW s \in Savers PROVE Copied(s)' /\ Written(s)'
  <2>1. CASE save[s] = Idle
    <3>1. save'[s].at = "idle"
      <4>1. save'[s].at = save[s].at
        BY <1>6
      <4> QED BY <2>1, <4>1 DEF Idle
    <3> QED BY <3>1 DEF Copied, Written
  <2>2. CASE save[s] # Idle
    <3>1. Copied(s) /\ Written(s)
      BY DEF IInv
    <3>2. /\ save'[s].at = save[s].at /\ save'[s].copy = save[s].copy
          /\ save[s].copied \in Seq(Pairs) /\ save[s].copy \in Contents
          /\ save'[s].copied = Shared(save[s].copied)
      BY <1>6, <2>2
    <3>3. /\ DOMAIN Shared(save[s].copied) = DOMAIN save[s].copied
          /\ \A i \in DOMAIN save[s].copied : Shared(save[s].copied)[i].key = save[s].copied[i].key
      BY <1>3, <3>2
    <3>4. Shared(save[s].copied) \in Seq({Shared(save[s].copied)[i] : i \in DOMAIN save[s].copied})
      BY <3>2
    <3>5. Len(Shared(save[s].copied)) = Len(save[s].copied)
      BY <3>2, <3>3, <3>4
    <3> HIDE DEF Shared
    <3>6. Copied(s)'
      BY <1>4, <3>1, <3>2, <3>3, <3>5 DEF Copied
    <3>7. Written(s)'
      BY <1>1, <1>4, <1>5, <1>7, <3>1, <3>2 DEF Written
    <3> QED BY <3>6, <3>7
  <2> QED BY <2>1, <2>2
<1> QED BY <1>8, <1>9

LEMMA StepIInv == IInv /\ [Next]_vars => IInv'
<1> SUFFICES ASSUME IInv, [Next]_vars
             PROVE  Started(file)' /\ Kept' /\ \A s \in Savers : Copied(s)' /\ Written(s)'
  BY StepTyped DEF IInv
<1>t. TypeOK /\ Started(file) /\ Kept /\ \A s \in Savers : Copied(s) /\ Written(s)
  BY DEF IInv
<1>s. save \in [Savers -> {Idle} \cup Actives] /\ file \in Files
  BY <1>t DEF TypeOK, Actives, Files
<1>a. ASSUME NEW s \in Savers, save[s] # Idle PROVE save[s] \in Actives
  BY <1>a, <1>s
<1>1. ASSUME UNCHANGED <<save, file, promised>>
      PROVE  Started(file)' /\ Kept' /\ \A s \in Savers : Copied(s)' /\ Written(s)'
  <2>1. Open' = Open
    BY <1>1 DEF Open
  <2>2. Started(file)' /\ Kept'
    BY <1>1, <1>t, <2>1 DEF Started, Kept
  <2>3. ASSUME NEW s \in Savers PROVE Copied(s)' /\ Written(s)'
    BY <1>1, <1>t, <2>1 DEF Copied, Written
  <2> QED BY <2>2, <2>3
\* An active SAVE of s moves on, and what is written to the file is as before.
<1>o. ASSUME NEW s \in Savers, \A t \in Savers \ {s} : save'[t] = save[t],
             UNCHANGED <<file, promised>>, Open' = Open
      PROVE  Started(file)' /\ Kept' /\ \A t \in Savers \ {s} : Copied(t)' /\ Written(t)'
  <2>1. Started(file)' /\ Kept'
    BY <1>o, <1>t DEF Started, Kept
  <2>2. ASSUME NEW t \in Savers \ {s} PROVE Copied(t)' /\ Written(t)'
    BY <1>o, <1>t, <2>2 DEF Copied, Written
  <2> QED BY <2>1, <2>2
<1>2. CASE \E k \in Keys : Set(k) \/ SetExpiredToOne(k) \/ Del(k) \/ PushNew(k)
  BY <1>1, <1>2 DEF Set, SetExpiredToOne, Del, PushNew, Change
<1>3. CASE \E k \in Keys : Push(k)
  BY <1>3, PushIInv
<1>4. ASSUME NEW s \in Savers, SaveCopies(s)
      PROVE  Started(file)' /\ Kept' /\ \A t \in Savers : Copied(t)' /\ Written(t)'
  <2>1. PICK order \in SetToSeqs(DOMAIN dictionary) :
           save' = [save EXCEPT ![s] =
              Active("copied",
                     [i \in DOMAIN order |-> [key |-> order[i], entry |-> dictionary[order[i]]]],
                     dictionary)]
    BY <1>4 DEF SaveCopies
  <2> DEFINE copied == [i \in DOMAIN order |-> [key |-> order[i], entry |-> dictionary[order[i]]]]
             n == Cardinality(DOMAIN dictionary)
  <2>2. /\ copied \in Seq(Pairs) /\ n \in Nat
        /\ order \in [1 .. n -> DOMAIN dictionary]
        /\ \A i, j \in 1 .. n : i # j => order[i] # order[j]
        /\ \A k \in DOMAIN dictionary : \E i \in 1 .. n : order[i] = k
    BY <1>t, PairsTyped DEF TypeOK
  <2>3. /\ DOMAIN copied = 1 .. n
        /\ \A i \in 1 .. n : /\ copied[i].key = order[i] /\ order[i] \in DOMAIN dictionary
                             /\ copied[i].entry = dictionary[order[i]]
    BY <2>2
  <2>4. save'[s].at = "copied" /\ save'[s].copied = copied /\ save'[s].copy = dictionary
    BY <1>s, <2>1 DEF Active
  <2> HIDE DEF copied, n
  <2>5. Len(copied) = n
    BY <2>2, <2>3
  <2>6. Pending(copied, dictionary)
    BY <2>2, <2>3 DEF Pending, Grown
  <2>7. Copied(s)' /\ Written(s)'
    BY <2>2, <2>3, <2>4, <2>5, <2>6 DEF Copied, Written, n
  <2>8. \A t \in Savers \ {s} : save'[t] = save[t]
    BY <2>1
  <2>9. Open' = Open
    BY <1>4, <2>4, <2>8 DEF Open, SaveCopies, Idle
  <2> QED BY <1>4, <1>o, <2>7, <2>8, <2>9 DEF SaveCopies
<1>5. ASSUME NEW s \in Savers, SaveOpens(s)
      PROVE  Started(file)' /\ Kept' /\ \A t \in Savers : Copied(t)' /\ Written(t)'
  <2>1. save[s] \in Actives
    BY <1>5, <1>a DEF SaveOpens, Idle
  <2>2. /\ save'[s].at = "writing" /\ save'[s].copied = save[s].copied
        /\ save'[s].copy = save[s].copy
        /\ \A t \in Savers \ {s} : save'[t] = save[t]
    BY <1>5, <1>s, <2>1 DEF SaveOpens, Actives
  <2>3. Open' = Open \cup {s}
    BY <2>2 DEF Open
  <2>4. /\ file'.exists /\ (Open = {} \/ file'.mixed)
        /\ file'.blocks = <<Preamble(Len(save[s].copied))>> /\ promised'.known = FALSE
    BY <1>5 DEF SaveOpens, File, Unknown
  <2>5. Copied(s)
    BY <1>t
  <2>6. Written(s)'
    <3>1. Begins(file'.blocks, save[s].copy)
      <4>1. Len(save[s].copied) = Cardinality(DOMAIN save[s].copy)
        BY <1>5, <2>5 DEF Copied, SaveOpens
      <4>2. file'.blocks = <<Preamble(Cardinality(DOMAIN save[s].copy))>>
        BY <2>4, <4>1
      <4> QED BY <4>2 DEF Begins
    <3>2. Len(file'.blocks) = 1
      BY <2>4
    <3>3. Recorded(file'.blocks, 1, save[s].copied, save[s].copy)
      BY <1>5, <2>5 DEF Recorded, Copied, SaveOpens
    <3> QED BY <1>5, <2>2, <2>3, <2>4, <2>5, <3>1, <3>2, <3>3 DEF Written, Copied, SaveOpens
  <2>7. ASSUME NEW t \in Savers \ {s} PROVE Copied(t)' /\ Written(t)'
    <3>1. save'[t].at = "writing" => t \in Open
      BY <2>2 DEF Open
    <3> QED BY <1>t, <2>2, <2>4, <3>1 DEF Copied, Written
  <2>8. Copied(s)'
    BY <2>2 DEF Copied
  <2>9. Started(file)' /\ Kept'
    BY <2>4 DEF Started, Kept, Preamble
  <2> QED BY <2>6, <2>7, <2>8, <2>9
<1>6. ASSUME NEW s \in Savers, SaveFails(s)
      PROVE  Started(file)' /\ Kept' /\ \A t \in Savers : Copied(t)' /\ Written(t)'
  <2>1. save'[s].at = "idle" /\ \A t \in Savers \ {s} : save'[t] = save[t]
    BY <1>6, <1>s DEF SaveFails, Idle
  <2>2. Open' = Open
    BY <1>6, <2>1 DEF Open, SaveFails
  <2>3. Copied(s)' /\ Written(s)'
    BY <2>1 DEF Copied, Written
  <2> QED BY <1>6, <1>o, <2>1, <2>2, <2>3 DEF SaveFails
<1>7. ASSUME NEW s \in Savers, SaveWritesLength(s)
      PROVE  Started(file)' /\ Kept' /\ \A t \in Savers : Copied(t)' /\ Written(t)'
  <2>1. save[s] \in Actives
    BY <1>7, <1>a DEF SaveWritesLength, Idle
  <2>2. /\ save'[s].at = "writing" /\ save'[s].copied = save[s].copied
        /\ save'[s].copy = save[s].copy
        /\ \A t \in Savers \ {s} : save'[t] = save[t]
    BY <1>7, <1>s, <2>1 DEF SaveWritesLength, Actives
  <2>3. Open' = Open
    BY <1>7, <2>2 DEF Open, SaveWritesLength
  <2>4. Copied(s)' /\ Written(s)'
    BY <1>7, <1>t, <2>2, <2>3 DEF Copied, Written, SaveWritesLength
  <2> QED BY <1>7, <1>o, <2>2, <2>3, <2>4 DEF SaveWritesLength
<1>8. ASSUME NEW s \in Savers, SaveWrites(s)
      PROVE  Started(file)' /\ Kept' /\ \A t \in Savers : Copied(t)' /\ Written(t)'
  <2> DEFINE record == Record(Head(save[s].copied), save[s].lengthWritten)
             rest == Tail(save[s].copied)
  <2>1. save[s] \in Actives
    BY <1>8, <1>a DEF SaveWrites, Idle
  <2>2. /\ save[s].copied \in Seq(Pairs) /\ save[s].copied # <<>>
        /\ save[s].copy \in Contents /\ save[s].lengthWritten \in Nat
    BY <1>8, <2>1 DEF SaveWrites, Actives
  <2>3. /\ save'[s].at = "writing" /\ save'[s].copied = rest
        /\ save'[s].copy = save[s].copy
        /\ \A t \in Savers \ {s} : save'[t] = save[t]
    BY <1>8, <1>s, <2>1 DEF SaveWrites, Actives
  <2>4. Open' = Open /\ s \in Open /\ save[s].at = "writing"
    BY <1>8, <2>3 DEF Open, SaveWrites
  <2>5. /\ file'.exists /\ file'.mixed = file.mixed
        /\ file'.blocks = IF file.mixed THEN <<>> ELSE file.blocks \o record
        /\ promised' = promised
    BY <1>8 DEF SaveWrites, Writes, File
  <2>6. record \in Seq(Blocks)
    <3>1. Head(save[s].copied) \in Pairs
      BY <2>2
    <3> QED BY <2>2, <3>1, RecordTyped
  <2> HIDE DEF record
  <2>7. ASSUME ~file.mixed
        PROVE  /\ Open = {s} /\ file.blocks \in Seq(Blocks) /\ file.blocks # <<>>
               /\ Begins(file.blocks, save[s].copy)
               /\ (file.blocks \o record) # <<>>
               /\ (file.blocks \o record)[1] = file.blocks[1]
               /\ Pending(save[s].copied, save[s].copy)
               /\ Torn \notin ToSet(file.blocks) =>
                    Recorded(file.blocks, Len(file.blocks), save[s].copied, save[s].copy)
    <3>1. /\ Open = {s} /\ Begins(file.blocks, save[s].copy)
          /\ Pending(save[s].copied, save[s].copy)
          /\ Torn \notin ToSet(file.blocks) =>
                Recorded(file.blocks, Len(file.blocks), save[s].copied, save[s].copy)
      BY <1>t, <2>4, <2>7 DEF Written
    <3>2. file.blocks \in Seq(Blocks) /\ file.blocks # <<>>
      BY <1>s, <3>1 DEF Files, Begins
    <3>3. (file.blocks \o record) # <<>> /\ (file.blocks \o record)[1] = file.blocks[1]
      BY <2>6, <3>2
    <3> QED BY <3>1, <3>2, <3>3
  <2>8. Written(s)'
    <3>1. SUFFICES ASSUME ~file.mixed
                   PROVE  /\ Open = {s}
                          /\ Begins(file.blocks \o record, save[s].copy)
                          /\ Pending(rest, save[s].copy)
                          /\ Torn \notin ToSet(file.blocks \o record) =>
                                Recorded(file.blocks \o record, Len(file.blocks \o record),
                                         rest, save[s].copy)
      <4> HIDE DEF rest
      <4> QED BY <2>3, <2>4, <2>5 DEF Written
    <3>2. Begins(file.blocks \o record, save[s].copy)
      BY <2>7, <3>1 DEF Begins
    <3>3. Pending(rest, save[s].copy)
      BY <2>2, <2>7, <3>1, PendingTail
    <3>4. Torn \notin ToSet(file.blocks \o record) =>
             Recorded(file.blocks \o record, Len(file.blocks \o record), rest, save[s].copy)
      BY <2>2, <2>7, <3>1, RecordedStep DEF record
    <3> QED BY <2>7, <3>1, <3>2, <3>3, <3>4
  <2> HIDE DEF rest
  <2>9. ASSUME NEW t \in Savers \ {s} PROVE Copied(t)' /\ Written(t)'
    <3>1. save'[t].at = "writing" => t \in Open
      BY <2>3 DEF Open
    <3> QED BY <1>t, <2>3, <2>5, <2>7, <3>1 DEF Copied, Written
  <2>10. Started(file)' /\ Kept'
    <3>1. ~promised.known
      BY <1>t, <2>4 DEF Kept
    <3>2. Kept'
      BY <2>5, <3>1 DEF Kept
    <3>3. Started(file)'
      BY <1>t, <2>5, <2>7 DEF Started
    <3> QED BY <3>2, <3>3
  <2>11. Copied(s)'
    BY <2>3 DEF Copied
  <2> QED BY <2>8, <2>9, <2>10, <2>11
<1>9. ASSUME NEW s \in Savers, SaveEnds(s)
      PROVE  Started(file)' /\ Kept' /\ \A t \in Savers : Copied(t)' /\ Written(t)'
  <2>1. save'[s].at = "idle" /\ \A t \in Savers \ {s} : save'[t] = save[t]
    BY <1>9, <1>s DEF SaveEnds, Idle
  <2>2. Open' = Open \ {s} /\ s \in Open /\ save[s].at = "writing" /\ save[s].copied = <<>>
    BY <1>9, <2>1 DEF Open, SaveEnds
  <2>3. /\ file'.exists /\ file'.mixed = file.mixed
        /\ file'.blocks = IF file.mixed THEN <<>> ELSE file.blocks \o <<EndMark>>
        /\ promised' = IF file.mixed THEN Unknown ELSE [known |-> TRUE, copy |-> save[s].copy]
    BY <1>9 DEF SaveEnds, Writes, File
  <2>4. Copied(s)' /\ Written(s)'
    BY <2>1 DEF Copied, Written
  <2>5. CASE file.mixed
    <3>1. Started(file)' /\ Kept'
      BY <2>3, <2>5 DEF Started, Kept, Unknown
    <3>2. ASSUME NEW t \in Savers \ {s} PROVE Copied(t)' /\ Written(t)'
      BY <1>t, <2>1, <2>3, <2>5 DEF Copied, Written
    <3> QED BY <2>4, <3>1, <3>2
  <2>6. CASE ~file.mixed
    <3> DEFINE n == Len(file.blocks)
               more == file.blocks \o <<EndMark>>
    <3>1. /\ Open = {s} /\ file.exists /\ Begins(file.blocks, save[s].copy)
          /\ Torn \notin ToSet(file.blocks) => Recorded(file.blocks, n, <<>>, save[s].copy)
      BY <1>t, <2>2, <2>6 DEF Written
    <3>2. file.blocks \in Seq(Blocks) /\ file.blocks # <<>> /\ EndMark \in Blocks
      BY <1>s, <3>1 DEF Files, Begins, Blocks
    <3>3. /\ n \in Nat \ {0} /\ Len(more) = n + 1 /\ more[n + 1] = EndMark
          /\ \A i \in 1 .. n : more[i] = file.blocks[i]
          /\ DOMAIN more = 1 .. n + 1 /\ DOMAIN file.blocks = 1 .. n /\ more # <<>>
      BY <3>2
    <3> HIDE DEF n, more
    <3>4. Begins(more, save[s].copy)
      <4>1. more[1] = file.blocks[1]
        BY <3>3
      <4> QED BY <3>1, <3>3, <4>1 DEF Begins
    <3>5. Torn \notin ToSet(more) => Recorded(more, n, <<>>, save[s].copy)
      <4>1. SUFFICES ASSUME Torn \notin ToSet(more) PROVE Recorded(more, n, <<>>, save[s].copy)
        OBVIOUS
      <4>2. Torn \notin ToSet(file.blocks)
        BY <3>3, <4>1 DEF ToSet
      <4>3. \A i \in 2 .. n : more[i] = file.blocks[i]
        BY <3>3
      <4> QED BY <3>1, <4>2, <4>3 DEF Recorded
    <3>6. promised' = [known |-> TRUE, copy |-> save[s].copy] /\ file'.blocks = more /\ ~file'.mixed
      BY <2>3, <2>6 DEF more
    <3>7. Open' = {}
      BY <2>2, <3>1
    <3>8. Kept'
      <4>1. (n + 1) - 1 = n /\ n + 1 > 1
        BY <3>3
      <4>2. Len(file'.blocks) > 1 /\ file'.blocks[Len(file'.blocks)] = EndMark
        BY <3>3, <3>6, <4>1
      <4>3. Torn \notin ToSet(file'.blocks) =>
               Recorded(file'.blocks, Len(file'.blocks) - 1, <<>>, promised'.copy)
        BY <3>3, <3>5, <3>6, <4>1
      <4>4. Begins(file'.blocks, promised'.copy)
        BY <3>4, <3>6
      <4> QED BY <2>3, <3>6, <3>7, <4>2, <4>3, <4>4 DEF Kept
    <3>9. Started(file)'
      BY <3>4, <3>6 DEF Started, Begins, Preamble
    <3>10. ASSUME NEW t \in Savers \ {s} PROVE Copied(t)' /\ Written(t)'
      <4>1. save'[t].at # "writing"
        BY <2>1, <3>1 DEF Open
      <4> QED BY <1>t, <2>1, <4>1 DEF Copied, Written
    <3> QED BY <2>4, <3>8, <3>9, <3>10
  <2> QED BY <2>5, <2>6
<1>10. CASE Restart
  <2>1. PICK left \in Left : file' = left
    BY <1>10 DEF Restart
  <2>2. Started(file)'
    BY <1>t, <2>1, LeftTyped DEF Started
  <2>3. \A s \in Savers : save'[s].at = "idle"
    BY <1>10 DEF Restart, Idle
  <2>4. \A s \in Savers : Copied(s)' /\ Written(s)'
    BY <2>3 DEF Copied, Written
  <2>5. Open' = {} /\ promised' = promised
    BY <1>10, <2>3 DEF Open, Restart
  <2>6. promised.known => file' = file
    BY <1>t, <2>1 DEF Kept, Left
  <2>7. Kept'
    BY <1>t, <2>5, <2>6 DEF Kept
  <2> QED BY <2>2, <2>4, <2>7
<1>11. CASE UNCHANGED vars
  BY <1>1, <1>11 DEF vars
<1> QED
  BY <1>2, <1>3, <1>4, <1>5, <1>6, <1>7, <1>8, <1>9, <1>10, <1>11 DEF Next

LEMMA Invariance == Spec => []IInv
  BY InitIInv, StepIInv, PTL DEF Spec

--------------------------------------------------------------------------------
\* load finds the whole copy in a file that holds it, or nothing if a number was counted.
LEMMA LoadsWhole ==
    ASSUME NEW f \in Files, Started(f), f.exists, ~f.mixed,
           NEW copy \in Contents, Whole(copy), Begins(f.blocks, copy),
           Len(f.blocks) > 1, f.blocks[Len(f.blocks)] = EndMark,
           Recorded(f.blocks, Len(f.blocks) - 1, <<>>, copy),
           NEW d \in Loads(f)
    PROVE  /\ Restores(copy, d) \/ d = Nothing
           /\ Numbers(copy) = {} => Restores(copy, d)
<1> DEFINE blocks == f.blocks
           m == Len(blocks) - 2
           n == Cardinality(DOMAIN copy)
<1>1. /\ blocks \in Seq(Blocks) /\ blocks # <<>> /\ m \in Nat /\ Len(blocks) = m + 2
      /\ blocks[1] = Preamble(n) /\ blocks[m + 2] = EndMark
      /\ Recorded(blocks, m + 1, <<>>, copy)
  BY DEF Files, Begins
<1>2. IsFiniteSet(DOMAIN copy) /\ n \in Nat
  BY SnapshotBounds, ContentsAre, FS_Subset, FS_CardinalityType
<1>3. blocks[1] # Torn /\ blocks[1].count = n
  BY <1>1 DEF Preamble, Torn
<1>4. \E last \in 0 .. n :
         /\ \A i \in 1 .. last : SameAt(f, i)
         /\ \A l \in 0 .. n : (\A i \in 1 .. l : SameAt(f, i)) => l <= last
         /\ Loads(f) = LoadsUpTo(f, n, last)
  BY <1>1, <1>3, LoadsFollows
<1> HIDE DEF m, n
<1>5. ASSUME NEW i \in 2 .. m + 1
      PROVE  /\ blocks[i].what = "entry" /\ blocks[i].key \in DOMAIN copy
             /\ Grown(copy[blocks[i].key], blocks[i].entry)
             /\ AsRead(blocks[i].entry) = blocks[i].entry
  <2>1. /\ blocks[i].what = "entry" /\ blocks[i].key \in DOMAIN copy
        /\ Grown(copy[blocks[i].key], blocks[i].entry)
    BY <1>1 DEF Recorded
  <2> DEFINE e == blocks[i].entry
             c == copy[blocks[i].key]
  <2>2. e \in Entries /\ c \in Entries
    <3>1. i \in 1 .. Len(blocks)
      BY <1>1
    <3>2. blocks[i] \in Blocks
      BY <1>1, <3>1
    <3> QED BY <2>1, <3>2, BlockFields, ContentsEntry
  <2> HIDE DEF e
  <2>3. CASE e.kind = "string"
    <3>1. c = e /\ Survives(c.size)
      BY <2>1, <2>3 DEF Grown, Whole, e
    <3>2. AsRead(e) = [e EXCEPT !.size = e.size]
      BY <2>3, <3>1 DEF AsRead, Survives
    <3>3. [e EXCEPT !.size = e.size] = e
      BY <2>2, <2>3 DEF Entries
    <3> QED BY <2>1, <3>2, <3>3 DEF e
  <2>4. CASE e.kind # "string"
    BY <2>1, <2>4 DEF AsRead, e
  <2> QED BY <2>3, <2>4
<1>6. ASSUME NEW i \in 1 .. m PROVE SameAt(f, i)
  <2>1. i + 1 \in 2 .. m + 1 /\ i + 1 <= Len(blocks)
    BY <1>1
  <2> QED BY <1>5, <2>1 DEF SameAt, EntryAt
<1>7. ~EntryAt(f, m + 1)
  <2>1. (m + 1) + 1 = m + 2 /\ EndMark.what # "entry"
    BY <1>1 DEF EndMark
  <2> QED BY <1>1, <2>1 DEF EntryAt
\* The keys of the records: as many as there are records.
<1> DEFINE key == [i \in 1 .. m |-> blocks[i + 1].key]
<1>8. key \in Injection(1 .. m, DOMAIN copy)
  <2>1. \A i \in 1 .. m : i + 1 \in 2 .. m + 1
    BY <1>1
  <2>2. key \in [1 .. m -> DOMAIN copy]
    BY <1>5, <2>1
  <2>3. ASSUME NEW i \in 1 .. m, NEW j \in 1 .. m, key[i] = key[j] PROVE i = j
    <3>1. i + 1 = j + 1
      BY <1>1, <2>1, <2>3 DEF Recorded
    <3> QED BY <1>1, <3>1
  <2> HIDE DEF key
  <2> QED BY <2>2, <2>3 DEF Injection, IsInjective
<1>9. m <= n /\ (m = n <=> key \in Surjection(1 .. m, DOMAIN copy))
  <2>1. Cardinality(1 .. m) = m
    BY <1>1, FS_Interval
  <2> HIDE DEF key
  <2>2. /\ Cardinality(1 .. m) <= Cardinality(DOMAIN copy)
        /\ Cardinality(1 .. m) = Cardinality(DOMAIN copy) <=> key \in Surjection(1 .. m, DOMAIN copy)
    BY <1>2, <1>8, FS_Injection
  <2> QED BY <2>1, <2>2 DEF n
<1>10. Loads(f) = LoadsUpTo(f, n, m)
  <2>1. PICK last \in 0 .. n :
           /\ \A i \in 1 .. last : SameAt(f, i)
           /\ \A l \in 0 .. n : (\A i \in 1 .. l : SameAt(f, i)) => l <= last
           /\ Loads(f) = LoadsUpTo(f, n, last)
    BY <1>4
  <2>2. m <= last
    BY <1>1, <1>6, <1>9, <2>1
  <2>3. ~(last > m)
    <3>1. SUFFICES ASSUME last > m PROVE FALSE
      OBVIOUS
    <3>2. m + 1 \in 1 .. last
      BY <1>1, <3>1
    <3> QED BY <1>7, <2>1, <3>2 DEF SameAt
  <2>4. last = m
    BY <1>1, <2>1, <2>2, <2>3
  <2> QED BY <2>1, <2>4
<1>11. CASE m # n
  <2>1. LoadsUpTo(f, n, m) = {Nothing}
    BY <1>1, <1>2, <1>7, <1>11 DEF LoadsUpTo
  <2>2. Numbers(copy) # {}
    <3>1. SUFFICES ASSUME Numbers(copy) = {} PROVE FALSE
      OBVIOUS
    <3>2. ASSUME NEW k \in DOMAIN copy PROVE \E i \in 1 .. m : key[i] = k
      <4>1. copy[k].kind # "number"
        BY <3>1 DEF Numbers
      <4>2. PICK i \in 2 .. m + 1 : blocks[i].key = k
        BY <1>1, <4>1 DEF Recorded
      <4>3. i - 1 \in 1 .. m /\ (i - 1) + 1 = i
        BY <1>1
      <4> QED BY <4>2, <4>3
    <3>3. key \in [1 .. m -> DOMAIN copy]
      BY <1>8 DEF Injection
    <3> HIDE DEF key
    <3>4. key \in Surjection(1 .. m, DOMAIN copy)
      BY <3>2, <3>3 DEF Surjection
    <3> QED BY <1>9, <1>11, <3>4
  <2> QED BY <1>10, <2>1, <2>2
<1>12. CASE m = n
  <2> DEFINE places == 2 .. m + 1
             at(k) == CHOOSE i \in places : blocks[i].key = k
  <2>1. d = FirstRead(blocks, m)
    BY <1>10, <1>12 DEF LoadsUpTo
  <2>2. {blocks[i].key : i \in places} = DOMAIN copy
    <3>1. \A i \in places : blocks[i].key \in DOMAIN copy
      BY <1>5
    <3>2. ASSUME NEW k \in DOMAIN copy PROVE \E i \in places : blocks[i].key = k
      <4>1. PICK i \in 1 .. m : key[i] = k
        BY <1>9, <1>12 DEF Surjection
      <4>2. i + 1 \in places
        BY <1>1
      <4> QED BY <4>1, <4>2
    <3> QED BY <3>1, <3>2
  <2>3. d = [k \in DOMAIN copy |-> AsRead(blocks[at(k)].entry)]
    BY <2>1, <2>2 DEF FirstRead
  <2>4. ASSUME NEW k \in DOMAIN copy
        PROVE  Grown(copy[k], d[k])
    <3>1. at(k) \in places /\ blocks[at(k)].key = k
      BY <2>2
    <3> HIDE DEF at
    <3>2. Grown(copy[k], blocks[at(k)].entry) /\ AsRead(blocks[at(k)].entry) = blocks[at(k)].entry
      BY <1>5, <3>1
    <3> QED BY <2>3, <3>2
  <2>5. DOMAIN d = DOMAIN copy
    BY <2>3
  <2> QED BY <2>4, <2>5 DEF Restores, Grown
<1> QED BY <1>11, <1>12

\* What a restart finds after a SAVE that was answered with OK.
LEMMA RestartFinds ==
    ASSUME IInv, Restart, promised.known, Whole(promised.copy), Torn \notin ToSet(file.blocks)
    PROVE  /\ Restores(promised.copy, dictionary') \/ dictionary' = Nothing
           /\ Numbers(promised.copy) = {} => Restores(promised.copy, dictionary')
<1>1. /\ file \in Files /\ Started(file) /\ promised.copy \in Contents
      /\ Open = {} /\ file.exists /\ ~file.mixed
      /\ Begins(file.blocks, promised.copy)
      /\ Len(file.blocks) > 1 /\ file.blocks[Len(file.blocks)] = EndMark
      /\ Recorded(file.blocks, Len(file.blocks) - 1, <<>>, promised.copy)
  BY DEF IInv, Kept, TypeOK, Files
<1>2. dictionary' \in Loads(file)
  BY <1>1 DEF Restart, Left
<1> QED BY <1>1, <1>2, LoadsWhole

LEMMA OnlyRestart == [Next]_vars /\ restarts' # restarts => Restart
  BY DEF Next, Set, SetExpiredToOne, Del, PushNew, Push, Change, SaveCopies, SaveOpens,
         SaveFails, SaveWritesLength, SaveWrites, SaveEnds, vars

--------------------------------------------------------------------------------
\* The dictionary, the SAVEs, the file and the answers keep their types, also where load
\* makes entries up.
THEOREM SnapshotTypeCorrect == Spec => []TypeOK
<1>1. IInv => TypeOK
  BY DEF IInv
<1> QED BY Invariance, <1>1, PTL

\* After a SAVE that was answered with OK, with no other writing along, a restart finds
\* the dictionary as it was under that SAVE's lock: nothing in it is a number, is of a
\* length that is not read back, or grew while it was being written.
THEOREM SavedIsRestored == Spec => RestartRestores
<1>1. ASSUME IInv, [Next]_vars
      PROVE  [restarts' # restarts /\ promised.known /\ Whole(promised.copy)
                 /\ Torn \notin ToSet(file.blocks) /\ Numbers(promised.copy) = {}
              => Restores(promised.copy, dictionary')]_vars
  BY <1>1, OnlyRestart, RestartFinds
<1> QED BY Invariance, <1>1, PTL DEF Spec, RestartRestores

\* After such a SAVE a restart finds the whole dictionary or nothing, never a part.
THEOREM NeverAPart == Spec => AllOrNothing
<1>1. ASSUME IInv, [Next]_vars
      PROVE  [restarts' # restarts /\ promised.known /\ Whole(promised.copy)
                 /\ Torn \notin ToSet(file.blocks)
              => Restores(promised.copy, dictionary') \/ dictionary' = Nothing]_vars
  BY <1>1, OnlyRestart, RestartFinds
<1> QED BY Invariance, <1>1, PTL DEF Spec, AllOrNothing

================================================================================
