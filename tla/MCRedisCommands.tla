---------------------------- MODULE MCRedisCommands ----------------------------
(***************************************************************************)
(* RedisCommands for TLC: values of every type, alone and in pairs; every  *)
(* short sequence of bytes; and requests with one byte changed or lost.    *)
(***************************************************************************)
EXTENDS RespGenerator

Texts == {<<>>, <<"a">>, <<CR>>, <<LF, CR>>, <<CR, LF>>, <<"$", "1", "a">>}

Plain == {BulkString(t) : t \in Texts} \cup {SimpleString(<<"a", "$">>), SimpleString(<<CR>>), ErrorValue(<<>>)}
         \cup {Integer(n) : n \in {-1, 0, 12}} \cup {Null}

Arrays == {Array(<<>>)} \cup {Array(<<v>>) : v \in Plain}
          \cup {Array(<<BulkString(<<"a">>), v>>) : v \in Plain}
          \cup {Array(<<Array(<<v>>), Integer(0)>>) : v \in Plain}

SomeValues == {<<v>> : v \in Plain \cup Arrays}
              \cup {<<v, w>> : v \in Plain \cup Arrays, w \in {Array(<<BulkString(<<"a">>)>>), Integer(0)}}

SomeCharacters == {"$", "*", ":", "+", "-", "_", "a", CR, LF}
                  \cup {DigitCharacters[i] : i \in DOMAIN DigitCharacters}

ByteSet == {"$", "*", ":", "+", "-", "_", "1", "a", CR, LF}

Short == UNION {[1 .. n -> ByteSet] : n \in 1 .. 4}

\* Requests whose bytes are damaged.
Undamaged == {Written(<<Array(<<BulkString(<<"a">>), Integer(12)>>), Integer(0)>>),
             Written(<<Array(<<Array(<<SimpleString(<<"a">>)>>), ErrorValue(<<"a">>)>>)>>),
             <<"$", "-", "1", CR, LF, "*", "-", "1", CR, LF, "+", "a", CR, LF>>}

Damaged == UNION {{[s EXCEPT ![i] = c] : i \in DOMAIN s, c \in ByteSet} : s \in Undamaged}
           \cup UNION {{SubSeq(s, 1, i - 1) \o SubSeq(s, i + 1, Len(s)) : i \in DOMAIN s} : s \in Undamaged}

SomeBytes == Short \cup Damaged \cup {Written(v) : v \in SomeValues}

================================================================================
