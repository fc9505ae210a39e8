-------------------------------- MODULE Resp --------------------------------
(***************************************************************************)
(* The Redis protocol of pkg/api: Resp() of types.go, which writes a value *)
(* as bytes, and the Reader of reader.go, which takes one value from the   *)
(* front of the bytes that have arrived.                                   *)
(***************************************************************************)
EXTENDS Integers, Sequences, SequencesExt, RespTypes

CONSTANTS MaxBulk, MaxArray, MaxLine, MaxDepth, \* the limits of reader.go
          BufSize                               \* the size of bufio's buffer

ASSUME LimitsAssumption ==
  /\ MaxBulk \in Nat /\ MaxArray \in Nat /\ MaxLine \in Nat /\ MaxDepth \in Nat
  /\ BufSize \in Nat \ {0}

-----------------------------------------------------------------------------
Digit == <<"0", "1", "2", "3", "4", "5", "6", "7", "8", "9">>
DigitValue(b) == (CHOOSE i \in 1..10 : Digit[i] = b) - 1

\* strconv.Atoi, which also takes a plus sign.
Unsigned(text) == IF text # <<>> /\ Head(text) \in {"+", "-"} THEN Tail(text) ELSE text
IsNumber(text) == Unsigned(text) # <<>> /\ Range(Unsigned(text)) \subseteq Range(Digit)
Atoi(text) ==
  LET n == FoldLeft(LAMBDA acc, b : 10 * acc + DigitValue(b), 0, Unsigned(text))
  IN  IF Head(text) = "-" THEN 0 - n ELSE n

RECURSIVE Itoa(_)
Itoa(n) ==
  IF n < 0 THEN <<"-">> \o Itoa(0 - n)
  ELSE (IF n < 10 THEN <<>> ELSE Itoa(n \div 10)) \o <<Digit[(n % 10) + 1]>>

\* Slip: the null bulk string is written as an empty one without its end.
EncodeNullAsEmpty == <<"$", "0">> \o CRLF

EncodeNull == <<"$", "-", "1">> \o CRLF

\* Value.Resp
RECURSIVE Encode(_)
Encode(v) ==
  CASE v.type = "simple"  -> <<"+">> \o v.text \o CRLF
    [] v.type = "error"   -> <<"-">> \o v.text \o CRLF
    [] v.type = "integer" -> <<":">> \o Itoa(v.n) \o CRLF
    [] v.type = "bulk"    -> <<"$">> \o Itoa(Len(v.text)) \o CRLF \o v.text \o CRLF
    [] v.type = "null"    -> EncodeNull
    [] v.type = "array"   -> <<"*">> \o Itoa(Len(v.elements)) \o CRLF
                             \o FlattenSeq([i \in DOMAIN v.elements |-> Encode(v.elements[i])])

-----------------------------------------------------------------------------
\* A read followed by the use of its result.  (The set gives TLC the outcome of
\* the first read as a value, to be computed once.)
Then(read, Use(_, _)) ==
  CHOOSE outcome \in {IF r.out = "got" THEN Use(r.result, r.rest) ELSE r : r \in {read}} : TRUE

From(s, i) == SubSeq(s, i, Len(s))

\* A line without an end is refused when a full buffer takes it past the limit.
readLine(s) ==
  LET ends == {i \in DOMAIN s : s[i] = "LF"}
      end == Min(ends)
  IN  IF ends = {}
      THEN IF Len(s) >= BufSize * (MaxLine \div BufSize + 1) THEN Failed ELSE More
      ELSE IF end > MaxLine \/ end < 2 THEN Failed
      ELSE IF s[end - 1] # "CR" THEN Failed
      ELSE Got(SubSeq(s, 1, end - 2), From(s, end + 1))

readSimpleString(s) == Then(readLine(s), LAMBDA text, rest : Got(SimpleString(text), rest))
readError(s) == Then(readLine(s), LAMBDA text, rest : Got(Error(text), rest))
readInteger(s) ==
  Then(readLine(s), LAMBDA text, rest :
         IF IsNumber(text) THEN Got(Integer(Atoi(text)), rest) ELSE Failed)

\* Slip: the two bytes behind a bulk string are left in the stream.
bulkBodyKeepingTerminator(n, s) ==
  IF Len(s) < n THEN More ELSE Got(BulkString(SubSeq(s, 1, n)), From(s, n + 1))

\* The n bytes of a bulk string, CR and LF.
bulkBody(n, s) ==
  IF Len(s) <= n THEN More
  ELSE IF s[n + 1] # "CR" THEN Failed
  ELSE IF Len(s) = n + 1 THEN More
  ELSE IF s[n + 2] # "LF" THEN Failed
  ELSE Got(BulkString(SubSeq(s, 1, n)), From(s, n + 3))

readBulkString(s) ==
  Then(readLine(s), LAMBDA text, rest :
         IF text = <<"-", "1">> THEN Got(NullBulkString, rest)
         ELSE IF ~IsNumber(text) THEN Failed
         ELSE IF Atoi(text) \notin 0..MaxBulk THEN Failed
         ELSE bulkBody(Atoi(text), rest))

\* strings.Fields
Fields(text) ==
  LET Word(i) == text[i] \notin {"SP", "CR"}
      starts == {i \in DOMAIN text : Word(i) /\ (i > 1 => ~Word(i - 1))}
      End(i) == Min({j \in i..Len(text) + 1 : j > Len(text) \/ ~Word(j)}) - 1
      FieldAt(i) == SubSeq(text, i, End(i))
      order == SetToSortSeq(starts, <)
  IN  [i \in DOMAIN order |-> FieldAt(order[i])]

readInline(s) ==
  Then(readLine(s), LAMBDA text, rest :
         Got(Array([i \in DOMAIN Fields(text) |-> BulkString(Fields(text)[i])]), rest))

RECURSIVE readValue(_, _), readElements(_, _, _, _)

\* The loop of readArray with n elements to go.
readElements(s, depth, n, done) ==
  IF n = 0 THEN Got(Array(done), s)
  ELSE Then(readValue(s, depth), LAMBDA v, rest :
              readElements(rest, depth, n - 1, Append(done, v)))

readArray(s, depth) ==
  Then(readLine(s), LAMBDA text, rest :
         IF text = <<"-", "1">> THEN Got(Nil, rest)
         ELSE IF ~IsNumber(text) THEN Failed
         ELSE IF Atoi(text) \notin 0..MaxArray THEN Failed
         ELSE readElements(rest, depth, Atoi(text), <<>>))

readValue(s, depth) ==
  LET rest == Tail(s)
  IN  IF s = <<>> THEN More
      ELSE CASE Head(s) = "+" -> readSimpleString(rest)
             [] Head(s) = "-" -> readError(rest)
             [] Head(s) = ":" -> readInteger(rest)
             [] Head(s) = "$" -> readBulkString(rest)
             [] Head(s) = "*" -> IF depth >= MaxDepth THEN Failed ELSE readArray(rest, depth + 1)
             [] OTHER         -> readInline(s)

ReadValue(s) == readValue(s, 0)
=============================================================================
