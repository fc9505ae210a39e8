----------------------------- MODULE RespTypes ------------------------------
(***************************************************************************)
(* The values of the Redis protocol (pkg/api/types.go), and what reading   *)
(* one of them comes to.                                                   *)
(*                                                                         *)
(* A byte is a one-character string, with "CR", "LF" and "SP" for the      *)
(* white space; a text is a sequence of bytes.                             *)
(***************************************************************************)
CRLF == <<"CR", "LF">>

\* The values.  Nil is Go's nil, which stands for a null array.
SimpleString(text) == [type |-> "simple", text |-> text]
Error(text)        == [type |-> "error", text |-> text]
Integer(n)         == [type |-> "integer", n |-> n]
BulkString(text)   == [type |-> "bulk", text |-> text]
NullBulkString     == [type |-> "null"]
Array(elements)    == [type |-> "array", elements |-> elements]
Nil                == [type |-> "nil"]

\* What a read of the bytes s comes to: a result and the bytes behind it, an
\* error, or the need for bytes that have not arrived.
Got(result, rest) == [out |-> "got", result |-> result, rest |-> rest]
Failed == [out |-> "failed"]
More == [out |-> "more"]
=============================================================================
