------------------------------ MODULE MCSession ------------------------------
(* Node 1 with two keys.  Its peers send entries of node 2 and entries that   *)
(* node 1 wrote itself and gets back.  The client sends every frame of a pool *)
(* and a GET, on its own, after an AUTH or after a SET.                       *)
EXTENDS Session, Resp

MCValue == {0, 1}
MCOrigin == {1, 2}
MCRemote ==
  {e \in [version : 1..2, origin : MCOrigin, deleted : BOOLEAN, value : MCValue] :
     e.deleted => e.value = EmptyString}
MCDelArgs == {<<"a">>, <<"b", "a">>, <<"a", "b", "a">>}

MCVisits == {e \in MCRemote : e.version = 2 /\ e.origin = 2 /\ (e.deleted \/ e.value = 1)}

MCNodeName == <<"n">>
Word == <<"1">>
MCValueText == <<<<>>, CRLF>>

Words(ws) == Array([i \in DOMAIN ws |-> BulkString(ws[i])])
Frame(v) == [bytes |-> Encode(v), value |-> v]
Inline(bytes, ws) == [bytes |-> bytes, value |-> Words(ws)]
Raw(bytes, v) == [bytes |-> bytes, value |-> v]
BrokenFrame(bytes) == [bytes |-> bytes, value |-> Broken]

Get == Frame(Words(<<<<"G">>, <<"a">>>>))
Set == Frame(Words(<<<<"S">>, <<"a">>, CRLF>>))
Join == Frame(Words(<<<<"J">>, Word, Word>>))
JoinNameless == Frame(Words(<<<<"J">>, <<>>, Word>>))
Login == Frame(Words(<<<<"A">>, Word>>))

Pool ==
  {Get, Set, Login,
   Frame(Words(<<<<"D">>, <<"b">>, <<"a">>, <<"b">>>>)),
   Frame(Words(<<<<"A">>, <<>>>>)),
   Frame(Words(<<<<"A">>, Word, Word>>)),
   Join,
   Frame(Words(<<<<"J">>, Word>>)),
   Frame(Words(<<<<"J">>, Word, CRLF>>)),
   Frame(Words(<<<<"N">>>>)),
   Frame(Words(<<<<"u", "SP", "u">>>>)), Frame(Words(<<CRLF>>)),
   Frame(Words(<<<<"C">>, CRLF>>)),
   Frame(Array(<<BulkString(<<"S">>), BulkString(<<"a">>), NullBulkString>>)),
   Frame(Array(<<BulkString(<<"D">>), Array(<<Integer(0 - 12)>>)>>)),
   Frame(Array(<<NullBulkString>>)),
   Frame(Words(<<<<"C">>, <<"K">>, <<"a">>>>)),
   Frame(Words(<<<<"C">>, <<"S">>>>)),
   Frame(Words(<<<<"L">>>>)), Frame(Words(<<<<"I">>>>)),
   Inline(<<"P", "SP">> \o CRLF, <<<<"P">>>>),
   Inline(CRLF, <<>>),
   Raw(<<"*", "-", "1">> \o CRLF, Nil),
   Raw(<<"$", "+", "1">> \o CRLF \o <<"*">> \o CRLF, BulkString(<<"*">>)),
   BrokenFrame(<<"+", "LF">>),
   BrokenFrame(<<"$", "9">> \o CRLF),
   BrokenFrame(<<"P", "P", "P", "P", "P", "P", "P", "P">>)}

Protected(frames) == [script |-> frames, token |-> Word]
Open(frames) == [script |-> frames, token |-> <<>>]
MCScenarios ==
  {Open(<<>>), Open(<<Join, JoinNameless, Get>>)}
  \cup {Open(<<f, Get>>) : f \in Pool} \cup {Open(<<Set, f, Get>>) : f \in Pool}
  \cup {Protected(<<f, Get>>) : f \in Pool} \cup {Protected(<<Login, f, Get>>) : f \in Pool}
=============================================================================
