------------------------------- MODULE Session -------------------------------
(***************************************************************************)
(* One client connection from bytes to replies: handleConn and dispatch of *)
(* internal/server/server.go, over the protocol of Resp and the node's     *)
(* store, while other connections and peers use the same store.            *)
(* The write concern is 1, so that ReplicateWithQuorum ends with the local *)
(* write, which SetFrom and Del have already made; Replication has the     *)
(* rest of it.  The name of a command is one byte, in upper case, and so is *)
(* the wording of an error; behind it comes what the error repeats.        *)
(***************************************************************************)
EXTENDS Store, RespTypes, SequencesExt

CONSTANTS Read(_),   \* Reader.ReadValue on the bytes that have arrived, and
          Write(_),  \* Value.Resp: ReadValue and Encode of Resp
          Scenarios, \* what the client may send, a sequence of frames, with the
                     \* authToken of the server; <<>> is none
          NodeName,  \* the text of s.nodeID()
          ValueText, \* ValueText[r + 1]: the text of the value of rank r
          Visits,    \* bounds on what others do meanwhile: the entries they bring
          MaxOthers  \* and the number of their calls

ASSUME TextAssumption == \A i \in DOMAIN ValueText : i - 1 \in Value
ASSUME VisitsAssumption == Visits \subseteq Entry

\* A frame is the bytes sent and the value they stand for.  Broken bytes stand
\* for no value.  With an empty script there is no client.
Broken == [type |-> "broken"]

VARIABLES script, token,
          unsent,        \* the bytes of the script that have not arrived
          buf,           \* those that have, and that ReadValue has not taken
          eof,           \* the client has closed its side
          handler,       \* "reading" or "closed"
          authenticated,
          moved,         \* the address of the owner, for the keys of other nodes
          reads,         \* history: the values ReadValue returned
          replies,       \* the replies written
          others         \* history: calls of other users of the store

session == <<unsent, buf, handler, authenticated, moved, reads, replies>>
svars == <<vars, session, script, token, eof, others>>

BytesFrom(i) == FlattenSeq([j \in 1..Len(script) - i + 1 |-> script[i + j - 1].bytes])
Meant == LET first == SelectInSeq(script, LAMBDA f : f.value = Broken)
         IN  [i \in 1..(IF first = 0 THEN Len(script) ELSE first - 1) |-> script[i].value]

SessionInit ==
  /\ Init
  /\ \E s \in Scenarios : script = s.script /\ token = s.token
  /\ unsent = BytesFrom(1) /\ buf = <<>>
  /\ eof = (script = <<>>) /\ handler = (IF script = <<>> THEN "closed" ELSE "reading")
  /\ authenticated = (token = <<>>)
  /\ moved = [k \in {} |-> <<>>] /\ reads = <<>> /\ replies = <<>> /\ others = 0

-----------------------------------------------------------------------------
OK == SimpleString(<<"k">>)
Refused == Error(<<"e">>)
Moved(address) == Error(<<"m">> \o address)
Unknown(text) == Error(<<"u">> \o text)

\* The keys the ring gives to this node.
owned == Key \ DOMAIN moved

IsBulk(v) == v.type = "bulk"
IsCommand(v) ==
  v.type = "array" /\ Len(v.elements) \in Nat \ {0} /\ IsBulk(v.elements[1])
Name(v) == v.elements[1].text
Args(v) == [i \in 1..Len(v.elements) - 1 |-> v.elements[i + 1]]
KeyOf(v) == v.text[1]
RankOf(text) == (CHOOSE i \in DOMAIN ValueText : ValueText[i] = text) - 1

\* Slip: a refusal is not written.
AnswerUnlessRefused(v, reply) ==
  /\ reads' = Append(reads, v)
  /\ replies' = IF reply = Refused THEN replies ELSE Append(replies, reply)
  /\ UNCHANGED <<script, token, unsent, eof, handler, others>>

\* Every value that is read gets one reply, written and flushed.
Answer(v, reply) ==
  /\ reads' = Append(reads, v)
  /\ replies' = Append(replies, reply)
  /\ UNCHANGED <<script, token, unsent, eof, handler, others>>

NotACommand(v) ==
  /\ ~IsCommand(v)
  /\ Answer(v, Refused)
  /\ UNCHANGED <<vars, authenticated, moved>>

\* Slip: any password is the right one.
AuthAnyPassword(v) ==
  LET ok == token # <<>> /\ Len(Args(v)) = 1
  IN  /\ IsCommand(v) /\ Name(v) = <<"A">>
      /\ authenticated' = (authenticated \/ ok)
      /\ Answer(v, IF ok THEN OK ELSE Refused)
      /\ UNCHANGED <<vars, moved>>

\* A wrong AUTH does not take back an earlier right one.
Auth(v) ==
  LET ok == token # <<>> /\ Args(v) = <<BulkString(token)>>
  IN  /\ IsCommand(v) /\ Name(v) = <<"A">>
      /\ authenticated' = (authenticated \/ ok)
      /\ Answer(v, IF ok THEN OK ELSE Refused)
      /\ UNCHANGED <<vars, moved>>

NotAuthenticated(v) ==
  /\ IsCommand(v) /\ Name(v) # <<"A">> /\ ~authenticated
  /\ Answer(v, Refused)
  /\ UNCHANGED <<vars, authenticated, moved>>

Dispatched(v, name) ==
  /\ IsCommand(v) /\ Name(v) = name /\ Name(v) # <<"A">> /\ authenticated
  /\ UNCHANGED authenticated

\* What handleKeyCommand, or the checks of DEL, answer before the command runs;
\* <<>> when it may run.
KeyCommandError(args, arity) ==
  IF Len(args) # arity THEN <<Refused>>
  ELSE IF ~IsBulk(args[1]) THEN <<Refused>>
  ELSE IF KeyOf(args[1]) \notin owned THEN <<Moved(moved[KeyOf(args[1])])>>
  ELSE IF arity = 2 /\ ~IsBulk(args[arity]) THEN <<Refused>> ELSE <<>>
FirstMoved(args) == KeyOf(args[SelectInSeq(args, LAMBDA a : KeyOf(a) \notin owned)])
DelError(args) ==
  IF args = <<>> \/ \E i \in DOMAIN args : ~IsBulk(args[i]) THEN <<Refused>>
  ELSE IF \E i \in DOMAIN args : KeyOf(args[i]) \notin owned
       THEN <<Moved(moved[FirstMoved(args)])>> ELSE <<>>

Erroneous(v, error) ==
  /\ error # <<>>
  /\ Answer(v, error[1])
  /\ UNCHANGED <<vars, moved>>

HandleSet(v) ==
  /\ Dispatched(v, <<"S">>)
  /\ \/ Erroneous(v, KeyCommandError(Args(v), 2))
     \/ /\ KeyCommandError(Args(v), 2) = <<>>
        /\ Args(v)[2].text \in Range(ValueText)  \* bound: the values clients write
        /\ CallSetFrom(KeyOf(Args(v)[1]), RankOf(Args(v)[2].text), Self)
        /\ Answer(v, OK)
        /\ UNCHANGED moved

\* Slip: Get returns the value of a tombstone.
GetReplyWithTombstones(item) ==
  IF item # Absent THEN BulkString(ValueText[item.value + 1]) ELSE NullBulkString

GetReply(item) ==
  IF Live(item) THEN BulkString(ValueText[item.value + 1]) ELSE NullBulkString

HandleGet(v) ==
  /\ Dispatched(v, <<"G">>)
  /\ \/ Erroneous(v, KeyCommandError(Args(v), 1))
     \/ /\ KeyCommandError(Args(v), 1) = <<>>
        /\ Answer(v, GetReply(st.tree[KeyOf(Args(v)[1])]))
        /\ UNCHANGED <<vars, moved>>

HandleDel(v) ==
  LET args == Args(v)
      keys == [i \in DOMAIN args |-> KeyOf(args[i])]
  IN  /\ Dispatched(v, <<"D">>)
      /\ \/ Erroneous(v, DelError(args))
         \/ /\ DelError(args) = <<>>
            /\ CallDel(Self, keys)
            /\ Answer(v, Integer(Cardinality(Named(keys) \cap LiveKeys(st))))
            /\ UNCHANGED moved

\* NODE.JOIN: the node that joins takes over some of the keys.  Those of a node
\* without a name are served here, like this node's own.
HandleNodeJoin(v) ==
  LET args == Args(v)
      here == args[1].text \in {<<>>, NodeName}
  IN  /\ Dispatched(v, <<"J">>)
      /\ \/ Erroneous(v, IF Len(args) < 2 \/ ~IsBulk(args[1]) \/ ~IsBulk(args[2])
                         THEN <<Refused>> ELSE <<>>)
         \/ /\ Len(args) >= 2 /\ IsBulk(args[1]) /\ IsBulk(args[2])
            /\ \E taken \in SUBSET Key :
                 moved' = [k \in IF here THEN DOMAIN moved \ taken ELSE DOMAIN moved \cup taken
                             |-> IF k \in taken THEN args[2].text ELSE moved[k]]
            /\ Answer(v, OK)
            /\ UNCHANGED vars

\* The commands that only report something: PING, INFO, NODE.LIST and CLUSTER
\* (SLOTS and KEYSLOT stand for its subcommands), NODE.PING and NODE.LEAVE, and
\* the names of no command.
ClusterReply(args) ==
  LET sub == args[1].text
  IN  IF args = <<>> THEN Refused
      ELSE IF ~IsBulk(args[1]) THEN Refused
      ELSE IF sub = <<"S">> THEN Array(<<Array(<<Integer(0), Integer(9), Array(<<>>)>>)>>)
      ELSE IF sub = <<"K">> /\ Len(args) >= 2
           THEN IF IsBulk(args[2]) THEN Integer(0) ELSE Refused
      ELSE IF sub = <<"K">> THEN Refused
      ELSE Unknown(sub)

ReportReply(name, args) ==
  CASE name = <<"P">> -> OK
    [] name = <<"I">> -> BulkString(CRLF)
    [] name = <<"L">> -> Array(<<Array(<<BulkString(<<"a">>)>>)>>)
    [] name = <<"C">> -> ClusterReply(args)
    [] name = <<"N">> -> Refused
    [] OTHER          -> Unknown(name)

HandleReport(v) ==
  /\ IsCommand(v)
  /\ Name(v) \notin {<<"S">>, <<"G">>, <<"D">>, <<"J">>}
  /\ Dispatched(v, Name(v))
  /\ Answer(v, ReportReply(Name(v), Args(v)))
  /\ UNCHANGED <<vars, moved>>

Handle(v) ==
  \/ NotACommand(v) \/ Auth(v) \/ NotAuthenticated(v)
  \/ HandleSet(v) \/ HandleGet(v) \/ HandleDel(v) \/ HandleNodeJoin(v) \/ HandleReport(v)

\* One turn of the loop of handleConn that reads a value and answers it.
Serve ==
  /\ handler = "reading"
  /\ \E read \in {Read(buf)} :
       /\ read.out = "got"
       /\ buf' = read.rest
       /\ Handle(read.result)

\* Slip: the end of the input ends the handler before it has read the rest.
ReadFailsAtOnce ==
  /\ handler = "reading"
  /\ eof \/ Read(buf).out = "failed"
  /\ handler' = "closed"
  /\ UNCHANGED <<vars, script, token, unsent, buf, eof, authenticated, moved, reads, replies,
                 others>>

\* ReadValue returns an error: bytes that are no value, or the end of the input.
ReadFails ==
  /\ handler = "reading"
  /\ Read(buf).out \in (IF eof THEN {"failed", "more"} ELSE {"failed"})
  /\ handler' = "closed"
  /\ UNCHANGED <<vars, script, token, unsent, buf, eof, authenticated, moved, reads, replies,
                 others>>

\* The network delivers the bytes; the handler may look after any of them.
Arrive ==
  /\ ~eof /\ unsent # <<>>
  /\ buf' = Append(buf, Head(unsent)) /\ unsent' = Tail(unsent)
  /\ UNCHANGED <<vars, script, token, eof, handler, authenticated, moved, reads, replies, others>>

ClientCloses ==
  /\ ~eof /\ eof' = TRUE
  /\ UNCHANGED <<vars, script, token, session, others>>

\* Other connections and peers use the store.  While the client has a script
\* they are bounded: to MaxOthers calls, with entries of Visits, before a frame
\* begins to arrive (they commute with arrivals, so later changes nothing).
Others ==
  /\ \/ script = <<>> /\ Next
     \/ /\ script # <<>> /\ others < MaxOthers /\ buf = <<>>
        /\ \E k \in Key, e \in Visits : CallSetWithVersion(k, e)
  /\ others' = others + 1
  /\ UNCHANGED <<session, script, token, eof>>

SessionNext == Serve \/ ReadFails \/ Arrive \/ ClientCloses \/ Others

\* The connection's goroutine is scheduled.
SessionSpec == SessionInit /\ [][SessionNext]_svars /\ WF_svars(Serve \/ ReadFails)

-----------------------------------------------------------------------------
\* The shape of the state of the store and the connection; no value that was
\* read is without its reply.
SessionTypeOK ==
  /\ TypeOK
  /\ Range(buf) \cup Range(unsent) \subseteq STRING
  /\ handler \in {"reading", "closed"} /\ authenticated \in BOOLEAN /\ eof \in BOOLEAN
  /\ DOMAIN moved \subseteq Key
  /\ Len(reads) = Len(replies) /\ others \in Nat

\* However the bytes are split on the way, ReadValue gives handleConn the values
\* the client sent, one by one, and stands at the start of the next frame; it
\* stops for good at the first broken frame and for no other reason than that
\* or the end of the input.
FramesSurviveSplits ==
  /\ IsPrefix(reads, Meant)
  /\ buf \o unsent = BytesFrom(Len(reads) + 1)
  /\ handler = "closed" => eof \/ (reads = Meant /\ Len(Meant) < Len(script))

\* The client reads back, with the same protocol, the replies that were written,
\* up to the first error that repeats a line end: the names of commands and the
\* addresses of NODE.JOIN go into errors as they came.  All other texts may hold
\* any bytes.  (No text here is longer than a line may be.)
RepliesReadBack ==
  LET Wire(i) == FlattenSeq([j \in 1..Len(replies) - i |-> Write(replies[i + j])])
      Splits(reply) == reply.type = "error" /\ "LF" \in Range(reply.text)
  IN  \A i \in DOMAIN replies :
        (\A j \in 1..i : ~Splits(replies[j])) => Read(Wire(i - 1)) = Got(replies[i], Wire(i))

\* The right AUTH: its one argument is the token.
RightAuth(v) == IsCommand(v) /\ Name(v) = <<"A">> /\ Args(v) = <<BulkString(token)>>

\* With a token configured, nothing of the store or the ring is read or changed
\* for a connection before the right AUTH has come on it.
NothingBeforeAuth ==
  [][reads' # reads /\ (Last(replies') \notin {Refused} \/ st' # st \/ moved' # moved)
     => token = <<>> \/ \E i \in 1..Len(reads') : RightAuth(reads'[i])]_svars

\* A GET that is served answers with the newest of all the entries the key was
\* ever given, by this connection, others or peers, or null when that is a
\* deletion or there is none.
GetAnswersNewest ==
  [][\A k \in Key :
       /\ reads' # reads /\ authenticated /\ k \in owned
       /\ Last(reads') = Array(<<BulkString(<<"G">>), BulkString(<<k>>)>>)
       => LET newest == {e \in offered[k] : IsNewest(e, offered[k]) /\ ~e.deleted}
          IN  Last(replies') = IF newest = {} THEN NullBulkString
                               ELSE BulkString(ValueText[(CHOOSE e \in newest : TRUE).value + 1])]_svars

\* Every frame that has arrived whole is answered, also when the client closes
\* its side right behind it.
EveryFrameAnswered == unsent = <<>> ~> Len(replies) = Len(Meant)
=============================================================================
