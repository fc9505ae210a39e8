---------------------------- MODULE SessionProofs ----------------------------
(***************************************************************************)
(* The store's invariants hold after every sequence of calls, for every    *)
(* set of keys and entries and every bound on the number of calls; also    *)
(* when the calls are those a client connection makes, whatever the client *)
(* sends and whatever the protocol reader makes of it.                     *)
(***************************************************************************)
EXTENDS Session, StoreOpsProofs

\* The inductive invariant.  HoldsNewestOffered is not inductive alone: that
\* SetFrom and Del write something newer needs the clock to dominate.
IInv == TypeOK /\ GoodStore(st) /\ HoldsNewestOffered

\* What one call does to one key: nothing, or an entry joins the history and
\* the newer of it and the stored one is kept.
Joins(k, e) ==
  /\ e \in Entry
  /\ offered'[k] = offered[k] \cup {e}
  /\ \/ st'.tree[k] = e /\ (st.tree[k] # Absent => newer(e, st.tree[k]))
     \/ st'.tree[k] = st.tree[k] /\ st.tree[k] # Absent /\ ~newer(e, st.tree[k])

Untouched(k) == offered'[k] = offered[k] /\ st'.tree[k] = st.tree[k]

\* One call of a method of the store, with any arguments.
StoreStep ==
  \/ \E k \in Key, v \in Value : CallSetFrom(k, v, Self)
  \/ \E k \in Key, e \in Entry : CallSetWithVersion(k, e)
  \/ \E ks \in Seq(Key) : CallDel(Self, ks)

\* A call leaves a good store and is a join on every key.
LEMMA StepJoins ==
  ASSUME IInv, StoreStep
  PROVE  /\ GoodStore(st') /\ calls' \in Nat
         /\ offered' \in [Key -> SUBSET Entry]
         /\ \A k \in Key : Untouched(k) \/ \E e \in Entry : Joins(k, e)
<1>1. /\ GoodStore(st) /\ offered \in [Key -> SUBSET Entry] /\ calls \in Nat
      /\ st.tree \in [Key -> Entry \cup {Absent}]
  BY DEF IInv, TypeOK, GoodStore, StoreState
<1>2. ASSUME NEW k \in Key, NEW v \in Value, CallSetFrom(k, v, Self)
      PROVE  /\ GoodStore(st') /\ calls' \in Nat
             /\ offered' \in [Key -> SUBSET Entry]
             /\ \A x \in Key : Untouched(x) \/ \E e \in Entry : Joins(x, e)
  <2> DEFINE e == SetFromEntry(st, v, Self)
  <2>1. /\ GoodStore(st') /\ e \in Entry
        /\ st'.tree = [st.tree EXCEPT ![k] = e]
        /\ \A x \in Key : st.tree[x] # Absent => newer(e, st.tree[x])
    BY <1>1, <1>2, SetFromGood, SelfAssumption, SMTT(30) DEF CallSetFrom
  <2>2. offered' = [offered EXCEPT ![k] = @ \cup {e}] /\ calls' = calls + 1
    BY <1>2 DEF CallSetFrom, Call
  <2> HIDE DEF e
  <2>3. offered' \in [Key -> SUBSET Entry] /\ calls' \in Nat
    BY <1>1, <2>1, <2>2, SMTT(30)
  <2>4. Joins(k, e)
    BY <1>1, <2>1, <2>2, SMTT(30) DEF Joins
  <2>5. \A x \in Key : x # k => Untouched(x)
    BY <1>1, <2>1, <2>2, Zenon DEF Untouched
  <2> QED
    BY <2>1, <2>3, <2>4, <2>5, SMTT(30)
<1>3. ASSUME NEW k \in Key, NEW e \in Entry, CallSetWithVersion(k, e)
      PROVE  /\ GoodStore(st') /\ calls' \in Nat
             /\ offered' \in [Key -> SUBSET Entry]
             /\ \A x \in Key : Untouched(x) \/ \E f \in Entry : Joins(x, f)
  <2>1. /\ GoodStore(st')
        /\ st'.tree = IF Accepts(st, k, e) THEN [st.tree EXCEPT ![k] = e] ELSE st.tree
    BY <1>1, <1>3, SetWithVersionGood, Zenon DEF CallSetWithVersion
  <2>2. offered' = [offered EXCEPT ![k] = @ \cup {e}] /\ calls' = calls + 1
    BY <1>3 DEF CallSetWithVersion, Call
  <2>3. offered' \in [Key -> SUBSET Entry] /\ calls' \in Nat
    BY <1>1, <2>2
  <2>4. Joins(k, e)
    BY <1>1, <2>1, <2>2, Zenon DEF Joins, Accepts
  <2>5. \A x \in Key : x # k => Untouched(x)
    BY <1>1, <2>1, <2>2, Zenon DEF Untouched
  <2> QED
    BY <2>1, <2>3, <2>4, <2>5, Zenon
<1>4. ASSUME NEW ks \in Seq(Key), CallDel(Self, ks)
      PROVE  /\ GoodStore(st') /\ calls' \in Nat
             /\ offered' \in [Key -> SUBSET Entry]
             /\ \A x \in Key : Untouched(x) \/ \E f \in Entry : Joins(x, f)
  <2>0. Self \in Origin
    BY SelfAssumption, Zenon
  <2>1. /\ GoodStore(st')
        /\ \A x \in Named(ks) :
             /\ st'.tree[x] = Tombstone(st, Self, ks, x)
             /\ st.tree[x] # Absent => newer(Tombstone(st, Self, ks, x), st.tree[x])
        /\ \A x \in Key \ Named(ks) : st'.tree[x] = st.tree[x]
    BY <1>1, <1>4, <2>0, DelGood, SMTT(30) DEF CallDel
  <2>2. \A x \in Named(ks) : Tombstone(st, Self, ks, x) \in Entry
    BY <1>1, <2>0, TombstoneVersions, Zenon
  <2>3. /\ offered' = [x \in Key |-> IF x \in Named(ks)
                            THEN offered[x] \cup {Tombstone(st, Self, ks, x)}
                            ELSE offered[x]]
        /\ calls' = calls + 1
    BY <1>4, Zenon DEF CallDel, Call
  <2>4. offered' \in [Key -> SUBSET Entry] /\ calls' \in Nat
    BY <1>1, <2>2, <2>3
  <2>5. \A x \in Key : x \in Named(ks) => Joins(x, Tombstone(st, Self, ks, x))
    BY <2>1, <2>2, <2>3, Zenon DEF Joins
  <2>6. \A x \in Key : x \notin Named(ks) => Untouched(x)
    BY <2>1, <2>3, Zenon DEF Untouched
  <2> QED
    BY <2>1, <2>2, <2>4, <2>5, <2>6, SMTT(30)
<1> QED
  BY <1>2, <1>3, <1>4, Zenon DEF StoreStep

\* The calls of Store's users are such calls.
LEMMA NextIsStoreStep == Next => StoreStep
BY RemoteAssumption, DelArgsAssumption, Zenon DEF Next, StoreStep

\* Every call keeps the inductive invariant.
LEMMA IInvStep == IInv /\ [StoreStep]_vars => IInv'
<1> SUFFICES ASSUME IInv, [StoreStep]_vars PROVE IInv'
  OBVIOUS
<1>1. CASE StoreStep
  <2>1. /\ GoodStore(st') /\ calls' \in Nat
        /\ offered' \in [Key -> SUBSET Entry]
        /\ \A k \in Key : Untouched(k) \/ \E e \in Entry : Joins(k, e)
    BY <1>1, StepJoins, Zenon
  <2>2. TypeOK'
    BY <2>1, Zenon DEF TypeOK, GoodStore
  <2>3. ASSUME NEW k \in Key
        PROVE  /\ st'.tree[k] = Absent <=> offered'[k] = {}
               /\ st'.tree[k] # Absent => IsNewest(st'.tree[k], offered'[k])
    <3>1. /\ st.tree[k] = Absent <=> offered[k] = {}
          /\ st.tree[k] # Absent => IsNewest(st.tree[k], offered[k])
          /\ offered[k] \in SUBSET Entry
      BY Zenon DEF IInv, HoldsNewestOffered, TypeOK
    <3>2. CASE Untouched(k)
      BY <3>1, <3>2, Zenon DEF Untouched
    <3>3. ASSUME NEW e \in Entry, Joins(k, e)
          PROVE  /\ st'.tree[k] # Absent /\ offered'[k] # {}
                 /\ IsNewest(st'.tree[k], offered'[k])
      <4>1. CASE st.tree[k] = Absent
        BY <3>1, <3>3, <4>1, EntryParts, SMTT(30) DEF Joins, IsNewest
      <4>2. CASE st.tree[k] # Absent
        <5>1. /\ newer(e, st.tree[k]) => IsNewest(e, offered[k] \cup {e})
              /\ ~newer(e, st.tree[k]) => IsNewest(st.tree[k], offered[k] \cup {e})
          BY <3>1, <4>2, NewestJoin
        <5>2. e # Absent
          BY EntryParts, Zenon
        <5> QED
          BY <3>3, <4>2, <5>1, <5>2, Zenon DEF Joins
      <4> QED
        BY <4>1, <4>2, Zenon
    <3> QED
      BY <2>1, <3>2, <3>3, Zenon
  <2> QED
    BY <2>1, <2>2, <2>3 DEF IInv, HoldsNewestOffered
<1>2. CASE UNCHANGED vars
  BY <1>2 DEF IInv, TypeOK, HoldsNewestOffered, vars
<1> QED
  BY <1>1, <1>2, Zenon

\* A new store is good.
LEMMA NewGood == GoodStore(New)
<1>1. LiveKeys(New) = {}
  BY DEF LiveKeys, New, Live
<1>2. New \in StoreState
  BY DEF New, StoreState
<1>3. CountsLive(New) /\ Dominates(New)
  BY <1>1, FS_EmptySet, Zenon DEF CountsLive, Dominates, New
<1> QED
  BY <1>2, <1>3, Zenon DEF GoodStore

\* A node starts with a store that satisfies the inductive invariant.
LEMMA IInvInit == Init => IInv
<1> SUFFICES ASSUME Init PROVE IInv
  OBVIOUS
<1>1. GoodStore(st)
  BY NewGood, Zenon DEF Init
<1> QED
  BY <1>1 DEF Init, IInv, TypeOK, GoodStore, HoldsNewestOffered, New

\* No call takes a key back to an older entry.
Advance ==
  \A k \in Key :
    \/ st'.tree[k] = st.tree[k]
    \/ st.tree[k] = Absent
    \/ st'.tree[k] # Absent /\ newer(st'.tree[k], st.tree[k])

LEMMA StoreStepAdvances == IInv /\ [StoreStep]_vars => [Advance]_vars
<1> SUFFICES ASSUME IInv, StoreStep PROVE Advance
  OBVIOUS
<1>1. \A k \in Key : Untouched(k) \/ \E e \in Entry : Joins(k, e)
  BY StepJoins, Zenon
<1> QED
  BY <1>1, EntryParts, Zenon DEF Untouched, Joins, Advance

\* The store on its own, under any calls: Len is the number of live keys, the
\* clock is at or above every version, and each key holds the newest entry it
\* was ever given.
THEOREM StoreInvariant ==
  Spec => [](TypeOK /\ LengthCountsLive /\ ClockDominates /\ HoldsNewestOffered)
<1>1. IInv => TypeOK /\ LengthCountsLive /\ ClockDominates /\ HoldsNewestOffered
  BY DEF IInv, GoodStore, LengthCountsLive, ClockDominates
<1>2. [Next]_vars => [StoreStep]_vars
  BY NextIsStoreStep
<1> QED
  BY <1>1, <1>2, IInvInit, IInvStep, PTL DEF Spec

\* No call of SetFrom, SetWithVersion or Del takes a key back.
THEOREM StoreNeverRegresses == Spec => NeverRegresses
<1>1. [Next]_vars => [StoreStep]_vars
  BY NextIsStoreStep
<1> QED
  BY <1>1, IInvInit, IInvStep, StoreStepAdvances, PTL DEF Spec, NeverRegresses, Advance

-----------------------------------------------------------------------------
IsSeq(s) == \E S : s \in Seq(S)

AuthRead == \E i \in 1..Len(reads) : RightAuth(reads[i])

\* The inductive invariant of a connection.  That the store is only touched for
\* a client that may touch it needs the history of what made it authenticated;
\* that the store's methods are called with keys of the store needs the ring's.
SessionInv ==
  /\ IInv
  /\ DOMAIN moved \subseteq Key
  /\ IsSeq(reads) /\ IsSeq(replies) /\ Len(reads) = Len(replies)
  /\ authenticated \in BOOLEAN
  /\ authenticated => token = <<>> \/ AuthRead

\* Appending to a sequence of anything.
LEMMA AppendAny ==
  ASSUME NEW s, IsSeq(s), NEW e
  PROVE  /\ IsSeq(Append(s, e))
         /\ Len(s) \in Nat /\ Len(Append(s, e)) = Len(s) + 1
         /\ Append(s, e)[Len(s) + 1] = e
         /\ \A i \in 1..Len(s) : Append(s, e)[i] = s[i]
<1>1. PICK S : s \in Seq(S)
  BY DEF IsSeq
<1>2. s \in Seq(S \cup {e}) /\ e \in S \cup {e}
  BY <1>1
<1>3. Append(s, e) \in Seq(S \cup {e})
  BY <1>2
<1>4. IsSeq(Append(s, e))
  BY <1>3, Zenon DEF IsSeq
<1> QED
  BY <1>2, <1>4

\* What Answer does to the history: the value and its reply are its last.
LEMMA AnswerParts ==
  ASSUME SessionInv, NEW v, NEW reply, Answer(v, reply)
  PROVE  /\ IsSeq(reads') /\ IsSeq(replies') /\ Len(reads') = Len(replies')
         /\ Last(reads') = v /\ Last(replies') = reply
         /\ token' = token /\ script' = script
         /\ AuthRead => AuthRead'
         /\ RightAuth(v) => AuthRead'
<1>1. /\ IsSeq(reads) /\ IsSeq(replies) /\ Len(reads) = Len(replies)
      /\ reads' = Append(reads, v) /\ replies' = Append(replies, reply)
      /\ token' = token /\ script' = script
  BY DEF SessionInv, Answer
<1>2. /\ IsSeq(reads') /\ Len(reads) \in Nat /\ Len(reads') = Len(reads) + 1
      /\ reads'[Len(reads) + 1] = v
      /\ \A i \in 1..Len(reads) : reads'[i] = reads[i]
  BY <1>1, AppendAny
<1>3. /\ IsSeq(replies') /\ Len(replies') = Len(replies) + 1
      /\ replies'[Len(replies) + 1] = reply
  BY <1>1, AppendAny, Zenon
<1>4. \A i \in 1..Len(reads) : i \in 1..Len(reads')
  BY <1>2
<1>5. AuthRead => AuthRead'
  BY <1>1, <1>2, <1>4, Zenon DEF AuthRead, RightAuth
<1>6. RightAuth(v) => AuthRead'
  BY <1>1, <1>2 DEF AuthRead, RightAuth
<1> QED
  BY <1>1, <1>2, <1>3, <1>5, <1>6, SMTT(30) DEF Last

\* What may be done with a reply: anything for a client that is authenticated or
\* becomes so, and nothing but a refusal for others.
Permitted(v, reply) ==
  /\ Answer(v, reply)
  /\ authenticated' \in BOOLEAN
  /\ authenticated' => authenticated \/ RightAuth(v)
  /\ DOMAIN moved' \subseteq Key
  /\ UNCHANGED vars \/ StoreStep
  /\ reply # Refused \/ ~UNCHANGED vars \/ moved' # moved => authenticated \/ RightAuth(v)

\* The arguments of a command.
LEMMA ArgsParts ==
  ASSUME NEW v, IsCommand(v)
  PROVE  Len(v.elements) - 1 \in Nat /\ Len(Args(v)) = Len(v.elements) - 1
         /\ DOMAIN Args(v) = 1..Len(v.elements) - 1
BY DEF IsCommand, Args

\* A command that is dispatched may do anything with the store and the ring.
LEMMA DispatchedMay ==
  ASSUME SessionInv, NEW v, NEW name, Dispatched(v, name), NEW reply, Answer(v, reply),
         UNCHANGED vars \/ StoreStep, DOMAIN moved' \subseteq Key
  PROVE  Permitted(v, reply)
BY DEF SessionInv, Dispatched, Permitted

\* handleConn and dispatch: every command that is handled answers, does to the
\* store what one of its methods does, and does it only when permitted.
LEMMA HandlePermitted ==
  ASSUME SessionInv, NEW v, Handle(v)
  PROVE  \E reply : Permitted(v, reply)
<1>0. DOMAIN moved \subseteq Key /\ authenticated \in BOOLEAN
  BY DEF SessionInv
<1>1. CASE NotACommand(v)
  BY <1>0, <1>1, Zenon DEF NotACommand, Permitted
<1>2. CASE Auth(v)
  <2> DEFINE ok == token # <<>> /\ Args(v) = <<BulkString(token)>>
             reply == IF ok THEN OK ELSE Refused
  <2>1. /\ authenticated' = (authenticated \/ ok)
        /\ Answer(v, reply) /\ UNCHANGED <<vars, moved>>
        /\ ok => RightAuth(v)
    BY <1>2, Zenon DEF Auth, RightAuth
  <2>2. reply # Refused => ok
    OBVIOUS
  <2> HIDE DEF ok, reply
  <2>3. Permitted(v, reply)
    BY <1>0, <2>1, <2>2, Zenon DEF Permitted
  <2> QED
    BY <2>3, Zenon
<1>3. CASE NotAuthenticated(v)
  BY <1>0, <1>3, Zenon DEF NotAuthenticated, Permitted
<1>4. ASSUME NEW error, Erroneous(v, error), NEW name, Dispatched(v, name)
      PROVE  \E reply : Permitted(v, reply)
  BY <1>0, <1>4, DispatchedMay, Zenon DEF Erroneous
<1>5. CASE HandleSet(v)
  <2>1. Dispatched(v, <<"S">>)
    BY <1>5, Zenon DEF HandleSet
  <2> DEFINE k == KeyOf(Args(v)[1])
             r == RankOf(Args(v)[2].text)
  <2>2. CASE /\ KeyCommandError(Args(v), 2) = <<>>
             /\ Args(v)[2].text \in Range(ValueText)
             /\ CallSetFrom(k, r, Self)
             /\ Answer(v, OK) /\ UNCHANGED moved
    <3>1. k \in Key
      BY <2>2, Zenon DEF KeyCommandError, owned
    <3>2. r \in Value
      BY <2>2, TextAssumption, Zenon DEF RankOf, Range
    <3> HIDE DEF k, r
    <3>3. StoreStep
      BY <2>2, <3>1, <3>2, Zenon DEF StoreStep
    <3> QED
      BY <1>0, <2>1, <2>2, <3>3, DispatchedMay, SMTT(30)
  <2> QED
    BY <1>4, <1>5, <2>1, <2>2, SMTT(30) DEF HandleSet
<1>6. CASE HandleGet(v)
  BY <1>0, <1>4, <1>6, DispatchedMay, SMTT(30) DEF HandleGet
<1>7. CASE HandleDel(v)
  <2> DEFINE args == Args(v)
             keys == [i \in DOMAIN args |-> KeyOf(args[i])]
             n == Integer(Cardinality(Named(keys) \cap LiveKeys(st)))
  <2>1. Dispatched(v, <<"D">>)
    BY <1>7, ZenonT(40) DEF HandleDel
  <2>2. CASE /\ DelError(args) = <<>> /\ CallDel(Self, keys)
             /\ Answer(v, n) /\ UNCHANGED moved
    <3>1. \A i \in DOMAIN args : KeyOf(args[i]) \in Key
      BY <2>2, Zenon DEF DelError, owned
    <3>2. Len(v.elements) - 1 \in Nat /\ DOMAIN args = 1..Len(v.elements) - 1
      BY <2>1, ArgsParts, Zenon DEF Dispatched
    <3>3. keys \in Seq(Key)
      BY <3>1, <3>2, SMTT(30)
    <3> HIDE DEF keys, args, n
    <3>4. StoreStep
      BY <2>2, <3>3, Zenon DEF StoreStep
    <3> QED
      BY <1>0, <2>1, <2>2, <3>4, DispatchedMay, SMTT(30)
  <2> QED
    BY <1>4, <1>7, <2>1, <2>2, SMTT(30) DEF HandleDel
<1>8. CASE HandleNodeJoin(v)
  <2> DEFINE args == Args(v)
             keys(taken) == IF args[1].text \in {<<>>, NodeName} THEN DOMAIN moved \ taken
                            ELSE DOMAIN moved \cup taken
  <2>1. Dispatched(v, <<"J">>)
    BY <1>8, Zenon DEF HandleNodeJoin
  <2>2. ASSUME NEW taken \in SUBSET Key, Answer(v, OK), UNCHANGED vars,
               moved' = [k \in keys(taken) |-> IF k \in taken THEN args[2].text ELSE moved[k]]
        PROVE  Permitted(v, OK)
    <3>1. keys(taken) \subseteq Key
      BY <1>0
    <3> HIDE DEF keys, args
    <3>2. DOMAIN moved' \subseteq Key
      BY <2>2, <3>1
    <3> QED
      BY <2>1, <2>2, <3>2, DispatchedMay, Zenon
  <2> QED
    BY <1>4, <1>8, <2>1, <2>2, ZenonT(40) DEF HandleNodeJoin
<1>9. CASE HandleReport(v)
  BY <1>0, <1>9, DispatchedMay, Zenon DEF HandleReport
<1> QED
  BY <1>1, <1>2, <1>3, <1>5, <1>6, <1>7, <1>8, <1>9, SMTT(30) DEF Handle

\* One turn of handleConn's loop.
LEMMA ServePermitted ==
  ASSUME SessionInv, Serve
  PROVE  \E v, reply : Handle(v) /\ Permitted(v, reply)
BY HandlePermitted DEF Serve

\* Whatever a step of the connection or of the others does to the store is one
\* call of a method of it.
LEMMA SessionStoreStep == SessionInv /\ [SessionNext]_svars => [StoreStep]_vars
<1> SUFFICES ASSUME SessionInv, [SessionNext]_svars PROVE UNCHANGED vars \/ StoreStep
  OBVIOUS
<1>1. CASE Serve
  BY <1>1, ServePermitted, ZenonT(40) DEF Permitted
<1>2. CASE ReadFails \/ Arrive \/ ClientCloses \/ UNCHANGED svars
  BY <1>2, Zenon DEF ReadFails, Arrive, ClientCloses, svars
<1>3. CASE Others
  <2>1. CASE Next
    BY <2>1, NextIsStoreStep, ZenonT(40)
  <2>2. ASSUME NEW k \in Key, NEW e \in Visits, CallSetWithVersion(k, e)
        PROVE  StoreStep
    BY <2>2, VisitsAssumption, Zenon DEF StoreStep
  <2> QED
    BY <1>3, <2>1, <2>2, Zenon DEF Others
<1> QED
  BY <1>1, <1>2, <1>3, Zenon DEF SessionNext

\* Every step keeps the connection's invariant.
LEMMA SessionInvStep == SessionInv /\ [SessionNext]_svars => SessionInv'
<1> SUFFICES ASSUME SessionInv, [SessionNext]_svars PROVE SessionInv'
  OBVIOUS
<1>1. IInv'
  BY SessionStoreStep, IInvStep, Zenon DEF SessionInv
<1>2. CASE Serve
  <2>1. PICK v, reply : Permitted(v, reply)
    BY <1>2, ServePermitted, ZenonT(40)
  <2>2. /\ Answer(v, reply) /\ authenticated' \in BOOLEAN
        /\ authenticated' => authenticated \/ RightAuth(v)
        /\ DOMAIN moved' \subseteq Key
    BY <2>1, Zenon DEF Permitted
  <2>3. /\ IsSeq(reads') /\ IsSeq(replies') /\ Len(reads') = Len(replies')
        /\ token' = token /\ (AuthRead => AuthRead') /\ (RightAuth(v) => AuthRead')
    BY <2>2, AnswerParts, Zenon
  <2>4. authenticated => token = <<>> \/ AuthRead
    BY DEF SessionInv
  <2> QED
    BY <1>1, <2>2, <2>3, <2>4, SMTT(30) DEF SessionInv
<1>3. CASE ReadFails \/ Arrive \/ ClientCloses \/ Others \/ UNCHANGED svars
  <2>1. UNCHANGED <<token, authenticated, moved, reads, replies>>
    BY <1>3, Zenon DEF ReadFails, Arrive, ClientCloses, Others, svars, session
  <2>2. AuthRead' <=> AuthRead
    BY <2>1, Zenon DEF AuthRead, RightAuth
  <2> QED
    BY <1>1, <2>1, <2>2, Zenon DEF SessionInv
<1> QED
  BY <1>2, <1>3, Zenon DEF SessionNext

\* A connection begins with the invariant.
LEMMA SessionInvInit == SessionInit => SessionInv
<1> SUFFICES ASSUME SessionInit PROVE SessionInv
  OBVIOUS
<1>1. IInv
  BY IInvInit DEF SessionInit
<1>2. IsSeq(<<>>)
  BY DEF IsSeq
<1> QED
  BY <1>1, <1>2, Zenon DEF SessionInit, SessionInv

\* In every state a client, other connections and peers can bring about, and
\* with any reader and encoder: Len is the number of live keys, the clock is at
\* or above every version stored, each key holds the newest entry it was ever
\* given, and handleConn has written one reply for every value it has read.
THEOREM SessionKeepsStore ==
  SessionSpec => [](/\ LengthCountsLive /\ ClockDominates /\ HoldsNewestOffered
                    /\ Len(reads) = Len(replies))
<1>1. SessionInv => /\ LengthCountsLive /\ ClockDominates /\ HoldsNewestOffered
                    /\ Len(reads) = Len(replies)
  BY Zenon DEF SessionInv, IInv, GoodStore, LengthCountsLive, ClockDominates
<1> QED
  BY <1>1, SessionInvInit, SessionInvStep, PTL DEF SessionSpec

\* No SET, DEL or entry of a peer takes a key back, whoever sends it when.
THEOREM SessionNeverRegresses == SessionSpec => NeverRegresses
<1>1. SessionInv /\ [SessionNext]_svars => [Advance]_vars
  BY SessionStoreStep, StoreStepAdvances, Zenon DEF SessionInv
<1> QED
  BY <1>1, SessionInvInit, SessionInvStep, PTL DEF SessionSpec, NeverRegresses, Advance

\* dispatch serves nothing of the store or the ring to a connection on which the
\* configured token has not come with an AUTH, whatever else the client sends.
THEOREM SessionNothingBeforeAuth == SessionSpec => NothingBeforeAuth
<1> DEFINE Barred ==
             reads' # reads /\ (Last(replies') \notin {Refused} \/ st' # st \/ moved' # moved)
             => token = <<>> \/ \E i \in 1..Len(reads') : RightAuth(reads'[i])
<1>1. SessionInv /\ [SessionNext]_svars => [Barred]_svars
  <2> SUFFICES ASSUME SessionInv, SessionNext PROVE Barred
    BY Zenon
  <2>1. CASE Serve
    <3>1. PICK v, reply : Permitted(v, reply)
      BY <2>1, ServePermitted, Zenon
    <3>2. /\ Answer(v, reply)
          /\ reply # Refused \/ ~UNCHANGED vars \/ moved' # moved
             => authenticated \/ RightAuth(v)
      BY <3>1, Zenon DEF Permitted
    <3>3. /\ Last(replies') = reply /\ token' = token
          /\ (AuthRead => AuthRead') /\ (RightAuth(v) => AuthRead')
      BY <3>2, AnswerParts, ZenonT(40)
    <3>4. authenticated => token = <<>> \/ AuthRead
      BY Zenon DEF SessionInv
    <3>5. st' # st => ~UNCHANGED vars
      BY Zenon DEF vars
    <3>6. AuthRead' => \E i \in 1..Len(reads') : RightAuth(reads'[i])
      BY <3>3, Zenon DEF AuthRead, RightAuth
    <3> QED
      BY <3>2, <3>3, <3>4, <3>5, <3>6, SMTT(30)
  <2>2. CASE ReadFails \/ Arrive \/ ClientCloses \/ Others
    BY <2>2, Zenon DEF ReadFails, Arrive, ClientCloses, Others, session
  <2> QED
    BY <2>1, <2>2, Zenon DEF SessionNext
<1> QED
  BY <1>1, SessionInvInit, SessionInvStep, PTL DEF SessionSpec, NothingBeforeAuth

\* What GetReply makes of the item a key holds is what the newest entry says.
LEMMA ReplyIsNewest ==
  ASSUME IInv, NEW k \in Key
  PROVE  LET newest == {e \in offered[k] : IsNewest(e, offered[k]) /\ ~e.deleted}
         IN  GetReply(st.tree[k]) = IF newest = {} THEN NullBulkString
                                    ELSE BulkString(ValueText[(CHOOSE e \in newest : TRUE).value + 1])
<1> DEFINE newest == {e \in offered[k] : IsNewest(e, offered[k]) /\ ~e.deleted}
           item == st.tree[k]
<1>1. /\ item = Absent <=> offered[k] = {}
      /\ item # Absent => IsNewest(item, offered[k])
      /\ offered[k] \in SUBSET Entry
  BY Zenon DEF IInv, HoldsNewestOffered, TypeOK
<1>2. \A e \in newest : item # Absent /\ e = item
  BY <1>1, NewestIsUnique, Zenon
<1>3. CASE Live(item)
  <2>1. newest = {item}
    BY <1>1, <1>2, <1>3 DEF Live, IsNewest
  <2>2. (CHOOSE e \in newest : TRUE) = item
    BY <2>1, Zenon
  <2> QED
    BY <1>3, <2>1, <2>2, SMTT(30) DEF GetReply
<1>4. CASE ~Live(item)
  <2>1. newest = {}
    BY <1>2, <1>4, Zenon DEF Live
  <2> QED
    BY <1>4, <2>1, Zenon DEF GetReply
<1> QED
  BY <1>3, <1>4, Zenon

\* A GET of a key: only HandleGet takes it, and it may run.
LEMMA GetIsServed ==
  ASSUME SessionInv, NEW k \in Key, NEW v, Handle(v), authenticated, k \in owned,
         v = Array(<<BulkString(<<"G">>), BulkString(<<k>>)>>)
  PROVE  Answer(v, GetReply(st.tree[k]))
<1>1. /\ v.type = "array" /\ Len(v.elements) = 2
      /\ v.elements[1] = BulkString(<<"G">>) /\ v.elements[2] = BulkString(<<k>>)
  BY Zenon DEF Array
<1>2. IsCommand(v) /\ Name(v) = <<"G">>
  BY <1>1 DEF IsCommand, IsBulk, Name, BulkString
<1>3. Len(Args(v)) = 1 /\ IsBulk(Args(v)[1]) /\ KeyOf(Args(v)[1]) = k
  BY <1>1 DEF Args, IsBulk, KeyOf, BulkString
<1>4. KeyCommandError(Args(v), 1) = <<>>
  BY <1>3, Zenon DEF KeyCommandError
<1>5. <<"G">> \notin {<<"A">>, <<"S">>, <<"D">>, <<"J">>}
  BY Zenon
<1>6. HandleGet(v)
  BY <1>2, <1>5, Zenon DEF Handle, NotACommand, Auth, NotAuthenticated, HandleSet, HandleDel,
                    HandleNodeJoin, HandleReport, Dispatched
<1> QED
  BY <1>3, <1>4, <1>6, Zenon DEF HandleGet, Erroneous

\* GET answers with the newest entry the key was ever given, for any number of
\* keys, clients and peers and in any order of their calls.
THEOREM SessionGetAnswersNewest == SessionSpec => GetAnswersNewest
<1> DEFINE Right == \A k \in Key :
             /\ reads' # reads /\ authenticated /\ k \in owned
             /\ Last(reads') = Array(<<BulkString(<<"G">>), BulkString(<<k>>)>>)
             => LET newest == {e \in offered[k] : IsNewest(e, offered[k]) /\ ~e.deleted}
                IN  Last(replies') = IF newest = {} THEN NullBulkString
                                     ELSE BulkString(ValueText[(CHOOSE e \in newest : TRUE).value + 1])
<1>1. SessionInv /\ [SessionNext]_svars => [Right]_svars
  <2> SUFFICES ASSUME SessionInv, SessionNext,
                      NEW k \in Key, reads' # reads, authenticated, k \in owned,
                      Last(reads') = Array(<<BulkString(<<"G">>), BulkString(<<k>>)>>)
               PROVE  Last(replies') = GetReply(st.tree[k])
    BY ReplyIsNewest, Zenon DEF SessionInv
  <2>1. Serve
    BY Zenon DEF SessionNext, ReadFails, Arrive, ClientCloses, Others, session
  <2>2. PICK v, reply : Handle(v) /\ Answer(v, reply)
    BY <2>1, ServePermitted DEF Permitted
  <2>3. v = Array(<<BulkString(<<"G">>), BulkString(<<k>>)>>)
    BY <2>2, AnswerParts
  <2>4. Answer(v, GetReply(st.tree[k]))
    BY <2>2, <2>3, GetIsServed
  <2> QED
    BY <2>4, AnswerParts
<1> QED
  BY <1>1, SessionInvInit, SessionInvStep, PTL DEF SessionSpec, GetAnswersNewest
=============================================================================
