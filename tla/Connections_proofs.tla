------------------------- MODULE Connections_proofs -------------------------
(***************************************************************************)
(* Proofs about the connections a page keeps open.                         *)
(*                                                                         *)
(* GameSocket: a client misses no change of its game unnoticed, no channel *)
(* is closed twice or sent to when closed, and no two clients are sent     *)
(* changes in different orders, for any number of sockets, servers, inputs *)
(* and changes.                                                            *)
(*                                                                         *)
(* ActiveUsers, which shares no state with it: the users that are counted  *)
(* had a page open of late, and none is taken away before the age, for any *)
(* pages, users, viewers, age and times.                                   *)
(***************************************************************************)
EXTENDS GameSocket, ActiveUsers, TLAPS

-----------------------------------------------------------------------------
\* What a socket's goroutines have done, compared with its channel.
Lifecycle ==
    \A s \in Sockets :
        /\ phase[s] # "Serving" => reader[s] = "None" /\ writer[s] = "None"
        /\ phase[s] = "Upgraded" => closes[s] = 0 /\ s \notin subscribers
        /\ phase[s] \in {"Upgraded", "Subscribed"} => initial[s] = 0
        /\ phase[s] = "Joined" => initial[s] > 0
        /\ s \in open /\ phase[s] # "Upgraded" => s \in subscribers
        /\ reader[s] = "Unsubscribing" \/ writer[s] = "Unsubscribing" => s \notin open

Known(s, v) ==
    \/ Unpublished(v)
    \/ v \in ToSet(inbox[Host[s]]) \cup ToSet(subChan[s]) \cup ToSet(wire[s])
    \/ Missed(s, v)

\* NoGap, from the moment the game is joined.
NoGapOnceJoined ==
    \A s \in open : phase[s] \in {"Joined", "Serving"} /\ initial[s] > 0 =>
        \A v \in initial[s] + 1 .. version : Known(s, v)

Inv == TypeOK /\ Lifecycle /\ ChannelsClosedOnce /\ NoGapOnceJoined

LEMMA AppendSet ==
    ASSUME NEW S, NEW q \in Seq(S), NEW e \in S
    PROVE  /\ Append(q, e) \in Seq(S)
           /\ Len(Append(q, e)) = Len(q) + 1
           /\ ToSet(Append(q, e)) = ToSet(q) \cup {e}
<1> DEFINE a == Append(q, e)
<1>1. /\ a \in Seq(S) /\ Len(q) \in Nat /\ Len(a) = Len(q) + 1
      /\ DOMAIN a = 1 .. Len(q) + 1 /\ DOMAIN q = 1 .. Len(q)
      /\ \A i \in 1 .. Len(q) : a[i] = q[i]
      /\ a[Len(q) + 1] = e
  OBVIOUS
<1>2. \A i \in DOMAIN a : a[i] \in ToSet(q) \cup {e}
  BY <1>1 DEF ToSet
<1>3. \A i \in DOMAIN q : q[i] \in ToSet(a)
  BY <1>1 DEF ToSet
<1>4. e \in ToSet(a)
  BY <1>1 DEF ToSet
<1> QED  BY <1>1, <1>2, <1>3, <1>4 DEF ToSet

LEMMA TailSet ==
    ASSUME NEW S, NEW q \in Seq(S), q # <<>>
    PROVE  /\ Head(q) \in S /\ Tail(q) \in Seq(S)
           /\ Len(Tail(q)) = Len(q) - 1
           /\ ToSet(q) = {Head(q)} \cup ToSet(Tail(q))
           /\ ToSet(q) \subseteq S
<1>1. /\ Len(q) \in Nat /\ Len(q) >= 1 /\ DOMAIN q = 1 .. Len(q)
      /\ Head(q) = q[1] /\ Tail(q) \in Seq(S) /\ Len(Tail(q)) = Len(q) - 1
      /\ \A i \in 1 .. Len(q) - 1 : Tail(q)[i] = q[i + 1]
  OBVIOUS
<1>2. DOMAIN Tail(q) = 1 .. Len(q) - 1
  BY <1>1
<1>3. ASSUME NEW i \in DOMAIN q
      PROVE  q[i] \in {Head(q)} \cup ToSet(Tail(q))
  <2>1. CASE i = 1
    BY <1>1, <2>1
  <2>2. CASE i # 1
    <3>1. i - 1 \in DOMAIN Tail(q) /\ Tail(q)[i - 1] = q[i]
      BY <1>1, <1>2, <2>2
    <3> QED  BY <3>1 DEF ToSet
  <2> QED  BY <2>1, <2>2
<1>4. ASSUME NEW i \in DOMAIN Tail(q)
      PROVE  Tail(q)[i] \in ToSet(q)
  <2>1. i + 1 \in DOMAIN q /\ Tail(q)[i] = q[i + 1]
    BY <1>1, <1>2
  <2> QED  BY <2>1 DEF ToSet
<1>5. Head(q) \in ToSet(q) /\ Head(q) \in S /\ ToSet(q) \subseteq S
  BY <1>1 DEF ToSet
<1> QED  BY <1>1, <1>3, <1>4, <1>5 DEF ToSet

LEMMA InitInv == Init => Inv
BY GameSocketAssumption
   DEF Init, Inv, TypeOK, Lifecycle, ChannelsClosedOnce, NoGapOnceJoined, Versions, Phases,
       Routines, Stages, Listeners

-----------------------------------------------------------------------------
(* A version that is known of stays known of.                                *)

Kept(s, v) == Known(s, v) => Known(s, v)'

\* What a step that touches neither messages nor outputs leaves alone.
Still ==
    UNCHANGED <<version, initial, publishing, inbox, lost, subChan, dropped, wire>>

LEMMA StillKeeps ==
    ASSUME Still, \A s \in Sockets : phase[s] = "Joined" => phase'[s] = "Joined",
           NEW s \in Sockets, NEW v
    PROVE  Kept(s, v)
BY DEF Still, Kept, Known, Unpublished, Missed

LEMMA BroadcastMessageKeeps ==
    ASSUME Inv, NEW u \in publishing, BroadcastMessage(u), NEW s \in Sockets, NEW v \in Versions
    PROVE  Kept(s, v)
<1> DEFINE r == Host[s]
<1>1. r \in Servers /\ inbox[r] \in Seq(Versions) /\ u \in Versions
  BY GameSocketAssumption DEF Inv, TypeOK
<1>2. CASE listener[r] = "Dialing"
  <2>1. inbox'[r] = inbox[r] /\ lost'[r] = lost[r] \cup {u}
    BY <1>1, <1>2 DEF BroadcastMessage
  <2> QED  BY <2>1 DEF BroadcastMessage, Kept, Known, Unpublished, Missed, game, channel
<1>3. CASE listener[r] # "Dialing"
  <2>1. inbox'[r] = Append(inbox[r], u) /\ lost'[r] = lost[r]
    BY <1>1, <1>3 DEF BroadcastMessage
  <2>2. ToSet(inbox'[r]) = ToSet(inbox[r]) \cup {u}
    BY <1>1, <2>1, AppendSet
  <2> QED  BY <2>1, <2>2 DEF BroadcastMessage, Kept, Known, Unpublished, Missed, game, channel
<1> QED  BY <1>2, <1>3

LEMMA LoseConnectionKeeps ==
    ASSUME Inv, NEW q \in Servers, LoseConnection(q), NEW s \in Sockets, NEW v \in Versions
    PROVE  Kept(s, v)
<1> DEFINE r == Host[s]
<1>1. r \in Servers
  BY GameSocketAssumption
<1>2. \/ inbox'[r] = inbox[r] /\ lost'[r] = lost[r]
      \/ lost'[r] = lost[r] \cup ToSet(inbox[r])
  BY <1>1 DEF LoseConnection, Inv, TypeOK
<1> QED  BY <1>2 DEF LoseConnection, Kept, Known, Unpublished, Missed, game, work, channel

LEMMA ReceiveKeeps ==
    ASSUME Inv, NEW q \in Servers, Receive(q), NEW s \in Sockets, s \in subscribers,
           NEW v \in Versions
    PROVE  Kept(s, v)
<1> DEFINE r == Host[s]
<1>1. /\ r \in Servers /\ inbox[r] \in Seq(Versions) /\ inbox[q] \in Seq(Versions)
      /\ subChan[s] \in Seq(Versions)
  BY GameSocketAssumption DEF Inv, TypeOK
<1>2. inbox[q] # <<>> /\ Head(inbox[q]) \in Versions
  BY <1>1, TailSet DEF Receive
<1>3. CASE q # r
  <2>1. inbox'[r] = inbox[r] /\ subChan'[s] = subChan[s] /\ dropped'[s] = dropped[s]
    BY <1>1, <1>3 DEF Receive, Broadcast, Addressed, Inv, TypeOK
  <2> QED  BY <2>1 DEF Receive, Kept, Known, Unpublished, Missed, game, work
<1>4. CASE q = r
  <2>1. ToSet(inbox[r]) = {Head(inbox[r])} \cup ToSet(inbox'[r])
    BY <1>1, <1>2, <1>4, TailSet DEF Receive, Inv, TypeOK
  <2>2. s \in Addressed(q)
    BY <1>4 DEF Addressed
  <2>3. CASE Full(s)
    <3>1. subChan'[s] = subChan[s] /\ dropped'[s] = dropped[s] \cup {Head(inbox[q])}
      BY <2>2, <2>3 DEF Receive, Broadcast
    <3> QED  BY <1>4, <2>1, <3>1 DEF Receive, Kept, Known, Unpublished, Missed, game, work
  <2>4. CASE ~Full(s)
    <3>1. subChan'[s] = Append(subChan[s], Head(inbox[q])) /\ dropped'[s] = dropped[s]
      BY <2>2, <2>4 DEF Receive, Broadcast
    <3>2. ToSet(subChan'[s]) = ToSet(subChan[s]) \cup {Head(inbox[q])}
      BY <1>1, <1>2, <3>1, AppendSet
    <3> QED  BY <1>4, <2>1, <3>1, <3>2 DEF Receive, Kept, Known, Unpublished, Missed, game, work
  <2> QED  BY <2>3, <2>4
<1> QED  BY <1>3, <1>4

LEMMA WriteMessageKeeps ==
    ASSUME Inv, NEW t \in Sockets, WriteMessage(t), NEW s \in open, NEW v \in Versions
    PROVE  Kept(s, v)
<1>1. s \in Sockets /\ subChan[s] \in Seq(Versions) /\ wire[s] \in Seq(Versions)
  BY DEF Inv, TypeOK
<1>2. CASE s # t
  <2>1. subChan'[s] = subChan[s] /\ wire'[s] = wire[s]
    BY <1>1, <1>2 DEF WriteMessage, Inv, TypeOK
  <2> QED  BY <2>1 DEF WriteMessage, Kept, Known, Unpublished, Missed, game, work, redis
<1>3. CASE s = t
  <2>1. subChan[s] # <<>> /\ subChan'[s] = Tail(subChan[s])
        /\ wire'[s] = Append(wire[s], Head(subChan[s]))
    BY <1>1, <1>3 DEF WriteMessage, Inv, TypeOK
  <2>2. /\ ToSet(subChan[s]) = {Head(subChan[s])} \cup ToSet(subChan'[s])
        /\ Head(subChan[s]) \in Versions
    BY <1>1, <2>1, TailSet
  <2>3. ToSet(wire'[s]) = ToSet(wire[s]) \cup {Head(subChan[s])}
    BY <1>1, <2>1, <2>2, AppendSet
  <2> QED  BY <2>2, <2>3 DEF WriteMessage, Kept, Known, Unpublished, Missed, game, work, redis
<1> QED  BY <1>2, <1>3

-----------------------------------------------------------------------------
(* Every step.                                                               *)

LEMMA NextTypes ==
    ASSUME Inv, Next
    PROVE  TypeOK'
<1> USE GameSocketAssumption DEF Inv, TypeOK, Versions, Phases, Routines, Stages, Listeners
<1>1. ASSUME NEW s \in Sockets, HandleGameWebSocket(s)
      PROVE  TypeOK'
  <2>1. CASE Subscribe(s)
    BY <2>1 DEF Subscribe, game, routine, work, redis, channel
  <2>2. CASE JoinGame(s)
    BY <2>2 DEF JoinGame, game, routine, work, redis, channel
  <2>3. CASE WriteInit(s)
    <3>1. phase[s] = "Joined" /\ publishing' = publishing \cup {initial[s]}
      BY <2>3 DEF WriteInit
    <3>2. initial[s] > 0
      BY <3>1 DEF Lifecycle
    <3>3. initial[s] \in Versions
      BY <3>2
    <3>4. publishing' \subseteq Versions
      BY <3>1, <3>3
    <3> QED  BY <2>3, <3>4 DEF WriteInit, StartRoutines, redis, channel
  <2>4. CASE InitFails(s)
    BY <2>4 DEF InitFails, StartRoutines, game, routine, work, redis, channel
  <2> QED  BY <1>1, <2>1, <2>2, <2>3, <2>4 DEF HandleGameWebSocket
<1>2. ASSUME NEW s \in Sockets, ReaderCleanup(s) \/ WriterCleanup(s) \/ WriterEnds(s) \/ ReaderEnds(s)
      PROVE  TypeOK'
  <2>1. CASE ReaderCleanup(s)
    <3>1. /\ closes' \in [Sockets -> Nat] /\ subscribers' \subseteq Sockets
          /\ reader' \in [Sockets -> Routines]
      BY <2>1 DEF ReaderCleanup, Unsubscribe
    <3> QED  BY <2>1, <3>1 DEF ReaderCleanup, Unsubscribe, game, work, redis
  <2>2. CASE WriterCleanup(s)
    <3>1. /\ closes' \in [Sockets -> Nat] /\ subscribers' \subseteq Sockets
          /\ writer' \in [Sockets -> Routines]
      BY <2>2 DEF WriterCleanup, Unsubscribe
    <3> QED  BY <2>2, <3>1 DEF WriterCleanup, Unsubscribe, game, work, redis
  <2>3. CASE WriterEnds(s)
    BY <2>3 DEF WriterEnds, game, routine, work, redis, channel
  <2>4. CASE ReaderEnds(s)
    BY <2>4 DEF ReaderEnds, game, routine, work, redis, channel
  <2> QED  BY <1>2, <2>1, <2>2, <2>3, <2>4
<1>3. ASSUME NEW s \in Sockets, WriteMessage(s)
      PROVE  TypeOK'
  <2>1. /\ Head(subChan[s]) \in Versions /\ Tail(subChan[s]) \in Seq(Versions)
        /\ Len(Tail(subChan[s])) <= GameplayChanBufCap
    BY <1>3, TailSet DEF WriteMessage
  <2>2. Append(wire[s], Head(subChan[s])) \in Seq(Versions)
    BY <2>1, AppendSet
  <2> QED  BY <1>3, <2>1, <2>2 DEF WriteMessage, game, routine, work, redis
<1>4. ASSUME NEW h \in Inputs, HandleGameMessage(h) \/ WriteGameError(h) \/ ReadInput(h)
      PROVE  TypeOK'
  <2>1. CASE HandleGameInput(h)
    BY <2>1 DEF HandleGameInput, game, routine, work, redis, channel
  <2>2. CASE HandlePing(h)
    BY <2>2 DEF HandlePing, game, routine, work, redis, channel
  <2>3. CASE RefuseInput(h)
    BY <2>3 DEF RefuseInput, game, routine, work, redis, channel
  <2>4. CASE WriteGameError(h)
    BY <2>4 DEF WriteGameError, game, routine, work, redis, channel
  <2>5. CASE ReadInput(h)
    BY <2>5 DEF ReadInput, game, routine, work, redis, channel
  <2> QED  BY <1>4, <2>1, <2>2, <2>3, <2>4, <2>5 DEF HandleGameMessage
<1>5. ASSUME NEW v \in publishing, BroadcastMessage(v)
      PROVE  TypeOK'
  <2>1. \A r \in Servers : Append(inbox[r], v) \in Seq(Versions)
    BY AppendSet
  <2> QED  BY <1>5, <2>1 DEF BroadcastMessage, game, routine, channel
<1>6. ASSUME NEW r \in Servers, Reconnect(r)
      PROVE  TypeOK'
  BY <1>6 DEF Reconnect, game, routine, work, channel
<1>7. ASSUME NEW r \in Servers, LoseConnection(r)
      PROVE  TypeOK'
  <2>1. ToSet(inbox[r]) \subseteq Versions
    BY DEF ToSet
  <2>2. <<>> \in Seq(Versions)
    OBVIOUS
  <2> QED  BY <1>7, <2>1, <2>2 DEF LoseConnection, game, routine, work, channel
<1>8. ASSUME NEW r \in Servers, Receive(r)
      PROVE  TypeOK'
  <2>1. Head(inbox[r]) \in Versions /\ Tail(inbox[r]) \in Seq(Versions)
    BY <1>8, TailSet DEF Receive
  <2>2. \A s \in Sockets : /\ Append(subChan[s], Head(inbox[r])) \in Seq(Versions)
                           /\ Len(Append(subChan[s], Head(inbox[r]))) = Len(subChan[s]) + 1
    BY <2>1, AppendSet
  <2>3. \A s \in Sockets : ~Full(s) => Len(subChan[s]) + 1 <= GameplayChanBufCap
    BY DEF Full
  <2> QED  BY <1>8, <2>1, <2>2, <2>3 DEF Receive, Broadcast, game, routine, work
<1>9. ASSUME NEW v \in publishing, PublishFails(v)
      PROVE  TypeOK'
  BY <1>9 DEF PublishFails, game, routine, channel
<1> QED  BY <1>1, <1>2, <1>3, <1>4, <1>5, <1>6, <1>7, <1>8, <1>9 DEF Next, Progress, Writer

LEMMA NextLifecycle ==
    ASSUME Inv, Next
    PROVE  Lifecycle' /\ ChannelsClosedOnce'
<1> USE GameSocketAssumption DEF Inv, TypeOK, Lifecycle, ChannelsClosedOnce
<1>1. ASSUME NEW s \in Sockets, HandleGameWebSocket(s)
      PROVE  Lifecycle' /\ ChannelsClosedOnce'
  <2>1. CASE Subscribe(s)
    BY <2>1 DEF Subscribe, game, routine, work, redis, channel
  <2>2. CASE JoinGame(s)
    BY <2>2 DEF JoinGame, game, routine, work, redis, channel
  <2>3. CASE WriteInit(s)
    BY <2>3 DEF WriteInit, StartRoutines, game, routine, work, redis, channel
  <2>4. CASE InitFails(s)
    BY <2>4 DEF InitFails, StartRoutines, game, routine, work, redis, channel
  <2> QED  BY <1>1, <2>1, <2>2, <2>3, <2>4 DEF HandleGameWebSocket
<1>2. ASSUME NEW s \in Sockets, ReaderCleanup(s) \/ WriterCleanup(s) \/ WriterEnds(s) \/ ReaderEnds(s)
      PROVE  Lifecycle' /\ ChannelsClosedOnce'
  <2>1. CASE ReaderCleanup(s)
    <3>1. s \notin open /\ phase[s] = "Serving"
      BY <2>1 DEF ReaderCleanup
    <3>2. /\ closes'[s] <= 1 /\ s \notin subscribers'
          /\ \A t \in Sockets \ {s} : /\ closes'[t] = closes[t]
                                      /\ t \in subscribers' <=> t \in subscribers
      BY <2>1 DEF ReaderCleanup, Unsubscribe
    <3>3. /\ reader'[s] = "Done" /\ \A t \in Sockets \ {s} : reader'[t] = reader[t]
          /\ UNCHANGED <<phase, initial, open, writer>>
      BY <2>1 DEF ReaderCleanup, game
    <3> QED  BY <3>1, <3>2, <3>3
  <2>2. CASE WriterCleanup(s)
    <3>1. s \notin open /\ phase[s] = "Serving"
      BY <2>2 DEF WriterCleanup
    <3>2. /\ closes'[s] <= 1 /\ s \notin subscribers'
          /\ \A t \in Sockets \ {s} : /\ closes'[t] = closes[t]
                                      /\ t \in subscribers' <=> t \in subscribers
      BY <2>2 DEF WriterCleanup, Unsubscribe
    <3>3. /\ writer'[s] = "Done" /\ \A t \in Sockets \ {s} : writer'[t] = writer[t]
          /\ UNCHANGED <<phase, initial, open, reader>>
      BY <2>2 DEF WriterCleanup, game
    <3> QED  BY <3>1, <3>2, <3>3
  <2>3. CASE WriterEnds(s)
    BY <2>3 DEF WriterEnds, game, routine, work, redis, channel
  <2>4. CASE ReaderEnds(s)
    BY <2>4 DEF ReaderEnds, game, routine, work, redis, channel
  <2> QED  BY <1>2, <2>1, <2>2, <2>3, <2>4
<1>3. ASSUME UNCHANGED <<phase, initial, routine, closes, subscribers>>
      PROVE  Lifecycle' /\ ChannelsClosedOnce'
  BY <1>3 DEF routine, Lifecycle, ChannelsClosedOnce
<1>4. ASSUME NEW h \in Inputs, HandleGameMessage(h) \/ WriteGameError(h) \/ ReadInput(h)
      PROVE  UNCHANGED <<phase, initial, routine, closes, subscribers>>
  BY <1>4 DEF HandleGameMessage, HandleGameInput, HandlePing, RefuseInput, WriteGameError, ReadInput,
              game, channel
<1>5. ASSUME NEW v \in publishing, BroadcastMessage(v) \/ PublishFails(v)
      PROVE  UNCHANGED <<phase, initial, routine, closes, subscribers>>
  BY <1>5 DEF BroadcastMessage, PublishFails, game, channel
<1>6. ASSUME NEW r \in Servers, Reconnect(r) \/ LoseConnection(r) \/ Receive(r)
      PROVE  UNCHANGED <<phase, initial, routine, closes, subscribers>>
  BY <1>6 DEF Reconnect, LoseConnection, Receive, game, channel
<1>7. ASSUME NEW s \in Sockets, WriteMessage(s)
      PROVE  UNCHANGED <<phase, initial, routine, closes, subscribers>>
  BY <1>7 DEF WriteMessage, game
<1> QED  BY <1>1, <1>2, <1>3, <1>4, <1>5, <1>6, <1>7 DEF Next, Progress, Writer

\* No step forgets a version that matters to an open, subscribed socket.
LEMMA NextKeeps ==
    ASSUME Inv, Next, NEW s \in open, s \in subscribers, NEW v \in Versions
    PROVE  Kept(s, v)
<1> USE GameSocketAssumption DEF Inv, TypeOK
<1>1. ASSUME NEW t \in Sockets, HandleGameWebSocket(t)
      PROVE  Kept(s, v)
  <2>1. CASE Subscribe(t) \/ InitFails(t)
    BY <2>1, StillKeeps DEF Subscribe, InitFails, StartRoutines, Still, routine, work, redis, channel
  <2>2. CASE JoinGame(t)
    BY <2>2 DEF JoinGame, Kept, Known, Unpublished, Missed, Lifecycle, routine, work, redis, channel
  <2>3. CASE WriteInit(t)
    BY <2>3 DEF WriteInit, StartRoutines, Kept, Known, Unpublished, Missed, redis, channel
  <2> QED  BY <1>1, <2>1, <2>2, <2>3 DEF HandleGameWebSocket
<1>2. ASSUME NEW t \in Sockets, ReaderCleanup(t) \/ WriterCleanup(t) \/ WriterEnds(t) \/ ReaderEnds(t)
      PROVE  Kept(s, v)
  BY <1>2, StillKeeps DEF ReaderCleanup, WriterCleanup, WriterEnds, ReaderEnds, Unsubscribe, Still,
              game, routine, work, redis, channel
<1>3. ASSUME NEW h \in Inputs, HandleGameMessage(h) \/ WriteGameError(h) \/ ReadInput(h)
      PROVE  Kept(s, v)
  <2>1. CASE HandleGameInput(h)
    BY <2>1 DEF HandleGameInput, Kept, Known, Unpublished, Missed, redis, channel
  <2>2. CASE HandlePing(h) \/ RefuseInput(h) \/ WriteGameError(h) \/ ReadInput(h)
    BY <2>2, StillKeeps DEF HandlePing, RefuseInput, WriteGameError, ReadInput, Still,
                game, routine, redis, channel
  <2> QED  BY <1>3, <2>1, <2>2 DEF HandleGameMessage
<1>4. ASSUME NEW r \in Servers, Reconnect(r)
      PROVE  Kept(s, v)
  BY <1>4, StillKeeps DEF Reconnect, Still, game, work, channel
<1>5. s \in Sockets
  OBVIOUS
<1>6. ASSUME NEW u \in publishing, BroadcastMessage(u)
      PROVE  Kept(s, v)
  BY <1>5, <1>6, BroadcastMessageKeeps
<1>7. ASSUME NEW r \in Servers, LoseConnection(r)
      PROVE  Kept(s, v)
  BY <1>5, <1>7, LoseConnectionKeeps
<1>8. ASSUME NEW r \in Servers, Receive(r)
      PROVE  Kept(s, v)
  BY <1>5, <1>8, ReceiveKeeps
<1>9. ASSUME NEW t \in Sockets, WriteMessage(t)
      PROVE  Kept(s, v)
  BY <1>9, WriteMessageKeeps
<1>10. ASSUME NEW u \in publishing, PublishFails(u)
      PROVE  Kept(s, v)
  <2>1. Host[s] \in Servers /\ lost'[Host[s]] = lost[Host[s]] \cup {u}
    BY <1>5, <1>10 DEF PublishFails
  <2> QED  BY <1>10, <2>1 DEF PublishFails, Kept, Known, Unpublished, Missed, game, channel
<1> QED  BY <1>1, <1>2, <1>3, <1>4, <1>6, <1>7, <1>8, <1>9, <1>10 DEF Next, Progress, Writer

Announced == Unpublished(version)

\* What a step may do to the version of the game.
LEMMA NextVersion ==
    ASSUME Inv, Next
    PROVE  /\ open' \subseteq open
           /\ (version' = version) \/ (version' = version + 1 /\ Announced')
           /\ \A s \in Sockets : phase'[s] \in {"Joined", "Serving"} /\ initial'[s] > 0 =>
                 \/ phase[s] \in {"Joined", "Serving"} /\ initial[s] = initial'[s]
                 \/ initial'[s] = version'
<1> USE GameSocketAssumption DEF Inv, TypeOK
<1> DEFINE Quiet == UNCHANGED <<version, phase, initial, open>>
<1>1. ASSUME NEW t \in Sockets, HandleGameWebSocket(t)
      PROVE  /\ open' \subseteq open
             /\ (version' = version) \/ (version' = version + 1 /\ Announced')
             /\ \A s \in Sockets : phase'[s] \in {"Joined", "Serving"} /\ initial'[s] > 0 =>
                   \/ phase[s] \in {"Joined", "Serving"} /\ initial[s] = initial'[s]
                   \/ initial'[s] = version'
  <2>1. CASE Subscribe(t)
    BY <2>1 DEF Subscribe, routine
  <2>2. CASE JoinGame(t)
    <3>1. phase'[t] = "Joined" /\ initial'[t] = version'
      BY <2>2 DEF JoinGame
    <3> QED  BY <2>2, <3>1 DEF JoinGame, routine, Announced, Unpublished
  <2>3. CASE WriteInit(t)
    BY <2>3 DEF WriteInit, StartRoutines
  <2>4. CASE InitFails(t)
    <3>1. initial[t] = 0
      BY <2>4 DEF InitFails, Lifecycle
    <3> QED  BY <2>4, <3>1 DEF InitFails, StartRoutines
  <2> QED  BY <1>1, <2>1, <2>2, <2>3, <2>4 DEF HandleGameWebSocket
<1>2. ASSUME NEW t \in Sockets, ReaderCleanup(t) \/ WriterCleanup(t) \/ WriterEnds(t) \/ ReaderEnds(t)
      PROVE  UNCHANGED <<version, phase, initial>> /\ open' \subseteq open
  BY <1>2 DEF ReaderCleanup, WriterCleanup, WriterEnds, ReaderEnds, game
<1>3. ASSUME NEW h \in Inputs, HandleGameInput(h)
      PROVE  UNCHANGED <<phase, initial, open>> /\ version' = version + 1 /\ Announced'
  BY <1>3 DEF HandleGameInput, routine, Announced, Unpublished
<1>4. ASSUME NEW h \in Inputs, HandlePing(h) \/ RefuseInput(h) \/ WriteGameError(h) \/ ReadInput(h)
      PROVE  Quiet
  BY <1>4 DEF HandlePing, RefuseInput, WriteGameError, ReadInput, game, routine
<1>5. ASSUME NEW v \in publishing, BroadcastMessage(v) \/ PublishFails(v)
      PROVE  Quiet
  BY <1>5 DEF BroadcastMessage, PublishFails, game, routine
<1>6. ASSUME NEW r \in Servers, Reconnect(r) \/ LoseConnection(r) \/ Receive(r)
      PROVE  Quiet
  BY <1>6 DEF Reconnect, LoseConnection, Receive, game, routine
<1>7. ASSUME NEW s \in Sockets, WriteMessage(s)
      PROVE  Quiet
  BY <1>7 DEF WriteMessage, game, routine
<1> QED  BY <1>1, <1>2, <1>3, <1>4, <1>5, <1>6, <1>7 DEF Next, Progress, Writer, HandleGameMessage

LEMMA NextInv == Inv /\ [Next]_vars => Inv'
<1> SUFFICES ASSUME Inv, [Next]_vars PROVE Inv'
  OBVIOUS
<1>1. CASE Next
  <2>1. TypeOK' /\ Lifecycle' /\ ChannelsClosedOnce'
    BY <1>1, NextTypes, NextLifecycle
  <2>2. ASSUME NEW s \in open', phase'[s] \in {"Joined", "Serving"}, initial'[s] > 0,
               NEW v \in initial'[s] + 1 .. version'
        PROVE  Known(s, v)'
    <3>1. s \in open /\ s \in Sockets /\ version \in Nat /\ initial'[s] \in Nat /\ version' \in Nat
          /\ version' <= MaxVersion /\ version <= version'
      BY <1>1, <2>1, NextVersion DEF Inv, TypeOK
    <3>2. CASE v = version' /\ version' = version + 1
      BY <1>1, <3>2, NextVersion DEF Known, Announced
    <3>3. CASE v \in initial'[s] + 1 .. version
      <4>1. phase[s] \in {"Joined", "Serving"} /\ initial[s] = initial'[s]
        <5>1. initial'[s] # version'
          BY <3>1, <3>3
        <5> QED  BY <1>1, <2>2, <3>1, <5>1, NextVersion
      <4>2. s \in subscribers
        BY <3>1, <4>1 DEF Inv, Lifecycle
      <4>3. v \in Versions /\ Known(s, v)
        <5>1. v \in initial[s] + 1 .. version /\ initial[s] > 0
          BY <2>2, <3>3, <4>1
        <5>2. v \in Versions
          BY <3>1, <3>3, GameSocketAssumption DEF Versions
        <5> QED  BY <3>1, <4>1, <5>1, <5>2 DEF Inv, NoGapOnceJoined
      <4> QED  BY <1>1, <3>1, <4>2, <4>3, NextKeeps DEF Kept
    <3> QED  BY <1>1, <2>2, <3>1, <3>2, <3>3, NextVersion
  <2>3. NoGapOnceJoined'
    BY <2>2 DEF NoGapOnceJoined
  <2> QED  BY <2>1, <2>3 DEF Inv
<1>2. CASE UNCHANGED vars
  BY <1>2 DEF vars, Inv, TypeOK, Lifecycle, ChannelsClosedOnce, NoGapOnceJoined, Known,
              Unpublished, Missed
<1> QED  BY <1>1, <1>2

LEMMA SpecInv == Spec => []Inv
BY InitInv, NextInv, PTL DEF Spec

-----------------------------------------------------------------------------
(***************************************************************************)
(* The game, the goroutines, the channels within their capacity and the    *)
(* brokers of HandleGameWebSocket keep their types.                        *)
(***************************************************************************)
THEOREM TypeCorrect == Spec => []TypeOK
BY SpecInv, PTL DEF Inv

(***************************************************************************)
(* Both goroutines of a socket clean up: its channel is closed once, and   *)
(* the broker does not send to it any more.                                *)
(***************************************************************************)
THEOREM ClosesOnce == Spec => []ChannelsClosedOnce
BY SpecInv, PTL DEF Inv

(***************************************************************************)
(* Because HandleGameWebSocket subscribes before it joins, every change a  *)
(* client has not been sent is on its way, or was dropped or lost.         *)
(***************************************************************************)
THEOREM MissesNothing == Spec => []NoGap
<1>1. Inv => NoGap
  BY DEF Inv, NoGapOnceJoined, NoGap, Known
<1> QED  BY <1>1, SpecInv, PTL

-----------------------------------------------------------------------------
(* The order of outputs.  What Redis has sent to a socket is on its wire, in *)
(* its channel or in the inbox of its server, in this order.                 *)

Sent(s) == ToSet(wire[s]) \cup ToSet(subChan[s]) \cup ToSet(inbox[Host[s]])

Precedes(s, v, w) ==
    \/ Before(wire[s], v, w)
    \/ v \in ToSet(wire[s]) /\ w \in ToSet(subChan[s]) \cup ToSet(inbox[Host[s]])
    \/ Before(subChan[s], v, w)
    \/ v \in ToSet(subChan[s]) /\ w \in ToSet(inbox[Host[s]])
    \/ Before(inbox[Host[s]], v, w)

\* SameOrder, from Redis on.
OneOrder ==
    \A s, t \in Sockets : \A v, w : Precedes(s, v, w) => ~Precedes(t, w, v)

\* A version is published once: whoever has yet to publish it is alone, and
\* nobody was sent it.
PublishedOnce ==
    /\ \A s \in Sockets : \A v \in Sent(s) : v <= version /\ v \notin publishing
    /\ \A v \in publishing : v <= version
    /\ \A s \in Sockets : phase[s] = "Joined" =>
          /\ initial[s] <= version /\ initial[s] \notin publishing
          /\ \A t \in Sockets : /\ initial[s] \notin Sent(t)
                                /\ phase[t] = "Joined" /\ initial[t] = initial[s] => t = s

OrderInv == Inv /\ OneOrder /\ PublishedOnce

LEMMA BeforeAppend ==
    ASSUME NEW S, NEW q \in Seq(S), NEW e \in S, NEW v, NEW w
    PROVE  Before(Append(q, e), v, w) <=> Before(q, v, w) \/ (v \in ToSet(q) /\ w = e)
<1> DEFINE a == Append(q, e)
           n == Len(q)
<1>1. /\ n \in Nat /\ DOMAIN a = 1 .. n + 1 /\ DOMAIN q = 1 .. n
      /\ \A i \in 1 .. n : a[i] = q[i]
      /\ a[n + 1] = e
  OBVIOUS
<1> HIDE DEF a, n
<1>2. ASSUME Before(a, v, w)
      PROVE  Before(q, v, w) \/ (v \in ToSet(q) /\ w = e)
  <2>1. PICK i \in DOMAIN a, k \in DOMAIN a : i < k /\ a[i] = v /\ a[k] = w
    BY <1>2 DEF Before
  <2>2. i \in 1 .. n /\ q[i] = v
    BY <1>1, <2>1
  <2>3. CASE k = n + 1
    BY <1>1, <2>1, <2>2, <2>3 DEF ToSet
  <2>4. CASE k # n + 1
    <3>1. k \in 1 .. n /\ q[k] = w
      BY <1>1, <2>1, <2>4
    <3> QED  BY <1>1, <2>1, <2>2, <3>1 DEF Before
  <2> QED  BY <2>3, <2>4
<1>3. ASSUME Before(q, v, w)
      PROVE  Before(a, v, w)
  <2>1. PICK i \in 1 .. n, k \in 1 .. n : i < k /\ q[i] = v /\ q[k] = w
    BY <1>1, <1>3 DEF Before
  <2>2. i \in DOMAIN a /\ k \in DOMAIN a /\ a[i] = v /\ a[k] = w
    BY <1>1, <2>1
  <2> QED  BY <2>1, <2>2 DEF Before
<1>4. ASSUME v \in ToSet(q), w = e
      PROVE  Before(a, v, w)
  <2>1. PICK i \in 1 .. n : q[i] = v
    BY <1>1, <1>4 DEF ToSet
  <2>2. i \in DOMAIN a /\ n + 1 \in DOMAIN a /\ i < n + 1 /\ a[i] = v /\ a[n + 1] = w
    BY <1>1, <1>4, <2>1
  <2> QED  BY <2>2 DEF Before
<1> QED  BY <1>2, <1>3, <1>4 DEF a

LEMMA BeforeTail ==
    ASSUME NEW S, NEW q \in Seq(S), q # <<>>, NEW v, NEW w
    PROVE  Before(q, v, w) <=> Before(Tail(q), v, w) \/ (v = Head(q) /\ w \in ToSet(Tail(q)))
<1> DEFINE t == Tail(q)
           n == Len(q)
<1>1. /\ n \in Nat /\ n >= 1 /\ DOMAIN q = 1 .. n /\ DOMAIN t = 1 .. n - 1
      /\ Head(q) = q[1]
      /\ \A i \in 1 .. n - 1 : t[i] = q[i + 1]
  OBVIOUS
<1> HIDE DEF t, n
<1>2. ASSUME Before(q, v, w)
      PROVE  Before(t, v, w) \/ (v = Head(q) /\ w \in ToSet(t))
  <2>1. PICK i \in 1 .. n, k \in 1 .. n : i < k /\ q[i] = v /\ q[k] = w
    BY <1>1, <1>2 DEF Before
  <2>2. k - 1 \in 1 .. n - 1 /\ t[k - 1] = w
    BY <1>1, <2>1
  <2>3. CASE i = 1
    BY <1>1, <2>1, <2>2, <2>3 DEF ToSet
  <2>4. CASE i # 1
    <3>1. i - 1 \in 1 .. n - 1 /\ t[i - 1] = v /\ i - 1 < k - 1
      BY <1>1, <2>1, <2>4
    <3> QED  BY <1>1, <2>2, <3>1 DEF Before
  <2> QED  BY <2>3, <2>4
<1>3. ASSUME Before(t, v, w)
      PROVE  Before(q, v, w)
  <2>1. PICK i \in 1 .. n - 1, k \in 1 .. n - 1 : i < k /\ t[i] = v /\ t[k] = w
    BY <1>1, <1>3 DEF Before
  <2>2. i + 1 \in 1 .. n /\ k + 1 \in 1 .. n /\ i + 1 < k + 1 /\ q[i + 1] = v /\ q[k + 1] = w
    BY <1>1, <2>1
  <2> QED  BY <1>1, <2>2 DEF Before
<1>4. ASSUME v = Head(q), w \in ToSet(t)
      PROVE  Before(q, v, w)
  <2>1. PICK k \in 1 .. n - 1 : t[k] = w
    BY <1>1, <1>4 DEF ToSet
  <2>2. 1 \in 1 .. n /\ k + 1 \in 1 .. n /\ 1 < k + 1 /\ q[1] = v /\ q[k + 1] = w
    BY <1>1, <1>4, <2>1
  <2> QED  BY <1>1, <2>2 DEF Before
<1> QED  BY <1>2, <1>3, <1>4 DEF t

\* What may happen to what a socket was sent: some of it is gone, and the
\* rest stays in order.
Thins(s) ==
    /\ Sent(s)' \subseteq Sent(s)
    /\ \A v, w : Precedes(s, v, w)' => Precedes(s, v, w)

LEMMA StillThins ==
    ASSUME UNCHANGED <<inbox, subChan, wire>>, NEW s
    PROVE  Thins(s)
BY DEF Thins, Sent, Precedes

LEMMA LoseConnectionThins ==
    ASSUME Inv, NEW r \in Servers, LoseConnection(r), NEW s \in Sockets
    PROVE  Thins(s)
<1>1. Host[s] \in Servers /\ wire' = wire /\ subChan' = subChan
  BY GameSocketAssumption DEF LoseConnection, channel
<1>2. inbox'[Host[s]] = inbox[Host[s]] \/ inbox'[Host[s]] = <<>>
  BY <1>1 DEF LoseConnection, Inv, TypeOK
<1>3. CASE inbox'[Host[s]] = inbox[Host[s]]
  BY <1>1, <1>3 DEF Thins, Sent, Precedes
<1>4. CASE inbox'[Host[s]] = <<>>
  <2>1. ToSet(<<>>) = {} /\ \A v, w : ~Before(<<>>, v, w)
    BY DEF ToSet, Before
  <2> QED  BY <1>1, <1>4, <2>1 DEF Thins, Sent, Precedes
<1> QED  BY <1>2, <1>3, <1>4

LEMMA ReceiveThins ==
    ASSUME Inv, NEW r \in Servers, Receive(r), NEW s \in Sockets
    PROVE  Thins(s)
<1> DEFINE q == inbox[Host[s]]
           c == subChan[s]
<1>1. /\ Host[s] \in Servers /\ wire' = wire
      /\ q \in Seq(Versions) /\ c \in Seq(Versions)
  BY GameSocketAssumption DEF Receive, Inv, TypeOK
<1>2. CASE Host[s] # r
  <2>1. inbox'[Host[s]] = q /\ subChan'[s] = c
    BY <1>1, <1>2 DEF Receive, Broadcast, Addressed, Inv, TypeOK
  <2> QED  BY <1>1, <2>1 DEF Thins, Sent, Precedes
<1>3. CASE Host[s] = r
  <2>1. /\ q # <<>> /\ inbox'[Host[s]] = Tail(q)
        /\ subChan'[s] = c \/ subChan'[s] = Append(c, Head(q))
    BY <1>1, <1>3 DEF Receive, Broadcast, Inv, TypeOK
  <2>2. ToSet(q) = {Head(q)} \cup ToSet(Tail(q)) /\ Head(q) \in Versions
    BY <1>1, <2>1, TailSet
  <2>3. \A v, w : Before(q, v, w) <=> Before(Tail(q), v, w) \/ (v = Head(q) /\ w \in ToSet(Tail(q)))
    BY <1>1, <2>1, BeforeTail
  <2>4. CASE subChan'[s] = c
    BY <1>1, <2>1, <2>2, <2>3, <2>4 DEF Thins, Sent, Precedes
  <2>5. CASE subChan'[s] = Append(c, Head(q))
    <3>1. ToSet(subChan'[s]) = ToSet(c) \cup {Head(q)}
      BY <1>1, <2>2, <2>5, AppendSet
    <3>2. \A v, w : Before(subChan'[s], v, w) <=> Before(c, v, w) \/ (v \in ToSet(c) /\ w = Head(q))
      BY <1>1, <2>2, <2>5, BeforeAppend
    <3> QED  BY <1>1, <2>1, <2>2, <2>3, <3>1, <3>2 DEF Thins, Sent, Precedes
  <2> QED  BY <2>1, <2>4, <2>5
<1> QED  BY <1>2, <1>3

LEMMA WriteMessageThins ==
    ASSUME Inv, NEW t \in Sockets, WriteMessage(t), NEW s \in Sockets
    PROVE  Thins(s)
<1> DEFINE c == subChan[s]
<1>1. inbox' = inbox /\ c \in Seq(Versions) /\ wire[s] \in Seq(Versions)
  BY DEF WriteMessage, redis, Inv, TypeOK
<1>2. CASE s # t
  <2>1. subChan'[s] = c /\ wire'[s] = wire[s]
    BY <1>1, <1>2 DEF WriteMessage, Inv, TypeOK
  <2> QED  BY <1>1, <2>1 DEF Thins, Sent, Precedes
<1>3. CASE s = t
  <2>1. /\ c # <<>> /\ subChan'[s] = Tail(c)
        /\ wire'[s] = wire[s] \/ wire'[s] = Append(wire[s], Head(c))
    BY <1>1, <1>3 DEF WriteMessage, Inv, TypeOK
  <2>2. ToSet(c) = {Head(c)} \cup ToSet(Tail(c)) /\ Head(c) \in Versions
    BY <1>1, <2>1, TailSet
  <2>3. \A v, w : Before(c, v, w) <=> Before(Tail(c), v, w) \/ (v = Head(c) /\ w \in ToSet(Tail(c)))
    BY <1>1, <2>1, BeforeTail
  <2>4. CASE wire'[s] = wire[s]
    BY <1>1, <2>1, <2>2, <2>3, <2>4 DEF Thins, Sent, Precedes
  <2>5. CASE wire'[s] = Append(wire[s], Head(c))
    <3>1. ToSet(wire'[s]) = ToSet(wire[s]) \cup {Head(c)}
      BY <1>1, <2>2, <2>5, AppendSet
    <3>2. \A v, w : Before(wire'[s], v, w) <=> Before(wire[s], v, w) \/ (v \in ToSet(wire[s]) /\ w = Head(c))
      BY <1>1, <2>2, <2>5, BeforeAppend
    <3> QED  BY <1>1, <2>1, <2>2, <2>3, <3>1, <3>2 DEF Thins, Sent, Precedes
  <2> QED  BY <2>1, <2>4, <2>5
<1> QED  BY <1>2, <1>3

\* Only what is published comes to be sent.
LEMMA NextThins ==
    ASSUME Inv, [Next]_vars, \A v \in publishing : ~BroadcastMessage(v), NEW s \in Sockets
    PROVE  Thins(s)
<1>1. ASSUME NEW t \in Sockets, HandleGameWebSocket(t)
      PROVE  Thins(s)
  BY StillThins, <1>1 DEF HandleGameWebSocket, Subscribe, JoinGame, WriteInit, InitFails, redis, channel
<1>2. ASSUME NEW t \in Sockets, ReaderCleanup(t) \/ WriterCleanup(t) \/ WriterEnds(t) \/ ReaderEnds(t)
      PROVE  Thins(s)
  BY StillThins, <1>2 DEF ReaderCleanup, WriterCleanup, WriterEnds, ReaderEnds, Unsubscribe, redis, channel
<1>3. ASSUME NEW h \in Inputs, HandleGameMessage(h) \/ WriteGameError(h) \/ ReadInput(h)
      PROVE  Thins(s)
  BY StillThins, <1>3 DEF HandleGameMessage, HandleGameInput, HandlePing, RefuseInput, WriteGameError, ReadInput,
              redis, channel
<1>4. ASSUME NEW r \in Servers, Reconnect(r)
      PROVE  Thins(s)
  BY StillThins, <1>4 DEF Reconnect, channel
<1>5. ASSUME NEW v \in publishing, PublishFails(v)
      PROVE  Thins(s)
  BY StillThins, <1>5 DEF PublishFails, channel
<1>6. CASE UNCHANGED vars
  BY StillThins, <1>6 DEF vars
<1>7. ASSUME NEW r \in Servers, LoseConnection(r) \/ Receive(r)
      PROVE  Thins(s)
  BY <1>7, LoseConnectionThins, ReceiveThins
<1>8. ASSUME NEW t \in Sockets, WriteMessage(t)
      PROVE  Thins(s)
  BY <1>8, WriteMessageThins
<1>9. Leavers \subseteq Sockets
  BY GameSocketAssumption
<1> QED  BY <1>1, <1>2, <1>3, <1>4, <1>5, <1>6, <1>7, <1>8, <1>9 DEF Next, Progress, Writer

LEMMA BroadcastMessageInv ==
    ASSUME OrderInv, NEW u \in publishing, BroadcastMessage(u)
    PROVE  OneOrder' /\ PublishedOnce'
<1>1. /\ publishing' = publishing \ {u} /\ u \in Versions
      /\ UNCHANGED <<version, phase, initial, subChan, wire>>
  BY DEF BroadcastMessage, game, channel, OrderInv, Inv, TypeOK
<1>2. ASSUME NEW s \in Sockets
      PROVE  /\ Sent(s)' \subseteq Sent(s) \cup {u}
             /\ \A v, w : Precedes(s, v, w)' => Precedes(s, v, w) \/ (v \in Sent(s) /\ w = u)
  <2> DEFINE q == inbox[Host[s]]
  <2>1. Host[s] \in Servers /\ q \in Seq(Versions)
    BY GameSocketAssumption DEF OrderInv, Inv, TypeOK
  <2>2. inbox'[Host[s]] = q \/ inbox'[Host[s]] = Append(q, u)
    BY <2>1 DEF BroadcastMessage
  <2>3. CASE inbox'[Host[s]] = q
    BY <1>1, <2>3 DEF Sent, Precedes
  <2>4. CASE inbox'[Host[s]] = Append(q, u)
    <3>1. ToSet(inbox'[Host[s]]) = ToSet(q) \cup {u}
      BY <1>1, <2>1, <2>4, AppendSet
    <3>2. \A v, w : Before(inbox'[Host[s]], v, w) <=> Before(q, v, w) \/ (v \in ToSet(q) /\ w = u)
      BY <1>1, <2>1, <2>4, BeforeAppend
    <3> QED  BY <1>1, <3>1, <3>2 DEF Sent, Precedes
  <2> QED  BY <2>2, <2>3, <2>4
<1>3. ASSUME NEW s \in Sockets, NEW v, NEW w, Precedes(s, v, w)
      PROVE  v \in Sent(s) /\ w \in Sent(s)
  BY <1>3 DEF Precedes, Before, Sent, ToSet
<1>4. \A s \in Sockets : u \notin Sent(s)
  BY DEF OrderInv, PublishedOnce
<1>5. OneOrder'
  <2> SUFFICES ASSUME NEW s \in Sockets, NEW t \in Sockets, NEW v, NEW w,
                      Precedes(s, v, w)', Precedes(t, w, v)'
               PROVE  FALSE
    BY DEF OneOrder
  <2>1. Precedes(s, v, w) \/ (v \in Sent(s) /\ w = u)
    BY <1>2
  <2>2. Precedes(t, w, v) \/ (w \in Sent(t) /\ v = u)
    BY <1>2
  <2>3. w # u /\ v # u
    BY <1>3, <1>4, <2>1, <2>2
  <2> QED  BY <2>1, <2>2, <2>3 DEF OrderInv, OneOrder
<1>6. PublishedOnce'
  BY <1>1, <1>2 DEF OrderInv, PublishedOnce
<1> QED  BY <1>5, <1>6

\* A change of the game takes the next number.
LEMMA NewVersion ==
    ASSUME OrderInv, NEW s \in Sockets, NEW v \in Sent(s)
    PROVE  v # version + 1
BY DEF OrderInv, PublishedOnce, Inv, TypeOK

LEMMA NextPublishedOnce ==
    ASSUME OrderInv, [Next]_vars, \A v \in publishing : ~BroadcastMessage(v)
    PROVE  PublishedOnce'
<1>1. \A s \in Sockets : Sent(s)' \subseteq Sent(s)
  BY NextThins DEF OrderInv, Thins
<1>2. /\ version \in Nat /\ phase \in [Sockets -> Phases] /\ initial \in [Sockets -> Nat]
      /\ publishing \subseteq Nat /\ \A s \in Sockets : Sent(s) \subseteq Nat
  <2>1. \A s \in Sockets : Sent(s) \subseteq Versions
    BY GameSocketAssumption DEF OrderInv, Inv, TypeOK, Sent, ToSet
  <2> QED  BY <2>1 DEF OrderInv, Inv, TypeOK, Versions
<1>3. CASE publishing' \subseteq publishing /\ UNCHANGED <<version, phase, initial>>
  BY <1>1, <1>3 DEF OrderInv, PublishedOnce
<1>4. ASSUME NEW s \in Sockets, HandleGameWebSocket(s)
      PROVE  PublishedOnce'
  <2>1. CASE Subscribe(s) \/ InitFails(s)
    <3>1. /\ UNCHANGED <<version, initial, publishing>>
          /\ \A t \in Sockets : phase'[t] = "Joined" => phase[t] = "Joined"
      BY <1>2, <2>1 DEF Subscribe, InitFails, StartRoutines, work
    <3> QED  BY <1>1, <3>1 DEF OrderInv, PublishedOnce
  <2>2. CASE JoinGame(s)
    <3>1. /\ version' = version + 1 /\ publishing' = publishing
          /\ phase'[s] = "Joined" /\ initial'[s] = version + 1
          /\ \A t \in Sockets \ {s} : phase'[t] = phase[t] /\ initial'[t] = initial[t]
      BY <1>2, <2>2 DEF JoinGame, work
    <3>2. ASSUME NEW t \in Sockets, phase'[t] = "Joined"
          PROVE  /\ initial'[t] <= version' /\ initial'[t] \notin publishing'
                 /\ \A o \in Sockets : /\ initial'[t] \notin Sent(o)'
                                       /\ phase'[o] = "Joined" /\ initial'[o] = initial'[t] => o = t
      <4>1. CASE t = s
        <5>1. \A o \in Sockets \ {s} : phase'[o] = "Joined" => initial'[o] # version + 1
          BY <1>2, <3>1 DEF OrderInv, PublishedOnce
        <5>2. \A o \in Sockets : version + 1 \notin Sent(o)'
          BY <1>1, NewVersion
        <5>3. version + 1 \notin publishing
          BY <1>2 DEF OrderInv, PublishedOnce
        <5> QED  BY <1>2, <3>1, <4>1, <5>1, <5>2, <5>3
      <4>2. CASE t # s
        <5>1. phase[t] = "Joined" /\ initial'[t] = initial[t] /\ initial[t] <= version
          BY <3>1, <3>2, <4>2 DEF OrderInv, PublishedOnce
        <5>2. initial[t] # version + 1 /\ initial[t] <= version'
          BY <1>2, <3>1, <5>1
        <5> QED  BY <1>1, <3>1, <5>1, <5>2 DEF OrderInv, PublishedOnce
      <4> QED  BY <4>1, <4>2
    <3>3. \A v \in publishing' : v <= version'
      BY <1>2, <3>1 DEF OrderInv, PublishedOnce
    <3>4. ASSUME NEW t \in Sockets, NEW v \in Sent(t)'
          PROVE  v <= version' /\ v \notin publishing'
      <4>1. v \in Sent(t)
        BY <1>1
      <4>2. v <= version /\ v \notin publishing /\ v \in Nat
        BY <1>2, <4>1 DEF OrderInv, PublishedOnce
      <4> QED  BY <1>2, <3>1, <4>2
    <3> QED  BY <3>2, <3>3, <3>4 DEF PublishedOnce
  <2>3. CASE WriteInit(s)
    <3>1. /\ UNCHANGED <<version, initial>> /\ publishing' = publishing \cup {initial[s]}
          /\ phase[s] = "Joined" /\ phase'[s] # "Joined"
          /\ \A t \in Sockets : phase'[t] = "Joined" => phase[t] = "Joined"
      BY <1>2, <2>3 DEF WriteInit, StartRoutines
    <3> QED  BY <1>1, <3>1 DEF OrderInv, PublishedOnce
  <2> QED  BY <1>4, <2>1, <2>2, <2>3 DEF HandleGameWebSocket
<1>5. ASSUME NEW h \in Inputs, HandleGameInput(h)
      PROVE  PublishedOnce'
  <2>1. /\ version' = version + 1 /\ publishing' = publishing \cup {version + 1}
        /\ UNCHANGED <<phase, initial>>
    BY <1>5 DEF HandleGameInput
  <2>2. \A t \in Sockets : version + 1 \notin Sent(t)'
    BY <1>1, NewVersion
  <2>3. \A t \in Sockets : \A v \in Sent(t)' : v <= version' /\ v \notin publishing'
    BY <1>1, <1>2, <2>1, <2>2 DEF OrderInv, PublishedOnce
  <2>4. \A v \in publishing' : v <= version'
    BY <1>2, <2>1 DEF OrderInv, PublishedOnce
  <2>5. ASSUME NEW t \in Sockets, phase'[t] = "Joined"
        PROVE  initial'[t] <= version' /\ initial'[t] \notin publishing'
    BY <1>2, <2>1, <2>5 DEF OrderInv, PublishedOnce
  <2> QED  BY <1>1, <2>1, <2>3, <2>4, <2>5 DEF OrderInv, PublishedOnce
<1>6. ASSUME NEW s \in Sockets, ReaderCleanup(s) \/ WriterCleanup(s) \/ WriterEnds(s) \/ ReaderEnds(s)
                                  \/ WriteMessage(s)
      PROVE  UNCHANGED <<publishing, version, phase, initial>>
  BY <1>6 DEF ReaderCleanup, WriterCleanup, WriterEnds, ReaderEnds, WriteMessage, game, work
<1>7. ASSUME NEW h \in Inputs, HandlePing(h) \/ RefuseInput(h) \/ WriteGameError(h) \/ ReadInput(h)
      PROVE  UNCHANGED <<publishing, version, phase, initial>>
  BY <1>7 DEF HandlePing, RefuseInput, WriteGameError, ReadInput, game
<1>8. ASSUME NEW r \in Servers, Reconnect(r) \/ LoseConnection(r) \/ Receive(r)
      PROVE  UNCHANGED <<publishing, version, phase, initial>>
  BY <1>8 DEF Reconnect, LoseConnection, Receive, game, work
<1>9. ASSUME NEW v \in publishing, PublishFails(v)
      PROVE  publishing' \subseteq publishing /\ UNCHANGED <<version, phase, initial>>
  BY <1>9 DEF PublishFails, game
<1>10. CASE UNCHANGED vars
  BY <1>3, <1>10 DEF vars
<1>11. Leavers \subseteq Sockets
  BY GameSocketAssumption
<1> QED  BY <1>3, <1>4, <1>5, <1>6, <1>7, <1>8, <1>9, <1>10, <1>11
         DEF Next, Progress, Writer, HandleGameMessage

LEMMA InitOrderInv == Init => OrderInv
<1> SUFFICES ASSUME Init PROVE OrderInv
  OBVIOUS
<1>1. ToSet(<<>>) = {} /\ \A v, w : ~Before(<<>>, v, w)
  BY DEF ToSet, Before
<1>2. \A s \in Sockets : inbox[Host[s]] = <<>> /\ subChan[s] = <<>> /\ wire[s] = <<>>
  BY GameSocketAssumption DEF Init
<1>3. OneOrder
  BY <1>1, <1>2 DEF OneOrder, Precedes
<1>4. PublishedOnce
  BY <1>1, <1>2 DEF Init, PublishedOnce, Sent
<1> QED  BY <1>3, <1>4, InitInv DEF OrderInv

LEMMA NextOrderInv == OrderInv /\ [Next]_vars => OrderInv'
<1> SUFFICES ASSUME OrderInv, [Next]_vars PROVE OrderInv'
  OBVIOUS
<1>1. Inv'
  BY NextInv DEF OrderInv
<1>2. CASE \E v \in publishing : BroadcastMessage(v)
  BY <1>1, <1>2, BroadcastMessageInv DEF OrderInv
<1>3. CASE \A v \in publishing : ~BroadcastMessage(v)
  <2>1. OneOrder'
    BY <1>3, NextThins DEF OrderInv, OneOrder, Thins
  <2> QED  BY <1>1, <1>3, <2>1, NextPublishedOnce DEF OrderInv
<1> QED  BY <1>2, <1>3

(***************************************************************************)
(* Outputs are published in any order and may be dropped on the way, but   *)
(* no two clients see two of them in different orders, nor one twice.      *)
(***************************************************************************)
THEOREM ClientsAgree == Spec => []SameOrder
<1>1. OrderInv => SameOrder
  BY DEF OrderInv, OneOrder, Precedes, SameOrder
<1> QED  BY <1>1, InitOrderInv, NextOrderInv, PTL DEF Spec

-----------------------------------------------------------------------------
\* The active users: what handlers do, and the times of members.
HandlerStages == Commands \cup {"Idle", "Open", "Done"}
Times == Nat \cup {Absent}

ActiveTypeOK ==
    /\ clock \in Nat
    /\ activeUsers \in [Users -> Times]
    /\ stage \in [Handlers -> HandlerStages]
    /\ since \in [Handlers -> Nat]
    /\ seen \in [Users -> Times]

\* A command is sent within CallTime.
InTime ==
    \A h \in Handlers : stage[h] \in Commands => since[h] <= clock /\ clock - since[h] <= CallTime

\* Who is connected is seen, and a member was seen when it was made or later.
SeenWhileConnected ==
    /\ \A u \in Users : seen[u] <= clock
    /\ \A u \in Users : Connected(u) => seen[u] = clock
    /\ \A u \in Members : activeUsers[u] <= seen[u]

\* After a purge who was seen too long ago is no member.
SeenSincePurge ==
    \A h \in Handlers, u \in Members :
        stage[h] = "ZCard" => since[h] - seen[u] < ActiveUserMaxAge + CallTime

ActiveInv == ActiveTypeOK /\ InTime /\ SeenWhileConnected /\ SeenSincePurge

LEMMA HandlersAre ==
    /\ \A p \in Pages : ActiveConn(p) \in Handlers /\ UserEvents(p) \in Handlers \ ActiveConns
    /\ \A v \in Viewers : CountEvents(v) \in Handlers \ ActiveConns
BY DEF Handlers, ActiveConns, EventConns, ActiveConn, UserEvents, CountEvents

\* A handler goes on, and the others stay where they are.
LEMMA OneGoesOn ==
    ASSUME ActiveTypeOK, NEW h \in Handlers, NEW s \in HandlerStages, GoTo(h, s)
    PROVE  /\ stage' \in [Handlers -> HandlerStages] /\ since' \in [Handlers -> Nat]
           /\ stage'[h] = s /\ (s \in Commands => since'[h] = clock)
           /\ \A k \in Handlers \ {h} : stage'[k] = stage[k] /\ since'[k] = since[k]
<1>1. (IF s \in Commands THEN clock ELSE 0) \in Nat
  BY DEF ActiveTypeOK
<1> QED
  BY <1>1 DEF ActiveTypeOK, GoTo

\* A step of a handler other than the connection of a page, or of one that is there.
LEMMA NobodyConnects ==
    ASSUME ActiveTypeOK, NEW h \in Handlers, NEW s \in HandlerStages, GoTo(h, s),
           h \notin ActiveConns \/ stage[h] \notin {"Idle", "Done"}
    PROVE  \A u \in Users : Connected(u)' => Connected(u)
<1>1. SUFFICES ASSUME NEW u \in Users, NEW p \in Pages, UserOf[p] = u,
                      stage'[ActiveConn(p)] \notin {"Idle", "Done"}
               PROVE  stage[ActiveConn(p)] \notin {"Idle", "Done"}
  BY DEF Connected
<1>2. ActiveConn(p) \in Handlers /\ ActiveConn(p) \in ActiveConns
  BY HandlersAre DEF ActiveConns
<1>3. CASE h = ActiveConn(p)
  BY <1>2, <1>3
<1>4. CASE h # ActiveConn(p)
  BY <1>1, <1>2, <1>4, OneGoesOn
<1> QED
  BY <1>3, <1>4

(***************************************************************************)
(* All steps but those of the clock and of a page that connects: nobody    *)
(* becomes a member who is not connected, and who is one after a purge was *)
(* seen within the age and the time a command takes.                       *)
(***************************************************************************)
LEMMA HandlerKeeps ==
    ASSUME ActiveInv, NEW h \in Handlers, NEW s \in HandlerStages, GoTo(h, s),
           UNCHANGED <<clock, seen>>,
           h \notin ActiveConns \/ stage[h] \notin {"Idle", "Done"},
           activeUsers' \in [Users -> Times],
           \A u \in Users : \/ activeUsers'[u] \in {activeUsers[u], Absent}
                            \/ Connected(u) /\ activeUsers'[u] \in 0 .. clock,
           s = "ZCard" => \A u \in Users : activeUsers'[u] # Absent =>
                              clock - seen[u] < ActiveUserMaxAge + CallTime
    PROVE  ActiveInv'
<1>1. ActiveTypeOK /\ clock \in Nat /\ clock' = clock /\ seen' = seen
  BY DEF ActiveInv, ActiveTypeOK
<1>2. /\ stage' \in [Handlers -> HandlerStages] /\ since' \in [Handlers -> Nat]
      /\ stage'[h] = s /\ (s \in Commands => since'[h] = clock)
      /\ \A k \in Handlers \ {h} : stage'[k] = stage[k] /\ since'[k] = since[k]
  BY <1>1, OneGoesOn
<1>3. \A u \in Users : Connected(u)' => Connected(u)
  BY <1>1, NobodyConnects
<1>4. ActiveTypeOK'
  BY <1>1, <1>2 DEF ActiveTypeOK
<1>5. InTime'
  <2>1. ASSUME NEW k \in Handlers, stage'[k] \in Commands
        PROVE  since'[k] <= clock /\ clock - since'[k] <= CallTime
    <3>1. CASE k = h
      BY <1>1, <1>2, <2>1, <3>1, ActiveUsersAssumption
    <3>2. CASE k # h
      BY <1>2, <2>1, <3>2 DEF ActiveInv, InTime
    <3> QED
      BY <3>1, <3>2
  <2> QED
    BY <1>1, <2>1 DEF InTime
<1>6. SeenWhileConnected'
  <2>1. \A u \in Users : Connected(u)' => seen[u] = clock
    BY <1>3 DEF ActiveInv, SeenWhileConnected
  <2>2. ASSUME NEW u \in Users, activeUsers'[u] # Absent  PROVE activeUsers'[u] <= seen[u]
    <3>1. CASE activeUsers'[u] = activeUsers[u]
      BY <2>2, <3>1 DEF ActiveInv, SeenWhileConnected, Members
    <3>2. CASE Connected(u) /\ activeUsers'[u] \in 0 .. clock
      BY <1>1, <3>2 DEF ActiveInv, SeenWhileConnected
    <3> QED
      BY <2>2, <3>1, <3>2
  <2>3. \A u \in Users : seen[u] <= clock
    BY DEF ActiveInv, SeenWhileConnected
  <2> QED
    BY <1>1, <2>1, <2>2, <2>3 DEF SeenWhileConnected, Members
<1>7. SeenSincePurge'
  <2>1. ASSUME NEW k \in Handlers, stage'[k] = "ZCard", NEW u \in Users, activeUsers'[u] # Absent
        PROVE  since'[k] - seen[u] < ActiveUserMaxAge + CallTime
    <3>1. CASE k = h
      BY <1>2, <2>1, <3>1 DEF Commands
    <3>2. CASE k # h /\ activeUsers'[u] = activeUsers[u]
      BY <1>2, <2>1, <3>2 DEF ActiveInv, SeenSincePurge, Members
    <3>3. CASE k # h /\ Connected(u)
      <4>1. seen[u] = clock
        BY <3>3 DEF ActiveInv, SeenWhileConnected
      <4>2. since'[k] \in Nat /\ since'[k] <= clock
        BY <1>2, <2>1, <3>3 DEF ActiveInv, InTime, Commands
      <4>3. ActiveUserMaxAge \in Nat \ {0} /\ CallTime \in Nat
        BY ActiveUsersAssumption
      <4>4. since'[k] \in Int /\ seen[u] \in Int /\ since'[k] <= seen[u]
        BY <1>1, <4>1, <4>2
      <4> QED
        BY <4>3, <4>4
    <3> QED
      BY <2>1, <3>1, <3>2, <3>3
  <2> QED
    BY <1>1, <2>1 DEF SeenSincePurge, Members
<1> QED
  BY <1>4, <1>5, <1>6, <1>7 DEF ActiveInv

LEMMA PurgeKeeps ==
    ASSUME ActiveInv, NEW h \in Handlers, PurgeExpired(h)
    PROVE  ActiveInv'
<1>1. PICK now \in TimesRead(h) :
          activeUsers' = [u \in Users |-> IF u \in Expired(now) THEN Absent ELSE activeUsers[u]]
  BY DEF PurgeExpired
<1>2. /\ stage[h] = "Purge" /\ GoTo(h, "ZCard") /\ UNCHANGED <<clock, seen>>
      /\ "ZCard" \in HandlerStages
      /\ stage[h] \notin {"Idle", "Done"}
  BY DEF PurgeExpired, HandlerStages, Commands
<1>3. /\ activeUsers' \in [Users -> Times]
      /\ \A u \in Users : activeUsers'[u] \in {activeUsers[u], Absent}
  BY <1>1 DEF ActiveInv, ActiveTypeOK, Times
<1>4. ASSUME NEW u \in Users, activeUsers'[u] # Absent
      PROVE  clock - seen[u] < ActiveUserMaxAge + CallTime
  <2>1. u \in Members /\ ~(activeUsers[u] <= now - ActiveUserMaxAge)
    BY <1>1, <1>4 DEF Expired, Members
  <2>2. activeUsers[u] \in Int /\ seen[u] \in Int /\ activeUsers[u] <= seen[u]
    BY <2>1 DEF ActiveInv, ActiveTypeOK, Times, Absent, SeenWhileConnected
  <2>3. /\ clock \in Nat /\ since[h] \in Nat /\ now \in Int /\ since[h] <= now
        /\ clock - since[h] <= CallTime
    BY <1>2 DEF ActiveInv, ActiveTypeOK, TimesRead, InTime, Commands
  <2> QED
    BY <2>1, <2>2, <2>3, ActiveUsersAssumption
<1> QED
  BY <1>2, <1>3, <1>4, HandlerKeeps

LEMMA ConnectKeeps ==
    ASSUME ActiveInv, NEW p \in Pages, HandleActiveConn(p)
    PROVE  ActiveInv'
<1> DEFINE h == ActiveConn(p)
           w == UserOf[p]
<1>1. /\ h \in Handlers /\ w \in Users /\ "ZAddNX" \in HandlerStages
      /\ ActiveTypeOK /\ clock \in Nat
      /\ clock' = clock /\ activeUsers' = activeUsers
      /\ seen' = [seen EXCEPT ![w] = clock]
  BY HandlersAre, ActiveUsersAssumption
     DEF ActiveInv, ActiveTypeOK, HandlerStages, Commands, HandleActiveConn
<1>2. /\ stage' \in [Handlers -> HandlerStages] /\ since' \in [Handlers -> Nat]
      /\ stage'[h] = "ZAddNX" /\ since'[h] = clock
      /\ \A k \in Handlers \ {h} : stage'[k] = stage[k] /\ since'[k] = since[k]
  <2>1. GoTo(h, "ZAddNX") /\ "ZAddNX" \in Commands
    BY DEF HandleActiveConn, Commands
  <2> HIDE DEF h
  <2> QED
    BY <1>1, <2>1, OneGoesOn
<1>3. \A u \in Users : seen'[u] = IF u = w THEN clock ELSE seen[u]
  BY <1>1 DEF ActiveTypeOK
<1>4. ASSUME NEW u \in Users, Connected(u)', u # w  PROVE Connected(u)
  <2>1. PICK q \in Pages : UserOf[q] = u /\ stage'[ActiveConn(q)] \notin {"Idle", "Done"}
    BY <1>4 DEF Connected
  <2>2. ActiveConn(q) \in Handlers /\ ActiveConn(q) # h
    BY <1>4, <2>1, HandlersAre DEF ActiveConn
  <2> QED
    BY <1>2, <2>1, <2>2 DEF Connected
<1>5. ActiveTypeOK'
  <2>1. seen' \in [Users -> Times]
    BY <1>1 DEF ActiveTypeOK, Times
  <2> QED
    BY <1>1, <1>2, <2>1 DEF ActiveTypeOK
<1>6. InTime'
  <2>1. ASSUME NEW k \in Handlers, stage'[k] \in Commands
        PROVE  since'[k] <= clock /\ clock - since'[k] <= CallTime
    <3>1. CASE k = h
      BY <1>1, <1>2, <3>1, ActiveUsersAssumption
    <3>2. CASE k # h
      BY <1>2, <2>1, <3>2 DEF ActiveInv, InTime
    <3> QED
      BY <3>1, <3>2
  <2> QED
    BY <1>1, <2>1 DEF InTime
<1>7. \A u \in Users : /\ seen[u] \in Int /\ seen[u] <= seen'[u]
                       /\ seen'[u] \in Int /\ seen'[u] <= clock
  BY <1>1, <1>3 DEF ActiveInv, ActiveTypeOK, Times, Absent, SeenWhileConnected
<1>8. SeenWhileConnected'
  <2>1. \A u \in Users : Connected(u)' => seen'[u] = clock
    BY <1>3, <1>4 DEF ActiveInv, SeenWhileConnected
  <2>2. \A u \in Members : activeUsers[u] \in Int /\ activeUsers[u] <= seen[u]
    BY <1>1 DEF ActiveInv, ActiveTypeOK, Times, Absent, SeenWhileConnected, Members
  <2>3. \A u \in Members : activeUsers[u] <= seen'[u]
    BY <1>7, <2>2 DEF Members
  <2> QED
    BY <1>1, <1>7, <2>1, <2>3 DEF SeenWhileConnected, Members
<1>9. SeenSincePurge'
  <2>1. ASSUME NEW k \in Handlers, stage'[k] = "ZCard", NEW u \in Members
        PROVE  since'[k] - seen'[u] < ActiveUserMaxAge + CallTime
    <3>1. k # h /\ stage[k] = "ZCard" /\ since'[k] = since[k] /\ since[k] \in Nat
      BY <1>1, <1>2, <2>1 DEF ActiveTypeOK
    <3>2. since[k] - seen[u] < ActiveUserMaxAge + CallTime
      BY <3>1 DEF ActiveInv, SeenSincePurge
    <3>3. seen[u] \in Int /\ seen'[u] \in Int /\ seen[u] <= seen'[u]
      BY <1>7 DEF Members
    <3> QED
      BY <3>1, <3>2, <3>3, ActiveUsersAssumption
  <2> QED
    BY <1>1, <2>1 DEF SeenSincePurge, Members
<1> QED
  BY <1>5, <1>6, <1>8, <1>9 DEF ActiveInv

LEMMA TickKeeps ==
    ASSUME ActiveInv, Tick
    PROVE  ActiveInv'
<1>1. /\ ActiveTypeOK /\ clock \in Nat /\ clock' = clock + 1
      /\ activeUsers' = activeUsers /\ stage' = stage /\ since' = since
      /\ \A h \in Handlers : stage[h] \in Commands => clock - since[h] < CallTime
      /\ seen' = [u \in Users |-> IF Connected(u) THEN clock + 1 ELSE seen[u]]
  BY DEF ActiveInv, ActiveTypeOK, Tick
<1>2. \A u \in Users : Connected(u)' <=> Connected(u)
  BY <1>1 DEF Connected
<1>3. \A u \in Users : /\ seen[u] \in Int /\ seen[u] <= seen'[u]
                       /\ seen'[u] \in Times /\ seen'[u] \in Int
                       /\ seen'[u] <= clock + 1 /\ (Connected(u) => seen'[u] = clock + 1)
  BY <1>1 DEF ActiveInv, ActiveTypeOK, Times, Absent, SeenWhileConnected
<1>4. ActiveTypeOK'
  <2>1. seen' \in [Users -> Times]
    BY <1>1, <1>3
  <2> QED
    BY <1>1, <2>1 DEF ActiveTypeOK
<1>5. InTime'
  <2>1. ASSUME NEW h \in Handlers, stage'[h] \in Commands
        PROVE  since'[h] <= clock' /\ clock' - since'[h] <= CallTime
    BY <1>1, <2>1, ActiveUsersAssumption DEF ActiveInv, InTime, ActiveTypeOK
  <2> QED
    BY <2>1 DEF InTime
<1>6. \A u \in Members : activeUsers[u] \in Int /\ activeUsers[u] <= seen'[u]
  <2>1. \A u \in Members : activeUsers[u] \in Int /\ activeUsers[u] <= seen[u]
    BY <1>1 DEF ActiveInv, ActiveTypeOK, Times, Absent, SeenWhileConnected, Members
  <2> QED
    BY <1>3, <2>1 DEF Members
<1>7. SeenWhileConnected'
  BY <1>1, <1>2, <1>3, <1>6 DEF SeenWhileConnected, Members
<1>8. SeenSincePurge'
  <2>1. ASSUME NEW h \in Handlers, stage[h] = "ZCard", NEW u \in Members
        PROVE  since[h] - seen'[u] < ActiveUserMaxAge + CallTime
    <3>1. since[h] \in Nat /\ since[h] - seen[u] < ActiveUserMaxAge + CallTime
      BY <2>1 DEF ActiveInv, ActiveTypeOK, SeenSincePurge
    <3>2. seen[u] \in Int /\ seen'[u] \in Int /\ seen[u] <= seen'[u]
      BY <1>3 DEF Members
    <3> QED
      BY <3>1, <3>2, ActiveUsersAssumption
  <2> QED
    BY <1>1, <2>1 DEF SeenSincePurge, Members
<1> QED
  BY <1>4, <1>5, <1>7, <1>8 DEF ActiveInv

LEMMA ActiveNextKeeps ==
    ASSUME ActiveInv, [ActiveNext]_activeVars
    PROVE  ActiveInv'
<1>1. ActiveTypeOK /\ clock \in Nat /\ activeUsers \in [Users -> Times]
  BY DEF ActiveInv, ActiveTypeOK
<1>2. Absent \in Times /\ {"Idle", "Open", "Done", "Purge", "ZRem", "ZCard"} \subseteq HandlerStages
  BY DEF Times, HandlerStages, Commands
<1>3. ASSUME NEW p \in Pages, AddActiveUser(p)  PROVE ActiveInv'
  <2>1. PICK now \in TimesRead(ActiveConn(p)) :
            activeUsers' = [activeUsers EXCEPT ![UserOf[p]] = IF @ = Absent THEN now ELSE @]
    BY <1>3 DEF AddActiveUser
  <2>2. /\ ActiveConn(p) \in Handlers /\ UserOf[p] \in Users /\ Connected(UserOf[p])
        /\ GoTo(ActiveConn(p), "Purge") /\ UNCHANGED <<clock, seen>>
        /\ stage[ActiveConn(p)] \notin {"Idle", "Done"}
    BY <1>3, HandlersAre, ActiveUsersAssumption DEF AddActiveUser, Connected
  <2>3. now \in 0 .. clock /\ now \in Times
    BY <1>1, <2>2 DEF TimesRead, ActiveTypeOK, Times
  <2>4. activeUsers' \in [Users -> Times]
    BY <1>1, <2>1, <2>3
  <2>5. \A u \in Users : \/ activeUsers'[u] \in {activeUsers[u], Absent}
                         \/ Connected(u) /\ activeUsers'[u] \in 0 .. clock
    BY <1>1, <2>1, <2>2, <2>3
  <2> QED
    BY <1>2, <2>2, <2>4, <2>5, HandlerKeeps
<1>4. ASSUME NEW h \in Handlers, NEW s \in HandlerStages \ {"ZCard"}, GoTo(h, s),
             UNCHANGED <<clock, seen>>,
             h \notin ActiveConns \/ stage[h] \notin {"Idle", "Done"},
             activeUsers' \in [Users -> Times],
             \A u \in Users : activeUsers'[u] \in {activeUsers[u], Absent}
      PROVE  ActiveInv'
  BY <1>4, HandlerKeeps
<1>5. ASSUME NEW h \in Handlers, NEW s \in HandlerStages \ {"ZCard"}, GoTo(h, s),
             UNCHANGED <<clock, activeUsers, seen>>,
             h \notin ActiveConns \/ stage[h] \notin {"Idle", "Done"}
      PROVE  ActiveInv'
  BY <1>1, <1>4, <1>5
<1>6. ASSUME NEW p \in Pages, CloseActiveConn(p)  PROVE ActiveInv'
  BY <1>2, <1>5, <1>6, HandlersAre DEF CloseActiveConn
<1>7. ASSUME NEW p \in Pages, HandleUserEvents(p) \/ CloseUserEvents(p)  PROVE ActiveInv'
  BY <1>2, <1>5, <1>7, HandlersAre DEF HandleUserEvents, CloseUserEvents
<1>8. ASSUME NEW p \in Pages, RemoveActiveUser(p)  PROVE ActiveInv'
  <2>1. /\ activeUsers' \in [Users -> Times]
        /\ \A u \in Users : activeUsers'[u] \in {activeUsers[u], Absent}
    BY <1>1, <1>2, <1>8 DEF RemoveActiveUser
  <2> QED
    BY <1>2, <1>4, <1>8, <2>1, HandlersAre DEF RemoveActiveUser
<1>9. ASSUME NEW v \in Viewers, HandleCountEvents(v)  PROVE ActiveInv'
  BY <1>2, <1>5, <1>9, HandlersAre DEF HandleCountEvents
<1>10. ASSUME NEW h \in Handlers, GetActiveCount(h)  PROVE ActiveInv'
  <2>1. AfterCount(h) \in HandlerStages \ {"ZCard"}
    BY <1>2 DEF AfterCount
  <2> QED
    BY <1>5, <1>10, <2>1 DEF GetActiveCount
<1>11. ASSUME NEW h \in Handlers, HandlerFails(h)  PROVE ActiveInv'
  BY <1>2, <1>5, <1>11 DEF HandlerFails
<1>12. CASE UNCHANGED activeVars
  BY <1>12 DEF activeVars, ActiveInv, ActiveTypeOK, InTime, SeenWhileConnected,
               Connected, SeenSincePurge, Members
<1> QED
  BY <1>3, <1>6, <1>7, <1>8, <1>9, <1>10, <1>11, <1>12,
     ConnectKeeps, PurgeKeeps, TickKeeps DEF ActiveNext

LEMMA ActiveInitInv ==
    ASSUME ActiveInit
    PROVE  ActiveInv
<1>1. ActiveTypeOK
  BY DEF ActiveInit, ActiveTypeOK, HandlerStages, Times
<1>2. InTime /\ SeenSincePurge
  BY DEF ActiveInit, InTime, SeenSincePurge, Commands
<1>3. \A u \in Users : ~Connected(u)
  BY HandlersAre DEF ActiveInit, Connected
<1>4. SeenWhileConnected
  BY <1>3 DEF ActiveInit, SeenWhileConnected, Members, Absent
<1> QED
  BY <1>1, <1>2, <1>4 DEF ActiveInv

(***************************************************************************)
(* What the set of active users is like at every step: commands are sent in *)
(* time, who is connected has been seen now, a member was made no later    *)
(* than its user was last seen, and who is left by a purge was seen within *)
(* the age and the time of the command.                                    *)
(***************************************************************************)
THEOREM ActiveInvariance == ActiveSpec => []ActiveInv
BY ActiveInitInv, ActiveNextKeeps, PTL DEF ActiveSpec

(***************************************************************************)
(* A count is of users who had a page open within ActiveUserMaxAge and the *)
(* time the purge and the count take, whatever handlers of GetActiveCount, *)
(* AddActiveUser and RemoveActiveUser come in between, or fail half way.   *)
(***************************************************************************)
THEOREM CountsAreOfRecentUsers == ActiveSpec => []CountsAreRecent
<1>1. ASSUME ActiveInv  PROVE CountsAreRecent
  <2>1. SUFFICES ASSUME NEW h \in Handlers, NEW u \in Members, stage[h] = "ZCard"
                 PROVE  seen[u] # Absent /\ clock - seen[u] < ActiveUserMaxAge + 2 * CallTime
    BY DEF CountsAreRecent
  <2>2. /\ activeUsers[u] \in Nat /\ activeUsers[u] <= seen[u] /\ seen[u] \in Int
    BY <1>1 DEF ActiveInv, ActiveTypeOK, Times, Absent, SeenWhileConnected, Members
  <2>3. since[h] - seen[u] < ActiveUserMaxAge + CallTime
    BY <1>1, <2>1 DEF ActiveInv, SeenSincePurge
  <2>4. clock \in Nat /\ since[h] \in Nat /\ clock - since[h] <= CallTime
    BY <1>1, <2>1 DEF ActiveInv, ActiveTypeOK, InTime, Commands
  <2> QED
    BY <2>2, <2>3, <2>4, ActiveUsersAssumption DEF Absent
<1> QED
  BY <1>1, ActiveInvariance, PTL

-----------------------------------------------------------------------------
(* What a user whose page stays open is sure of.                             *)

Added == {"Purge", "ZCard", "Open"}

ArrivedBefore ==
    /\ arrived \in [Users -> Times]
    /\ \A p \in Pages : stage[ActiveConn(p)] # "Idle" => arrived[UserOf[p]] \in 0 .. clock
    /\ \A p \in Pages : stage[ActiveConn(p)] = "ZAddNX" => arrived[UserOf[p]] <= since[ActiveConn(p)]
    /\ \A u \in Users : arrived[u] # Absent => arrived[u] \in 0 .. clock
    /\ \A u \in Members : arrived[u] \in 0 .. activeUsers[u]

Young(u) == clock - arrived[u] < ActiveUserMaxAge

StaysUntilAge ==
    \A p \in Pages :
        stage[ActiveConn(p)] \in Added /\ NoPageClosed(UserOf[p]) /\ Young(UserOf[p])
            => UserOf[p] \in Members

StayInv == ArrivedBefore /\ StaysUntilAge

\* Who is taken away had closed a page or come of age, and who comes is not too old.
SetChanges ==
    \A u \in Users :
        \/ activeUsers'[u] = activeUsers[u]
        \/ activeUsers'[u] \in arrived[u] .. clock /\ arrived[u] \in Nat
        \/ activeUsers'[u] = Absent /\ (NoPageClosed(u)' => ~Young(u))

\* A page that has closed stays closed; a connection comes to its count by adding its user.
GoesOn(h, s) ==
    /\ h \in ActiveConns => stage[h] # "Idle" /\ s # "ZAddNX"
    /\ \A p \in Pages : h = ActiveConn(p) /\ s \in Added
                          => stage[h] \in Added \/ activeUsers'[UserOf[p]] # Absent
    /\ h \in EventConns /\ s \in {"Idle", "Open"} => stage[h] \in {"Idle", "Open"}

LEMMA GoingOnStays ==
    ASSUME ActiveInv, StayInv, NEW h \in Handlers, NEW s \in HandlerStages,
           GoTo(h, s), GoesOn(h, s), UNCHANGED <<clock, arrived>>,
           activeUsers' \in [Users -> Times], SetChanges
    PROVE  StayInv'
<1>1. /\ ActiveTypeOK /\ clock \in Nat /\ clock' = clock /\ arrived' = arrived
      /\ arrived \in [Users -> Times] /\ activeUsers \in [Users -> Times]
  BY DEF ActiveInv, ActiveTypeOK, StayInv, ArrivedBefore
<1>2. /\ stage'[h] = s
      /\ \A k \in Handlers \ {h} : stage'[k] = stage[k] /\ since'[k] = since[k]
  BY <1>1, OneGoesOn
<1>3. \A p \in Pages : /\ ActiveConn(p) \in Handlers /\ ActiveConn(p) \in ActiveConns
                       /\ UserEvents(p) \in Handlers /\ UserEvents(p) \in EventConns
                       /\ UserOf[p] \in Users
  BY HandlersAre, ActiveUsersAssumption DEF ActiveConns, EventConns
<1>4. ASSUME NEW p \in Pages, stage'[ActiveConn(p)] # "Idle"  PROVE stage[ActiveConn(p)] # "Idle"
  <2>1. CASE ActiveConn(p) = h
    BY <1>3, <2>1 DEF GoesOn
  <2>2. CASE ActiveConn(p) # h
    BY <1>2, <1>3, <1>4, <2>2
  <2> QED
    BY <2>1, <2>2
<1>5. ASSUME NEW p \in Pages, stage'[ActiveConn(p)] = "ZAddNX"
      PROVE  stage[ActiveConn(p)] = "ZAddNX" /\ since'[ActiveConn(p)] = since[ActiveConn(p)]
  <2>1. ActiveConn(p) # h
    BY <1>2, <1>3, <1>5 DEF GoesOn
  <2> QED
    BY <1>2, <1>3, <1>5, <2>1
<1>6. ASSUME NEW u \in Users, NoPageClosed(u)'  PROVE NoPageClosed(u)
  <2>1. SUFFICES ASSUME NEW q \in Pages, UserOf[q] = u
                 PROVE  stage[UserEvents(q)] \in {"Idle", "Open"}
    BY DEF NoPageClosed
  <2>2. stage'[UserEvents(q)] \in {"Idle", "Open"}
    BY <1>6, <2>1 DEF NoPageClosed
  <2>3. CASE UserEvents(q) = h
    BY <1>2, <1>3, <2>2, <2>3 DEF GoesOn
  <2>4. CASE UserEvents(q) # h
    BY <1>2, <1>3, <2>2, <2>4
  <2> QED
    BY <2>3, <2>4
<1>7. ASSUME NEW u \in Users, activeUsers'[u] # Absent  PROVE arrived[u] \in 0 .. activeUsers'[u]
  <2>1. activeUsers'[u] \in Nat
    BY <1>7 DEF Times
  <2>2. CASE activeUsers'[u] = activeUsers[u]
    BY <1>7, <2>2 DEF StayInv, ArrivedBefore, Members
  <2>3. CASE activeUsers'[u] \in arrived[u] .. clock /\ arrived[u] \in Nat
    BY <1>1, <2>1, <2>3
  <2> QED
    BY <1>7, <2>2, <2>3 DEF SetChanges
<1>8. ArrivedBefore'
  <2>1. \A p \in Pages : stage'[ActiveConn(p)] # "Idle" => arrived[UserOf[p]] \in 0 .. clock
    BY <1>4 DEF StayInv, ArrivedBefore
  <2>2. \A p \in Pages : stage'[ActiveConn(p)] = "ZAddNX" => arrived[UserOf[p]] <= since'[ActiveConn(p)]
    BY <1>5 DEF StayInv, ArrivedBefore
  <2>3. \A u \in Users : arrived[u] # Absent => arrived[u] \in 0 .. clock
    BY DEF StayInv, ArrivedBefore
  <2> QED
    BY <1>1, <1>7, <2>1, <2>2, <2>3 DEF ArrivedBefore, Members
<1>9. ASSUME NEW p \in Pages, stage'[ActiveConn(p)] \in Added, NoPageClosed(UserOf[p])', Young(UserOf[p])
      PROVE  activeUsers'[UserOf[p]] # Absent
  <2>1. CASE activeUsers'[UserOf[p]] = activeUsers[UserOf[p]]
    <3>1. CASE stage[ActiveConn(p)] \in Added
      BY <1>3, <1>6, <1>9, <2>1, <3>1 DEF StayInv, StaysUntilAge, Members
    <3>2. CASE stage[ActiveConn(p)] \notin Added
      <4>1. ActiveConn(p) = h
        BY <1>2, <1>3, <1>9, <3>2
      <4> QED
        BY <1>2, <1>9, <3>2, <4>1 DEF GoesOn
    <3> QED
      BY <3>1, <3>2
  <2>2. CASE activeUsers'[UserOf[p]] \in arrived[UserOf[p]] .. clock /\ arrived[UserOf[p]] \in Nat
    BY <1>1, <2>2 DEF Absent
  <2> QED
    BY <1>3, <1>9, <2>1, <2>2 DEF SetChanges
<1>10. StaysUntilAge'
  BY <1>1, <1>3, <1>9 DEF StaysUntilAge, Young, Members
<1> QED
  BY <1>8, <1>10 DEF StayInv

\* The page that connects first says when its user arrived.
LEMMA ConnectStays ==
    ASSUME ActiveInv, StayInv, NEW p \in Pages, HandleActiveConn(p)
    PROVE  StayInv'
<1>0. PICK h, w : h = ActiveConn(p) /\ w = UserOf[p]
  OBVIOUS
<1>1. /\ ActiveTypeOK /\ clock \in Nat /\ clock' = clock /\ activeUsers' = activeUsers
      /\ arrived \in [Users -> Times] /\ activeUsers \in [Users -> Times]
      /\ w \in Users /\ h \in Handlers /\ "ZAddNX" \in HandlerStages /\ stage[h] = "Idle"
      /\ GoTo(h, "ZAddNX")
  BY <1>0, HandlersAre, ActiveUsersAssumption
     DEF ActiveInv, ActiveTypeOK, StayInv, ArrivedBefore, HandleActiveConn, HandlerStages, Commands
<1>2. /\ stage'[h] = "ZAddNX" /\ since'[h] = clock
      /\ \A k \in Handlers \ {h} : stage'[k] = stage[k] /\ since'[k] = since[k]
  <2>1. "ZAddNX" \in Commands
    BY DEF Commands
  <2> QED
    BY <1>1, <2>1, OneGoesOn
<1>3. \A u \in Users : arrived'[u] = IF u = w /\ arrived[u] = Absent THEN clock ELSE arrived[u]
  BY <1>0, <1>1 DEF HandleActiveConn
<1>4. arrived' \in [Users -> Times]
  BY <1>1 DEF HandleActiveConn, Times
<1>5. \A q \in Pages : /\ ActiveConn(q) \in Handlers /\ UserEvents(q) \in Handlers
                       /\ UserOf[q] \in Users /\ UserEvents(q) # h
                       /\ ActiveConn(q) = h => UserOf[q] = w
  BY <1>0, HandlersAre, ActiveUsersAssumption DEF ActiveConn, UserEvents
<1>6. \A u \in Users : arrived[u] # Absent => arrived[u] \in 0 .. clock
  BY DEF StayInv, ArrivedBefore
<1>7. \A u \in Users : arrived'[u] # Absent => arrived'[u] \in 0 .. clock
  BY <1>1, <1>3, <1>6
<1>8. arrived'[w] \in 0 .. clock
  BY <1>1, <1>3, <1>6
<1>9. \A q \in Pages : stage[ActiveConn(q)] # "Idle" => arrived'[UserOf[q]] = arrived[UserOf[q]]
  <2>1. 0 .. clock \subseteq Nat /\ Absent \notin Nat
    BY DEF Absent
  <2> QED
    BY <1>3, <1>5, <1>6, <2>1 DEF StayInv, ArrivedBefore
<1>10. \A u \in Members : arrived'[u] = arrived[u]
  <2>1. Absent \notin Nat
    BY DEF Absent
  <2>2. \A u \in Members : u \in Users /\ arrived[u] \in Nat
    BY DEF StayInv, ArrivedBefore, Members
  <2> QED
    BY <1>3, <2>1, <2>2
<1>11. \A q \in Pages : ActiveConn(q) # h => stage'[ActiveConn(q)] = stage[ActiveConn(q)]
                                              /\ since'[ActiveConn(q)] = since[ActiveConn(q)]
  BY <1>2, <1>5
<1>12. \A q \in Pages : stage'[UserEvents(q)] = stage[UserEvents(q)]
  BY <1>2, <1>5
<1>13. ArrivedBefore'
  <2>1. ASSUME NEW q \in Pages, stage'[ActiveConn(q)] # "Idle"
        PROVE  arrived'[UserOf[q]] \in 0 .. clock
    <3>1. CASE ActiveConn(q) = h
      BY <1>5, <1>8, <3>1
    <3>2. CASE ActiveConn(q) # h
      BY <1>9, <1>11, <2>1, <3>2 DEF StayInv, ArrivedBefore
    <3> QED
      BY <3>1, <3>2
  <2>2. ASSUME NEW q \in Pages, stage'[ActiveConn(q)] = "ZAddNX"
        PROVE  arrived'[UserOf[q]] <= since'[ActiveConn(q)]
    <3>1. CASE ActiveConn(q) = h
      BY <1>1, <1>2, <1>5, <1>8, <3>1
    <3>2. CASE ActiveConn(q) # h
      BY <1>9, <1>11, <2>2, <3>2 DEF StayInv, ArrivedBefore
    <3> QED
      BY <3>1, <3>2
  <2>3. \A u \in Members : arrived'[u] \in 0 .. activeUsers[u]
    BY <1>10 DEF StayInv, ArrivedBefore
  <2> QED
    BY <1>1, <1>4, <1>7, <2>1, <2>2, <2>3 DEF ArrivedBefore, Members
<1>14. StaysUntilAge'
  <2>1. SUFFICES ASSUME NEW q \in Pages, stage'[ActiveConn(q)] \in Added,
                        NoPageClosed(UserOf[q])', clock - arrived'[UserOf[q]] < ActiveUserMaxAge
                 PROVE  UserOf[q] \in Members
    BY <1>1, <1>5 DEF StaysUntilAge, Young, Members
  <2>2. ActiveConn(q) # h
    BY <1>2, <2>1 DEF Added
  <2>3. stage[ActiveConn(q)] \in Added /\ stage[ActiveConn(q)] # "Idle"
    BY <1>11, <2>1, <2>2 DEF Added
  <2>4. NoPageClosed(UserOf[q])
    BY <1>12, <2>1 DEF NoPageClosed
  <2>5. Young(UserOf[q])
    BY <1>9, <2>1, <2>3 DEF Young
  <2> QED
    BY <2>3, <2>4, <2>5 DEF StayInv, StaysUntilAge
<1> QED
  BY <1>13, <1>14 DEF StayInv

LEMMA TickStays ==
    ASSUME ActiveInv, StayInv, Tick
    PROVE  StayInv'
<1>1. /\ clock \in Nat /\ clock' = clock + 1 /\ ActiveUserMaxAge \in Nat
      /\ UNCHANGED <<activeUsers, stage, since, arrived>>
      /\ arrived \in [Users -> Times]
      /\ \A p \in Pages : UserOf[p] \in Users
  BY ActiveUsersAssumption DEF Tick, ActiveInv, ActiveTypeOK, StayInv, ArrivedBefore
<1>2. 0 .. clock \subseteq 0 .. clock'
  BY <1>1
<1>3. ArrivedBefore'
  BY <1>1, <1>2 DEF StayInv, ArrivedBefore, Members
<1>4. \A u \in Users : Young(u)' => Young(u)
  BY <1>1 DEF Young, Times, Absent
<1>5. StaysUntilAge'
  BY <1>1, <1>4 DEF StayInv, StaysUntilAge, NoPageClosed, Members
<1> QED
  BY <1>3, <1>5 DEF StayInv

LEMMA AddStays ==
    ASSUME ActiveInv, StayInv, NEW p \in Pages, AddActiveUser(p)
    PROVE  StayInv'
<1>1. PICK now \in TimesRead(ActiveConn(p)) :
          activeUsers' = [activeUsers EXCEPT ![UserOf[p]] = IF @ = Absent THEN now ELSE @]
  BY DEF AddActiveUser
<1>2. /\ ActiveConn(p) \in Handlers \ EventConns /\ UserOf[p] \in Users
      /\ stage[ActiveConn(p)] = "ZAddNX" /\ GoTo(ActiveConn(p), "Purge")
      /\ UNCHANGED <<clock, arrived>>
      /\ clock \in Nat /\ since[ActiveConn(p)] \in Nat /\ activeUsers \in [Users -> Times]
  BY HandlersAre, ActiveUsersAssumption
     DEF AddActiveUser, ActiveInv, ActiveTypeOK, ActiveConn, EventConns, UserEvents
<1>3. arrived[UserOf[p]] \in Nat /\ arrived[UserOf[p]] <= since[ActiveConn(p)]
  BY <1>2 DEF StayInv, ArrivedBefore
<1>4. now \in arrived[UserOf[p]] .. clock /\ now \in Times /\ now # Absent
  BY <1>2, <1>3 DEF TimesRead, Times, Absent
<1>5. activeUsers' \in [Users -> Times] /\ activeUsers'[UserOf[p]] # Absent
  BY <1>1, <1>2, <1>4
<1>6. SetChanges
  BY <1>1, <1>2, <1>3, <1>4 DEF SetChanges
<1>7. \A q \in Pages : ActiveConn(q) = ActiveConn(p) => UserOf[q] = UserOf[p]
  BY DEF ActiveConn
<1>8. GoesOn(ActiveConn(p), "Purge")
  BY <1>2, <1>5, <1>7 DEF GoesOn
<1>9. "Purge" \in HandlerStages
  BY DEF HandlerStages, Commands
<1> QED
  BY <1>2, <1>5, <1>6, <1>8, <1>9, GoingOnStays

LEMMA PurgeStays ==
    ASSUME ActiveInv, StayInv, NEW h \in Handlers, PurgeExpired(h)
    PROVE  StayInv'
<1>1. PICK now \in TimesRead(h) :
          activeUsers' = [u \in Users |-> IF u \in Expired(now) THEN Absent ELSE activeUsers[u]]
  BY DEF PurgeExpired
<1>2. /\ stage[h] = "Purge" /\ GoTo(h, "ZCard") /\ UNCHANGED <<clock, arrived>>
      /\ clock \in Nat /\ since[h] \in Nat /\ activeUsers \in [Users -> Times]
      /\ ActiveUserMaxAge \in Nat
  BY ActiveUsersAssumption DEF PurgeExpired, ActiveInv, ActiveTypeOK
<1>3. now \in Nat /\ now <= clock
  BY <1>2 DEF TimesRead
<1>4. ASSUME NEW u \in Users, u \in Expired(now)  PROVE ~Young(u)
  <2>1. u \in Members /\ activeUsers[u] <= now - ActiveUserMaxAge
    BY <1>4 DEF Expired
  <2>2. activeUsers[u] \in Nat
    BY <1>2, <2>1 DEF Members, Times
  <2>3. arrived[u] \in Nat /\ arrived[u] <= activeUsers[u]
    BY <2>1, <2>2 DEF StayInv, ArrivedBefore
  <2> QED
    BY <1>2, <1>3, <2>1, <2>2, <2>3 DEF Young
<1>5. activeUsers' \in [Users -> Times]
  BY <1>1, <1>2 DEF Times
<1>6. SetChanges
  BY <1>1, <1>2, <1>4 DEF SetChanges
<1>7. GoesOn(h, "ZCard")
  BY <1>2 DEF GoesOn, Added
<1>8. "ZCard" \in HandlerStages
  BY DEF HandlerStages, Commands
<1> QED
  BY <1>2, <1>5, <1>6, <1>7, <1>8, GoingOnStays

\* A step that takes nobody away and adds nobody.
LEMMA SetAsItIsStays ==
    ASSUME ActiveInv, StayInv, NEW h \in Handlers, NEW s \in HandlerStages,
           GoTo(h, s), UNCHANGED <<clock, activeUsers, arrived>>,
           h \in ActiveConns => stage[h] # "Idle" /\ s # "ZAddNX",
           h \in ActiveConns /\ s \in Added => stage[h] \in Added,
           h \in EventConns /\ s \in {"Idle", "Open"} => stage[h] \in {"Idle", "Open"}
    PROVE  StayInv'
<1>1. activeUsers' \in [Users -> Times] /\ SetChanges
  BY DEF ActiveInv, ActiveTypeOK, SetChanges
<1>2. \A p \in Pages : ActiveConn(p) \in ActiveConns
  BY DEF ActiveConns
<1>3. GoesOn(h, s)
  BY <1>2 DEF GoesOn
<1> QED
  BY <1>1, <1>3, GoingOnStays

\* Who is removed has just closed a page.
LEMMA RemoveStays ==
    ASSUME ActiveInv, StayInv, NEW p \in Pages, RemoveActiveUser(p)
    PROVE  StayInv'
<1>1. /\ UserEvents(p) \in Handlers \ ActiveConns /\ UserOf[p] \in Users
      /\ GoTo(UserEvents(p), "Purge") /\ UNCHANGED <<clock, arrived>>
      /\ activeUsers' = [activeUsers EXCEPT ![UserOf[p]] = Absent]
      /\ activeUsers \in [Users -> Times] /\ Absent \in Times /\ ActiveTypeOK
      /\ "Purge" \in HandlerStages
  BY HandlersAre, ActiveUsersAssumption
     DEF RemoveActiveUser, ActiveInv, ActiveTypeOK, Times, HandlerStages, Commands
<1>2. stage'[UserEvents(p)] = "Purge"
  BY <1>1, OneGoesOn
<1>3. ~NoPageClosed(UserOf[p])'
  BY <1>2 DEF NoPageClosed
<1>4. SetChanges
  BY <1>1, <1>3 DEF SetChanges
<1>5. activeUsers' \in [Users -> Times]
  BY <1>1
<1>6. GoesOn(UserEvents(p), "Purge")
  <2>1. \A q \in Pages : ActiveConn(q) \in ActiveConns
    BY DEF ActiveConns
  <2> QED
    BY <1>1, <2>1 DEF GoesOn
<1> QED
  BY <1>1, <1>4, <1>5, <1>6, GoingOnStays

LEMMA ActiveNextStays ==
    ASSUME ActiveInv, StayInv, [ActiveNext]_activeVars
    PROVE  StayInv'
<1>1. {"Idle", "Open", "Done", "Purge", "ZRem"} \subseteq HandlerStages
  BY DEF HandlerStages, Commands
<1>2. /\ \A p \in Pages : ActiveConn(p) \in Handlers \ EventConns
      /\ \A p \in Pages : UserEvents(p) \in Handlers \ ActiveConns
      /\ \A v \in Viewers : CountEvents(v) \in Handlers \ (ActiveConns \cup EventConns)
      /\ "Done" \notin Added
  BY DEF Handlers, ActiveConns, EventConns, ActiveConn, UserEvents, CountEvents, Added
<1>3. ASSUME NEW p \in Pages, CloseActiveConn(p)  PROVE StayInv'
  BY <1>1, <1>2, <1>3, SetAsItIsStays DEF CloseActiveConn
<1>4. ASSUME NEW p \in Pages, HandleUserEvents(p)  PROVE StayInv'
  BY <1>1, <1>2, <1>4, SetAsItIsStays DEF HandleUserEvents
<1>5. ASSUME NEW p \in Pages, CloseUserEvents(p)  PROVE StayInv'
  BY <1>1, <1>2, <1>5, SetAsItIsStays DEF CloseUserEvents
<1>6. ASSUME NEW v \in Viewers, HandleCountEvents(v)  PROVE StayInv'
  BY <1>1, <1>2, <1>6, SetAsItIsStays DEF HandleCountEvents
<1>7. ASSUME NEW h \in Handlers, GetActiveCount(h)  PROVE StayInv'
  <2>1. /\ stage[h] = "ZCard" /\ GoTo(h, AfterCount(h)) /\ UNCHANGED <<clock, activeUsers, arrived>>
    BY <1>7 DEF GetActiveCount
  <2>2. AfterCount(h) \in HandlerStages
    BY <1>1 DEF AfterCount
  <2>3. ActiveConns \cap EventConns = {}
    BY <1>2 DEF ActiveConns
  <2>4. h \in ActiveConns => stage[h] # "Idle" /\ AfterCount(h) # "ZAddNX" /\ stage[h] \in Added
    BY <2>1 DEF AfterCount, Added
  <2>5. h \in EventConns => AfterCount(h) \notin {"Idle", "Open"}
    BY <2>3 DEF AfterCount
  <2> QED
    BY <2>1, <2>2, <2>4, <2>5, SetAsItIsStays
<1>8. ASSUME NEW h \in Handlers, HandlerFails(h)  PROVE StayInv'
  BY <1>1, <1>2, <1>8, SetAsItIsStays DEF HandlerFails
<1>9. CASE UNCHANGED activeVars
  BY <1>9 DEF activeVars, StayInv, ArrivedBefore, StaysUntilAge, NoPageClosed, Young, Members
<1> QED
  BY <1>3, <1>4, <1>5, <1>6, <1>7, <1>8, <1>9,
     ConnectStays, AddStays, RemoveStays, PurgeStays, TickStays DEF ActiveNext

LEMMA ActiveInitStays ==
    ASSUME ActiveInit
    PROVE  StayInv
<1>1. \A p \in Pages : stage[ActiveConn(p)] = "Idle"
  BY HandlersAre DEF ActiveInit
<1>2. Members = {}
  BY DEF ActiveInit, Members
<1>3. arrived \in [Users -> Times] /\ \A u \in Users : arrived[u] = Absent
  BY DEF ActiveInit, Times
<1> QED
  BY <1>1, <1>2, <1>3 DEF StayInv, ArrivedBefore, StaysUntilAge, Added

(***************************************************************************)
(* A user is active while none of their pages closes, from the end of the  *)
(* ZADD NX of HandleActiveConn until ActiveUserMaxAge after their first    *)
(* page connected: a score is never from before that, and a purge that has *)
(* read an earlier or a later time than the one that made the member takes *)
(* only members whose users arrived an age ago.  RetainActiveUser, which   *)
(* should keep them beyond it, is never called.                            *)
(***************************************************************************)
THEOREM StaysActiveUntilAge == ActiveSpec => []ActiveUntilAge
<1>1. ActiveInit => StayInv
  BY ActiveInitStays
<1>2. ActiveInv /\ StayInv /\ [ActiveNext]_activeVars => StayInv'
  BY ActiveNextStays
<1>3. StayInv => ActiveUntilAge
  BY DEF StayInv, StaysUntilAge, ActiveUntilAge, Maintains, Young, Added
<1> QED
  BY <1>1, <1>2, <1>3, ActiveInvariance, PTL DEF ActiveSpec

=============================================================================
