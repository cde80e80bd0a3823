------------------------------ MODULE GameSocket -----------------------------
(***************************************************************************)
(* The sockets of one game.  A server subscribes a socket to its broker,   *)
(* joins the game, writes what the game is like and starts a goroutine     *)
(* that reads and one that writes.  Every input gets a handler of its own; *)
(* a handler that changes the game publishes its output to Redis from yet  *)
(* another goroutine.  The listener of each server receives what is        *)
(* published in one order and broadcasts it to the channels of its         *)
(* sockets, whose writers put it on the wire.                              *)
(*                                                                         *)
(* The game is the number of changes made to it: version v stands for the  *)
(* state after v changes and for the output that announces the v-th.       *)
(***************************************************************************)
EXTENDS Integers, SequencesExt

CONSTANTS
    Sockets, Servers,
    Host,                   \* the server of a socket
    GameplayChanBufCap,
    Inputs,                 \* what clients send: a socket and a number
    Leavers,                \* sockets whose reading may fail
    MaxVersion,             \* changes of the game
    MaxBreaks               \* connections to Redis each server loses

ASSUME GameSocketAssumption ==
    /\ Host \in [Sockets -> Servers]
    /\ GameplayChanBufCap \in Nat \ {0}
    /\ Inputs \subseteq Sockets \X Nat /\ Leavers \subseteq Sockets
    /\ MaxVersion \in Nat /\ MaxBreaks \in [Servers -> Nat]

VARIABLES
    version,        \* of the game in Redis
    phase,          \* of HandleGameWebSocket, for each socket
    initial,        \* the version each socket was initialized with
    open,           \* the connections that are not closed
    reader, writer, \* the two goroutines of each socket
    handlers,       \* the handler of each input
    publishing,     \* outputs whose goroutine has not published them yet
    listener,       \* the listener of each server
    signals,        \* what is in the channel connCh of each listener
    breaks,         \* connections each server has lost
    inbox,          \* what Redis has sent to each server
    lost,           \* what did not reach a server: it was not listening, or PUBLISH failed
    subscribers,    \* the sockets in the brokers
    subChan,        \* the channel of each socket
    closes,         \* how often that channel was closed
    dropped,        \* what a broker could not put into the channel
    wire            \* what the client of each socket was sent after its init

game    == <<version, phase, initial>>
routine == <<open, reader, writer>>
work    == <<handlers, publishing>>
redis   == <<listener, signals, breaks, inbox, lost>>
channel == <<subscribers, subChan, closes, dropped, wire>>
vars    == <<version, phase, initial, open, reader, writer, handlers, publishing,
             listener, signals, breaks, inbox, lost, subscribers, subChan, closes, dropped, wire>>

Versions == 1 .. MaxVersion

Phases    == {"Upgraded", "Subscribed", "Joined", "Serving"}
Routines  == {"None", "Running", "Unsubscribing", "Done"}
Stages    == {"Unread", "Running", "Refused", "Done"}
Listeners == {"Receiving", "Dialing", "Blocked"}

Init ==
    /\ version = 0
    /\ phase = [s \in Sockets |-> "Upgraded"]
    /\ initial = [s \in Sockets |-> 0]
    /\ open = Sockets
    /\ reader = [s \in Sockets |-> "None"]
    /\ writer = [s \in Sockets |-> "None"]
    /\ handlers = [h \in Inputs |-> "Unread"]
    /\ publishing = {}
    /\ listener = [r \in Servers |-> "Receiving"]
    /\ signals = [r \in Servers |-> 0]
    /\ breaks = [r \in Servers |-> 0]
    /\ inbox = [r \in Servers |-> <<>>]
    /\ lost = [r \in Servers |-> {}]
    /\ subscribers = {}
    /\ subChan = [s \in Sockets |-> <<>>]
    /\ closes = [s \in Sockets |-> 0]
    /\ dropped = [s \in Sockets |-> {}]
    /\ wire = [s \in Sockets |-> <<>>]

-----------------------------------------------------------------------------
(* The connection is set up.                                                 *)

\* Mutant: the socket is subscribed after it was initialized.
MutSubscribe(s) ==
    /\ \/ /\ phase[s] = "Upgraded"
          /\ phase' = [phase EXCEPT ![s] = "Subscribed"]
          /\ UNCHANGED subscribers
       \/ /\ phase[s] = "Serving" /\ s \notin subscribers /\ closes[s] = 0
          /\ subscribers' = subscribers \cup {s}
          /\ UNCHANGED phase
    /\ UNCHANGED <<version, initial, routine, work, redis, subChan, closes, dropped, wire>>

Subscribe(s) ==
    /\ phase[s] = "Upgraded"
    /\ phase' = [phase EXCEPT ![s] = "Subscribed"]
    /\ subscribers' = subscribers \cup {s}
    /\ UNCHANGED <<version, initial, routine, work, redis, subChan, closes, dropped, wire>>

\* The transaction of JoinGame.
JoinGame(s) ==
    /\ phase[s] = "Subscribed"
    /\ version < MaxVersion
    /\ version' = version + 1
    /\ initial' = [initial EXCEPT ![s] = version + 1]
    /\ phase' = [phase EXCEPT ![s] = "Joined"]
    /\ UNCHANGED <<routine, work, redis, channel>>

StartRoutines(s) ==
    /\ phase' = [phase EXCEPT ![s] = "Serving"]
    /\ reader' = [reader EXCEPT ![s] = "Running"]
    /\ writer' = [writer EXCEPT ![s] = "Running"]

\* The game is written to the connection and the players are broadcast.
WriteInit(s) ==
    /\ phase[s] = "Joined"
    /\ StartRoutines(s)
    /\ publishing' = publishing \cup {initial[s]}
    /\ UNCHANGED <<version, initial, open, handlers, redis, channel>>

\* Mutant: without a game there is nothing to write, and no writer.
MutInitFails(s) ==
    /\ phase[s] = "Subscribed"
    /\ phase' = [phase EXCEPT ![s] = "Serving"]
    /\ reader' = [reader EXCEPT ![s] = "Running"]
    /\ UNCHANGED <<version, initial, open, writer, work, redis, channel>>

\* No session or no game: the error is written, the connection is served.
InitFails(s) ==
    /\ phase[s] = "Subscribed"
    /\ StartRoutines(s)
    /\ UNCHANGED <<version, initial, open, work, redis, channel>>

-----------------------------------------------------------------------------
(* The handlers of a socket's inputs.                                        *)

\* The client sends its inputs one after the other.
ReadInput(h) ==
    /\ reader[h[1]] = "Running"
    /\ handlers[h] = "Unread"
    /\ \A k \in Inputs : k[1] = h[1] /\ k[2] < h[2] => handlers[k] # "Unread"
    /\ handlers' = [handlers EXCEPT ![h] = "Running"]
    /\ UNCHANGED <<game, routine, publishing, redis, channel>>

\* A move, a forfeit or an undo is stored, and its output is handed to a
\* goroutine.
HandleGameInput(h) ==
    /\ handlers[h] = "Running"
    /\ version < MaxVersion
    /\ version' = version + 1
    /\ publishing' = publishing \cup {version + 1}
    /\ handlers' = [handlers EXCEPT ![h] = "Done"]
    /\ UNCHANGED <<phase, initial, routine, redis, channel>>

\* A ping.
HandlePing(h) ==
    /\ handlers[h] = "Running"
    /\ handlers' = [handlers EXCEPT ![h] = "Done"]
    /\ UNCHANGED <<game, routine, publishing, redis, channel>>

\* The input cannot be read or the service returns an error.
RefuseInput(h) ==
    /\ handlers[h] = "Running"
    /\ handlers' = [handlers EXCEPT ![h] = "Refused"]
    /\ UNCHANGED <<game, routine, publishing, redis, channel>>

\* The channel of errors has no buffer: handler and writer meet.
WriteGameError(h) ==
    /\ handlers[h] = "Refused"
    /\ writer[h[1]] = "Running"
    /\ handlers' = [handlers EXCEPT ![h] = "Done"]
    /\ UNCHANGED <<game, routine, publishing, redis, channel>>

-----------------------------------------------------------------------------
(* Redis and the listeners.                                                  *)

\* Whoever listens is sent the output.
BroadcastMessage(v) ==
    /\ v \in publishing
    /\ publishing' = publishing \ {v}
    /\ inbox' = [r \in Servers |->
          IF listener[r] = "Dialing" THEN inbox[r] ELSE Append(inbox[r], v)]
    /\ lost' = [r \in Servers |->
          IF listener[r] = "Dialing" THEN lost[r] \cup {v} ELSE lost[r]]
    /\ UNCHANGED <<game, routine, handlers, listener, signals, breaks, channel>>

\* A PUBLISH that fails is logged and forgotten.
PublishFails(v) ==
    /\ v \in publishing
    /\ publishing' = publishing \ {v}
    /\ lost' = [r \in Servers |-> lost[r] \cup {v}]
    /\ UNCHANGED <<game, routine, handlers, listener, signals, breaks, inbox, channel>>

LoseConnection(r) ==
    /\ listener[r] = "Receiving"
    /\ breaks[r] < MaxBreaks[r]
    /\ breaks' = [breaks EXCEPT ![r] = @ + 1]
    /\ listener' = [listener EXCEPT ![r] = "Dialing"]
    /\ lost' = [lost EXCEPT ![r] = @ \cup ToSet(inbox[r])]
    /\ inbox' = [inbox EXCEPT ![r] = <<>>]
    /\ UNCHANGED <<game, routine, work, signals, channel>>

\* Mutant: the signal of a reconnection waits for somebody to take it.
MutReconnect(r) ==
    /\ listener[r] = "Dialing"
    /\ listener' = [listener EXCEPT ![r] = "Blocked"]
    /\ UNCHANGED <<game, routine, work, signals, breaks, inbox, lost, channel>>

\* The signal of the second reconnection finds the channel full.
Reconnect(r) ==
    /\ listener[r] = "Dialing"
    /\ listener' = [listener EXCEPT ![r] = IF signals[r] = 0 THEN "Receiving" ELSE "Blocked"]
    /\ signals' = [signals EXCEPT ![r] = 1]
    /\ UNCHANGED <<game, routine, work, breaks, inbox, lost, channel>>

Addressed(r) == {s \in subscribers : Host[s] = r}

Full(s) == Len(subChan[s]) >= GameplayChanBufCap

\* Under the broker's lock, to all its subscribers.
Broadcast(r, v) ==
    /\ subChan' = [s \in Sockets |->
          IF s \in Addressed(r) /\ ~Full(s) THEN Append(subChan[s], v) ELSE subChan[s]]
    /\ dropped' = [s \in Sockets |->
          IF s \in Addressed(r) /\ Full(s) THEN dropped[s] \cup {v} ELSE dropped[s]]

\* Mutant: messages are handled in goroutines of their own.
MutReceive(r) ==
    /\ listener[r] = "Receiving"
    /\ \E v \in ToSet(inbox[r]) :
          /\ Broadcast(r, v)
          /\ inbox' = [inbox EXCEPT ![r] = SelectSeq(@, LAMBDA w : w # v)]
    /\ UNCHANGED <<game, routine, work, listener, signals, breaks, lost,
                   subscribers, closes, wire>>

Receive(r) ==
    /\ listener[r] = "Receiving"
    /\ inbox[r] # <<>>
    /\ Broadcast(r, Head(inbox[r]))
    /\ inbox' = [inbox EXCEPT ![r] = Tail(@)]
    /\ UNCHANGED <<game, routine, work, listener, signals, breaks, lost,
                   subscribers, closes, wire>>

-----------------------------------------------------------------------------
(* The writer, and the end of a connection.                                  *)

\* A write to a closed connection fails, and the writer goes on.
WriteMessage(s) ==
    /\ writer[s] = "Running"
    /\ subChan[s] # <<>>
    /\ wire' = [wire EXCEPT ![s] = IF s \in open THEN Append(@, Head(subChan[s])) ELSE @]
    /\ subChan' = [subChan EXCEPT ![s] = Tail(@)]
    /\ UNCHANGED <<game, routine, work, redis, subscribers, closes, dropped>>

\* Both goroutines end by closing the connection and, in a step of its own,
\* unsubscribing.  The reader does when reading fails ...
ReaderEnds(s) ==
    /\ reader[s] = "Running"
    /\ reader' = [reader EXCEPT ![s] = "Unsubscribing"]
    /\ open' = open \ {s}
    /\ UNCHANGED <<game, writer, work, redis, channel>>

\* ... and the writer when it finds the channel closed and empty.
WriterEnds(s) ==
    /\ writer[s] = "Running"
    /\ subChan[s] = <<>> /\ closes[s] > 0
    /\ writer' = [writer EXCEPT ![s] = "Unsubscribing"]
    /\ open' = open \ {s}
    /\ UNCHANGED <<game, reader, work, redis, channel>>

\* Whether s is among the subscribers decides if its channel is closed.
\* Mutant: the channel is closed again.
MutUnsubscribe(s) ==
    /\ closes' = [closes EXCEPT ![s] = @ + 1]
    /\ subscribers' = subscribers \ {s}
    /\ UNCHANGED <<subChan, dropped, wire>>

Unsubscribe(s) ==
    /\ closes' = [closes EXCEPT ![s] = IF s \in subscribers THEN @ + 1 ELSE @]
    /\ subscribers' = subscribers \ {s}
    /\ UNCHANGED <<subChan, dropped, wire>>

\* Mutant: the reader only closes the connection.
MutReaderCleanup(s) ==
    /\ reader[s] = "Unsubscribing"
    /\ reader' = [reader EXCEPT ![s] = "Done"]
    /\ UNCHANGED <<game, open, writer, work, redis, channel>>

ReaderCleanup(s) ==
    /\ reader[s] = "Unsubscribing"
    /\ Unsubscribe(s)
    /\ reader' = [reader EXCEPT ![s] = "Done"]
    /\ UNCHANGED <<game, open, writer, work, redis>>

WriterCleanup(s) ==
    /\ writer[s] = "Unsubscribing"
    /\ Unsubscribe(s)
    /\ writer' = [writer EXCEPT ![s] = "Done"]
    /\ UNCHANGED <<game, open, reader, work, redis>>

-----------------------------------------------------------------------------
HandleGameWebSocket(s) == Subscribe(s) \/ JoinGame(s) \/ WriteInit(s) \/ InitFails(s)

HandleGameMessage(h) ==
    HandleGameInput(h) \/ HandlePing(h) \/ RefuseInput(h)

Writer(s) == WriteMessage(s) \/ WriterEnds(s) \/ WriterCleanup(s)

\* What the servers do by themselves.
Progress ==
    \/ \E s \in Sockets : HandleGameWebSocket(s) \/ ReaderCleanup(s) \/ Writer(s)
    \/ \E h \in Inputs : HandleGameMessage(h) \/ WriteGameError(h)
    \/ \E v \in publishing : BroadcastMessage(v)
    \/ \E r \in Servers : Reconnect(r) \/ Receive(r)

Next ==
    \/ Progress
    \/ \E s \in Leavers : ReaderEnds(s)
    \/ \E h \in Inputs : ReadInput(h)
    \/ \E v \in publishing : PublishFails(v)
    \/ \E r \in Servers : LoseConnection(r)

Spec == Init /\ [][Next]_vars

\* Goroutines are scheduled, and of the cases of a select that stay ready each
\* is taken in the end.
FairSpec == Spec /\ WF_vars(Progress)

-----------------------------------------------------------------------------
\* Type invariant of the game, the goroutines, the channels and the brokers.
TypeOK ==
    /\ version \in 0 .. MaxVersion
    /\ phase \in [Sockets -> Phases]
    /\ initial \in [Sockets -> 0 .. MaxVersion]
    /\ open \subseteq Sockets
    /\ reader \in [Sockets -> Routines] /\ writer \in [Sockets -> Routines]
    /\ handlers \in [Inputs -> Stages]
    /\ publishing \subseteq Versions
    /\ listener \in [Servers -> Listeners]
    /\ signals \in [Servers -> {0, 1}] /\ breaks \in [Servers -> Nat]
    /\ inbox \in [Servers -> Seq(Versions)] /\ lost \in [Servers -> SUBSET Versions]
    /\ subscribers \subseteq Sockets
    /\ subChan \in [Sockets -> Seq(Versions)] /\ closes \in [Sockets -> Nat]
    /\ dropped \in [Sockets -> SUBSET Versions] /\ wire \in [Sockets -> Seq(Versions)]
    /\ \A s \in Sockets : Len(subChan[s]) <= GameplayChanBufCap

\* A version that is announced on the way to Redis.
Unpublished(v) ==
    \/ v \in publishing
    \/ \E s \in Sockets : phase[s] = "Joined" /\ initial[s] = v

\* A version that did not reach the client of s, and is known not to.
Missed(s, v) == v \in lost[Host[s]] \/ v \in dropped[s]

(***************************************************************************)
(* A game that changes while a client connects: every change after the     *)
(* version a client was shown reaches it, is on its way, was dropped by    *)
(* the broker, or its PUBLISH failed or found the server unconnected.      *)
(***************************************************************************)
NoGap ==
    \A s \in open : phase[s] = "Serving" /\ initial[s] > 0 =>
        \A v \in initial[s] + 1 .. version :
            \/ Unpublished(v)
            \/ v \in ToSet(inbox[Host[s]]) \cup ToSet(subChan[s]) \cup ToSet(wire[s])
            \/ Missed(s, v)

(***************************************************************************)
(* A broker never sends on a channel that is closed and never closes it    *)
(* twice, although both goroutines of a socket clean up: either would end  *)
(* the server in a panic.                                                  *)
(***************************************************************************)
ChannelsClosedOnce ==
    \A s \in Sockets : closes[s] <= 1 /\ (s \in subscribers => closes[s] = 0)

Before(q, v, w) == \E i, k \in DOMAIN q : i < k /\ q[i] = v /\ q[k] = w

(***************************************************************************)
(* Outputs are published in any order, but no two clients, on whichever    *)
(* servers, ever see two of them in different orders, nor one twice.       *)
(***************************************************************************)
SameOrder ==
    \A s, t \in Sockets : \A v, w \in Versions :
        Before(wire[s], v, w) => ~Before(wire[t], w, v)

(***************************************************************************)
(* A change of the game is sent to every client that has joined, unless    *)
(* the connection ends, the message is missed, or the server has lost its  *)
(* connection to Redis twice: its listener does not return from that.      *)
(***************************************************************************)
ChangesArrive ==
    \A s \in Sockets : \A v \in Versions :
        phase[s] = "Serving" /\ 0 < initial[s] /\ initial[s] < v /\ v = version
            ~> \/ v \in ToSet(wire[s])
               \/ s \notin open \/ Missed(s, v)
               \/ breaks[Host[s]] > 1

(***************************************************************************)
(* A closed connection leaves nothing behind: both goroutines return and   *)
(* the broker forgets the socket.                                          *)
(***************************************************************************)
SocketsEnd ==
    \A s \in Sockets :
        phase[s] = "Serving" /\ s \notin open
            ~> reader[s] = "Done" /\ writer[s] = "Done" /\ s \notin subscribers

(***************************************************************************)
(* A refused input is answered as long as the connection is open; once it  *)
(* is closed its handler may wait for the writer for ever.                 *)
(***************************************************************************)
RefusalsAnswered ==
    \A h \in Inputs : handlers[h] = "Refused" ~> handlers[h] = "Done" \/ h[1] \notin open
=============================================================================
