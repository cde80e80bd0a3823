------------------------------ MODULE ChessStore ------------------------------
(***************************************************************************)
(* How a game is really updated: every websocket input is handled by a     *)
(* goroutine of its own, on any API server, and UpdateChessStateTxn runs   *)
(* the WATCH / GET / MULTI-EXEC cycle against the one Redis key of the     *)
(* game, up to five times.  The steps of any number of handlers            *)
(* interleave; a handler's server may die between two of them.             *)
(*                                                                         *)
(* The abstract specification is ChessGame: PROPERTY Atomic!Spec says that *)
(* the handlers together behave as if every operation were one step.       *)
(***************************************************************************)
EXTENDS ChessState

CONSTANTS
    Handlers,   \* goroutines that serve websocket inputs
    Inputs,     \* the inputs clients send
    MaxRetries, \* MaxUpdateChessStateRetries
    MaxEvents   \* bound on the finish-game stream, as in ChessGame

ASSUME InputsAssumption == Inputs \subseteq Requests
ASSUME MaxRetriesAssumption == MaxRetries \in Nat \ {0}

VARIABLES
    game, timer, metadata, finishGame,  \* Redis, as in ChessGame
    pc,       \* where each handler is: idle, before WATCH, GET or EXEC
    request,  \* the input each handler serves
    view,     \* the state its GET returned
    dirty,    \* has the watched key been written since the WATCH
    tries     \* attempts that failed so far

vars == <<game, timer, metadata, finishGame, pc, request, view, dirty, tries>>

Atomic == INSTANCE ChessGame WITH
    game <- game, timer <- timer, metadata <- metadata, finishGame <- finishGame

NoRequest == [op |-> "None", user |-> NoPlayer, move |-> "None"]
NoView    == [op |-> "None"]

Watching(h) == pc[h] \in {"Get", "Exec"}

Init ==
    /\ Atomic!Init
    /\ pc = [h \in Handlers |-> "Idle"]
    /\ request = [h \in Handlers |-> NoRequest]
    /\ view = [h \in Handlers |-> NoView]
    /\ dirty = [h \in Handlers |-> FALSE]
    /\ tries = [h \in Handlers |-> 0]

\* The goroutine returns: its result or its error goes to the client.
Return(h) ==
    /\ pc' = [pc EXCEPT ![h] = "Idle"]
    /\ request' = [request EXCEPT ![h] = NoRequest]
    /\ view' = [view EXCEPT ![h] = NoView]
    /\ tries' = [tries EXCEPT ![h] = 0]

\* The reader goroutine starts a handler for the input it has read.
HandleGameMessage(h, r) ==
    /\ pc[h] = "Idle"
    /\ pc' = [pc EXCEPT ![h] = "Watch"]
    /\ request' = [request EXCEPT ![h] = r]
    /\ UNCHANGED <<game, timer, metadata, finishGame, view, dirty, tries>>

Watch(h) ==
    /\ pc[h] = "Watch"
    /\ pc' = [pc EXCEPT ![h] = "Get"]
    /\ dirty' = [dirty EXCEPT ![h] = FALSE]
    /\ UNCHANGED <<game, timer, metadata, finishGame, request, view, tries>>

\* GET, then the update closure: its error unwatches the key and returns.
GetChessState(h) ==
    /\ pc[h] = "Get"
    /\ UNCHANGED <<game, timer, metadata, finishGame, dirty>>
    /\ IF Updated(game, request[h]) = {}
       THEN Return(h)
       ELSE /\ pc' = [pc EXCEPT ![h] = "Exec"]
            /\ view' = [view EXCEPT ![h] = game]
            /\ UNCHANGED <<request, tries>>

\* Mutant: the key is set without a transaction.
MutExecCommits(h) ==
    /\ pc[h] = "Exec"
    /\ \E g \in Updated(view[h], request[h]) : Atomic!Committed(request[h], g)
    /\ dirty' = [k \in Handlers |-> dirty[k] \/ (k # h /\ Watching(k))]
    /\ Return(h)

\* EXEC of an untouched key runs the queue that was built from the GET, and
\* marks every other watcher of the key.
ExecCommits(h) ==
    /\ pc[h] = "Exec"
    /\ ~dirty[h]
    /\ \E g \in Updated(view[h], request[h]) : Atomic!Committed(request[h], g)
    /\ dirty' = [k \in Handlers |-> dirty[k] \/ (k # h /\ Watching(k))]
    /\ Return(h)

\* Mutants: refused attempts are not counted; one attempt too many is allowed.
MutExecRefusedUncounted(h) ==
    /\ pc[h] = "Exec"
    /\ dirty[h]
    /\ pc' = [pc EXCEPT ![h] = "Watch"]
    /\ view' = [view EXCEPT ![h] = NoView]
    /\ UNCHANGED <<game, timer, metadata, finishGame, request, dirty, tries>>

MutExecRefusedOnceMore(h) ==
    /\ pc[h] = "Exec"
    /\ dirty[h]
    /\ tries[h] < MaxRetries
    /\ pc' = [pc EXCEPT ![h] = "Watch"]
    /\ view' = [view EXCEPT ![h] = NoView]
    /\ tries' = [tries EXCEPT ![h] = @ + 1]
    /\ UNCHANGED <<game, timer, metadata, finishGame, request, dirty>>

\* EXEC of a touched key is refused: TxFailedErr, the loop tries again.
ExecRefused(h) ==
    /\ pc[h] = "Exec"
    /\ dirty[h]
    /\ tries[h] + 1 < MaxRetries
    /\ pc' = [pc EXCEPT ![h] = "Watch"]
    /\ view' = [view EXCEPT ![h] = NoView]
    /\ tries' = [tries EXCEPT ![h] = @ + 1]
    /\ UNCHANGED <<game, timer, metadata, finishGame, request, dirty>>

\* ErrMaxChessStateRetries.
ExhaustRetries(h) ==
    /\ pc[h] = "Exec"
    /\ dirty[h]
    /\ tries[h] + 1 >= MaxRetries
    /\ Return(h)
    /\ UNCHANGED <<game, timer, metadata, finishGame, dirty>>

\* The API server dies, and the connection that watches the key with it.
Crash(h) ==
    /\ pc[h] # "Idle"
    /\ Return(h)
    /\ UNCHANGED <<game, timer, metadata, finishGame, dirty>>

\* The script removes a member of the sorted set; the game's key is not written.
TryExpireTimers ==
    /\ Atomic!TryExpireTimers
    /\ UNCHANGED <<pc, request, view, dirty, tries>>

UpdateChessStateTxn(h) ==
    Watch(h) \/ GetChessState(h) \/ ExecCommits(h) \/ ExecRefused(h) \/ ExhaustRetries(h)

Next ==
    \/ \E h \in Handlers :
          \/ \E r \in Inputs : HandleGameMessage(h, r)
          \/ UpdateChessStateTxn(h)
          \/ Crash(h)
    \/ TryExpireTimers

Spec == Init /\ [][Next]_vars

\* A goroutine that can run is run, and Redis answers it: nothing is assumed of
\* clients, of the trigger or of crashes.
FairSpec == Spec /\ \A h \in Handlers : WF_vars(UpdateChessStateTxn(h))

-----------------------------------------------------------------------------
\* Type invariant of the handlers and of the keys they share.
TypeOK ==
    /\ Atomic!TypeOK
    /\ pc \in [Handlers -> {"Idle", "Watch", "Get", "Exec"}]
    /\ request \in [Handlers -> Requests \cup {NoRequest}]
    /\ view \in [Handlers -> Games \cup {NoView}]
    /\ dirty \in [Handlers -> BOOLEAN]
    /\ tries \in [Handlers -> 0 .. MaxRetries - 1]

(***************************************************************************)
(* The reason the cycle loses no update: a handler whose EXEC would be     *)
(* accepted still holds the state that is stored, whatever the other       *)
(* handlers have done since its GET.                                       *)
(***************************************************************************)
CleanViewIsCurrent ==
    \A h \in Handlers : pc[h] = "Exec" /\ ~dirty[h] => view[h] = game

(***************************************************************************)
(* No lost update: the interleaved transactions, retries, rejections and   *)
(* crashes are, seen from Redis, a sequence of whole operations on the     *)
(* latest state, each with its events (the comment of UpdateChessStateTxn).*)
(***************************************************************************)
NoLostUpdate == Atomic!Spec

(***************************************************************************)
(* Every input is answered, by success, rejection or the retry limit, no   *)
(* matter how the other handlers keep writing the key.                     *)
(***************************************************************************)
InputsAnswered == \A h \in Handlers : pc[h] # "Idle" ~> pc[h] = "Idle"
=============================================================================
