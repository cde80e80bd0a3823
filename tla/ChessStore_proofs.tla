--------------------------- MODULE ChessStore_proofs --------------------------
(***************************************************************************)
(* Proof that the optimistic transactions lose no update: any number of    *)
(* handlers, inputs and retries implement ChessGame, so that what is       *)
(* proved of one game holds of the state they share in Redis.              *)
(***************************************************************************)
EXTENDS ChessStore, TLAPS

(***************************************************************************)
(* The inductive invariant.  The commit is a step of ChessGame only if the *)
(* view is the stored state and the request one a client may send.         *)
(***************************************************************************)
HandlersOK ==
    /\ pc \in [Handlers -> {"Idle", "Watch", "Get", "Exec"}]
    /\ request \in [Handlers -> Requests \cup {NoRequest}]
    /\ dirty \in [Handlers -> BOOLEAN]
    /\ tries \in [Handlers -> 0 .. MaxRetries - 1]
    /\ DOMAIN view = Handlers
    /\ view = [h \in Handlers |-> view[h]]
    /\ \A h \in Handlers : pc[h] # "Idle" => request[h] \in Requests

Inv == HandlersOK /\ CleanViewIsCurrent

LEMMA InitInv == Init => Inv
BY MaxRetriesAssumption DEF Init, Inv, HandlersOK, CleanViewIsCurrent

LEMMA HandleGameMessageInv ==
    ASSUME Inv, NEW h \in Handlers, NEW r \in Inputs, HandleGameMessage(h, r)
    PROVE  Inv'
<1>1. r \in Requests
  BY InputsAssumption
<1>2. HandlersOK'
  BY <1>1 DEF Inv, HandlersOK, HandleGameMessage
<1>3. CleanViewIsCurrent'
  BY DEF Inv, HandlersOK, CleanViewIsCurrent, HandleGameMessage
<1> QED  BY <1>2, <1>3 DEF Inv

LEMMA WatchInv ==
    ASSUME Inv, NEW h \in Handlers, Watch(h)
    PROVE  Inv'
<1>1. HandlersOK'
  BY DEF Inv, HandlersOK, Watch
<1>2. CleanViewIsCurrent'
  BY DEF Inv, HandlersOK, CleanViewIsCurrent, Watch
<1> QED  BY <1>1, <1>2 DEF Inv

LEMMA ReturnInv ==
    ASSUME Inv, NEW h \in Handlers, Return(h), UNCHANGED <<game, dirty>>
    PROVE  Inv'
<1>1. HandlersOK'
  BY MaxRetriesAssumption DEF Inv, HandlersOK, Return
<1>2. CleanViewIsCurrent'
  BY DEF Inv, HandlersOK, CleanViewIsCurrent, Return
<1> QED  BY <1>1, <1>2 DEF Inv

LEMMA GetChessStateInv ==
    ASSUME Inv, NEW h \in Handlers, GetChessState(h)
    PROVE  Inv'
<1>1. CASE Updated(game, request[h]) = {}
  BY <1>1, ReturnInv DEF GetChessState
<1>2. CASE Updated(game, request[h]) # {}
  <2>1. /\ pc' = [pc EXCEPT ![h] = "Exec"]
        /\ view' = [view EXCEPT ![h] = game]
        /\ UNCHANGED <<game, dirty, request, tries>>
        /\ pc[h] = "Get"
    BY <1>2 DEF GetChessState
  <2>2. HandlersOK'
    BY <2>1 DEF Inv, HandlersOK
  <2>3. CleanViewIsCurrent'
    BY <2>1 DEF Inv, HandlersOK, CleanViewIsCurrent
  <2> QED  BY <2>2, <2>3 DEF Inv
<1> QED  BY <1>1, <1>2

LEMMA ExecCommitsInv ==
    ASSUME Inv, NEW h \in Handlers, ExecCommits(h)
    PROVE  Inv'
<1>1. HandlersOK'
  BY MaxRetriesAssumption DEF Inv, HandlersOK, ExecCommits, Return
<1>2. ASSUME NEW k \in Handlers, pc'[k] = "Exec", ~dirty'[k]
      PROVE  FALSE
  <2>1. k # h /\ pc[k] = "Exec"
    BY <1>2 DEF Inv, HandlersOK, ExecCommits, Return
  <2>2. dirty'[k]
    BY <2>1 DEF ExecCommits, Watching
  <2> QED  BY <1>2, <2>2
<1> QED  BY <1>1, <1>2 DEF Inv, CleanViewIsCurrent

LEMMA ExecRefusedInv ==
    ASSUME Inv, NEW h \in Handlers, ExecRefused(h)
    PROVE  Inv'
<1>1. HandlersOK'
  BY MaxRetriesAssumption DEF Inv, HandlersOK, ExecRefused
<1>2. CleanViewIsCurrent'
  BY DEF Inv, HandlersOK, CleanViewIsCurrent, ExecRefused
<1> QED  BY <1>1, <1>2 DEF Inv

LEMMA NextInv == Inv /\ [Next]_vars => Inv'
<1> SUFFICES ASSUME Inv, [Next]_vars PROVE Inv'
  OBVIOUS
<1>1. ASSUME NEW h \in Handlers, UpdateChessStateTxn(h)
      PROVE  Inv'
  <2>1. CASE ExhaustRetries(h)
    BY <2>1, ReturnInv DEF ExhaustRetries
  <2> QED  BY <1>1, <2>1, WatchInv, GetChessStateInv, ExecCommitsInv, ExecRefusedInv
           DEF UpdateChessStateTxn
<1>2. ASSUME NEW h \in Handlers, Crash(h)
      PROVE  Inv'
  BY <1>2, ReturnInv DEF Crash
<1>3. CASE TryExpireTimers
  BY <1>3 DEF TryExpireTimers, Atomic!TryExpireTimers, Inv, HandlersOK, CleanViewIsCurrent
<1>4. CASE UNCHANGED vars
  BY <1>4 DEF vars, Inv, HandlersOK, CleanViewIsCurrent
<1> QED  BY <1>1, <1>2, <1>3, <1>4, HandleGameMessageInv DEF Next

LEMMA SpecInv == Spec => []Inv
BY InitInv, NextInv, PTL DEF Spec

(***************************************************************************)
(* A handler whose commit would be accepted holds the stored state.        *)
(***************************************************************************)
THEOREM CleanViews == Spec => []CleanViewIsCurrent
<1>1. Inv => CleanViewIsCurrent
  BY DEF Inv
<1> QED  BY <1>1, SpecInv, PTL

-----------------------------------------------------------------------------
\* The instance of ChessGame has the operators and the sets of this module.
LEMMA SameUpdated ==
    ASSUME NEW g, NEW r
    PROVE  Atomic!Updated(g, r) = Updated(g, r)
BY DEF Updated, Joined, Moved, UndoCreated, UndoAccepted, UndoRejected, Ended,
       Sit, SeatsOnOffer, Seated, HasBothPlayers, IsEnded, IsWhiteTurn,
       CurrPlayer, SerializeHistMove, NewMove, RedoMove, JumpMoveIndex,
       Atomic!Updated, Atomic!Joined, Atomic!Moved, Atomic!UndoCreated,
       Atomic!UndoAccepted, Atomic!UndoRejected, Atomic!Ended, Atomic!Sit,
       Atomic!SeatsOnOffer, Atomic!Seated, Atomic!HasBothPlayers, Atomic!IsEnded,
       Atomic!IsWhiteTurn, Atomic!CurrPlayer, Atomic!SerializeHistMove,
       Atomic!NewMove, Atomic!RedoMove, Atomic!JumpMoveIndex

LEMMA SameSets ==
    /\ Atomic!Callers = Callers
    /\ Atomic!MoveKinds = MoveKinds
    /\ Atomic!UndoKinds = UndoKinds
BY DEF Callers, MoveKinds, UndoKinds, Atomic!Callers, Atomic!MoveKinds, Atomic!UndoKinds

\* A request that is handled is the operation of ChessGame it names.
LEMMA HandleIsNext ==
    ASSUME NEW r \in Requests, Atomic!Handle(r)
    PROVE  Atomic!Next
<1>1. CASE r.op = "Join"
  <2>1. r = [op |-> "Join", user |-> r.user, move |-> "None"] /\ r.user \in Callers
    BY <1>1 DEF Requests
  <2> QED  BY <2>1, SameSets DEF Atomic!Next, Atomic!JoinGame
<1>2. CASE r.op = "Move"
  <2>1. r = [op |-> "Move", user |-> r.user, move |-> r.move]
    BY <1>2 DEF Requests
  <2>2. r.user \in Callers /\ r.move \in MoveKinds
    BY <1>2 DEF Requests
  <2> QED  BY <2>1, <2>2, SameSets DEF Atomic!Next, Atomic!MakeGameMove
<1>3. CASE r.op \in UndoKinds
  <2>1. r = [op |-> r.op, user |-> r.user, move |-> "None"] /\ r.user \in Callers
    BY <1>3 DEF Requests, UndoKinds
  <2> QED  BY <1>3, <2>1, SameSets DEF Atomic!Next, Atomic!AttemptGameUndo
<1>4. CASE r.op = "End"
  <2>1. r = [op |-> "End", user |-> r.user, move |-> "None"] /\ r.user \in Callers
    BY <1>4 DEF Requests
  <2> QED  BY <2>1, SameSets DEF Atomic!Next, Atomic!EndGame
<1>5. r.op \in {"Join", "Move", "End"} \cup UndoKinds
  BY DEF Requests, UndoKinds
<1> QED  BY <1>1, <1>2, <1>3, <1>4, <1>5

LEMMA StepRefines ==
    ASSUME Inv, [Next]_vars
    PROVE  [Atomic!Next]_(Atomic!vars)
<1>1. ASSUME NEW h \in Handlers, ExecCommits(h)
      PROVE  Atomic!Next
  <2>1. view[h] = game /\ request[h] \in Requests
    BY <1>1 DEF Inv, HandlersOK, CleanViewIsCurrent, ExecCommits
  <2>2. Atomic!Handle(request[h])
    BY <1>1, <2>1, SameUpdated DEF ExecCommits, Atomic!Handle
  <2> QED  BY <2>1, <2>2, HandleIsNext
<1>2. ASSUME NEW h \in Handlers, UpdateChessStateTxn(h), ~ExecCommits(h)
      PROVE  UNCHANGED Atomic!vars
  BY <1>2 DEF UpdateChessStateTxn, Watch, GetChessState, ExecRefused, ExhaustRetries, Atomic!vars
<1>3. ASSUME NEW h \in Handlers, Crash(h)
      PROVE  UNCHANGED Atomic!vars
  BY <1>3 DEF Crash, Atomic!vars
<1>4. ASSUME NEW h \in Handlers, NEW r \in Inputs, HandleGameMessage(h, r)
      PROVE  UNCHANGED Atomic!vars
  BY <1>4 DEF HandleGameMessage, Atomic!vars
<1>5. CASE TryExpireTimers
  BY <1>5 DEF TryExpireTimers, Atomic!Next
<1>6. CASE UNCHANGED vars
  BY <1>6 DEF vars, Atomic!vars
<1> QED  BY <1>1, <1>2, <1>3, <1>4, <1>5, <1>6 DEF Next

(***************************************************************************)
(* No lost update: the transactions implement the atomic operations.       *)
(***************************************************************************)
THEOREM TransactionsAreAtomic == Spec => NoLostUpdate
<1>1. Init => Atomic!Init
  BY DEF Init
<1> QED  BY <1>1, SpecInv, StepRefines, PTL DEF Spec, NoLostUpdate, Atomic!Spec

-----------------------------------------------------------------------------
(* What is proved of one game holds of the game in Redis: an instance of the *)
(* proofs of ChessGame, whose specification is that of the refinement.       *)

Game == INSTANCE ChessGame_proofs WITH
    game <- game, timer <- timer, metadata <- metadata, finishGame <- finishGame

LEMMA GameInit == Atomic!Init => Game!Init
BY DEF Atomic!Init, Atomic!NewChessState, Atomic!Seating, Atomic!Colors, Atomic!Boards,
       Game!Init, Game!NewChessState, Game!Seating, Game!Colors, Game!Boards

LEMMA GameHandle ==
    ASSUME NEW r, Atomic!Handle(r)
    PROVE  Game!Handle(r)
<1>1. \A g : Game!Updated(g, r) = Atomic!Updated(g, r)
  BY DEF Game!Updated, Game!Joined, Game!Moved, Game!UndoCreated,
         Game!UndoAccepted, Game!UndoRejected, Game!Ended, Game!Sit,
         Game!SeatsOnOffer, Game!Seated, Game!HasBothPlayers, Game!IsEnded,
         Game!IsWhiteTurn, Game!CurrPlayer, Game!SerializeHistMove,
         Game!NewMove, Game!RedoMove, Game!JumpMoveIndex,
         Atomic!Updated, Atomic!Joined, Atomic!Moved, Atomic!UndoCreated,
         Atomic!UndoAccepted, Atomic!UndoRejected, Atomic!Ended, Atomic!Sit,
         Atomic!SeatsOnOffer, Atomic!Seated, Atomic!HasBothPlayers, Atomic!IsEnded,
         Atomic!IsWhiteTurn, Atomic!CurrPlayer, Atomic!SerializeHistMove,
         Atomic!NewMove, Atomic!RedoMove, Atomic!JumpMoveIndex
<1>2. \A g : Game!FinishEvents(r, g) = Atomic!FinishEvents(r, g)
  BY DEF Game!FinishEvents, Game!FinishEvent, Game!IsEnded, Game!HasBothPlayers,
         Game!IsWhiteTurn, Atomic!FinishEvents, Atomic!FinishEvent, Atomic!IsEnded,
         Atomic!HasBothPlayers, Atomic!IsWhiteTurn
<1>3. \A g : Game!MetadataEvents(r, g) = Atomic!MetadataEvents(r, g)
  BY DEF Game!MetadataEvents, Game!Seating, Atomic!MetadataEvents, Atomic!Seating
<1> QED  BY <1>1, <1>2, <1>3 DEF Atomic!Handle, Atomic!Committed, Game!Handle, Game!Committed

LEMMA GameStep == [Atomic!Next]_(Atomic!vars) => [Game!Next]_(Game!vars)
<1>1. Atomic!vars = Game!vars /\ (Atomic!vars)' = (Game!vars)'
  BY DEF Atomic!vars, Game!vars
<1>2. /\ Atomic!Callers = Game!Callers
      /\ Atomic!MoveKinds = Game!MoveKinds
      /\ Atomic!UndoKinds = Game!UndoKinds
  BY DEF Atomic!Callers, Atomic!MoveKinds, Atomic!UndoKinds,
         Game!Callers, Game!MoveKinds, Game!UndoKinds
<1>3. ASSUME NEW p, Atomic!JoinGame(p) PROVE Game!JoinGame(p)
  BY <1>3, GameHandle DEF Atomic!JoinGame, Game!JoinGame
<1>4. ASSUME NEW p, NEW m, Atomic!MakeGameMove(p, m) PROVE Game!MakeGameMove(p, m)
  BY <1>4, GameHandle DEF Atomic!MakeGameMove, Game!MakeGameMove
<1>5. ASSUME NEW p, NEW kind, Atomic!AttemptGameUndo(p, kind) PROVE Game!AttemptGameUndo(p, kind)
  BY <1>5, GameHandle DEF Atomic!AttemptGameUndo, Game!AttemptGameUndo
<1>6. ASSUME NEW p, Atomic!EndGame(p) PROVE Game!EndGame(p)
  BY <1>6, GameHandle DEF Atomic!EndGame, Game!EndGame
<1>7. Atomic!TryExpireTimers => Game!TryExpireTimers
  BY DEF Atomic!TryExpireTimers, Atomic!TimeoutEvent, Game!TryExpireTimers, Game!TimeoutEvent
<1>8. Atomic!Next => Game!Next
  BY <1>2, <1>3, <1>4, <1>5, <1>6, <1>7 DEF Atomic!Next, Game!Next
<1> QED  BY <1>1, <1>8

LEMMA GameSpec == Spec => Game!Spec
<1>1. Init => Game!Init
  BY GameInit DEF Init
<1>2. Inv /\ [Next]_vars => [Game!Next]_(Game!vars)
  BY StepRefines, GameStep
<1> QED  BY <1>1, <1>2, SpecInv, PTL DEF Spec, Game!Spec

(***************************************************************************)
(* Handlers and the keys they share keep their types: what a handler has   *)
(* read is always a game.                                                  *)
(***************************************************************************)
THEOREM TypeCorrect == Spec => []TypeOK
<1> DEFINE V == view \in [Handlers -> Games \cup {NoView}]
<1>1. Game!TypeOK => Atomic!TypeOK /\ game \in Games
  BY DEF Games, Boards, Callers, Colors, EndKinds, HistMoves, Effects,
         Game!TypeOK, Game!Games, Game!Boards, Game!Callers, Game!Colors, Game!EndKinds,
         Game!HistMoves, Game!Effects, Game!GameplayEvents, Game!Causes, Game!Results,
         Game!TimeoutEvent,
         Atomic!TypeOK, Atomic!Games, Atomic!Boards, Atomic!Callers, Atomic!Colors,
         Atomic!EndKinds, Atomic!HistMoves, Atomic!Effects, Atomic!GameplayEvents,
         Atomic!Causes, Atomic!Results, Atomic!TimeoutEvent
<1>2. Init => V
  BY DEF Init
<1>3. game \in Games /\ V /\ [Next]_vars => V'
  <2> SUFFICES ASSUME game \in Games, V, [Next]_vars PROVE V'
    OBVIOUS
  <2>1. ASSUME NEW h \in Handlers, Return(h) PROVE V'
    BY <2>1 DEF Return
  <2>2. ASSUME NEW h \in Handlers, UpdateChessStateTxn(h) PROVE V'
    BY <2>1, <2>2 DEF UpdateChessStateTxn, Watch, GetChessState, ExecCommits, ExecRefused,
                      ExhaustRetries
  <2>3. ASSUME NEW h \in Handlers, Crash(h) PROVE V'
    BY <2>1, <2>3 DEF Crash
  <2>4. ASSUME NEW h \in Handlers, NEW r \in Inputs, HandleGameMessage(h, r) PROVE V'
    BY <2>4 DEF HandleGameMessage
  <2>5. CASE TryExpireTimers
    BY <2>5 DEF TryExpireTimers
  <2>6. CASE UNCHANGED vars
    BY <2>6 DEF vars
  <2> QED  BY <2>2, <2>3, <2>4, <2>5, <2>6 DEF Next
<1>4. Spec => []Game!TypeOK
  BY GameSpec, Game!TypeCorrect, UsersAssumption, MaxMovesAssumption, PTL
<1>5. Inv /\ Atomic!TypeOK /\ V => TypeOK
  BY DEF Inv, HandlersOK, TypeOK
<1> HIDE DEF V
<1> QED  BY <1>1, <1>2, <1>3, <1>4, <1>5, SpecInv, PTL DEF Spec

(***************************************************************************)
(* However the transactions of the handlers interleave, are refused or     *)
(* abandoned, a game publishes one result, of the players seated, its      *)
(* board follows its moves, and what is settled stays settled.             *)
(***************************************************************************)
THEOREM GameKeepsItsPromises ==
    Spec => /\ [](Game!OneResult /\ Game!ResultNamesSeats /\ Game!BoardFollowsMoves)
            /\ Game!NoStaleUndo
            /\ Game!Settled
<1>1. Game!Spec => []Game!OneResult
  BY Game!PublishesOneResult, UsersAssumption, MaxMovesAssumption, PTL
<1>2. Game!Spec => []Game!ResultNamesSeats
  BY Game!ResultIsOfSeats, UsersAssumption, MaxMovesAssumption, PTL
<1>3. Game!Spec => []Game!BoardFollowsMoves
  BY Game!BoardIsOfItsMoves, UsersAssumption, MaxMovesAssumption, PTL
<1>4. Game!Spec => Game!NoStaleUndo
  BY Game!UndoIsFresh, UsersAssumption, MaxMovesAssumption, PTL
<1>5. Game!Spec => Game!Settled
  BY Game!StaysSettled, UsersAssumption, MaxMovesAssumption, PTL
<1> QED  BY <1>1, <1>2, <1>3, <1>4, <1>5, GameSpec, PTL
=============================================================================
