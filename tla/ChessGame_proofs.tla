--------------------------- MODULE ChessGame_proofs ---------------------------
(***************************************************************************)
(* Proofs that the operations of a game keep its type, publish one result  *)
(* and settle what they promise, for any users and any length of a game.   *)
(***************************************************************************)
EXTENDS ChessGame, SequenceTheorems, TLAPS

LEMMA RedoMoveType ==
    ASSUME NEW h \in HistMoves
    PROVE  RedoMove(h) \in Effects
BY DEF RedoMove, HistMoves, Effects

LEMMA SeatsOnOfferType ==
    ASSUME NEW g \in Games
    PROVE  SeatsOnOffer(g) \subseteq {"White", "Black"}
BY DEF SeatsOnOffer, Games, Colors

LEMMA SitType ==
    ASSUME NEW g \in Games, NEW p \in Callers, NEW color
    PROVE  Sit(g, p, color) \in Games
BY DEF Sit, Games

LEMMA JoinedType ==
    ASSUME NEW g \in Games, NEW p \in Callers, NEW h \in Joined(g, p)
    PROVE  h \in Games
BY SitType DEF Joined

LEMMA MovedType ==
    ASSUME NEW g \in Games, NEW p \in Callers, NEW m \in MoveKinds, NEW h \in Moved(g, p, m)
    PROVE  h \in Games
<1>1. SerializeHistMove(m) \in HistMoves /\ NewMove(m) \in Effects
  BY DEF MoveKinds, SerializeHistMove, HistMoves, NewMove, Effects
<1>2. Append(g.moves, SerializeHistMove(m)) \in Seq(HistMoves)
  BY <1>1, AppendProperties DEF Games
<1>3. Append(g.board, NewMove(m)) \in Seq(Effects)
  BY <1>1, AppendProperties DEF Games
<1> QED  BY <1>2, <1>3 DEF Moved, Games, Callers, EndKinds

LEMMA JumpMoveIndexType ==
    ASSUME NEW s \in Seq(HistMoves), NEW n \in 0 .. Len(s)
    PROVE  /\ JumpMoveIndex(s, n) \in Seq(Effects)
           /\ Len(JumpMoveIndex(s, n)) = n
<1>1. \A i \in 1 .. n : s[i] \in HistMoves
  OBVIOUS
<1>2. \A i \in 1 .. n : RedoMove(s[i]) \in Effects
  BY <1>1, RedoMoveType
<1>3. JumpMoveIndex(s, n) \in [1 .. n -> Effects]
  BY <1>2 DEF JumpMoveIndex
<1> QED  BY <1>3

LEMMA UndoAcceptedType ==
    ASSUME NEW g \in Games, NEW p \in Callers, NEW h \in UndoAccepted(g, p)
    PROVE  h \in Games
<1>1. g.moves # <<>> /\ g.moves \in Seq(HistMoves)
  BY DEF UndoAccepted, Games
<1>2. Len(g.moves) - 1 \in 0 .. Len(g.moves)
  BY <1>1, EmptySeq
<1>3. JumpMoveIndex(g.moves, Len(g.moves) - 1) \in Seq(Effects)
  BY <1>1, <1>2, JumpMoveIndexType
<1>4. SubSeq(g.moves, 1, Len(g.moves) - 1) \in Seq(HistMoves)
  BY <1>1, <1>2, SubSeqProperties
<1> QED  BY <1>3, <1>4 DEF UndoAccepted, Games, Callers

-----------------------------------------------------------------------------
(* What one operation may change of a game.                                  *)

SeatsDiffer(g) == g.white = g.black => g.white = NoPlayer

KeepsSettled(g, h) ==
    /\ g.white # NoPlayer => h.white = g.white
    /\ g.black # NoPlayer => h.black = g.black
    /\ IsEnded(g) => h.end = g.end /\ Len(h.moves) <= Len(g.moves)

Silent(g, r, h) ==
    /\ FinishEvents(r, h) = <<>>
    /\ h.end = "Finished" <=> g.end = "Finished"

Finishing(g, r, h) ==
    /\ ~IsEnded(g)
    /\ h.end = "Finished"
    /\ HasBothPlayers(h)
    /\ \E e \in GameplayEvents :
          FinishEvents(r, h) = <<e>> /\ e.white = h.white /\ e.black = h.black

Good(g, r, h) ==
    /\ h \in Games
    /\ SeatsDiffer(h)
    /\ KeepsSettled(g, h)
    /\ h.board # g.board => h.undo = NoPlayer
    /\ Silent(g, r, h) \/ Finishing(g, r, h)

LEMMA FinishEventType ==
    ASSUME NEW g \in Games, NEW cause \in Causes \ {"Timeout"}, NEW result \in Results
    PROVE  FinishEvent(g, cause, result) \in GameplayEvents
BY DEF FinishEvent, GameplayEvents, Games, Boards

LEMMA JoinedGood ==
    ASSUME NEW g \in Games, SeatsDiffer(g), NEW r \in Requests, r.op = "Join",
           NEW h \in Joined(g, r.user)
    PROVE  Good(g, r, h)
<1>0. r.user \in Callers
  BY DEF Requests
<1>1. h \in Games
  BY <1>0, JoinedType
<1>2. FinishEvents(r, h) = <<>>
  BY DEF FinishEvents
<1>3. CASE h = g
  BY <1>1, <1>2, <1>3 DEF Good, Silent, KeepsSettled, Games
<1>4. CASE h # g
  <2>1. PICK color \in SeatsOnOffer(g) : h = Sit(g, r.user, color)
    BY <1>4 DEF Joined
  <2>2. r.user # NoPlayer /\ r.user \notin Seated(g) /\ ~HasBothPlayers(g)
    BY <1>4 DEF Joined
  <2>3. /\ h.end = g.end /\ h.moves = g.moves /\ h.board = g.board
        /\ color = "White" => h.white = r.user /\ h.black = g.black
        /\ color # "White" => h.black = r.user /\ h.white = g.white
    BY <2>1 DEF Sit, Games
  <2>4. color = "White" => g.white = NoPlayer
    BY <2>2 DEF SeatsOnOffer, Seated, HasBothPlayers
  <2>5. color # "White" => g.black = NoPlayer
    BY <2>2 DEF SeatsOnOffer, Seated, HasBothPlayers
  <2>6. SeatsDiffer(h)
    BY <2>2, <2>3 DEF SeatsDiffer, Seated
  <2>7. KeepsSettled(g, h)
    BY <2>3, <2>4, <2>5 DEF KeepsSettled, IsEnded, Games
  <2> QED  BY <1>1, <1>2, <2>3, <2>6, <2>7 DEF Good, Silent
<1> QED  BY <1>3, <1>4

LEMMA MovedGood ==
    ASSUME NEW g \in Games, SeatsDiffer(g), NEW r \in Requests, r.op = "Move",
           NEW h \in Moved(g, r.user, r.move)
    PROVE  Good(g, r, h)
<1>0. r.user \in Callers /\ r.move \in MoveKinds
  BY DEF Requests
<1>1. h \in Games
  BY <1>0, MovedType
<1>2. /\ HasBothPlayers(g) /\ ~IsEnded(g)
      /\ h.white = g.white /\ h.black = g.black /\ h.undo = NoPlayer
      /\ h.end = IF r.move = "Mating" THEN "Finished" ELSE g.end
  BY DEF Moved, Games
<1>3. SeatsDiffer(h) /\ KeepsSettled(g, h) /\ HasBothPlayers(h)
  BY <1>2 DEF SeatsDiffer, KeepsSettled, HasBothPlayers
<1>4. CASE r.move = "Mating"
  <2>1. h.end = "Finished" /\ IsEnded(h)
    BY <1>2, <1>4 DEF IsEnded
  <2> DEFINE e == FinishEvent(h, "Checkmate", IF IsWhiteTurn(h) THEN "BlackWin" ELSE "WhiteWin")
  <2>2. e \in GameplayEvents
    BY <1>1, FinishEventType DEF Causes, Results
  <2>3. e.white = h.white /\ e.black = h.black
    BY DEF FinishEvent
  <2>4. FinishEvents(r, h) = <<e>>
    BY <1>3, <2>1 DEF FinishEvents
  <2>5. Finishing(g, r, h)
    BY <1>2, <1>3, <2>1, <2>2, <2>3, <2>4 DEF Finishing
  <2> QED  BY <1>1, <1>2, <1>3, <2>5 DEF Good
<1>5. CASE r.move # "Mating"
  <2>1. h.end = g.end /\ ~IsEnded(h)
    BY <1>2, <1>5 DEF IsEnded
  <2>2. FinishEvents(r, h) = <<>>
    BY <2>1 DEF FinishEvents
  <2> QED  BY <1>1, <1>2, <1>3, <2>1, <2>2 DEF Good, Silent
<1> QED  BY <1>4, <1>5

LEMMA EndedGood ==
    ASSUME NEW g \in Games, SeatsDiffer(g), NEW r \in Requests, r.op = "End",
           NEW h \in Ended(g, r.user)
    PROVE  Good(g, r, h)
<1>1. /\ h \in Games /\ ~IsEnded(g)
      /\ h.white = g.white /\ h.black = g.black /\ h.board = g.board
      /\ h.end = IF HasBothPlayers(g) THEN "Finished" ELSE "Aborted"
  BY DEF Ended, Games, EndKinds
<1>2. SeatsDiffer(h) /\ KeepsSettled(g, h) /\ (HasBothPlayers(h) <=> HasBothPlayers(g))
  BY <1>1 DEF SeatsDiffer, KeepsSettled, HasBothPlayers
<1>3. CASE HasBothPlayers(h)
  <2> DEFINE e == FinishEvent(h, "Forfeit", IF h.black = r.user THEN "WhiteWin" ELSE "BlackWin")
  <2>1. e \in GameplayEvents
    BY <1>1, FinishEventType DEF Causes, Results
  <2>2. e.white = h.white /\ e.black = h.black
    BY DEF FinishEvent
  <2>3. FinishEvents(r, h) = <<e>>
    BY <1>3 DEF FinishEvents
  <2>4. Finishing(g, r, h)
    BY <1>1, <1>2, <1>3, <2>1, <2>2, <2>3 DEF Finishing
  <2> QED  BY <1>1, <1>2, <2>4 DEF Good
<1>4. CASE ~HasBothPlayers(h)
  <2>1. FinishEvents(r, h) = <<>>
    BY <1>4 DEF FinishEvents
  <2>2. h.end # "Finished" /\ g.end # "Finished"
    BY <1>1, <1>2, <1>4 DEF IsEnded
  <2> QED  BY <1>1, <1>2, <2>1, <2>2 DEF Good, Silent
<1> QED  BY <1>3, <1>4

LEMMA UndoGood ==
    ASSUME NEW g \in Games, SeatsDiffer(g), NEW r \in Requests,
           r.op \in {"Create", "Accept", "Reject"}, NEW h \in Updated(g, r)
    PROVE  Good(g, r, h)
<1>0. r.user \in Callers
  BY DEF Requests
<1>1. FinishEvents(r, h) = <<>>
  BY DEF FinishEvents
<1>2. CASE r.op = "Create"
  <2>1. h = [g EXCEPT !.undo = r.user]
    BY <1>2 DEF Updated, UndoCreated
  <2>2. /\ h \in Games /\ h.white = g.white /\ h.black = g.black /\ h.end = g.end
        /\ h.board = g.board /\ h.moves = g.moves
    BY <1>0, <2>1 DEF Games
  <2> QED  BY <1>1, <2>2 DEF Good, Silent, SeatsDiffer, KeepsSettled, Games
<1>3. CASE r.op = "Accept"
  <2>1. h \in UndoAccepted(g, r.user)
    BY <1>3 DEF Updated
  <2>2. h \in Games
    BY <1>0, <2>1, UndoAcceptedType
  <2>3. /\ g.moves # <<>> /\ h.white = g.white /\ h.black = g.black /\ h.end = g.end
        /\ h.undo = NoPlayer /\ h.moves = SubSeq(g.moves, 1, Len(g.moves) - 1)
    BY <2>1 DEF UndoAccepted, Games
  <2>4. Len(h.moves) <= Len(g.moves)
    <3>1. g.moves \in Seq(HistMoves) /\ Len(g.moves) \in Nat
      BY DEF Games
    <3>2. Len(g.moves) # 0
      BY <2>3, <3>1, EmptySeq
    <3>3. Len(h.moves) = Len(g.moves) - 1
      BY <2>3, <3>1, <3>2, SubSeqProperties
    <3> QED  BY <3>1, <3>3
  <2> QED  BY <1>1, <2>2, <2>3, <2>4 DEF Good, Silent, SeatsDiffer, KeepsSettled
<1>4. CASE r.op = "Reject"
  <2>1. h = [g EXCEPT !.undo = NoPlayer]
    BY <1>4 DEF Updated, UndoRejected
  <2>2. /\ h \in Games /\ h.white = g.white /\ h.black = g.black /\ h.end = g.end
        /\ h.board = g.board /\ h.moves = g.moves
    BY <2>1 DEF Games, Callers
  <2> QED  BY <1>1, <2>2 DEF Good, Silent, SeatsDiffer, KeepsSettled, Games
<1> QED  BY <1>2, <1>3, <1>4

LEMMA UpdatedGood ==
    ASSUME NEW g \in Games, SeatsDiffer(g), NEW r \in Requests, NEW h \in Updated(g, r)
    PROVE  Good(g, r, h)
<1>1. r.op \in {"Join", "End", "Create", "Accept", "Reject", "Move"}
  BY DEF Requests
<1>2. CASE r.op = "Join"
  BY <1>2, JoinedGood DEF Updated
<1>3. CASE r.op = "Move"
  BY <1>3, MovedGood DEF Updated
<1>4. CASE r.op = "End"
  BY <1>4, EndedGood DEF Updated
<1>5. CASE r.op \in {"Create", "Accept", "Reject"}
  BY <1>5, UndoGood
<1> QED  BY <1>1, <1>2, <1>3, <1>4, <1>5

-----------------------------------------------------------------------------
(* The inductive invariant: OneResult alone says nothing of the seats a      *)
(* later join could change, and ResultNamesSeats needs them to differ.       *)

Inv == TypeOK /\ SeatsDiffer(game) /\ OneResult /\ ResultNamesSeats

LEMMA InitInv == Init => Inv
<1> SUFFICES ASSUME Init PROVE Inv
  OBVIOUS
<1>1. PICK w \in Callers, b \in Callers, color \in Colors, start \in Boards :
         game = NewChessState(w, b, color, start) /\ (w = b => w = NoPlayer)
  BY DEF Init, Callers
<1>2. game \in Games /\ SeatsDiffer(game) /\ game.end = "NotEnded"
  BY <1>1 DEF NewChessState, Games, SeatsDiffer, Callers, EndKinds
<1>3. finishGame = <<>> /\ DOMAIN finishGame = {}
  BY DEF Init
<1>4. TypeOK
  BY <1>2, <1>3 DEF Init, TypeOK, Seating, Games
<1> QED  BY <1>2, <1>3, <1>4 DEF Inv, OneResult, ResultNamesSeats, IsResult

\* A request that is handled keeps the invariant, whatever it is.
LEMMA HandleInv ==
    ASSUME Inv, NEW r \in Requests, Handle(r)
    PROVE  Inv'
<1>1. PICK g \in Updated(game, r) : Committed(r, g)
  BY DEF Handle
<1>2. Good(game, r, g) /\ game \in Games
  BY UpdatedGood DEF Inv, TypeOK
<1>3. game' = g /\ g \in Games /\ SeatsDiffer(game')
  BY <1>1, <1>2 DEF Good, Committed
<1>4. timer' \in BOOLEAN
  BY <1>1 DEF Committed
<1>5. metadata' \subseteq [white : Callers, black : Callers]
  BY <1>1, <1>3 DEF Committed, MetadataEvents, Seating, Games, Inv, TypeOK
<1> DEFINE S == GameplayEvents \cup {TimeoutEvent}
<1>6. finishGame \in Seq(S)
  BY DEF Inv, TypeOK
<1>7. finishGame' = finishGame \o FinishEvents(r, g)
  BY <1>1 DEF Committed
<1>8. CASE Silent(game, r, g)
  <2>1. finishGame' = finishGame
    BY <1>6, <1>7, <1>8, ConcatEmptySeq DEF Silent
  <2>2. TypeOK'
    BY <1>3, <1>4, <1>5, <1>6, <2>1 DEF TypeOK
  <2>3. OneResult'
    BY <1>3, <1>8, <2>1 DEF Inv, OneResult, IsResult, Silent
  <2>4. ASSUME NEW i \in DOMAIN finishGame, IsResult(i)
        PROVE  game'.white = game.white /\ game'.black = game.black
    <3>1. game.white = finishGame[i].white /\ game.black = finishGame[i].black
      BY <2>4 DEF Inv, ResultNamesSeats
    <3>2. game.white # game.black /\ Seated(game) = {game.white, game.black}
      BY <2>4 DEF Inv, ResultNamesSeats
    <3>3. game.white # NoPlayer /\ game.black # NoPlayer
      BY <3>2 DEF Seated
    <3> QED  BY <1>2, <1>3, <3>3 DEF Good, KeepsSettled
  <2>5. ResultNamesSeats'
    BY <2>1, <2>4 DEF Inv, ResultNamesSeats, IsResult, Seated
  <2> QED  BY <1>3, <2>2, <2>3, <2>5 DEF Inv
<1>9. CASE Finishing(game, r, g)
  <2>1. PICK e \in GameplayEvents :
           FinishEvents(r, g) = <<e>> /\ e.white = g.white /\ e.black = g.black
    BY <1>9 DEF Finishing
  <2> DEFINE n == Len(finishGame)
  <2>2. /\ finishGame' \in Seq(S)
        /\ n \in Nat /\ DOMAIN finishGame = 1 .. n
        /\ DOMAIN finishGame' = 1 .. (n + 1)
        /\ \A i \in 1 .. n : finishGame'[i] = finishGame[i]
        /\ finishGame'[n + 1] = e
    <3>1. <<e>> \in Seq(S) /\ Len(<<e>>) = 1 /\ <<e>>[1] = e
      OBVIOUS
    <3>2. finishGame' = finishGame \o <<e>>
      BY <1>7, <2>1
    <3> HIDE DEF S
    <3> QED  BY <1>6, <3>1, <3>2, ConcatProperties
  <2>3. \A i \in DOMAIN finishGame : ~IsResult(i)
    BY <1>9 DEF Finishing, IsEnded, Inv, OneResult
  <2>4. \A i \in DOMAIN finishGame' : IsResult(i)' => i = n + 1
    BY <2>2, <2>3 DEF IsResult
  <2>5. e.cause # "Timeout"
    BY DEF GameplayEvents
  <2>6. \E i \in DOMAIN finishGame' : IsResult(i)'
    BY <2>2, <2>5 DEF IsResult
  <2>7. OneResult'
    BY <1>3, <1>9, <2>4, <2>6 DEF OneResult, Finishing, IsResult
  <2>8. g.white # g.black /\ Seated(g) = {g.white, g.black}
    BY <1>3, <1>9 DEF Finishing, HasBothPlayers, SeatsDiffer, Seated
  <2>9. ResultNamesSeats'
    BY <1>3, <2>1, <2>2, <2>4, <2>8 DEF ResultNamesSeats, Seated
  <2>10. TypeOK'
    BY <1>3, <1>4, <1>5, <2>2 DEF TypeOK
  <2> QED  BY <1>3, <2>7, <2>9, <2>10 DEF Inv
<1> QED  BY <1>2, <1>8, <1>9 DEF Good

LEMMA TimerInv ==
    ASSUME Inv, TryExpireTimers
    PROVE  Inv'
<1> DEFINE S == GameplayEvents \cup {TimeoutEvent}
           n == Len(finishGame)
<1>1. finishGame \in Seq(S) /\ TimeoutEvent \in S
  BY DEF Inv, TypeOK
<1>2. /\ finishGame' \in Seq(S)
      /\ n \in Nat /\ DOMAIN finishGame = 1 .. n
      /\ DOMAIN finishGame' = 1 .. (n + 1)
      /\ \A i \in 1 .. n : finishGame'[i] = finishGame[i]
      /\ finishGame'[n + 1] = TimeoutEvent
  <2>1. finishGame' = Append(finishGame, TimeoutEvent)
    BY DEF TryExpireTimers
  <2> HIDE DEF S
  <2> QED  BY <1>1, <2>1, AppendProperties
<1>3. \A i \in DOMAIN finishGame' : IsResult(i)' <=> i \in DOMAIN finishGame /\ IsResult(i)
  BY <1>2 DEF IsResult, TimeoutEvent
<1>4. \A i \in DOMAIN finishGame : i \in DOMAIN finishGame'
  BY <1>2
<1>5. TypeOK'
  BY <1>2 DEF Inv, TypeOK, TryExpireTimers
<1>6. game' = game
  BY DEF TryExpireTimers
<1>7. OneResult'
  BY <1>3, <1>4, <1>6 DEF Inv, OneResult
<1>8. \A i \in DOMAIN finishGame : finishGame'[i] = finishGame[i]
  BY <1>2
<1>9. ResultNamesSeats'
  BY <1>3, <1>6, <1>8 DEF Inv, ResultNamesSeats, Seated
<1> QED  BY <1>5, <1>6, <1>7, <1>9 DEF Inv

\* Every step of the game is a handled request, an expired timer or a stutter.
LEMMA StepCases ==
    ASSUME [Next]_vars
    PROVE  (\E r \in Requests : Handle(r)) \/ TryExpireTimers \/ UNCHANGED vars
<1>1. ASSUME NEW p \in Callers, JoinGame(p)
      PROVE  \E r \in Requests : Handle(r)
  BY <1>1 DEF JoinGame, Requests
<1>2. ASSUME NEW p \in Callers, NEW m \in MoveKinds, MakeGameMove(p, m)
      PROVE  \E r \in Requests : Handle(r)
  BY <1>2 DEF MakeGameMove, Requests
<1>3. ASSUME NEW p \in Callers, NEW kind \in UndoKinds, AttemptGameUndo(p, kind)
      PROVE  \E r \in Requests : Handle(r)
  BY <1>3 DEF AttemptGameUndo, Requests, UndoKinds
<1>4. ASSUME NEW p \in Callers, EndGame(p)
      PROVE  \E r \in Requests : Handle(r)
  BY <1>4 DEF EndGame, Requests
<1> QED  BY <1>1, <1>2, <1>3, <1>4 DEF Next

LEMMA NextInv == Inv /\ [Next]_vars => Inv'
<1> SUFFICES ASSUME Inv, [Next]_vars PROVE Inv'
  OBVIOUS
<1>1. CASE UNCHANGED vars
  BY <1>1 DEF vars, Inv, TypeOK, OneResult, ResultNamesSeats, IsResult, SeatsDiffer, Seated
<1> QED  BY <1>1, HandleInv, TimerInv, StepCases

LEMMA SpecInv == Spec => []Inv
BY InitInv, NextInv, PTL DEF Spec

(***************************************************************************)
(* The stored game and the keys written with it keep their types.          *)
(***************************************************************************)
THEOREM TypeCorrect == Spec => []TypeOK
<1>1. Inv => TypeOK
  BY DEF Inv
<1> QED  BY <1>1, SpecInv, PTL

(***************************************************************************)
(* A game publishes at most one result, and does when it is Finished.      *)
(***************************************************************************)
THEOREM PublishesOneResult == Spec => []OneResult
<1>1. Inv => OneResult
  BY DEF Inv
<1> QED  BY <1>1, SpecInv, PTL

(***************************************************************************)
(* The result names the two different players who are still seated.        *)
(***************************************************************************)
THEOREM ResultIsOfSeats == Spec => []ResultNamesSeats
<1>1. Inv => ResultNamesSeats
  BY DEF Inv
<1> QED  BY <1>1, SpecInv, PTL

(***************************************************************************)
(* Seats, the end of a game and the moves of an ended game are settled.    *)
(***************************************************************************)
THEOREM StaysSettled == Spec => Settled
<1> DEFINE A == /\ game.white # NoPlayer => game'.white = game.white
                /\ game.black # NoPlayer => game'.black = game.black
                /\ IsEnded(game) => /\ game'.end = game.end
                                    /\ Len(game'.moves) <= Len(game.moves)
<1>1. ASSUME Inv, [Next]_vars PROVE [A]_vars
  <2>1. ASSUME NEW r \in Requests, Handle(r) PROVE A
    <3>1. PICK g \in Updated(game, r) : Committed(r, g)
      BY <2>1 DEF Handle
    <3>2. KeepsSettled(game, g) /\ game' = g
      BY <1>1, <3>1, UpdatedGood DEF Inv, TypeOK, Good, Committed
    <3> QED  BY <3>2 DEF KeepsSettled
  <2>2. ASSUME TryExpireTimers PROVE A
    <3>1. game' = game /\ game \in Games
      BY <1>1, <2>2 DEF TryExpireTimers, Inv, TypeOK
    <3> QED  BY <3>1 DEF Games
  <2> QED  BY <1>1, <2>1, <2>2, StepCases
<1> QED  BY <1>1, SpecInv, PTL DEF Spec, Settled

(***************************************************************************)
(* A pending undo outlives no change of the board.                         *)
(***************************************************************************)
THEOREM UndoIsFresh == Spec => NoStaleUndo
<1> DEFINE A == game'.board # game.board => game'.undo = NoPlayer
<1>1. ASSUME Inv, [Next]_vars PROVE [A]_vars
  <2>1. ASSUME NEW r \in Requests, Handle(r) PROVE A
    <3>1. PICK g \in Updated(game, r) : Committed(r, g)
      BY <2>1 DEF Handle
    <3> QED  BY <1>1, <3>1, UpdatedGood DEF Inv, TypeOK, Good, Committed
  <2>2. ASSUME TryExpireTimers PROVE A
    BY <2>2 DEF TryExpireTimers
  <2> QED  BY <1>1, <2>1, <2>2, StepCases
<1> QED  BY <1>1, SpecInv, PTL DEF Spec, NoStaleUndo

-----------------------------------------------------------------------------
(* The board and the moves.  Nothing else than the types is needed: a move   *)
(* adds to both, and an undo takes the last move away and builds the board   *)
(* anew from those that stay.                                                *)

Follows(g) ==
    /\ Len(g.board) = Len(g.moves)
    /\ \A i \in DOMAIN g.moves :
          \/ g.board[i] = RedoMove(g.moves[i])
          \/ g.board[i] = "Knight" /\ g.moves[i] = "Promotion"

LEMMA MovedFollows ==
    ASSUME NEW g \in Games, Follows(g), NEW p \in Callers, NEW m \in MoveKinds,
           NEW h \in Moved(g, p, m)
    PROVE  Follows(h)
<1>1. /\ h.moves = Append(g.moves, SerializeHistMove(m))
      /\ h.board = Append(g.board, NewMove(m))
  BY DEF Moved, Games
<1> DEFINE n == Len(g.moves)
<1>2. /\ g.moves \in Seq(HistMoves) /\ g.board \in Seq(Effects)
      /\ n \in Nat /\ Len(g.board) = n
  BY DEF Follows, Games
<1>3. SerializeHistMove(m) \in HistMoves /\ NewMove(m) \in Effects
  BY DEF MoveKinds, SerializeHistMove, HistMoves, NewMove, Effects
<1>4. /\ Len(h.moves) = n + 1 /\ DOMAIN h.moves = 1 .. (n + 1)
      /\ \A i \in 1 .. n : h.moves[i] = g.moves[i]
      /\ h.moves[n + 1] = SerializeHistMove(m)
  BY <1>1, <1>2, <1>3, AppendProperties
<1>5. /\ Len(h.board) = n + 1
      /\ \A i \in 1 .. n : h.board[i] = g.board[i]
      /\ h.board[n + 1] = NewMove(m)
  BY <1>1, <1>2, <1>3, AppendProperties
<1>6. \/ NewMove(m) = RedoMove(SerializeHistMove(m))
      \/ NewMove(m) = "Knight" /\ SerializeHistMove(m) = "Promotion"
  BY DEF MoveKinds, NewMove, RedoMove, SerializeHistMove
<1>7. DOMAIN g.moves = 1 .. n
  BY <1>2
<1>8. ASSUME NEW i \in DOMAIN h.moves
      PROVE  \/ h.board[i] = RedoMove(h.moves[i])
             \/ h.board[i] = "Knight" /\ h.moves[i] = "Promotion"
  <2>1. CASE i = n + 1
    BY <1>4, <1>5, <1>6, <2>1
  <2>2. CASE i # n + 1
    <3>1. i \in 1 .. n
      BY <1>2, <1>4, <2>2
    <3> QED  BY <1>4, <1>5, <1>7, <3>1 DEF Follows
  <2> QED  BY <2>1, <2>2
<1> QED  BY <1>4, <1>5, <1>8 DEF Follows

LEMMA UndoAcceptedFollows ==
    ASSUME NEW g \in Games, NEW p, NEW h \in UndoAccepted(g, p)
    PROVE  Follows(h)
<1> DEFINE n == Len(g.moves) - 1
<1>1. /\ g.moves # <<>> /\ g.moves \in Seq(HistMoves)
      /\ h.moves = SubSeq(g.moves, 1, n) /\ h.board = JumpMoveIndex(g.moves, n)
  BY DEF UndoAccepted, Games
<1>2. n \in Nat /\ n \in 0 .. Len(g.moves)
  BY <1>1, EmptySeq
<1>3. /\ Len(h.moves) = n /\ DOMAIN h.moves = 1 .. n
      /\ \A i \in 1 .. n : h.moves[i] = g.moves[i]
  BY <1>1, <1>2, SubSeqProperties
<1>4. Len(h.board) = n
  BY <1>1, <1>2, JumpMoveIndexType
<1>5. \A i \in 1 .. n : h.board[i] = RedoMove(g.moves[i])
  BY <1>1 DEF JumpMoveIndex
<1> QED  BY <1>3, <1>4, <1>5 DEF Follows

LEMMA UpdatedFollows ==
    ASSUME NEW g \in Games, Follows(g), NEW r \in Requests, NEW h \in Updated(g, r)
    PROVE  Follows(h)
<1>0. r.user \in Callers /\ (r.op = "Move" => r.move \in MoveKinds)
  BY DEF Requests
<1>1. CASE r.op = "Move"
  BY <1>0, <1>1, MovedFollows DEF Updated
<1>2. CASE r.op = "Accept"
  BY <1>2, UndoAcceptedFollows DEF Updated
<1>3. CASE r.op \in {"Join", "End", "Create", "Reject"}
  <2>1. h.moves = g.moves /\ h.board = g.board
    BY <1>3 DEF Updated, Joined, Sit, UndoCreated, UndoRejected, Ended, Games
  <2> QED  BY <2>1 DEF Follows
<1>4. r.op \in {"Join", "End", "Create", "Accept", "Reject", "Move"}
  BY DEF Requests
<1> QED  BY <1>1, <1>2, <1>3, <1>4

(***************************************************************************)
(* The board is the one the stored moves lead to, whatever is played and   *)
(* taken back, but for the piece a promotion chose.                        *)
(***************************************************************************)
THEOREM BoardIsOfItsMoves == Spec => []BoardFollowsMoves
<1> DEFINE I == Follows(game)
<1>1. Init => I
  <2> SUFFICES ASSUME Init PROVE I
    OBVIOUS
  <2>1. game.moves = <<>> /\ game.board = <<>>
    BY DEF Init, NewChessState
  <2> QED  BY <2>1 DEF Follows
<1>2. Inv /\ I /\ [Next]_vars => I'
  <2> SUFFICES ASSUME Inv, I, [Next]_vars PROVE I'
    OBVIOUS
  <2>1. ASSUME NEW r \in Requests, Handle(r) PROVE I'
    <3>1. PICK g \in Updated(game, r) : game' = g
      BY <2>1 DEF Handle, Committed
    <3>2. Follows(g)
      BY <3>1, UpdatedFollows DEF Inv, TypeOK
    <3> QED  BY <3>1, <3>2
  <2>2. CASE game' = game
    BY <2>2
  <2> QED  BY <2>1, <2>2, StepCases DEF TryExpireTimers, vars
<1>3. I <=> BoardFollowsMoves
  BY DEF Follows, BoardFollowsMoves
<1> HIDE DEF I
<1> QED  BY <1>1, <1>2, <1>3, SpecInv, PTL DEF Spec
=============================================================================
