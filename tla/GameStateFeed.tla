---------------------------- MODULE GameStateFeed ----------------------------
(***************************************************************************)
(* What the broadcast of game states promises one player, whatever the     *)
(* network does: the game it is shown moves forward only, never ahead of   *)
(* the server's, and ends when, and as, the server's does.                 *)
(*                                                                         *)
(* ClientSync is the detailed specification, and implements this one.      *)
(***************************************************************************)
EXTENDS Naturals

CONSTANTS
  Winners,    \* the players who can win
  Undecided,  \* the result of a game that goes on
  Nothing     \* what a client shows that has not seen the game yet

VARIABLES
  tick,        \* the server's clock
  result,      \* who has won
  shownTick,   \* the client's clock
  shownResult  \* what the client shows of the result

feedVars == <<tick, result, shownTick, shownResult>>

FeedInit ==
  /\ tick = 0
  /\ result = Undecided
  /\ shownTick = 0
  /\ shownResult = Nothing

\* The game goes on.
Play ==
  /\ result = Undecided
  /\ tick' = tick + 1
  /\ UNCHANGED <<result, shownTick, shownResult>>

Win ==
  /\ result = Undecided
  /\ result' \in Winners
  /\ UNCHANGED <<tick, shownTick, shownResult>>

\* The client learns the server's clock.
Synchronise ==
  /\ shownResult = Nothing
  /\ shownTick' \in shownTick .. tick
  /\ UNCHANGED <<tick, result, shownResult>>

StartShowing ==
  /\ shownResult = Nothing
  /\ shownResult' = Undecided
  /\ UNCHANGED <<tick, result, shownTick>>

Follow ==
  /\ shownResult = Undecided
  /\ shownTick' \in shownTick .. tick
  /\ UNCHANGED <<tick, result, shownResult>>

ShowResult ==
  /\ shownResult = Undecided
  /\ result # Undecided
  /\ shownResult' = result
  /\ UNCHANGED <<tick, result, shownTick>>

FeedNext == Play \/ Win \/ Synchronise \/ StartShowing \/ Follow \/ ShowResult

FeedSafety == FeedInit /\ [][FeedNext]_feedVars

FeedSpec == FeedSafety /\ WF_feedVars(ShowResult)
=============================================================================
