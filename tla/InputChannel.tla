---------------------------- MODULE InputChannel ----------------------------
(***************************************************************************)
(* What a player's commands are promised on their way to the game: each    *)
(* press counts once, in the order of the presses, and none is left out as *)
(* long as the game goes on.                                               *)
(*                                                                         *)
(* PlayerInputs is the detailed specification, and implements this one.    *)
(***************************************************************************)
EXTENDS Naturals, Sequences, FiniteSets

CONSTANTS
  Commands,  \* sets of keys pressed together
  Keys,      \* the keys in them
  Period(_)  \* after so many presses a key is back where it was

VARIABLES
  pressed,  \* all commands given so far
  obeyed,   \* those of them the game has acted on
  setting,  \* what each key stands at
  status    \* of the game

channelVars == <<pressed, obeyed, setting, status>>

ChannelInit ==
  /\ pressed = <<>>
  /\ obeyed = <<>>
  /\ setting = [k \in Keys |-> 0]
  /\ status = "playing"

Press ==
  /\ \E c \in Commands : pressed' = Append(pressed, c)
  /\ UNCHANGED <<obeyed, setting, status>>

\* The game acts on the next few commands at once.
Obey ==
  /\ status = "playing"
  /\ \E n \in Len(obeyed) + 1 .. Len(pressed) : obeyed' = SubSeq(pressed, 1, n)
  /\ setting' = [k \in Keys |->
                   Cardinality({i \in DOMAIN obeyed' : k \in obeyed'[i]}) % Period(k)]
  /\ UNCHANGED <<pressed, status>>

End ==
  /\ status' = "game_over"
  /\ UNCHANGED <<pressed, obeyed, setting>>

ChannelSafety == ChannelInit /\ [][Press \/ Obey \/ End]_channelVars

ChannelSpec == ChannelSafety /\ WF_channelVars(Obey)
=============================================================================
