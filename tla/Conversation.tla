---------------------------- MODULE Conversation ----------------------------
(***************************************************************************)
(* What a session promises, seen from the device and from the language     *)
(* model: one conversation that listens, answers and speaks one turn at a  *)
(* time.  The states are those of src/internal/session/state.go; turn is   *)
(* the answer generation, which only listen.start and abort raise;         *)
(* committed lists the turns that entered the history.                     *)
(***************************************************************************)
EXTENDS Naturals, Sequences

CONSTANT HistoryTurns          (* how many turns the history keeps           *)

VARIABLES phase, turn, committed

vars == <<phase, turn, committed>>

Init == phase = "Connected" /\ turn = 0 /\ committed = << >>

Hello == /\ phase = "Connected" /\ phase' = "Ready"
         /\ UNCHANGED <<turn, committed>>

Begin == /\ phase = "Ready" /\ phase' = "Listening"
         /\ turn' = turn + 1
         /\ UNCHANGED committed

(* A final text was recognised, or nothing was said.                         *)
Hear == /\ phase = "Listening" /\ phase' \in {"Processing", "Ready"}
        /\ UNCHANGED <<turn, committed>>

Speak == /\ phase = "Processing" /\ phase' = "Speaking"
         /\ UNCHANGED <<turn, committed>>

(* Only a spoken turn is committed; the oldest turn then makes room.         *)
Complete ==
  /\ phase \in {"Processing", "Speaking"} /\ phase' = "Ready"
  /\ UNCHANGED turn
  /\ \/ UNCHANGED committed
     \/ /\ phase = "Speaking"
        /\ committed' = IF Len(committed) < HistoryTurns
                        THEN Append(committed, turn)
                        ELSE Append(Tail(committed), turn)

(* An abort may come at any time after the hello, and makes turn stale.      *)
Abort == /\ phase \notin {"Connected", "Closed"} /\ phase' = "Ready"
         /\ turn' = turn + 1
         /\ UNCHANGED committed

Close == /\ phase # "Closed" /\ phase' = "Closed"
         /\ committed' = << >>
         /\ UNCHANGED turn

Next == Hello \/ Begin \/ Hear \/ Speak \/ Complete \/ Abort \/ Close

Spec == Init /\ [][Next]_vars
=============================================================================
