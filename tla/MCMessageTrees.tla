---------------------------- MODULE MCMessageTrees ----------------------------
(***************************************************************************)
(* TLC instance of the turns of a chat: the trees they are claimed from,   *)
(* in which prompts are interchangeable, and what one turn shows its user. *)
(* A behaviour is one of the trees or one of a turn, the other rests in    *)
(* its initial state.                                                      *)
(***************************************************************************)
EXTENDS MessageTrees, NodeTurn, TLC

Symmetry == Permutations(Nodes)

\* The tools of a turn: two Tasks with ids, one without, and another tool.
Tool(id, name) == [id |-> id, name |-> name]
MCStreamed == {Tool("a", "Task"), Tool("x", "Read")}
MCGiven    == {Tool("b", "Task"), Tool("", "Task")}
MCSameId   == {{"a", "a-task"}}

VARIABLE part

TurnsInit == part \in {"trees", "turn"} /\ Init /\ TurnInit

TurnsNext ==
    /\ UNCHANGED part
    /\ \/ part = "trees" /\ Next /\ UNCHANGED turnVars
       \/ part = "turn" /\ TurnNext /\ UNCHANGED vars

TurnsSpec == TurnsInit /\ [][TurnsNext]_<< part, vars, turnVars >>
==============================================================================
