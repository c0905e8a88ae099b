--------------------------- MODULE AnthropicEvents ---------------------------
(***************************************************************************)
(* The events of an Anthropic stream, and what may follow what: the rules  *)
(* core/anthropic/stream_contracts.py asserts of a finished stream, stated *)
(* of every prefix of one.  A stream opens with message_start; a block     *)
(* index is started once and never reused; deltas go to an open block of   *)
(* their kind; message_stop comes when every block is closed and there was *)
(* one.                                                                    *)
(***************************************************************************)
EXTENDS Naturals, Sequences

CONSTANT BlockIndexes      \* the content block indexes a stream may use

ASSUME BlockIndexesAssumption == BlockIndexes \subseteq Nat \ {0}

\* Blocks that take deltas, and those that only start and stop.
DeltaKinds == {"text", "thinking", "tool_use"}
BlockKinds == DeltaKinds \cup {"redacted_thinking"}

MessageEvent(type) == [type |-> type, index |-> 0, kind |-> "none"]

BlockEvent(type, i, kind) == [type |-> type, index |-> i, kind |-> kind]

MessageEvents == {MessageEvent(type) :
                  type \in {"message_start", "message_delta", "message_stop"}}

BlockEvents == [type : {"start", "delta", "stop"}, index : BlockIndexes,
                kind : BlockKinds]

Unused == "unused"
Closed == "closed"

\* No event yet; a block is unused, open with its kind, or closed.
Nothing == [phase |-> "empty", block |-> [i \in BlockIndexes |-> Unused]]

Streams == [phase : {"empty", "started", "stopped"},
            block : [BlockIndexes -> {Unused, Closed} \cup BlockKinds]]

AllClosed(s) == \A i \in BlockIndexes : s.block[i] \in {Unused, Closed}

SomeBlock(s) == \E i \in BlockIndexes : s.block[i] # Unused

\* What may follow s.
AllowedAfter(s, e) ==
    /\ e.type = "message_start" <=> s.phase = "empty"
    /\ s.phase # "stopped"
    /\ e.type = "start" => s.block[e.index] = Unused
    /\ e.type = "delta" => s.block[e.index] = e.kind /\ e.kind \in DeltaKinds
    /\ e.type = "stop"  => s.block[e.index] = e.kind
    /\ e.type \in {"message_delta", "message_stop"} => AllClosed(s) /\ SomeBlock(s)

\* What the consumer has after e.
After(s, e) ==
    CASE e.type = "message_start" -> [s EXCEPT !.phase = "started"]
      [] e.type = "message_stop"  -> [s EXCEPT !.phase = "stopped"]
      [] e.type = "start"         -> [s EXCEPT !.block[e.index] = e.kind]
      [] e.type = "stop"          -> [s EXCEPT !.block[e.index] = Closed]
      [] OTHER                    -> s
==============================================================================
