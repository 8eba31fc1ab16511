--------------------------- MODULE MC_TaskEngine ---------------------------
(* Small instances of TaskEngine: the contracts the publisher may write.   *)
EXTENDS WorkBoard, TLC

\* A claim lives two steps, one at a time, so a claim can be renewed once.
Cheap == [price |-> 1, required |-> FALSE, ttl |-> 1, life |-> 2, cap |-> 1,
          schema |-> {"plain"}]
\* Dearer, with a longer ttl and a schema that admits more.
Dear == [price |-> 2, required |-> FALSE, ttl |-> 2, life |-> 2, cap |-> 1,
         schema |-> {"plain", "rich"}]

\* Asks for another kind of payload.
Rich == [Cheap EXCEPT !.schema = {"plain", "rich"}]

OneContract == {Cheap}
TwoContracts == {Cheap, Dear}
SchemaContracts == {Cheap, Rich}

\* Agents are told apart by what they do alone.
Alike == Permutations(Agents)
=============================================================================
