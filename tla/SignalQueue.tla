------------------------------- MODULE SignalQueue -------------------------------
(***************************************************************************)
(* Sequences of signals, each a record with an id: what the queues of      *)
(* SignalContainer are made of.                                            *)
(***************************************************************************)
EXTENDS Naturals, Sequences

Elements(q) == {q[n] : n \in DOMAIN q}
IdsOf(q) == {s.id : s \in Elements(q)}

(* The queue is emptied into a new one, front first, that gets the signals *)
(* whose ids are not among those to remove: the others keep their order.   *)
Without(q, ids) ==
  LET kept[n \in 0..Len(q)] ==
        IF n = 0 THEN <<>>
        ELSE IF q[n].id \in ids THEN kept[n - 1] ELSE Append(kept[n - 1], q[n])
  IN  kept[Len(q)]
=============================================================================
