------------------------------- MODULE History -------------------------------
(***************************************************************************)
(* The checker of transaction histories in tools/check_transaction_history *)
(* and the definition it has to agree with.  An operation of a history is  *)
(* a record of                                                             *)
(*   before     the operations that had ended when it started,             *)
(*   observed   the rows its first query returned, or NoRead,              *)
(*   toggled    the rows it changed,                                       *)
(*   after      the rows its query after the last change returned, or      *)
(*              NoRead.                                                    *)
(* A row is active or not, so a state is the set of active rows.           *)
(***************************************************************************)
EXTENDS Integers, FiniteSets

CONSTANT NoRead

Toggle(state, rows) == (state \ rows) \cup (rows \ state)

\* The tests that an operation has to pass to come next in a serial order.
Legal(op, done, state) ==
    /\ op.before \subseteq done
    /\ op.observed \in {NoRead, state}
    /\ op.after \in {NoRead, Toggle(state, op.toggled)}

\* serial_history's search: the pairs of a set of placed operations and the
\* state they lead to, as reached from the pairs with one operation fewer.
Placed(initial, ops) ==
    LET reached[n \in 0..Cardinality(ops)] ==
          IF n = 0 THEN {<<{}, initial>>}
          ELSE UNION {{<<p[1] \cup {op.id}, Toggle(p[2], op.toggled)>> :
                         op \in {o \in ops : o.id \notin p[1] /\ Legal(o, p[1], p[2])}}
                        : p \in reached[n - 1]}
    IN reached[Cardinality(ops)]

serial_history(initial, ops) == Placed(initial, ops) # {}
=============================================================================
