------------------------------ MODULE Transactions ------------------------------
(***************************************************************************)
(* The transaction layer of a control link, lean/Spec/Transactions.lean:   *)
(* declare, discharge, and the declared and transactional-state outcomes.  *)
(*                                                                         *)
(* The register, a list of transactions each discharged or not, is kept as *)
(* the ids it holds and the ids still in use.  Of a coordinator's          *)
(* capabilities only distributed-transactions is ever asked for, so they   *)
(* are a BOOLEAN.  An id that is not an integer is Unset.                  *)
(***************************************************************************)
EXTENDS Session

FreshLayer == [known |-> {}, live |-> {}, nextId |-> 0,
               capabilities |-> FALSE, peerCapabilities |-> FALSE]

Layer == [known : SUBSET Nat, live : SUBSET Nat, nextId : Nat,
          capabilities : BOOLEAN, peerCapabilities : BOOLEAN]

\* What a transfer's payload or a disposition's state may carry.
NoValue             == [txn |-> "other"]
Declare(globalId)   == [txn |-> "declare", globalId |-> globalId, complete |-> TRUE]
Discharge(id, fail) == [txn |-> "discharge", id |-> id, fail |-> fail, complete |-> TRUE]
Declared(id)        == [txn |-> "declared", id |-> id, complete |-> TRUE]
TransactionalState(id) == [txn |-> "transactional-state", id |-> id, complete |-> TRUE]

Retire(layer, id) == [layer EXCEPT !.live = @ \ {id}]

RetireAll(layer)  == [layer EXCEPT !.live = {}]

\* A declare travels to the coordinator, and is judged by its capabilities.
CoordinatorCapabilities(layer, out) ==
    IF out THEN layer.peerCapabilities ELSE layer.capabilities

\* `settled' is the settlement of the transfer that carried the value.
TransactionAdmits(layer, carrier, out, v, settled) ==
    \/ v.txn = "other"
    \/ /\ v.complete
       /\ \/ /\ v.txn = "declare"
             /\ ~settled
             /\ v.globalId => CoordinatorCapabilities(layer, out)
          \/ /\ v.txn = "discharge"
             /\ ~settled
             /\ v.id # Unset
             /\ v.fail \/ v.id \in layer.live
          \/ v.txn = "declared" /\ carrier = "state"
          \/ v.txn = "transactional-state" /\ carrier = "state" /\ v.id \in layer.known

\* Mutant: an outcome told twice takes its transaction into use again.
MutAfterTransaction(layer, out, v) ==
    CASE v.txn = "declare" /\ ~out ->
           [layer EXCEPT !.known = @ \cup {layer.nextId}, !.live = @ \cup {layer.nextId},
                         !.nextId = @ + 1]
      [] v.txn = "discharge" -> Retire(layer, v.id)
      [] v.txn = "declared" /\ ~out /\ v.id # Unset ->
           [layer EXCEPT !.known = @ \cup {v.id}, !.live = @ \cup {v.id}]
      [] OTHER -> layer

\* The coordinator allocates; the controller learns the id from the outcome.
AfterTransaction(layer, out, v) ==
    CASE v.txn = "declare" /\ ~out ->
           [layer EXCEPT !.known = @ \cup {layer.nextId}, !.live = @ \cup {layer.nextId},
                         !.nextId = @ + 1]
      [] v.txn = "discharge" -> Retire(layer, v.id)
      [] v.txn = "declared" /\ ~out /\ v.id # Unset /\ v.id \notin layer.known ->
           [layer EXCEPT !.known = @ \cup {v.id}, !.live = @ \cup {v.id}]
      [] OTHER -> layer
=============================================================================
