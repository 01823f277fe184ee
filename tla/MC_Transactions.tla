-------------------------- MODULE MC_Transactions --------------------------
(***************************************************************************)
(* Small workloads for Transactions.                                       *)
(***************************************************************************)
EXTENDS Transactions, TLC

CONSTANTS c1, c2, i1, i2

X(k) == [key |-> k, shared |-> FALSE]
S(k) == [key |-> k, shared |-> TRUE]

(* Calls of two instances, nested three deep.                              *)
Nested == [callers |-> {c1}, sharing |-> {}, instances |-> {i1, i2}, locks |-> {{}},
           depth |-> 3, txs |-> 3, errors |-> 1, panics |-> 1]

(* Shared and exclusive locks, in one call or in two.                      *)
Locking == [callers |-> {c1, c2}, sharing |-> {}, instances |-> {i1},
            locks |-> {{}, {S(1)}, {X(1), X(2)}},
            depth |-> 2, txs |-> 1, errors |-> 1, panics |-> 0]

(* One lock and a panic that leaves it behind.                             *)
Retrying == [callers |-> {c1, c2}, sharing |-> {}, instances |-> {i1}, locks |-> {{}, {X(1)}},
             depth |-> 2, txs |-> 3, errors |-> 0, panics |-> 1]

(* Two handlers of a batch.                                                *)
Batch == [callers |-> {c1, c2}, sharing |-> {c1, c2}, instances |-> {i1, i2}, locks |-> {{}},
          depth |-> 2, txs |-> 3, errors |-> 1, panics |-> 1]

AllWorkloads == {Nested, Locking, Retrying, Batch}
=============================================================================
