----------------------------- MODULE ObjectPool -----------------------------
(***************************************************************************)
(* ObjectPool<T> (src/memory/object_pool.hpp): a fixed-capacity array of   *)
(* list nodes and a stack of freed indices.  A pool is a record            *)
(*                                                                         *)
(*    [nodes |-> nodes_, free_list |-> free_list_]                         *)
(*                                                                         *)
(* and each member function is an operator on it.  Index i of the code is  *)
(* i + 1 here, so that null_index = -1 becomes 0, the one index outside    *)
(* the DOMAIN of every node sequence: following a null link is an error    *)
(* TLC reports, as it would be undefined behaviour in nodes_[-1].          *)
(***************************************************************************)
EXTENDS Integers, Sequences, SequencesExt

CONSTANT Capacity   \* the constructor's cap: nodes_ never grows past it

ASSUME CapacityAssumption == Capacity \in Nat

null_index == 0

Node(T, Index) == [value : T, next : Index, prev : Index]

EmptyPool == [nodes |-> <<>>, free_list |-> <<>>]

(* Slip: the last slot is never handed out.                                 *)
ExhaustedEarly(pool) ==
  pool.free_list = <<>> /\ Len(pool.nodes) + 1 >= Capacity

(* The condition the "ObjectPool exhausted" assertion stops the program on. *)
Exhausted(pool) ==
  pool.free_list = <<>> /\ Len(pool.nodes) >= Capacity

(* Slip: the size is read after the vector has grown.                       *)
IndexAfterGrowth(pool) ==
  IF pool.free_list # <<>> THEN Last(pool.free_list) ELSE Len(pool.nodes) + 2

(* The index allocate() returns: the most recently freed slot is reused     *)
(* first, and only without one does nodes_ grow.                            *)
AllocatedIndex(pool) ==
  IF pool.free_list # <<>> THEN Last(pool.free_list) ELSE Len(pool.nodes) + 1

(* Slip: a recycled slot keeps the links of the order it held before.       *)
AllocateKeepsLinks(pool, value) ==
  IF pool.free_list # <<>>
    THEN [nodes     |-> [pool.nodes EXCEPT ![Last(pool.free_list)].value = value],
          free_list |-> Front(pool.free_list)]
    ELSE [nodes     |-> Append(pool.nodes, [value |-> value, next |-> null_index,
                                            prev |-> null_index]),
          free_list |-> pool.free_list]

(* allocate(args...): the slot's old value and its old links are replaced.  *)
allocate(pool, value) ==
  LET node == [value |-> value, next |-> null_index, prev |-> null_index]
  IN  IF pool.free_list # <<>>
        THEN [nodes     |-> [pool.nodes EXCEPT ![Last(pool.free_list)] = node],
              free_list |-> Front(pool.free_list)]
        ELSE [nodes     |-> Append(pool.nodes, node),
              free_list |-> pool.free_list]

(* Slip: the slot is unlinked but never returned.                           *)
DeallocateLeaks(pool, index) == pool

(* deallocate(index): nothing is checked and the node keeps its contents.   *)
deallocate(pool, index) ==
  [nodes |-> pool.nodes, free_list |-> Append(pool.free_list, index)]

(* Slip: the assignment goes to a copy of the node, not through get().      *)
AssignToCopy(pool, index, v) == pool

(* Assignments through the reference get(index) returns.                    *)
set_next(pool, index, n) ==
  [nodes |-> [pool.nodes EXCEPT ![index].next = n], free_list |-> pool.free_list]
set_prev(pool, index, n) ==
  [nodes |-> [pool.nodes EXCEPT ![index].prev = n], free_list |-> pool.free_list]
set_value(pool, index, v) ==
  [nodes |-> [pool.nodes EXCEPT ![index].value = v], free_list |-> pool.free_list]

(* The slots handed out and not yet returned; size() is their number.       *)
LiveNodes(pool) == DOMAIN pool.nodes \ ToSet(pool.free_list)
=============================================================================
