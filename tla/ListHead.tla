------------------------------ MODULE ListHead ------------------------------
(***************************************************************************)
(* The doubly linked lists of include/list.h, as the program uses them.    *)
(* A heap h has the two pointers of every node, h.next and h.prev; a list  *)
(* is a ring of nodes, one of which is its head.  A deleted node keeps its *)
(* pointers, as list_del leaves them.                                      *)
(***************************************************************************)
EXTENDS Integers

(* Every node points at itself. *)
INIT_LIST_HEAD(Node) == [next |-> [n \in Node |-> n], prev |-> [n \in Node |-> n]]

Insert(h, cnew, prev, next) ==
  [next |-> [h.next EXCEPT ![cnew] = next, ![prev] = cnew],
   prev |-> [h.prev EXCEPT ![next] = cnew, ![cnew] = prev]]

list_add_tail(h, cnew, head) == Insert(h, cnew, h.prev[head], head)

(* A faulty variant: list_add that forgets the node after the new one. *)
list_add_oneWay(h, cnew, head) ==
  [next |-> [h.next EXCEPT ![cnew] = h.next[head], ![head] = cnew],
   prev |-> [h.prev EXCEPT ![cnew] = head]]

list_add(h, cnew, head) == Insert(h, cnew, head, h.next[head])

list_del(h, entry) ==
  [next |-> [h.next EXCEPT ![h.prev[entry]] = h.next[entry]],
   prev |-> [h.prev EXCEPT ![h.next[entry]] = h.prev[entry]]]

list_empty(h, head) == h.next[head] = head

(* The nodes list_for_each passes in a list of at most max of them. *)
list_for_each(h, head, max) ==
  LET at[i \in 1..max] == IF i = 1 THEN h.next[head] ELSE h.next[at[i - 1]]
  IN  {at[i] : i \in {j \in 1..max : \A k \in 1..j : at[k] # head}}

(***************************************************************************)
(* The nodes of S are linked among themselves, both ways.                  *)
(***************************************************************************)
Linked(h, S) ==
  \A n \in S : /\ h.next[n] \in S /\ h.prev[h.next[n]] = n
               /\ h.prev[n] \in S /\ h.next[h.prev[n]] = n
=============================================================================
