------------------------------ MODULE KernelList ------------------------------
(***************************************************************************)
(* The circular doubly linked lists of kernel/lib.h.  A list is a record   *)
(* with the fields next and prev, functions on its nodes; the head is a    *)
(* node like any other, and a node that is on no list is linked to itself. *)
(***************************************************************************)
EXTENDS Naturals, FiniteSets, FiniteSetsExt

ListInit(nodes) == [next |-> [x \in nodes |-> x], prev |-> [x \in nodes |-> x]]

ListDelete(r, x) ==
  LET nx == [r.next EXCEPT ![r.prev[x]] = r.next[x]]
      pv == [r.prev EXCEPT ![nx[x]] = r.prev[x]]
  IN  [r EXCEPT !.next = [nx EXCEPT ![x] = x], !.prev = [pv EXCEPT ![x] = x]]

\* Insert new before the node at.
ListForeAdd(r, new, at) ==
  LET pv == [r.prev EXCEPT ![new] = r.prev[at]]
      nx == [r.next EXCEPT ![new] = at]
  IN  [r EXCEPT !.next = [nx EXCEPT ![pv[at]] = new], !.prev = [pv EXCEPT ![at] = new]]

\* Insert new after the node at.
ListBackAdd(r, at, new) ==
  LET pv == [r.prev EXCEPT ![new] = at]
      nx == [r.next EXCEPT ![new] = r.next[at]]
  IN  [r EXCEPT !.next = [nx EXCEPT ![at] = new], !.prev = [pv EXCEPT ![nx[new]] = new]]

ListIsEmpty(r, head) == r.next[head] = head /\ r.prev[head] = head

\* The nodes behind head, in order, as far as the forward links go.
Chain(r, head) ==
  LET n == Cardinality(DOMAIN r.next)
      walk[k \in 0..n] == IF k = 0 THEN head ELSE r.next[walk[k-1]]
      back == {k \in 1..n : walk[k] = head}
  IN  [k \in 1..(IF back = {} THEN n ELSE Min(back) - 1) |-> walk[k]]

\* The links form circles and undo each other.
Linked(r) == \A x \in DOMAIN r.next : r.prev[r.next[x]] = x /\ r.next[r.prev[x]] = x

=============================================================================
