--------------------------- MODULE KernelListProofs ---------------------------
(***************************************************************************)
(* The list operations of kernel/lib.h keep every circle of nodes intact,  *)
(* whatever the set of nodes is and however the circles run through it.    *)
(* The run queue, the timer list, wait queues and the slabs of a cache are *)
(* all lists of this kind.                                                 *)
(***************************************************************************)
EXTENDS KernelList, TLAPS

\* Two links for each node.
Links(r, nodes) == r \in [next : [nodes -> nodes], prev : [nodes -> nodes]]

\* A node on no list: ListInit and ListDelete leave a node like this.
Alone(r, x) == r.next[x] = x /\ r.prev[x] = x

\* ListInit: every node is a circle of its own.
THEOREM InitLinked ==
  ASSUME NEW nodes
  PROVE  /\ Links(ListInit(nodes), nodes) /\ Linked(ListInit(nodes))
         /\ \A x \in nodes : Alone(ListInit(nodes), x)
BY DEF Links, ListInit, Linked, Alone

\* ListForeAdd of a node that is on no list: the links still undo each other, and
\* the new node stands right before the node at.
THEOREM ForeAddLinked ==
  ASSUME NEW nodes, NEW r, Links(r, nodes), Linked(r),
         NEW new \in nodes, NEW at \in nodes, new # at, Alone(r, new)
  PROVE  /\ Links(ListForeAdd(r, new, at), nodes)
         /\ Linked(ListForeAdd(r, new, at))
         /\ ListForeAdd(r, new, at).next[new] = at
         /\ ListForeAdd(r, new, at).prev[new] = r.prev[at]
<1> DEFINE s == ListForeAdd(r, new, at)
           p == r.prev[at]
<1>1. p \in nodes /\ p # new /\ r.next[p] = at
  BY DEF Links, Linked, Alone
<1>2. /\ s.next = [r.next EXCEPT ![new] = at, ![p] = new]
      /\ s.prev = [r.prev EXCEPT ![new] = p, ![at] = new]
      /\ Links(s, nodes)
  BY <1>1 DEF ListForeAdd, Links
<1>3. ASSUME NEW x \in nodes
      PROVE  s.prev[s.next[x]] = x /\ s.next[s.prev[x]] = x
  <2>1. CASE x = new
    BY <1>1, <1>2, <2>1 DEF Links
  <2>2. CASE x = p /\ x # at
    BY <1>1, <1>2, <2>2 DEF Links, Linked, Alone
  <2>3. CASE x = at
    BY <1>1, <1>2, <2>3 DEF Links, Linked, Alone
  <2>4. CASE x \notin {new, p, at}
    BY <1>1, <1>2, <2>4 DEF Links, Linked, Alone
  <2> QED BY <2>1, <2>2, <2>3, <2>4
<1> QED BY <1>1, <1>2, <1>3 DEF Links, Linked

\* ListDelete: what is left of the circle is a circle, and the node is alone; a
\* second ListDelete of the same node changes nothing, which is what the nested
\* activations of do_time rely on.
THEOREM DeleteLinked ==
  ASSUME NEW nodes, NEW r, Links(r, nodes), Linked(r), NEW x \in nodes
  PROVE  /\ Links(ListDelete(r, x), nodes)
         /\ Linked(ListDelete(r, x))
         /\ Alone(ListDelete(r, x), x)
         /\ ListDelete(ListDelete(r, x), x) = ListDelete(r, x)
<1> DEFINE s == ListDelete(r, x)
           n == r.next[x]
           p == r.prev[x]
<1>1. n \in nodes /\ p \in nodes /\ r.prev[n] = x /\ r.next[p] = x
  BY DEF Links, Linked
<1>2. CASE n = x
  <2>1. p = x
    BY <1>1, <1>2
  <2>2. s.next = r.next /\ s.prev = r.prev /\ s = r
    BY <1>1, <1>2, <2>1 DEF ListDelete, Links
  <2> QED BY <1>1, <1>2, <2>1, <2>2 DEF Alone, Links
<1>3. CASE n # x
  <2>1. p # x
    BY <1>1, <1>3
  <2>2. /\ s.next = [r.next EXCEPT ![p] = n, ![x] = x]
        /\ s.prev = [r.prev EXCEPT ![n] = p, ![x] = x]
        /\ Links(s, nodes)
    BY <1>1, <1>3, <2>1 DEF ListDelete, Links
  <2>3. Alone(s, x)
    BY <2>2, <1>3, <2>1 DEF Alone, Links
  <2>4. ASSUME NEW y \in nodes
        PROVE  s.prev[s.next[y]] = y /\ s.next[s.prev[y]] = y
    <3>1. CASE y = x
      BY <2>3, <3>1 DEF Alone
    <3>2. CASE y # x /\ y = p
      BY <1>1, <1>3, <2>1, <2>2, <3>2 DEF Links, Linked
    <3>3. CASE y # x /\ y = n
      BY <1>1, <1>3, <2>1, <2>2, <3>3 DEF Links, Linked
    <3>4. CASE y \notin {x, p, n}
      BY <1>1, <1>3, <2>1, <2>2, <3>4 DEF Links, Linked
    <3> QED BY <3>1, <3>2, <3>3, <3>4
  <2>5. Linked(s)
    BY <2>2, <2>4 DEF Links, Linked
  <2>6. ListDelete(s, x) = s
    <3>1. [s.next EXCEPT ![x] = x] = s.next /\ [s.prev EXCEPT ![x] = x] = s.prev
      BY <2>2, <2>3 DEF Links, Alone
    <3>2. [s EXCEPT !.next = s.next, !.prev = s.prev] = s
      BY <2>2 DEF Links
    <3> HIDE DEF s
    <3> QED BY <2>3, <3>1, <3>2 DEF ListDelete, Alone
  <2> QED BY <2>2, <2>3, <2>5, <2>6
<1> QED BY <1>2, <1>3

\* ListBackAdd puts the new node right behind the node at.
THEOREM BackAddLinked ==
  ASSUME NEW nodes, NEW r, Links(r, nodes), Linked(r),
         NEW new \in nodes, NEW at \in nodes, new # at, Alone(r, new)
  PROVE  /\ Links(ListBackAdd(r, at, new), nodes)
         /\ Linked(ListBackAdd(r, at, new))
         /\ ListBackAdd(r, at, new).prev[new] = at
         /\ ListBackAdd(r, at, new).next[new] = r.next[at]
<1> DEFINE s == ListBackAdd(r, at, new)
           n == r.next[at]
<1>1. n \in nodes /\ n # new /\ r.prev[n] = at
  BY DEF Links, Linked, Alone
<1>2. /\ s.next = [r.next EXCEPT ![new] = n, ![at] = new]
      /\ s.prev = [r.prev EXCEPT ![new] = at, ![n] = new]
      /\ Links(s, nodes)
  BY <1>1 DEF ListBackAdd, Links
<1>3. ASSUME NEW x \in nodes
      PROVE  s.prev[s.next[x]] = x /\ s.next[s.prev[x]] = x
  <2>1. CASE x = new
    BY <1>1, <1>2, <2>1 DEF Links
  <2>2. CASE x = n /\ x # at
    BY <1>1, <1>2, <2>2 DEF Links, Linked, Alone
  <2>3. CASE x = at
    BY <1>1, <1>2, <2>3 DEF Links, Linked, Alone
  <2>4. CASE x \notin {new, n, at}
    BY <1>1, <1>2, <2>4 DEF Links, Linked, Alone
  <2> QED BY <2>1, <2>2, <2>3, <2>4
<1> QED BY <1>1, <1>2, <1>3 DEF Links, Linked

===============================================================================
