----------------------------- MODULE BuddyProofs -----------------------------
(***************************************************************************)
(* Machine-checked proofs about Buddy, for every zone and every MAX_ORDER. *)
(***************************************************************************)
EXTENDS Buddy, TLAPS, WellFoundedInduction, FiniteSetTheorems

-----------------------------------------------------------------------------
(* The list operations *)

Injective(s) == \A i, j \in 1..Len(s) : i # j => s[i] # s[j]

\* ListDelete of the head: the elements lose the head and nothing else.
LEMMA TailElements ==
  ASSUME NEW s \in Seq(Nat), s # <<>>, Injective(s)
  PROVE  /\ Tail(s) \in Seq(Nat) /\ Len(Tail(s)) = Len(s) - 1
         /\ Head(s) \in Elements(s)
         /\ Elements(Tail(s)) = Elements(s) \ {Head(s)}
         /\ Injective(Tail(s))
<1>1. Len(s) \in Nat /\ Len(s) > 0 /\ Head(s) = s[1]
  OBVIOUS
<1>2. Tail(s) \in Seq(Nat) /\ Len(Tail(s)) = Len(s) - 1
  OBVIOUS
<1>3. \A i \in 1..Len(s)-1 : Tail(s)[i] = s[i+1]
  OBVIOUS
<1>4. Elements(Tail(s)) \subseteq Elements(s) \ {Head(s)}
  BY <1>1, <1>2, <1>3 DEF Elements, Injective
<1>5. ASSUME NEW x \in Elements(s), x # Head(s)
      PROVE  x \in Elements(Tail(s))
  <2>1. PICK i \in 1..Len(s) : s[i] = x
    BY DEF Elements
  <2>2. i - 1 \in 1..Len(s)-1 /\ Tail(s)[i-1] = x
    BY <1>1, <1>3, <1>5, <2>1
  <2> QED BY <1>2, <2>2 DEF Elements
<1>6. Injective(Tail(s))
  BY <1>1, <1>2, <1>3 DEF Injective
<1>7. Head(s) \in Elements(s)
  BY <1>1 DEF Elements
<1> QED BY <1>2, <1>4, <1>5, <1>6, <1>7

\* ListBackAdd: the new head is the one new element.
LEMMA PushElements ==
  ASSUME NEW s \in Seq(Nat), NEW p \in Nat, Injective(s), p \notin Elements(s)
  PROVE  /\ PushFront(s, p) \in Seq(Nat) /\ Len(PushFront(s, p)) = Len(s) + 1
         /\ Elements(PushFront(s, p)) = Elements(s) \cup {p}
         /\ Injective(PushFront(s, p))
<1> DEFINE t == PushFront(s, p)
<1>1. t \in Seq(Nat) /\ Len(t) = Len(s) + 1 /\ Len(s) \in Nat
  BY DEF PushFront
<1>2. t[1] = p /\ \A i \in 1..Len(s) : t[i+1] = s[i]
  BY DEF PushFront
<1> HIDE DEF t
<1>3. ASSUME NEW k \in 1..Len(t), k # 1
      PROVE  k - 1 \in 1..Len(s) /\ t[k] = s[k-1]
  <2>1. k - 1 \in 1..Len(s) /\ (k - 1) + 1 = k
    BY <1>1, <1>3
  <2> QED BY <1>2, <2>1
<1>4. ASSUME NEW x \in Elements(t) PROVE x \in Elements(s) \cup {p}
  <2>1. PICK k \in 1..Len(t) : t[k] = x
    BY DEF Elements
  <2> QED BY <1>2, <1>3, <2>1 DEF Elements
<1>5. ASSUME NEW x \in Elements(s) PROVE x \in Elements(t)
  <2>1. PICK i \in 1..Len(s) : s[i] = x
    BY DEF Elements
  <2>2. i + 1 \in 1..Len(t) /\ t[i+1] = x
    BY <1>1, <1>2, <2>1
  <2> QED BY <2>2 DEF Elements
<1>6. p \in Elements(t)
  BY <1>1, <1>2 DEF Elements
<1>7. ASSUME NEW j \in 1..Len(t), NEW k \in 1..Len(t), j # k
      PROVE  t[j] # t[k]
  <2>1. CASE j # 1 /\ k # 1
    <3>1. j - 1 # k - 1
      BY <1>1, <1>7
    <3> QED BY <1>3, <2>1, <3>1 DEF Injective
  <2>2. CASE j = 1
    BY <1>2, <1>3, <1>7, <2>2 DEF Elements
  <2>3. CASE k = 1
    BY <1>2, <1>3, <1>7, <2>3 DEF Elements
  <2> QED BY <2>1, <2>2, <2>3
<1> QED BY <1>1, <1>4, <1>5, <1>6, <1>7 DEF t, Injective

\* ListDelete of the node found by list_search.
LEMMA WithoutElements ==
  ASSUME NEW s \in Seq(Nat), NEW p \in Elements(s), Injective(s)
  PROVE  /\ Without(s, p) \in Seq(Nat) /\ Len(Without(s, p)) = Len(s) - 1
         /\ Elements(Without(s, p)) = Elements(s) \ {p}
         /\ Injective(Without(s, p))
<1> DEFINE at == CHOOSE i \in 1..Len(s) : s[i] = p
           t  == [i \in 1..Len(s)-1 |-> IF i < at THEN s[i] ELSE s[i+1]]
<1>1. Without(s, p) = t
  BY DEF Without
<1>2. at \in 1..Len(s) /\ s[at] = p
  BY DEF Elements
<1>3. Len(s) \in Nat /\ Len(s) > 0 /\ \A i \in 1..Len(s) : s[i] \in Nat
  BY <1>2
<1> HIDE DEF at
<1>4. t \in Seq(Nat) /\ Len(t) = Len(s) - 1
  BY <1>2, <1>3
<1>5. \A i \in 1..Len(s)-1 : t[i] = IF i < at THEN s[i] ELSE s[i+1]
  OBVIOUS
<1> HIDE DEF t
<1> DEFINE src(k) == IF k < at THEN k ELSE k + 1
<1>6. ASSUME NEW k \in 1..Len(t)
      PROVE  src(k) \in 1..Len(s) /\ src(k) # at /\ t[k] = s[src(k)]
  <2>1. k \in 1..Len(s)-1 /\ k \in Int /\ at \in Int
    BY <1>2, <1>3, <1>4
  <2>2. CASE k < at
    BY <1>2, <1>3, <1>5, <2>1, <2>2
  <2>3. CASE ~(k < at)
    <3>1. k + 1 \in 1..Len(s) /\ k + 1 # at
      BY <1>2, <1>3, <2>1, <2>3
    <3>2. t[k] = s[k+1]
      BY <1>5, <2>1, <2>3
    <3> QED BY <2>3, <3>1, <3>2
  <2> QED BY <2>2, <2>3
<1>7. ASSUME NEW j \in 1..Len(t), NEW k \in 1..Len(t), j # k
      PROVE  src(j) # src(k)
  <2>1. j \in Int /\ k \in Int /\ at \in Int
    BY <1>2, <1>3, <1>4
  <2> QED BY <1>7, <2>1
<1>8. ASSUME NEW i \in 1..Len(s), i # at
      PROVE  \E k \in 1..Len(t) : src(k) = i
  <2>1. CASE i < at
    <3>1. i \in 1..Len(t) /\ src(i) = i
      BY <1>2, <1>3, <1>4, <2>1
    <3> QED BY <3>1
  <2>2. CASE i > at
    <3>1. i - 1 \in 1..Len(t) /\ ~(i - 1 < at) /\ (i - 1) + 1 = i
      BY <1>2, <1>3, <1>4, <2>2
    <3> QED BY <3>1
  <2> QED BY <1>2, <1>8, <2>1, <2>2
<1> HIDE DEF src
<1>9. Elements(t) \subseteq Elements(s) \ {p}
  BY <1>2, <1>6 DEF Elements, Injective
<1>10. ASSUME NEW x \in Elements(s), x # p PROVE x \in Elements(t)
  <2>1. PICK i \in 1..Len(s) : s[i] = x
    BY DEF Elements
  <2>2. PICK k \in 1..Len(t) : src(k) = i
    BY <1>2, <1>8, <1>10, <2>1
  <2> QED BY <1>6, <2>1, <2>2 DEF Elements
<1>11. Injective(t)
  BY <1>6, <1>7 DEF Injective
<1> QED BY <1>1, <1>4, <1>9, <1>10, <1>11 DEF t

-----------------------------------------------------------------------------
(* The inductive invariant *)

End(b) == b.page + BlockPages[b.order]
Apart(b, c) == End(b) <= c.page \/ End(c) <= b.page
Inside(b, c) == c.page <= b.page /\ End(b) <= End(c)
Merging == pc \in {"free_core", "seed_core"}

\* The block lies in the zone and holds no reserved page.
Fits(b) ==
  /\ ZoneStart <= b.page /\ End(b) <= ZoneEnd
  /\ \A r \in reserved : r < b.page \/ End(b) <= r

ListsInv ==
  \A o \in Orders : Injective(free_list[o]) /\ nr_free[o] = Len(free_list[o])

Geometry ==
  /\ \A b \in FreeBlocks : Fits(b)
  /\ \A b \in held : Fits(b)
  /\ \A b, c \in FreeBlocks : b = c \/ Apart(b, c)
  /\ \A b, c \in held : b = c \/ Apart(b, c)
  /\ \A b \in FreeBlocks, c \in held : Apart(b, c)
  /\ Merging => /\ Fits(cur)
                /\ \A b \in FreeBlocks : Apart(b, cur)
                /\ \A b \in held : Apart(b, cur)

\* What holds at each place of the code: nothing is free before the seeding
\* starts, seeding goes upwards, the list to split is not empty, and the block
\* being merged grows around the one it was called for.
Phase ==
  /\ pc = "reserve" => FreeBlocks = {}
  /\ pc \in {"reserve", "seed", "seed_core"} => held = {}
  /\ pc = "seed" => /\ cur.order = 0 /\ ZoneStart <= cur.page
                    /\ \A b \in FreeBlocks : End(b) <= cur.page
  /\ pc = "seed_core" => /\ ZoneStart <= req.page
                         /\ End(cur) <= End(req)
                         /\ \A b \in FreeBlocks : End(b) <= req.page
  /\ pc = "split" => req.order <= cur.order /\ free_list[cur.order] # <<>>
  /\ pc = "free_core" => Inside(req, cur)

Used(p) ==
  \/ p \in reserved
  \/ \E b \in held : p \in Pages(b)
  \/ pc = "free_core" /\ p \in Pages(req)

RefInv == \A p \in ZonePages : RefCount[p] = IF Used(p) THEN 1 ELSE 0

IInv == TypeOK /\ ListsInv /\ Geometry /\ Phase /\ RefInv

-----------------------------------------------------------------------------
(* The searches for an order *)

\* The loops that search the orders stop at a first order.
LEMMA LeastNat ==
  ASSUME NEW T, T \subseteq Nat, T # {}
  PROVE  \E x \in T : \A y \in T : x <= y
<1> DEFINE R == OpToRel(<, Nat)
<1>1. IsWellFoundedOn(R, Nat)
  BY NatLessThanWellFounded
<1>2. ASSUME NEW x \in Nat, NEW y \in Nat, y < x
      PROVE  <<y, x>> \in R
  BY <1>2, Zenon DEF OpToRel
<1> HIDE DEF R
<1>3. PICK x \in T : \A y \in T : ~(<<y, x>> \in R)
  BY <1>1, WFMin
<1>4. ASSUME NEW y \in T
      PROVE  x <= y
  <2>1. x \in Nat /\ y \in Nat /\ ~(y < x)
    BY <1>2, <1>3, Zenon
  <2> QED
    BY <2>1
<1> QED
  BY <1>4

\* get_order stops at the first order that is large enough, or at MAX_ORDER.
LEMMA GetOrder ==
  ASSUME NEW number \in Nat
  PROVE  /\ get_order(number) \in 0..MAX_ORDER
         /\ get_order(number) = MAX_ORDER \/ number <= BlockPages[get_order(number)]
<1> DEFINE T == {o \in 0..MAX_ORDER : o = MAX_ORDER \/ number <= BlockPages[o]}
<1>1. MAX_ORDER \in T /\ T \subseteq Nat
  BY ZoneAssumption
<1>2. PICK x \in T : \A y \in T : x <= y
  BY <1>1, LeastNat
<1>3. \A k \in 0..x-1 : number > BlockPages[k]
  <2> SUFFICES ASSUME NEW k \in 0..x-1 PROVE number > BlockPages[k]
    OBVIOUS
  <2>1. k \in 0..MAX_ORDER /\ k < x /\ BlockPages[k] \in Nat
    BY ZoneAssumption, BlockPagesAssumption
  <2> QED
    BY <1>2, <2>1
<1> QED
  BY <1>2, <1>3 DEF get_order

\* The search of init_buddy_system for the largest order that fits stops at
\* order 0 at the latest.
LEMMA SeedOrderFits ==
  ASSUME NEW p \in Nat
  PROVE  /\ SeedOrder(p) \in Orders
         /\ SeedOrder(p) = 0 \/ RunFits(p, SeedOrder(p))
<1> DEFINE Good(o) == o = 0 \/ RunFits(p, o)
           T == {n \in Orders : Good(MAX_ORDER - 1 - n)}
<1>1. MAX_ORDER - 1 \in T /\ T \subseteq Nat
  BY ZoneAssumption DEF Orders
<1>2. PICK x \in T : \A y \in T : x <= y
  BY <1>1, LeastNat
<1> DEFINE o == MAX_ORDER - 1 - x
<1>3. o \in Orders /\ Good(o)
  BY <1>2, ZoneAssumption DEF Orders
<1>4. ASSUME NEW k \in o+1..MAX_ORDER-1
      PROVE  ~RunFits(p, k)
  <2>1. MAX_ORDER - 1 - k \in Orders /\ MAX_ORDER - 1 - k < x
        /\ MAX_ORDER - 1 - (MAX_ORDER - 1 - k) = k
    BY <1>2, ZoneAssumption DEF Orders
  <2>2. MAX_ORDER - 1 - k \notin T
    <3> HIDE DEF T
    <3> QED
      BY <1>1, <1>2, <2>1 DEF Orders
  <2> QED
    BY <2>1, <2>2
<1> HIDE DEF o
<1> QED
  BY <1>3, <1>4 DEF SeedOrder

-----------------------------------------------------------------------------
(* What a change of one list does to the set of free blocks *)

BlocksOf(fl) == UNION {{Block(p, o) : p \in Elements(fl[o])} : o \in Orders}

WellFormed(fl, nf) ==
  /\ fl \in [Orders -> Seq(Nat)] /\ nf \in [Orders -> Nat]
  /\ \A o \in Orders : Injective(fl[o]) /\ nf[o] = Len(fl[o])

\* The entries of a free list are the page indices linked on it.
LEMMA ElementsNat ==
  ASSUME NEW s \in Seq(Nat)
  PROVE  Elements(s) \subseteq Nat
  BY DEF Elements

\* A block is free exactly when its page is on the list of its order.
LEMMA FreeMember ==
  ASSUME NEW fl \in [Orders -> Seq(Nat)]
  PROVE  /\ BlocksOf(fl) \subseteq BlockSpace
         /\ \A b \in BlockSpace : b \in BlocksOf(fl) <=> b.page \in Elements(fl[b.order])
<1>1. ASSUME NEW b \in BlocksOf(fl)
      PROVE  b \in BlockSpace /\ b.page \in Elements(fl[b.order])
  <2>1. PICK o \in Orders : b \in {Block(p, o) : p \in Elements(fl[o])}
    BY DEF BlocksOf
  <2>2. PICK p \in Elements(fl[o]) : b = Block(p, o)
    BY <2>1
  <2>3. p \in Nat
    BY ElementsNat
  <2> QED
    BY <2>2, <2>3 DEF Block, BlockSpace
<1>2. ASSUME NEW b \in BlockSpace, b.page \in Elements(fl[b.order])
      PROVE  b \in BlocksOf(fl)
  <2>1. b = Block(b.page, b.order) /\ b.order \in Orders
    BY DEF Block, BlockSpace
  <2> QED
    BY <1>2, <2>1 DEF BlocksOf
<1> QED
  BY <1>1, <1>2

\* Taking one block off its list removes that block and no other.
LEMMA RemoveBlock ==
  ASSUME NEW fl, NEW nf, WellFormed(fl, nf), NEW o \in Orders,
         NEW p \in Elements(fl[o]), NEW t \in Seq(Nat), Len(t) = Len(fl[o]) - 1,
         Elements(t) = Elements(fl[o]) \ {p}, Injective(t)
  PROVE  /\ WellFormed([fl EXCEPT ![o] = t], [nf EXCEPT ![o] = nf[o] - 1])
         /\ BlocksOf([fl EXCEPT ![o] = t]) = BlocksOf(fl) \ {Block(p, o)}
         /\ Block(p, o) \in BlocksOf(fl) /\ p \in Nat
<1> DEFINE gl == [fl EXCEPT ![o] = t]
           ng == [nf EXCEPT ![o] = nf[o] - 1]
<1>0. p \in Nat /\ Block(p, o) \in BlockSpace
  BY ElementsNat DEF WellFormed, Block, BlockSpace
<1>1. fl \in [Orders -> Seq(Nat)] /\ gl \in [Orders -> Seq(Nat)]
  BY DEF WellFormed
<1>2. gl[o] = t /\ \A k \in Orders \ {o} : gl[k] = fl[k]
  BY <1>1
<1>3. ng \in [Orders -> Nat] /\ \A k \in Orders : ng[k] = Len(gl[k])
  <2>1. Len(t) \in Nat
    OBVIOUS
  <2> QED
    BY <2>1, <1>2 DEF WellFormed
<1>4. WellFormed(gl, ng)
  BY <1>1, <1>2, <1>3 DEF WellFormed
<1> HIDE DEF gl, ng
<1>5. ASSUME NEW b \in BlockSpace
      PROVE  b \in BlocksOf(gl) <=> b \in BlocksOf(fl) \ {Block(p, o)}
  <2>1. b.order \in Orders /\ (b = Block(p, o) <=> b.page = p /\ b.order = o)
    BY DEF BlockSpace, Block
  <2>2. /\ b \in BlocksOf(gl) <=> b.page \in Elements(gl[b.order])
        /\ b \in BlocksOf(fl) <=> b.page \in Elements(fl[b.order])
    BY <1>1, FreeMember
  <2> QED
    BY <1>2, <2>1, <2>2
<1>6. BlocksOf(gl) \subseteq BlockSpace /\ BlocksOf(fl) \subseteq BlockSpace
  BY <1>1, FreeMember
<1>7. Block(p, o) \in BlocksOf(fl)
  BY <1>0, <1>1, FreeMember DEF Block
<1>8. BlocksOf(gl) = BlocksOf(fl) \ {Block(p, o)}
  BY <1>5, <1>6
<1> QED
  BY <1>0, <1>4, <1>7, <1>8 DEF gl, ng

\* Pushing a block on a list that does not hold it adds that block only.
LEMMA AddBlock ==
  ASSUME NEW fl, NEW nf, WellFormed(fl, nf), NEW o \in Orders, NEW p \in Nat,
         Block(p, o) \notin BlocksOf(fl)
  PROVE  /\ WellFormed([fl EXCEPT ![o] = PushFront(fl[o], p)],
                       [nf EXCEPT ![o] = nf[o] + 1])
         /\ BlocksOf([fl EXCEPT ![o] = PushFront(fl[o], p)])
              = BlocksOf(fl) \cup {Block(p, o)}
<1> DEFINE t  == PushFront(fl[o], p)
           gl == [fl EXCEPT ![o] = t]
           ng == [nf EXCEPT ![o] = nf[o] + 1]
<1>0. Block(p, o) \in BlockSpace
  BY DEF Block, BlockSpace
<1>1. fl \in [Orders -> Seq(Nat)] /\ fl[o] \in Seq(Nat) /\ Injective(fl[o])
  BY DEF WellFormed
<1>2. p \notin Elements(fl[o])
  BY <1>0, <1>1, FreeMember DEF Block
<1>3. t \in Seq(Nat) /\ Len(t) = Len(fl[o]) + 1
      /\ Elements(t) = Elements(fl[o]) \cup {p} /\ Injective(t)
  BY <1>1, <1>2, PushElements
<1> HIDE DEF t
<1>4. gl \in [Orders -> Seq(Nat)] /\ gl[o] = t /\ \A k \in Orders \ {o} : gl[k] = fl[k]
  BY <1>1, <1>3
<1>5. ng \in [Orders -> Nat] /\ \A k \in Orders : ng[k] = Len(gl[k])
  BY <1>3, <1>4 DEF WellFormed
<1>6. WellFormed(gl, ng)
  BY <1>3, <1>4, <1>5 DEF WellFormed
<1> HIDE DEF gl, ng
<1>7. ASSUME NEW b \in BlockSpace
      PROVE  b \in BlocksOf(gl) <=> b \in BlocksOf(fl) \cup {Block(p, o)}
  <2>1. b.order \in Orders /\ (b = Block(p, o) <=> b.page = p /\ b.order = o)
    BY DEF BlockSpace, Block
  <2>2. /\ b \in BlocksOf(gl) <=> b.page \in Elements(gl[b.order])
        /\ b \in BlocksOf(fl) <=> b.page \in Elements(fl[b.order])
    BY <1>1, <1>4, FreeMember
  <2> QED
    BY <1>3, <1>4, <2>1, <2>2
<1>8. BlocksOf(gl) \subseteq BlockSpace /\ BlocksOf(fl) \subseteq BlockSpace
  BY <1>1, <1>4, FreeMember
<1>9. BlocksOf(gl) = BlocksOf(fl) \cup {Block(p, o)}
  BY <1>0, <1>7, <1>8
<1> QED
  BY <1>6, <1>9 DEF gl, ng, t

-----------------------------------------------------------------------------
(* The invariant holds at boot and every step keeps it *)

\* A block of order o has 1 << o pages, and twice that one order up.
LEMMA BlockSize ==
  /\ \A o \in Orders : BlockPages[o] \in Nat /\ BlockPages[o] > 0
  /\ \A o \in Orders : o + 1 \in Orders => BlockPages[o+1] = 2 * BlockPages[o]
  /\ 0 \in Orders /\ BlockPages[0] = 1 /\ Orders \subseteq Nat
  BY ZoneAssumption, BlockPagesAssumption DEF Orders

\* The end of the region that init_buddy_system has walked is a page index.
LEMMA EndIsNat ==
  ASSUME NEW b \in BlockSpace
  PROVE  b.page \in Nat /\ b.order \in Orders /\ End(b) \in Nat /\ b.page < End(b)
<1>1. b.page \in Nat /\ b.order \in Orders
  BY DEF BlockSpace
<1>2. BlockPages[b.order] \in Nat /\ BlockPages[b.order] > 0
  BY <1>1, BlockSize
<1> QED
  BY <1>1, <1>2 DEF End

\* What the invariant says of the free lists, in the form the lemmas above use.
LEMMA ListFacts ==
  ASSUME TypeOK, ListsInv
  PROVE  /\ WellFormed(free_list, nr_free)
         /\ FreeBlocks = BlocksOf(free_list) /\ FreeBlocks \subseteq BlockSpace
<1>1. WellFormed(free_list, nr_free)
  BY DEF TypeOK, ListsInv, WellFormed
<1>2. FreeBlocks = BlocksOf(free_list)
  BY DEF FreeBlocks, BlocksOf
<1> QED
  BY <1>1, <1>2, FreeMember DEF WellFormed

\* When no merge is going on, the geometry of the next state only depends on the
\* blocks that are free and held in it.
LEMMA GeometryQuiet ==
  ASSUME reserved' = reserved, ~Merging',
         \A b \in FreeBlocks' : Fits(b), \A b \in held' : Fits(b),
         \A b, c \in FreeBlocks' : b = c \/ Apart(b, c),
         \A b, c \in held' : b = c \/ Apart(b, c),
         \A b \in FreeBlocks', c \in held' : Apart(b, c)
  PROVE  Geometry'
  BY DEF Geometry, Fits, Apart, End

\* The zone that InitMemory hands to reserve_phys_range satisfies the invariant.
LEMMA InitInv == Init => IInv
<1> SUFFICES ASSUME Init PROVE IInv
  OBVIOUS
<1>1. /\ free_list \in [Orders -> Seq(Nat)]
      /\ \A o \in Orders : free_list[o] = <<>> /\ Elements(free_list[o]) = {}
                           /\ Injective(free_list[o]) /\ nr_free[o] = Len(free_list[o])
  BY DEF Init, Elements, Injective
<1>2. FreeBlocks = {}
  BY <1>1 DEF FreeBlocks
<1>3. TypeOK
  BY <1>1, BlockSize, ZoneAssumption DEF Init, TypeOK, BlockSpace, NoBlock, Block, ZonePages
<1>4. ListsInv
  BY <1>1 DEF ListsInv
<1>5. Geometry /\ Phase
  BY <1>2 DEF Init, Geometry, Phase, Merging
<1>6. RefInv
  BY DEF Init, RefInv, Used
<1> QED
  BY <1>3, <1>4, <1>5, <1>6 DEF IInv

\* reserve_phys_range takes pages while no block exists yet.
LEMMA ReserveInv ==
  ASSUME IInv, NEW first \in ZoneStart..ZoneEnd, NEW last \in ZoneStart..ZoneEnd,
         Reserve(first, last)
  PROVE  IInv'
<1> DEFINE fresh == {p \in first..last-1 : p \in ZonePages /\ p \notin reserved}
           unref == {p \in fresh : RefCount[p] = 0}
<1>1. /\ pc = "reserve" /\ reserved' = reserved \cup fresh /\ fresh \subseteq ZonePages
      /\ RefCount' = [p \in ZonePages |-> IF p \in unref THEN 1 ELSE RefCount[p]]
      /\ UNCHANGED <<free_list, nr_free, pc, cur, req, held>>
  BY DEF Reserve, lists
<1>2. FreeBlocks' = FreeBlocks /\ FreeBlocks = {} /\ held = {}
  BY <1>1 DEF IInv, Phase, FreeBlocks
<1>3. TypeOK'
  <2>1. Cardinality(fresh) \in Int /\ Cardinality(unref) \in Int
    <3>1. IsFiniteSet(first..last-1) /\ fresh \subseteq first..last-1 /\ unref \subseteq first..last-1
      BY FS_Interval DEF ZonePages
    <3> HIDE DEF fresh, unref
    <3>2. IsFiniteSet(fresh) /\ IsFiniteSet(unref)
      BY <3>1, FS_Subset
    <3> QED
      BY <3>2, FS_CardinalityType
  <2>2. PageFreeCount' \in Int /\ PageUsingCount' \in Int /\ TotalPagesLink' \in Int
    BY <2>1 DEF Reserve, IInv, TypeOK
  <2> QED
    BY <1>1, <2>2 DEF IInv, TypeOK
<1>4. ListsInv'
  BY <1>1 DEF IInv, ListsInv
<1>5. Geometry' /\ Phase'
  BY <1>1, <1>2 DEF Geometry, Phase, Merging
<1>6. RefInv'
  <2> SUFFICES ASSUME NEW p \in ZonePages
               PROVE  RefCount'[p] = IF Used(p)' THEN 1 ELSE 0
    BY DEF RefInv
  <2>1. /\ Used(p) <=> p \in reserved
        /\ Used(p)' <=> p \in reserved \cup fresh
    BY <1>1, <1>2 DEF Used
  <2>2. RefCount[p] = IF p \in reserved THEN 1 ELSE 0
    BY <2>1 DEF IInv, RefInv
  <2>3. RefCount'[p] = IF p \in unref THEN 1 ELSE RefCount[p]
    BY <1>1
  <2> QED
    BY <2>1, <2>2, <2>3
<1> QED
  BY <1>3, <1>4, <1>5, <1>6 DEF IInv

\* The steps that leave the free lists and the reference counts alone.
LEMMA QuietFacts ==
  ASSUME IInv, UNCHANGED <<lists, counters, RefCount, reserved>>,
         cur' \in BlockSpace, req' \in BlockSpace, held' \subseteq held,
         pc' \in {"reserve", "seed", "seed_core", "idle", "split", "free_core"}
  PROVE  /\ TypeOK' /\ ListsInv' /\ FreeBlocks' = FreeBlocks
         /\ FreeBlocks \subseteq BlockSpace /\ held \subseteq BlockSpace
<1>1. TypeOK'
  BY DEF IInv, TypeOK, lists, counters
<1>2. ListsInv'
  BY DEF IInv, ListsInv, lists
<1>3. FreeBlocks' = FreeBlocks
  BY DEF FreeBlocks, lists
<1> QED
  BY <1>1, <1>2, <1>3, ListFacts DEF IInv, TypeOK

\* init_buddy_system starts its walk with empty lists.
LEMMA SeedStartInv == ASSUME IInv, SeedStart PROVE IInv'
<1>1. /\ pc = "reserve" /\ pc' = "seed" /\ cur' = Block(ZoneStart, 0)
      /\ UNCHANGED <<lists, counters, RefCount, reserved, req, held>>
  BY DEF SeedStart
<1>2. cur' \in BlockSpace /\ cur'.page = ZoneStart /\ cur'.order = 0 /\ req' \in BlockSpace
  BY <1>1, BlockSize, ZoneAssumption DEF Block, BlockSpace, IInv, TypeOK
<1>3. TypeOK' /\ ListsInv' /\ FreeBlocks' = FreeBlocks
  BY <1>1, <1>2, QuietFacts
<1>4. FreeBlocks = {} /\ held = {}
  BY <1>1 DEF IInv, Phase
<1>5. Geometry' /\ Phase'
  BY <1>1, <1>2, <1>3, <1>4, ZoneAssumption DEF Geometry, Phase, Merging
<1>6. RefInv'
  BY <1>1 DEF IInv, RefInv, Used
<1> QED
  BY <1>3, <1>5, <1>6 DEF IInv

\* The walk of init_buddy_system goes past a reserved page.
LEMMA SeedSkipInv == ASSUME IInv, SeedSkip PROVE IInv'
<1>1. /\ pc = "seed" /\ pc' = "seed" /\ cur' = Block(cur.page + 1, 0)
      /\ UNCHANGED <<lists, counters, RefCount, reserved, req, held>>
  BY DEF SeedSkip
<1>2. /\ cur.page \in Nat /\ cur' \in BlockSpace
      /\ cur'.page = cur.page + 1 /\ cur'.order = 0 /\ req' \in BlockSpace
  BY <1>1, BlockSize DEF Block, BlockSpace, IInv, TypeOK
<1>3. TypeOK' /\ ListsInv' /\ FreeBlocks' = FreeBlocks /\ FreeBlocks \subseteq BlockSpace
  BY <1>1, <1>2, QuietFacts
<1>4. /\ held = {} /\ ZoneStart <= cur.page
      /\ \A b \in FreeBlocks : End(b) <= cur.page /\ End(b) \in Nat
  BY <1>1, <1>3, EndIsNat DEF IInv, Phase
<1>5. Geometry'
  BY <1>1, <1>3 DEF IInv, Geometry, Merging, Fits, Apart, End
<1>6. Phase'
  BY <1>1, <1>2, <1>3, <1>4, ZoneAssumption DEF Phase, End
<1>7. RefInv'
  BY <1>1 DEF IInv, RefInv, Used
<1> QED
  BY <1>3, <1>5, <1>6, <1>7 DEF IInv

\* init_buddy_system hands the next unreserved run to __free_pages_core.
LEMMA SeedBlockInv == ASSUME IInv, SeedBlock PROVE IInv'
<1> DEFINE p == cur.page
           o == SeedOrder(p)
<1>1. /\ pc = "seed" /\ pc' = "seed_core" /\ cur' = Block(p, o) /\ req' = cur'
      /\ p < ZoneEnd /\ p \notin reserved
      /\ UNCHANGED <<lists, counters, RefCount, reserved, held>>
  BY DEF SeedBlock
<1>2. p \in Nat /\ o \in Orders /\ (o = 0 \/ RunFits(p, o))
  BY SeedOrderFits DEF IInv, TypeOK, BlockSpace
<1> HIDE DEF p, o
<1>3. cur' \in BlockSpace /\ cur'.page = p /\ cur'.order = o /\ req' = cur'
  BY <1>1, <1>2 DEF Block, BlockSpace
<1>4. TypeOK' /\ ListsInv' /\ FreeBlocks' = FreeBlocks /\ FreeBlocks \subseteq BlockSpace
  BY <1>1, <1>3, QuietFacts
<1>5. /\ held = {} /\ ZoneStart <= p
      /\ \A b \in FreeBlocks : End(b) <= p
  BY <1>1 DEF IInv, Phase, p
<1>6. /\ BlockPages[o] \in Nat /\ BlockPages[o] > 0 /\ BlockPages[0] = 1
      /\ End(cur') = p + BlockPages[o]
  BY <1>2, <1>3, BlockSize DEF End
<1>7. /\ p + BlockPages[o] <= ZoneEnd
      /\ \A r \in reserved : r < p \/ p + BlockPages[o] <= r
  <2>1. \A r \in reserved : r \in Int /\ r # p
    BY <1>1, ZoneAssumption DEF IInv, TypeOK, ZonePages
  <2>2. CASE o = 0
    BY <1>1, <1>2, <1>6, <2>1, <2>2, ZoneAssumption
  <2>3. CASE RunFits(p, o)
    BY <1>2, <1>6, <2>1, <2>3, ZoneAssumption DEF RunFits
  <2> QED
    BY <1>2, <2>2, <2>3
<1>8. Geometry'
  <2>1. Fits(cur)'
    BY <1>1, <1>3, <1>5, <1>6, <1>7 DEF Fits, End
  <2>2. \A b \in FreeBlocks' : Apart(b, cur)'
    BY <1>3, <1>4, <1>5 DEF Apart, End
  <2> QED
    BY <1>1, <1>4, <1>5, <2>1, <2>2 DEF IInv, Geometry, Fits, Apart, End
<1>9. Phase'
  <2>1. End(cur)' <= End(req)' /\ ZoneStart <= req'.page
    BY <1>2, <1>3, <1>5, <1>6 DEF End
  <2>2. \A b \in FreeBlocks' : End(b)' <= req'.page
    BY <1>3, <1>4, <1>5 DEF End
  <2> QED
    BY <1>1, <1>5, <2>1, <2>2 DEF Phase
<1>10. RefInv'
  BY <1>1 DEF IInv, RefInv, Used
<1> QED
  BY <1>4, <1>8, <1>9, <1>10 DEF IInv

\* init_buddy_system has walked the whole zone.
LEMMA SeedDoneInv == ASSUME IInv, SeedDone PROVE IInv'
<1>1. /\ pc = "seed" /\ pc' = "idle" /\ cur' = NoBlock /\ req' = NoBlock
      /\ UNCHANGED <<lists, counters, RefCount, reserved, held>>
  BY DEF SeedDone
<1>2. NoBlock \in BlockSpace
  BY BlockSize DEF NoBlock, Block, BlockSpace
<1>3. TypeOK' /\ ListsInv' /\ FreeBlocks' = FreeBlocks
  BY <1>1, <1>2, QuietFacts
<1>4. Geometry' /\ Phase'
  BY <1>1, <1>3 DEF IInv, Geometry, Phase, Merging, Fits, Apart, End
<1>5. RefInv'
  BY <1>1 DEF IInv, RefInv, Used
<1> QED
  BY <1>3, <1>4, <1>5 DEF IInv

\* alloc_pages has found an order with a free block.
LEMMA AllocStartInv ==
  ASSUME IInv, NEW number \in Nat, AllocStart(number)
  PROVE  IInv'
<1>1. PICK i \in Orders :
        /\ i >= get_order(number) /\ nr_free[i] # 0
        /\ cur' = Block(0, i) /\ req' = Block(0, get_order(number))
  BY DEF AllocStart
<1>2. /\ pc = "idle" /\ pc' = "split"
      /\ UNCHANGED <<lists, counters, RefCount, reserved, held>>
  BY DEF AllocStart
<1>3. get_order(number) \in Orders
  BY <1>1, GetOrder, ZoneAssumption DEF Orders
<1>4. /\ cur' \in BlockSpace /\ req' \in BlockSpace
      /\ cur'.order = i /\ req'.order = get_order(number)
  BY <1>1, <1>3 DEF Block, BlockSpace
<1>5. TypeOK' /\ ListsInv' /\ FreeBlocks' = FreeBlocks
  BY <1>2, <1>4, QuietFacts
<1>6. free_list[i] # <<>>
  BY <1>1 DEF IInv, ListsInv
<1>7. Geometry'
  BY <1>2, <1>5 DEF IInv, Geometry, Merging, Fits, Apart, End
<1>8. Phase'
  BY <1>1, <1>2, <1>3, <1>4, <1>6 DEF Phase, lists
<1>9. RefInv'
  BY <1>2 DEF IInv, RefInv, Used
<1> QED
  BY <1>5, <1>7, <1>8, <1>9 DEF IInv

\* free_pages takes back a block a caller holds.
LEMMA FreeStartInv == ASSUME IInv, NEW b0 \in held, FreeStart(b0) PROVE IInv'
<1>1. /\ pc = "idle" /\ pc' = "free_core" /\ cur' = b0 /\ req' = b0
      /\ held' = held \ {b0}
      /\ UNCHANGED <<lists, counters, RefCount, reserved>>
  BY DEF FreeStart
<1>2. b0 \in BlockSpace
  BY DEF IInv, TypeOK
<1>3. TypeOK' /\ ListsInv' /\ FreeBlocks' = FreeBlocks
  BY <1>1, <1>2, QuietFacts
<1>4. Geometry'
  <2>1. Fits(cur)'
    BY <1>1 DEF IInv, Geometry, Fits, End
  <2>2. \A b \in FreeBlocks' : Apart(b, cur)'
    BY <1>1, <1>3 DEF IInv, Geometry, Apart, End
  <2>3. \A b \in held' : Apart(b, cur)'
    BY <1>1 DEF IInv, Geometry, Apart, End
  <2> QED
    BY <1>1, <1>3, <2>1, <2>2, <2>3 DEF IInv, Geometry, Fits, Apart, End
<1>5. Phase'
  BY <1>1, <1>2, EndIsNat DEF Phase, Inside, End
<1>6. RefInv'
  BY <1>1 DEF IInv, RefInv, Used, Pages
<1> QED
  BY <1>3, <1>4, <1>5, <1>6 DEF IInv

\* One iteration of the merge loop: the buddies become one aligned block.
LEMMA CoreMergeInv == ASSUME IInv, CoreMerge PROVE IInv'
<1> DEFINE o     == cur.order
           p     == cur.page
           buddy == BuddyOf(p, o)
           bd    == Block(buddy, o)
           low   == IF buddy < p THEN buddy ELSE p
<1>1. /\ Merging /\ o < MAX_ORDER - 1 /\ buddy \in Elements(free_list[o])
      /\ free_list' = [free_list EXCEPT ![o] = Without(free_list[o], buddy)]
      /\ nr_free' = [nr_free EXCEPT ![o] = nr_free[o] - 1]
      /\ cur' = Block(low, o + 1)
      /\ UNCHANGED <<counters, RefCount, reserved, pc, req, held>>
  BY DEF CoreMerge, CanMerge, Merging
<1>2. /\ cur \in BlockSpace /\ req \in BlockSpace /\ p \in Nat /\ o \in Orders
      /\ o + 1 \in Orders /\ held \subseteq BlockSpace
  <2>1. cur \in BlockSpace /\ req \in BlockSpace /\ held \subseteq BlockSpace
    BY DEF IInv, TypeOK
  <2>2. p \in Nat /\ o \in Orders
    BY <2>1 DEF BlockSpace
  <2>3. o + 1 \in Orders
    BY <1>1, <2>2, ZoneAssumption DEF Orders
  <2> QED
    BY <2>1, <2>2, <2>3
<1>3. /\ WellFormed(free_list, nr_free) /\ FreeBlocks = BlocksOf(free_list)
      /\ FreeBlocks \subseteq BlockSpace
  BY ListFacts DEF IInv
<1>4. /\ WellFormed(free_list', nr_free') /\ FreeBlocks' = FreeBlocks \ {bd}
      /\ bd \in FreeBlocks /\ buddy \in Nat
  <2>1. free_list[o] \in Seq(Nat) /\ Injective(free_list[o])
    BY <1>2, <1>3 DEF WellFormed
  <2>2. LET t == Without(free_list[o], buddy)
        IN  /\ t \in Seq(Nat) /\ Len(t) = Len(free_list[o]) - 1
            /\ Elements(t) = Elements(free_list[o]) \ {buddy} /\ Injective(t)
    BY <1>1, <2>1, WithoutElements
  <2>3. FreeBlocks' = BlocksOf(free_list')
    BY DEF FreeBlocks, BlocksOf
  <2> HIDE DEF buddy, o
  <2> QED
    BY <1>1, <1>2, <1>3, <2>2, <2>3, RemoveBlock
<1>5. /\ BlockPages[o] \in Nat /\ BlockPages[o] > 0 /\ BlockPages[o+1] = 2 * BlockPages[o]
  BY <1>2, BlockSize
<1>6. buddy = p + BlockPages[o] \/ buddy = p - BlockPages[o]
  BY DEF BuddyOf
<1>7. /\ cur' \in BlockSpace /\ cur'.page = low /\ cur'.order = o + 1
      /\ bd \in BlockSpace /\ bd.page = buddy /\ bd.order = o
  BY <1>1, <1>2, <1>4 DEF Block, BlockSpace
<1>8. /\ End(cur) = p + BlockPages[o] /\ End(bd) = buddy + BlockPages[o]
      /\ End(cur') = low + 2 * BlockPages[o]
  BY <1>5, <1>7 DEF End
<1> HIDE DEF buddy, bd
\* The merged block is the two halves side by side.
<1>9. \/ cur'.page = p /\ End(cur') = End(bd) /\ bd.page = End(cur)
      \/ cur'.page = bd.page /\ End(cur') = End(cur) /\ p = End(bd)
  BY <1>2, <1>4, <1>5, <1>6, <1>7, <1>8
<1>10. /\ cur.page \in Nat /\ End(cur) \in Nat /\ bd.page \in Nat /\ End(bd) \in Nat
       /\ cur'.page \in Nat /\ End(cur') \in Nat /\ req.page \in Nat /\ End(req) \in Nat
       /\ cur.page < End(cur) /\ bd.page < End(bd) /\ req.page < End(req)
  BY <1>2, <1>7, EndIsNat
<1> HIDE DEF p, o, low
<1>11. Fits(cur')
  <2>1. Fits(cur) /\ Fits(bd)
    BY <1>1, <1>4 DEF IInv, Geometry
  <2>2. \A r \in reserved : r \in Int
    BY ZoneAssumption DEF IInv, TypeOK, ZonePages
  <2> QED
    BY <1>9, <1>10, <2>1, <2>2, ZoneAssumption DEF Fits, p
<1>12. ASSUME NEW b \in BlockSpace, Apart(b, cur), Apart(b, bd)
       PROVE  Apart(b, cur')
  <2>1. b.page \in Nat /\ End(b) \in Nat /\ b.page < End(b)
    BY EndIsNat
  <2> QED
    BY <1>9, <1>10, <1>12, <2>1 DEF Apart, p
<1>13. \A b \in FreeBlocks \ {bd} : Apart(b, cur')
  BY <1>1, <1>3, <1>4, <1>12 DEF IInv, Geometry
<1>14. \A b \in held : Apart(b, cur')
  <2> SUFFICES ASSUME NEW b \in held PROVE Apart(b, cur')
    OBVIOUS
  <2>1. Apart(bd, b) /\ Apart(b, cur)
    BY <1>1, <1>4 DEF IInv, Geometry
  <2>2. Apart(b, bd)
    BY <2>1 DEF Apart
  <2> QED
    BY <1>2, <1>12, <2>1, <2>2
<1>15. TypeOK' /\ ListsInv'
  BY <1>1, <1>4, <1>7 DEF IInv, TypeOK, ListsInv, WellFormed, counters
<1>16. Geometry'
  <2>1. Fits(cur)'
    BY <1>1, <1>11 DEF Fits, End
  <2>2. (\A b \in FreeBlocks : Apart(b, cur))'
    BY <1>4, <1>13 DEF Apart, End
  <2>3. (\A b \in held : Apart(b, cur))'
    BY <1>1, <1>14 DEF Apart, End
  <2>4. /\ \A b \in FreeBlocks' : b \in FreeBlocks
        /\ reserved' = reserved /\ held' = held
    BY <1>1, <1>4
  <2> QED
    BY <2>1, <2>2, <2>3, <2>4 DEF IInv, Geometry, Fits, Apart, End
<1>17. Phase'
  <2>1. CASE pc = "seed_core"
    <3>1. /\ ZoneStart <= req.page /\ End(cur) <= End(req)
          /\ \A b \in FreeBlocks : End(b) <= req.page
      BY <2>1 DEF IInv, Phase
    <3>2. End(cur') <= End(req)
      BY <1>4, <1>9, <1>10, <3>1 DEF p
    <3> QED
      BY <1>1, <1>4, <2>1, <3>1, <3>2 DEF IInv, Phase, End
  <2>2. CASE pc = "free_core"
    <3>1. Inside(req, cur)
      BY <2>2 DEF IInv, Phase
    <3>2. Inside(req, cur')
      BY <1>9, <1>10, <3>1 DEF Inside, p
    <3> QED
      BY <1>1, <2>2, <3>2 DEF Phase, Inside, End
  <2> QED
    BY <1>1, <2>1, <2>2 DEF Merging
<1>18. RefInv'
  BY <1>1 DEF IInv, RefInv, Used, Pages
<1> QED
  BY <1>15, <1>16, <1>17, <1>18 DEF IInv

\* The end of __free_pages_core puts the merged block on its list.
LEMMA InsertFacts ==
  ASSUME IInv, Merging, CoreInsert
  PROVE  /\ WellFormed(free_list', nr_free') /\ FreeBlocks' = FreeBlocks \cup {cur}
         /\ FreeBlocks \subseteq BlockSpace /\ cur \in BlockSpace /\ req \in BlockSpace
<1>1. cur \in BlockSpace /\ req \in BlockSpace
  BY DEF IInv, TypeOK
<1>2. /\ cur.page \in Nat /\ cur.order \in Orders /\ End(cur) \in Nat
      /\ cur.page < End(cur) /\ cur = Block(cur.page, cur.order)
  BY <1>1, EndIsNat DEF BlockSpace, Block
<1>3. /\ WellFormed(free_list, nr_free) /\ FreeBlocks = BlocksOf(free_list)
      /\ FreeBlocks \subseteq BlockSpace
  BY ListFacts DEF IInv
<1>4. cur \notin FreeBlocks
  BY <1>2 DEF IInv, Geometry, Apart
<1>5. /\ free_list' = [free_list EXCEPT ![cur.order] = PushFront(free_list[cur.order], cur.page)]
      /\ nr_free' = [nr_free EXCEPT ![cur.order] = nr_free[cur.order] + 1]
  BY DEF CoreInsert
<1>6. FreeBlocks' = BlocksOf(free_list')
  BY DEF FreeBlocks, BlocksOf
<1>7. /\ WellFormed(free_list', nr_free')
      /\ BlocksOf(free_list') = BlocksOf(free_list) \cup {Block(cur.page, cur.order)}
  BY <1>2, <1>3, <1>4, <1>5, AddBlock
<1> QED
  BY <1>1, <1>2, <1>3, <1>6, <1>7

\* __free_pages puts the merged block on its list and drops the references.
LEMMA FreeInsertInv == ASSUME IInv, FreeInsert PROVE IInv'
<1>1. /\ pc = "free_core" /\ pc' = "idle" /\ cur' = NoBlock /\ req' = NoBlock
      /\ RefCount' = [p \in ZonePages |->
           IF p \in Pages(req) THEN RefCount[p] - 1 ELSE RefCount[p]]
      /\ UNCHANGED <<reserved, held>>
  BY DEF FreeInsert
<1>2. /\ WellFormed(free_list', nr_free') /\ FreeBlocks' = FreeBlocks \cup {cur}
      /\ FreeBlocks \subseteq BlockSpace /\ cur \in BlockSpace /\ req \in BlockSpace
  BY <1>1, InsertFacts DEF FreeInsert, Merging
<1>3. /\ Fits(cur) /\ Inside(req, cur)
      /\ \A b \in FreeBlocks : Apart(b, cur)
      /\ \A b \in held : Apart(b, cur)
  BY <1>1 DEF IInv, Geometry, Phase, Merging
<1>4. RefInv' /\ RefCount' \in [ZonePages -> Nat]
  <2> SUFFICES ASSUME NEW p \in ZonePages
               PROVE  RefCount'[p] = IF Used(p)' THEN 1 ELSE 0
    BY <1>1 DEF RefInv
  <2>1. p \in Int /\ RefCount[p] = (IF Used(p) THEN 1 ELSE 0)
    BY ZoneAssumption DEF IInv, RefInv, ZonePages
  <2>2. Used(p)' <=> (p \in reserved \/ \E b \in held : p \in Pages(b))
    BY <1>1 DEF Used, Pages
  <2>3. CASE p \in Pages(req)
    <3>1. /\ req.page \in Nat /\ End(req) \in Nat /\ cur.page \in Nat /\ End(cur) \in Nat
          /\ req.page <= p /\ p < End(req)
      <4>1. /\ req.page \in Nat /\ End(req) \in Nat /\ cur.page \in Nat /\ End(cur) \in Nat
            /\ req.order \in Orders
        BY <1>2, EndIsNat
      <4>2. BlockPages[req.order] \in Nat
        BY <4>1, BlockSize
      <4> QED
        BY <2>1, <2>3, <4>1, <4>2 DEF Pages, End
    <3>2. cur.page <= p /\ p < End(cur)
      BY <1>3, <2>1, <3>1 DEF Inside
    <3>3. p \notin reserved
      BY <1>3, <2>1, <3>1, <3>2 DEF Fits
    <3>4. ASSUME NEW b \in held PROVE p \notin Pages(b)
      <4>1. b \in BlockSpace /\ Apart(b, cur)
        BY <1>3 DEF IInv, TypeOK
      <4>2. b.page \in Nat /\ BlockPages[b.order] \in Nat
        BY <4>1, BlockSize DEF BlockSpace
      <4> QED
        BY <2>1, <3>1, <3>2, <4>1, <4>2 DEF Apart, Pages, End
    <3>5. Used(p)
      BY <1>1, <2>3 DEF Used
    <3> QED
      BY <1>1, <2>1, <2>2, <2>3, <3>3, <3>4, <3>5
  <2>4. CASE p \notin Pages(req)
    <3>1. Used(p) <=> Used(p)'
      BY <2>2, <2>4 DEF Used
    <3> QED
      BY <1>1, <2>1, <2>4, <3>1
  <2> QED
    BY <2>3, <2>4
<1>5. TypeOK' /\ ListsInv'
  <2>1. NoBlock \in BlockSpace
    BY BlockSize DEF NoBlock, Block, BlockSpace
  <2>2. PageFreeCount' \in Int /\ PageUsingCount' \in Int /\ TotalPagesLink' \in Int
    <3>1. req.order \in Orders
      BY <1>2, EndIsNat
    <3>2. BlockPages[req.order] \in Nat
      BY <3>1, BlockSize
    <3> QED
      BY <3>2 DEF FreeInsert, IInv, TypeOK
  <2> QED
    BY <1>1, <1>2, <1>4, <2>1, <2>2 DEF IInv, TypeOK, ListsInv, WellFormed
<1>6. Geometry'
  <2>1. \A b, c \in FreeBlocks \cup {cur} : b = c \/ Apart(b, c)
    BY <1>3 DEF IInv, Geometry, Apart
  <2>2. \A b \in FreeBlocks \cup {cur}, c \in held : Apart(b, c)
    BY <1>3 DEF IInv, Geometry, Apart
  <2> QED
    BY <1>1, <1>2, <1>3, <2>1, <2>2 DEF IInv, Geometry, Fits, Apart, End, Merging
<1>7. Phase'
  BY <1>1 DEF Phase
<1> QED
  BY <1>4, <1>5, <1>6, <1>7 DEF IInv

\* init_buddy_system puts a block on its list and walks on.
LEMMA SeedInsertInv == ASSUME IInv, SeedInsert PROVE IInv'
<1>1. /\ pc = "seed_core" /\ pc' = "seed"
      /\ cur' = Block(req.page + BlockPages[req.order], 0)
      /\ UNCHANGED <<counters, RefCount, reserved, req, held>>
  BY DEF SeedInsert
<1>2. /\ WellFormed(free_list', nr_free') /\ FreeBlocks' = FreeBlocks \cup {cur}
      /\ FreeBlocks \subseteq BlockSpace /\ cur \in BlockSpace /\ req \in BlockSpace
  BY <1>1, InsertFacts DEF SeedInsert, Merging
<1>3. /\ Fits(cur) /\ held = {} /\ ZoneStart <= req.page /\ End(cur) <= End(req)
      /\ \A b \in FreeBlocks : Apart(b, cur) /\ End(b) <= req.page
  BY <1>1 DEF IInv, Geometry, Phase, Merging
<1>4. /\ req.page \in Nat /\ End(req) \in Nat /\ req.page < End(req)
      /\ cur'.page = End(req) /\ cur'.order = 0 /\ cur' \in BlockSpace
  BY <1>1, <1>2, EndIsNat, BlockSize DEF Block, BlockSpace, End
<1>5. TypeOK' /\ ListsInv'
  BY <1>1, <1>2, <1>4 DEF IInv, TypeOK, ListsInv, WellFormed, counters
<1>6. Geometry'
  <2>1. \A b, c \in FreeBlocks \cup {cur} : b = c \/ Apart(b, c)
    BY <1>3 DEF IInv, Geometry, Apart
  <2>2. (\A b \in FreeBlocks \cup {cur} : Fits(b)) /\ held' = {}
    BY <1>1, <1>3 DEF IInv, Geometry
  <2>3. ~Merging'
    BY <1>1 DEF Merging
  <2> QED
    BY <1>1, <1>2, <2>1, <2>2, <2>3, GeometryQuiet
<1>7. Phase'
  <2>1. \A b \in FreeBlocks \cup {cur} : End(b) <= End(req)
    BY <1>2, <1>3, <1>4, EndIsNat
  <2>2. ZoneStart <= End(req)
    BY <1>3, <1>4, ZoneAssumption
  <2>3. \A b \in FreeBlocks' : End(b) <= cur'.page
    BY <1>2, <1>4, <2>1
  <2>4. held' = {} /\ cur'.order = 0 /\ ZoneStart <= cur'.page
    BY <1>1, <1>3, <1>4, <2>2
  <2> QED
    BY <1>1, <2>3, <2>4 DEF Phase, End
<1>8. RefInv'
  BY <1>1 DEF IInv, RefInv, Used
<1> QED
  BY <1>5, <1>6, <1>7, <1>8 DEF IInv

\* The head of a list that is not empty is a free block.
LEMMA HeadFacts ==
  ASSUME IInv, NEW o \in Orders, free_list[o] # <<>>
  PROVE  LET h  == Head(free_list[o])
             fl == [free_list EXCEPT ![o] = Tail(free_list[o])]
             nf == [nr_free EXCEPT ![o] = nr_free[o] - 1]
         IN  /\ WellFormed(fl, nf) /\ BlocksOf(fl) = FreeBlocks \ {Block(h, o)}
             /\ Block(h, o) \in FreeBlocks /\ h \in Nat
<1>1. WellFormed(free_list, nr_free) /\ FreeBlocks = BlocksOf(free_list)
  BY ListFacts DEF IInv
<1>2. free_list[o] \in Seq(Nat) /\ Injective(free_list[o])
  BY <1>1 DEF WellFormed
<1> DEFINE h == Head(free_list[o])
           t == Tail(free_list[o])
<1>3. /\ t \in Seq(Nat) /\ Len(t) = Len(free_list[o]) - 1 /\ h \in Elements(free_list[o])
      /\ Elements(t) = Elements(free_list[o]) \ {h} /\ Injective(t)
  BY <1>2, TailElements
<1> HIDE DEF h, t
<1>4. /\ WellFormed([free_list EXCEPT ![o] = t], [nr_free EXCEPT ![o] = nr_free[o] - 1])
      /\ BlocksOf([free_list EXCEPT ![o] = t]) = FreeBlocks \ {Block(h, o)}
      /\ Block(h, o) \in FreeBlocks /\ h \in Nat
  BY <1>1, <1>3, RemoveBlock
<1> QED
  BY <1>4 DEF h, t

\* get_page_from_freelist takes the head of the list it has split down to.
LEMMA AllocTakeInv == ASSUME IInv, AllocTake PROVE IInv'
<1> DEFINE o == req.order
           h == Head(free_list[o])
           b0 == Block(h, o)
<1>1. /\ pc = "split" /\ cur.order = o /\ pc' = "idle" /\ cur' = NoBlock /\ req' = NoBlock
      /\ free_list' = [free_list EXCEPT ![o] = Tail(free_list[o])]
      /\ nr_free' = [nr_free EXCEPT ![o] = nr_free[o] - 1]
      /\ RefCount' = [p \in ZonePages |->
           IF p \in Pages(b0) THEN RefCount[p] + 1 ELSE RefCount[p]]
      /\ held' = held \cup {b0} /\ reserved' = reserved
  BY DEF AllocTake
<1>2. req \in BlockSpace /\ held \subseteq BlockSpace
  BY DEF IInv, TypeOK
<1>3. o \in Orders /\ BlockPages[o] \in Nat
  <2>1. o \in Orders
    BY <1>2, EndIsNat
  <2> QED
    BY <2>1, BlockSize
<1>4. free_list[o] # <<>>
  BY <1>1 DEF IInv, Phase
<1>5. /\ WellFormed(free_list', nr_free') /\ BlocksOf(free_list') = FreeBlocks \ {b0}
      /\ b0 \in FreeBlocks /\ h \in Nat
  BY <1>1, <1>3, <1>4, HeadFacts
<1>6. FreeBlocks' = FreeBlocks \ {b0} /\ FreeBlocks \subseteq BlockSpace
  <2>1. FreeBlocks' = BlocksOf(free_list')
    BY DEF FreeBlocks, BlocksOf
  <2> QED
    BY <1>5, <2>1, ListFacts DEF IInv
<1> HIDE DEF b0
<1>7. /\ Fits(b0) /\ b0 \in BlockSpace
      /\ \A b \in FreeBlocks \ {b0} : Apart(b, b0)
      /\ \A b \in held : Apart(b0, b) /\ Apart(b, b0)
  BY <1>5, <1>6 DEF IInv, Geometry, Apart
<1>8. RefInv' /\ RefCount' \in [ZonePages -> Nat]
  <2> SUFFICES ASSUME NEW p \in ZonePages
               PROVE  RefCount'[p] = IF Used(p)' THEN 1 ELSE 0
    BY <1>1 DEF RefInv
  <2>1. p \in Int /\ RefCount[p] = (IF Used(p) THEN 1 ELSE 0)
    BY ZoneAssumption DEF IInv, RefInv, ZonePages
  <2>2. /\ Used(p)' <=> (p \in reserved \/ p \in Pages(b0) \/ \E b \in held : p \in Pages(b))
        /\ Used(p) <=> (p \in reserved \/ \E b \in held : p \in Pages(b))
    BY <1>1 DEF Used, Pages
  <2>3. ASSUME p \in Pages(b0) PROVE ~Used(p)
    <3>1. b0.page \in Nat /\ b0.order \in Orders /\ BlockPages[b0.order] \in Nat
      <4>1. b0.page \in Nat /\ b0.order \in Orders
        BY <1>7, EndIsNat
      <4> QED
        BY <4>1, BlockSize
    <3>2. b0.page <= p /\ p < End(b0)
      BY <2>1, <2>3, <3>1 DEF Pages, End
    <3>3. p \notin reserved
      BY <1>7, <2>1, <3>1, <3>2 DEF Fits, End
    <3>4. ASSUME NEW b \in held PROVE p \notin Pages(b)
      <4>1. b.page \in Nat /\ b.order \in Orders
        BY <1>2, EndIsNat
      <4>2. BlockPages[b.order] \in Nat /\ Apart(b, b0)
        BY <1>7, <4>1, BlockSize
      <4> QED
        BY <2>1, <3>1, <3>2, <4>1, <4>2 DEF Apart, Pages, End
    <3> QED
      BY <2>2, <3>3, <3>4
  <2>4. RefCount'[p] = IF p \in Pages(b0) THEN RefCount[p] + 1 ELSE RefCount[p]
    BY <1>1
  <2> QED
    BY <2>1, <2>2, <2>3, <2>4
<1>9. TypeOK' /\ ListsInv'
  <2>1. NoBlock \in BlockSpace
    BY BlockSize DEF NoBlock, Block, BlockSpace
  <2>2. PageFreeCount' \in Int /\ PageUsingCount' \in Int /\ TotalPagesLink' \in Int
    <3>1. /\ PageFreeCount' = PageFreeCount - BlockPages[o]
          /\ PageUsingCount' = PageUsingCount + BlockPages[o]
          /\ TotalPagesLink' = TotalPagesLink + BlockPages[o]
      BY DEF AllocTake
    <3>2. PageFreeCount \in Int /\ PageUsingCount \in Int /\ TotalPagesLink \in Int
      BY DEF IInv, TypeOK
    <3> HIDE DEF o
    <3> QED
      BY <1>3, <3>1, <3>2
  <2> QED
    BY <1>1, <1>5, <1>7, <1>8, <2>1, <2>2 DEF IInv, TypeOK, ListsInv, WellFormed
<1>10. Geometry'
  <2>1. \A b, c \in held \cup {b0} : b = c \/ Apart(b, c)
    BY <1>7 DEF IInv, Geometry
  <2>2. \A b \in FreeBlocks \ {b0}, c \in held \cup {b0} : Apart(b, c)
    BY <1>7 DEF IInv, Geometry
  <2>3. \A b, c \in FreeBlocks \ {b0} : b = c \/ Apart(b, c)
    BY DEF IInv, Geometry
  <2>4. (\A b \in FreeBlocks \ {b0} : Fits(b)) /\ (\A b \in held \cup {b0} : Fits(b))
    BY <1>7 DEF IInv, Geometry
  <2>5. ~Merging'
    BY <1>1 DEF Merging
  <2> QED
    BY <1>1, <1>6, <2>1, <2>2, <2>3, <2>4, <2>5, GeometryQuiet
<1>11. Phase'
  BY <1>1 DEF Phase
<1> QED
  BY <1>8, <1>9, <1>10, <1>11 DEF IInv

\* One iteration of the split loop: a free block becomes two aligned halves.
LEMMA AllocSplitInv == ASSUME IInv, AllocSplit PROVE IInv'
<1> DEFINE ob == cur.order
           k  == ob - 1
           h  == Head(free_list[ob])
           m  == h + BlockPages[k]
           big == Block(h, ob)
           lo  == Block(h, k)
           hi  == Block(m, k)
           f1 == [free_list EXCEPT ![ob] = Tail(free_list[ob])]
           n1 == [nr_free EXCEPT ![ob] = nr_free[ob] - 1]
           f2 == [f1 EXCEPT ![k] = PushFront(f1[k], m)]
           n2 == [n1 EXCEPT ![k] = n1[k] + 1]
           f3 == [f2 EXCEPT ![k] = PushFront(f2[k], h)]
           n3 == [n2 EXCEPT ![k] = n2[k] + 1]
<1>1. /\ pc = "split" /\ pc' = "split" /\ ob > req.order /\ cur' = Block(0, k)
      /\ UNCHANGED <<counters, RefCount, reserved, req, held>>
  BY DEF AllocSplit
<1>2. cur \in BlockSpace /\ req \in BlockSpace /\ held \subseteq BlockSpace
  BY DEF IInv, TypeOK
<1>3. ob \in Orders /\ req.order \in Orders
  BY <1>2, EndIsNat
<1>4. k \in Orders /\ k + 1 = ob /\ k # ob /\ req.order <= k
  BY <1>1, <1>3, ZoneAssumption DEF Orders
<1>5. BlockPages[k] \in Nat /\ BlockPages[k] > 0 /\ BlockPages[ob] = 2 * BlockPages[k]
  BY <1>3, <1>4, BlockSize
<1>6. free_list[ob] # <<>>
  BY <1>1 DEF IInv, Phase
<1>7. free_list \in [Orders -> Seq(Nat)] /\ nr_free \in [Orders -> Nat]
  BY DEF IInv, TypeOK
<1>8. free_list' = f3 /\ nr_free' = n3
  <2> HIDE DEF k, h, m, ob
  <2>1. /\ free_list' = [free_list EXCEPT ![ob] = Tail(@), ![k] = PushFront(PushFront(@, m), h)]
        /\ nr_free' = [nr_free EXCEPT ![ob] = @ - 1, ![k] = @ + 2]
    BY DEF AllocSplit, ob, k, h, m
  <2>2. free_list' = f3
    BY <1>3, <1>4, <1>7, <2>1
  <2>3. nr_free' = n3
    BY <1>3, <1>4, <1>7, <2>1
  <2> QED
    BY <2>2, <2>3
<1>9. WellFormed(f1, n1) /\ BlocksOf(f1) = FreeBlocks \ {big} /\ big \in FreeBlocks /\ h \in Nat
  BY <1>3, <1>6, HeadFacts
<1>10. FreeBlocks \subseteq BlockSpace
  BY ListFacts DEF IInv
<1> HIDE DEF f1, n1, h, k, ob
<1>11. /\ big \in BlockSpace /\ lo \in BlockSpace /\ hi \in BlockSpace
       /\ big.page = h /\ lo.page = h /\ hi.page = m /\ m \in Nat
       /\ big.order = ob /\ lo.order = k /\ hi.order = k
  BY <1>3, <1>4, <1>5, <1>9 DEF Block, BlockSpace
<1>12. /\ End(big) = h + 2 * BlockPages[k] /\ End(lo) = m /\ End(hi) = h + 2 * BlockPages[k]
       /\ h < m /\ m < End(big) /\ End(big) \in Nat /\ End(hi) = End(big)
  <2>1. /\ End(big) = h + BlockPages[ob] /\ End(lo) = m
        /\ End(hi) = m + BlockPages[k]
    BY <1>11 DEF End
  <2> QED
    BY <1>5, <1>9, <2>1
<1>13. /\ Inside(lo, big) /\ Inside(hi, big) /\ Apart(lo, hi) /\ Apart(hi, lo)
       /\ lo # hi /\ lo # big /\ hi # big
  <2> HIDE DEF big, lo, hi, m
  <2>1. lo # hi /\ lo # big /\ hi # big
    <3>1. lo.page # hi.page
      BY <1>11, <1>12
    <3>2. lo.order # big.order /\ hi.order # big.order
      BY <1>4, <1>11
    <3> QED
      BY <3>1, <3>2
  <2>2. h \in Nat /\ m \in Nat /\ End(big) \in Nat /\ End(lo) = m /\ End(hi) = End(big)
    BY <1>9, <1>11, <1>12
  <2>3. Inside(lo, big) /\ Inside(hi, big)
    BY <1>11, <1>12, <2>2 DEF Inside
  <2>4. Apart(lo, hi) /\ Apart(hi, lo)
    BY <1>11, <2>2 DEF Apart
  <2> QED
    BY <2>1, <2>3, <2>4
<1> HIDE DEF big, lo, hi
\* What lies apart from the block lies apart from each of its halves.
<1>14. ASSUME NEW b \in BlockSpace, Apart(b, big) \/ Apart(big, b)
       PROVE  Apart(b, lo) /\ Apart(lo, b) /\ Apart(b, hi) /\ Apart(hi, b)
  <2>1. b.page \in Nat /\ End(b) \in Nat
    BY EndIsNat
  <2> HIDE DEF m
  <2>2. /\ h \in Nat /\ m \in Nat /\ End(big) \in Nat /\ h < m /\ m < End(big)
        /\ End(lo) = m /\ End(hi) = End(big)
    BY <1>9, <1>11, <1>12
  <2>3. big.page = h /\ lo.page = h /\ hi.page = m
    BY <1>11
  <2> QED
    BY <1>14, <2>1, <2>2, <2>3 DEF Apart
<1>15. \A b \in FreeBlocks \ {big} : /\ Apart(b, lo) /\ Apart(lo, b)
                                    /\ Apart(b, hi) /\ Apart(hi, b)
  BY <1>9, <1>10, <1>14 DEF IInv, Geometry
<1>16. lo \notin FreeBlocks \ {big} /\ hi \notin FreeBlocks \ {big}
  <2>1. ~Apart(lo, lo) /\ ~Apart(hi, hi)
    BY <1>5, <1>9, <1>11, <1>12 DEF Apart
  <2> QED
    BY <1>15, <2>1
<1>17. WellFormed(f2, n2) /\ BlocksOf(f2) = (FreeBlocks \ {big}) \cup {hi}
  <2>1. Block(m, k) \notin BlocksOf(f1)
    BY <1>9, <1>16 DEF hi
  <2>2. m \in Nat
    BY <1>11
  <2> HIDE DEF m
  <2> QED
    BY <1>4, <1>9, <2>1, <2>2, AddBlock DEF hi
<1> HIDE DEF f2, n2
<1>18. WellFormed(f3, n3) /\ BlocksOf(f3) = (FreeBlocks \ {big}) \cup {hi} \cup {lo}
  <2>1. Block(h, k) \notin BlocksOf(f2)
    BY <1>13, <1>16, <1>17 DEF lo
  <2>2. WellFormed(f3, n3) /\ BlocksOf(f3) = BlocksOf(f2) \cup {Block(h, k)}
    BY <1>4, <1>9, <1>17, <2>1, AddBlock
  <2> QED
    BY <1>17, <2>2 DEF lo
<1>19. /\ WellFormed(free_list', nr_free')
       /\ FreeBlocks' = (FreeBlocks \ {big}) \cup {hi} \cup {lo}
  <2>1. FreeBlocks' = BlocksOf(free_list')
    BY DEF FreeBlocks, BlocksOf
  <2> QED
    BY <1>8, <1>18, <2>1
<1> HIDE DEF f3, n3
<1>20. TypeOK' /\ ListsInv'
  <2>1. cur' \in BlockSpace
    BY <1>1, <1>4 DEF Block, BlockSpace
  <2> QED
    BY <1>1, <1>19, <2>1 DEF IInv, TypeOK, ListsInv, WellFormed, counters
<1>21. Fits(lo) /\ Fits(hi)
  <2>1. Fits(big)
    BY <1>9 DEF IInv, Geometry
  <2>2. \A r \in reserved : r \in Int
    BY ZoneAssumption DEF IInv, TypeOK, ZonePages
  <2>3. h \in Nat /\ End(big) \in Nat
    BY <1>9, <1>11, EndIsNat
  <2>4. Fits(lo)
    BY <1>11, <1>12, <2>1, <2>2, <2>3, ZoneAssumption DEF Fits
  <2>5. Fits(hi)
    BY <1>11, <1>12, <2>1, <2>2, <2>3, ZoneAssumption DEF Fits
  <2> QED
    BY <2>4, <2>5
<1>22. Geometry'
  <2>1. \A b, c \in FreeBlocks' : b = c \/ Apart(b, c)
    BY <1>13, <1>15, <1>19 DEF IInv, Geometry
  <2>2. \A c \in held : Apart(lo, c) /\ Apart(hi, c)
    BY <1>2, <1>9, <1>14 DEF IInv, Geometry
  <2>3. \A b \in FreeBlocks', c \in held : Apart(b, c)
    BY <1>19, <2>2 DEF IInv, Geometry
  <2>4. \A b \in FreeBlocks' : Fits(b)
    BY <1>19, <1>21 DEF IInv, Geometry
  <2>5. /\ reserved' = reserved /\ held' = held /\ ~Merging'
        /\ \A b \in held : Fits(b)
        /\ \A b, c \in held : b = c \/ Apart(b, c)
    BY <1>1 DEF IInv, Geometry, Merging
  <2> QED
    BY <2>1, <2>3, <2>4, <2>5, GeometryQuiet
<1>23. Phase'
  <2>1. lo \in FreeBlocks' /\ cur'.order = k
    BY <1>1, <1>19 DEF Block, k, ob
  <2>2. FreeBlocks' = BlocksOf(free_list') /\ free_list' \in [Orders -> Seq(Nat)]
    BY <1>19 DEF FreeBlocks, BlocksOf, WellFormed
  <2>3. h \in Elements(free_list'[k])
    BY <1>11, <2>1, <2>2, FreeMember
  <2>4. free_list'[k] # <<>>
    BY <2>3 DEF Elements
  <2> QED
    BY <1>1, <1>4, <2>1, <2>4 DEF Phase
<1>24. RefInv'
  BY <1>1 DEF IInv, RefInv, Used, Pages
<1> QED
  BY <1>20, <1>22, <1>23, <1>24 DEF IInv

\* Every step of the allocator keeps the invariant.
LEMMA NextInv == IInv /\ [Next]_vars => IInv'
<1> SUFFICES ASSUME IInv, [Next]_vars PROVE IInv'
  OBVIOUS
<1>1. CASE UNCHANGED vars
  <2>1. UNCHANGED <<free_list, nr_free, PageFreeCount, PageUsingCount, TotalPagesLink,
                    RefCount, reserved, pc, cur, req, held>>
    BY <1>1 DEF vars, lists, counters
  <2>2. FreeBlocks' = FreeBlocks
    BY <2>1 DEF FreeBlocks
  <2>3. TypeOK' /\ ListsInv'
    BY <2>1 DEF IInv, TypeOK, ListsInv
  <2>4. Geometry'
    BY <2>1, <2>2 DEF IInv, Geometry, Fits, Apart, End, Merging
  <2>5. Phase' /\ RefInv'
    BY <2>1, <2>2 DEF IInv, Phase, RefInv, Used, Inside, End, Pages
  <2> QED
    BY <2>3, <2>4, <2>5 DEF IInv
<1>2. ASSUME NEW first \in ZoneStart..ZoneEnd, NEW last \in ZoneStart..ZoneEnd,
             Reserve(first, last)
      PROVE  IInv'
  BY <1>2, ReserveInv
<1>3. CASE SeedStart \/ SeedSkip \/ SeedBlock \/ SeedDone
  BY <1>3, SeedStartInv, SeedSkipInv, SeedBlockInv, SeedDoneInv
<1>4. ASSUME NEW number \in 1..BlockPages[MAX_ORDER], AllocStart(number)
      PROVE  IInv'
  <2>1. number \in Nat
    BY BlockPagesAssumption, ZoneAssumption
  <2> QED
    BY <1>4, <2>1, AllocStartInv
<1>5. ASSUME NEW number \in 1..BlockPages[MAX_ORDER], AllocFail(number)
      PROVE  IInv'
  BY <1>1, <1>5 DEF AllocFail
<1>6. CASE AllocSplit \/ AllocTake
  BY <1>6, AllocSplitInv, AllocTakeInv
<1>7. ASSUME NEW b \in held, FreeStart(b)
      PROVE  IInv'
  BY <1>7, FreeStartInv
<1>8. CASE CoreMerge \/ FreeInsert \/ SeedInsert
  BY <1>8, CoreMergeInv, FreeInsertInv, SeedInsertInv
<1> QED
  BY <1>1, <1>2, <1>3, <1>4, <1>5, <1>6, <1>7, <1>8 DEF Next

-----------------------------------------------------------------------------
(* Theorems *)

\* The strengthening of the properties below that every step of the allocator
\* and of its boot code preserves.
THEOREM Invariance == Spec => []IInv
  BY InitInv, NextInv, PTL DEF Spec

\* The allocator's variables keep their types in every zone: every list holds
\* page indices, no reference count goes below zero, every block in the hands
\* of split, merge or a caller has an order below MAX_ORDER.
THEOREM TypeCorrect == Spec => []TypeOK
<1>1. IInv => TypeOK
  BY DEF IInv
<1> QED
  BY <1>1, Invariance, PTL

\* In every zone nr_free is the length of its list whenever
\* get_page_from_freelist looks at it.
THEOREM NrFreeCorrect == Spec => []NrFreeIsLength
<1>1. IInv => NrFreeIsLength
  BY DEF IInv, ListsInv, NrFreeIsLength
<1> QED
  BY <1>1, Invariance, PTL

\* The invariant implies that no page is in two places at once.
LEMMA InvNoPageUsedTwice == IInv => NoPageUsedTwice
<1> SUFFICES ASSUME IInv PROVE NoPageUsedTwice
  OBVIOUS
<1>1. FreeBlocks \subseteq BlockSpace /\ held \subseteq BlockSpace /\ cur \in BlockSpace
  BY ListFacts DEF IInv, TypeOK
<1>2. AllBlocks \subseteq BlockSpace
  BY <1>1 DEF AllBlocks, InFlight
<1>3. \A b \in AllBlocks : Fits(b)
  BY DEF IInv, Geometry, AllBlocks, InFlight, Merging
<1>4. \A b, c \in AllBlocks : b = c \/ Apart(b, c)
  BY DEF IInv, Geometry, AllBlocks, InFlight, Merging, Apart
<1>5. \A b \in BlockSpace : ~Apart(b, b)
  BY EndIsNat DEF Apart
<1>6. ASSUME NEW b \in AllBlocks
      PROVE  Pages(b) \subseteq ZonePages \ reserved
  <2>1. b.page \in Nat /\ b.order \in Orders
    BY <1>2, EndIsNat
  <2>2. BlockPages[b.order] \in Nat
    BY <2>1, BlockSize
  <2> QED
    BY <1>3, <2>1, <2>2, ZoneAssumption DEF Fits, Pages, ZonePages, End
<1>7. ASSUME NEW b \in AllBlocks, NEW c \in AllBlocks, b # c
      PROVE  Pages(b) \cap Pages(c) = {}
  <2>1. b.page \in Nat /\ b.order \in Orders /\ c.page \in Nat /\ c.order \in Orders
    BY <1>2, EndIsNat
  <2>2. BlockPages[b.order] \in Nat /\ BlockPages[c.order] \in Nat /\ Apart(b, c)
    BY <1>4, <1>7, <2>1, BlockSize
  <2> QED
    BY <2>1, <2>2 DEF Apart, Pages, End
<1>8. FreeBlocks \cap held = {} /\ InFlight \cap (FreeBlocks \cup held) = {}
  BY <1>1, <1>5 DEF IInv, Geometry, InFlight, Merging
<1>9. \A o \in Orders : \A i, j \in 1..Len(free_list[o]) :
        i # j => free_list[o][i] # free_list[o][j]
  BY DEF IInv, ListsInv, Injective
<1> QED
  BY <1>6, <1>7, <1>8, <1>9 DEF NoPageUsedTwice

\* In every zone, whatever is reserved, allocated and freed in whatever order,
\* no page is in two places at once and no block holds a reserved page.
THEOREM PagesUsedOnce == Spec => []NoPageUsedTwice
  BY InvNoPageUsedTwice, Invariance, PTL

\* In every zone the buddy system implements the abstract allocator: what
\* get_page_from_freelist hands out overlaps nothing a caller holds.
THEOREM Implementation == Spec => ImplementsPageAllocator
<1>1. Init => Allocator!Init
  BY DEF Init, Allocator!Init
<1>2. IInv /\ [Next]_vars => [Allocator!Next]_<<reserved, held>>
  <2> SUFFICES ASSUME IInv, [Next]_vars, ~UNCHANGED <<reserved, held>>
               PROVE  Allocator!Next
    OBVIOUS
  <2>1. ASSUME NEW first \in ZoneStart..ZoneEnd, NEW last \in ZoneStart..ZoneEnd,
               Reserve(first, last)
        PROVE  Allocator!Next
    BY <2>1 DEF Reserve, IInv, TypeOK, Phase, Allocator!Next, Allocator!Reserve
  <2>2. CASE AllocTake
    <3> DEFINE b == Block(Head(free_list[req.order]), req.order)
    <3>0. req.order \in Orders /\ free_list[req.order] # <<>>
      BY <2>2, EndIsNat DEF AllocTake, IInv, Phase, TypeOK
    <3>1. b \in FreeBlocks /\ b \notin held
      <4>1. b \in FreeBlocks
        BY <3>0, HeadFacts
      <4>2. FreeBlocks \cap held = {}
        BY InvNoPageUsedTwice DEF NoPageUsedTwice
      <4> QED
        BY <4>1, <4>2
    <3>2. held' = held \cup {b} /\ reserved' = reserved
      BY <2>2 DEF AllocTake
    <3>3. Pages(b) \subseteq ZonePages \ reserved
      BY <3>1, InvNoPageUsedTwice DEF NoPageUsedTwice, AllBlocks
    <3>4. \A c \in held : Pages(b) \cap Pages(c) = {}
      BY <3>1, InvNoPageUsedTwice DEF NoPageUsedTwice, AllBlocks
    <3> QED
      BY <3>1, <3>2, <3>3, <3>4 DEF Allocator!Next, Allocator!Alloc
  <2>3. ASSUME NEW b \in held, FreeStart(b)
        PROVE  Allocator!Next
    BY <2>3 DEF FreeStart, Allocator!Next, Allocator!Free
  <2> QED
    BY <2>1, <2>2, <2>3 DEF Next, SeedStart, SeedSkip, SeedBlock, SeedDone, AllocStart,
       AllocFail, AllocSplit, CoreMerge, FreeInsert, SeedInsert, vars, lists, counters
<1> QED
  BY <1>1, <1>2, Invariance, PTL DEF Spec, ImplementsPageAllocator, Allocator!Spec

=============================================================================
