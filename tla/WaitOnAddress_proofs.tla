------------------------ MODULE WaitOnAddress_proofs ------------------------
(***************************************************************************)
(* One bucket of wait lists, for any number of threads: its list is sound, *)
(* each release of a keyed event meets its waiter, and nobody is           *)
(* forgotten.                                                              *)
(*                                                                         *)
(* Reach(f, b), the blocks a walk from b meets, is the least set that      *)
(* contains b and where its blocks lead.  What lists are needed for        *)
(* follows from that one fact (ReachLeast), with a set chosen for each     *)
(* lemma; no induction over the length of a list is needed.                *)
(*                                                                         *)
(* The invariant has five parts.  WaitLock: who holds the lock bit.        *)
(* WaitHints: the first next pointer of the list is right and notify leads *)
(* back from there, and how far the one thread that walks has come.        *)
(* WaitPlaces: the blocks nobody has marked woken are those of the threads *)
(* that wait, each is in one list, and each list ends.  WaitWakes: the     *)
(* keyed events still to be released are those that marked threads wait    *)
(* for or are about to, each once.  WaitTypes: the types.                  *)
(***************************************************************************)
EXTENDS WaitOnAddress, TLAPS

(* What is assumed of the constants: the null pointer is no thread's block,*)
(* and nobody both waits and wakes.                                        *)
WaitAssumption == Nil \notin Waiters /\ Waiters \cap Wakers = {}

-----------------------------------------------------------------------------
(* Lists.  Reach(f, b) is what a walk from b along f meets.                *)
WaitLinks == [Waiters -> Blocks]

Reach(f, b) ==
  {w \in Waiters :
     \A S \in SUBSET Waiters :
       (b \in S \cup {Nil} /\ \A x \in S : f[x] \in S \cup {Nil}) => w \in S}

Ends(f, b) == b # Nil => \E x \in Reach(f, b) : f[x] = Nil

LEMMA ReachLeast ==
  ASSUME NEW f, NEW b, NEW S \in SUBSET Waiters,
         b \in S \cup {Nil}, \A x \in S : f[x] \in S \cup {Nil}
  PROVE  Reach(f, b) \subseteq S
BY DEF Reach

LEMMA ReachClosed ==
  ASSUME WaitAssumption, NEW f \in WaitLinks, NEW b \in Blocks
  PROVE  /\ Reach(f, b) \subseteq Waiters
         /\ b \in Reach(f, b) \cup {Nil}
         /\ b \in Waiters => b \in Reach(f, b)
         /\ \A x \in Reach(f, b) : f[x] \in Reach(f, b) \cup {Nil}
<1>1. Reach(f, b) \subseteq Waiters
  BY DEF Reach
<1>2. b \in Reach(f, b) \cup {Nil}
  BY DEF Reach, Blocks
<1>3. \A x \in Reach(f, b) : f[x] \in Reach(f, b) \cup {Nil}
  BY DEF Reach, WaitLinks, Blocks
<1>. QED  BY <1>1, <1>2, <1>3 DEF WaitAssumption

(* A list does not change by links that are not its own.                   *)
LEMMA ReachKept ==
  ASSUME WaitAssumption, NEW f \in WaitLinks, NEW g \in WaitLinks, NEW b \in Blocks,
         \A x \in Reach(f, b) : g[x] = f[x]
  PROVE  Reach(g, b) = Reach(f, b) /\ (Ends(f, b) => Ends(g, b))
<1>1. Reach(g, b) \subseteq Reach(f, b)
  BY ReachClosed, ReachLeast
<1>2. ASSUME NEW w \in Reach(f, b), NEW S \in SUBSET Waiters,
             b \in S \cup {Nil}, \A x \in S : g[x] \in S \cup {Nil}
      PROVE  w \in S
  <2>. DEFINE B == S \cap Reach(f, b)
  <2>1. b \in B \cup {Nil} /\ \A x \in B : f[x] \in B \cup {Nil}
    BY <1>2, ReachClosed
  <2>2. B \in SUBSET Waiters
    OBVIOUS
  <2>. QED  BY <2>1, <2>2 DEF Reach
<1>3. Reach(f, b) \subseteq Reach(g, b)
  BY <1>2 DEF Reach
<1>4. Reach(g, b) = Reach(f, b)
  BY <1>1, <1>3
<1>. QED  BY <1>4 DEF Ends

LEMMA ReachStep ==
  ASSUME WaitAssumption, NEW f \in WaitLinks
  PROVE  /\ Reach(f, Nil) = {}
         /\ \A b \in Waiters : Reach(f, b) = {b} \cup Reach(f, f[b])
<1>1. Reach(f, Nil) \subseteq {}
  <2>1. {} \in SUBSET Waiters /\ Nil \in {} \cup {Nil} /\ \A u \in {} : f[u] \in {} \cup {Nil}
    OBVIOUS
  <2>. QED  BY <2>1, ReachLeast
<1>2. ASSUME NEW b \in Waiters PROVE Reach(f, b) = {b} \cup Reach(f, f[b])
  <2>. DEFINE S == {b} \cup Reach(f, f[b])
  <2>1. b \in Blocks /\ f[b] \in Blocks
    BY DEF Blocks, WaitLinks
  <2>2. S \in SUBSET Waiters /\ b \in S /\ \A x \in S : f[x] \in S \cup {Nil}
    BY <2>1, ReachClosed
  <2>3. Reach(f, b) \subseteq S
    BY <2>2, ReachLeast
  <2>4. Reach(f, b) \in SUBSET Waiters /\ b \in Reach(f, b)
    BY <2>1, ReachClosed
  <2>5. f[b] \in Reach(f, b) \cup {Nil} /\ \A x \in Reach(f, b) : f[x] \in Reach(f, b) \cup {Nil}
    BY <2>1, <2>4, ReachClosed
  <2>6. Reach(f, f[b]) \subseteq Reach(f, b)
    BY <2>4, <2>5, ReachLeast
  <2>. QED  BY <2>3, <2>4, <2>6
<1>. QED  BY <1>1, <1>2

LEMMA ReachSub ==
  ASSUME WaitAssumption, NEW f \in WaitLinks, NEW b \in Blocks, NEW x \in Reach(f, b)
  PROVE  x \in Waiters /\ Reach(f, x) \subseteq Reach(f, b) /\ x \in Reach(f, x)
<1>1. x \in Waiters /\ x \in Blocks
  BY ReachClosed DEF Blocks
<1>2. Reach(f, b) \in SUBSET Waiters /\ \A u \in Reach(f, b) : f[u] \in Reach(f, b) \cup {Nil}
  BY ReachClosed
<1>. QED  BY <1>1, <1>2, ReachLeast, ReachClosed

(* A list that ends has no cycle.                                          *)
LEMMA EndsFrom ==
  ASSUME WaitAssumption,
         NEW f \in WaitLinks, NEW b \in Blocks, Ends(f, b), NEW x \in Reach(f, b)
  PROVE  Ends(f, x) /\ x \notin Reach(f, f[x]) /\ f[x] # x /\ f[x] # b
<1>1. PICK o \in Reach(f, b) : f[o] = Nil
  <2>1. b # Nil
    BY ReachStep
  <2>. QED  BY <2>1 DEF Ends
<1>2. \A y \in Reach(f, b) : o \in Reach(f, y)
  <2>. DEFINE S == {y \in Reach(f, b) : o \in Reach(f, y)}
  <2>1. S \in SUBSET Waiters
    BY ReachClosed
  <2>2. b \in S \cup {Nil}
    BY <1>1, ReachClosed
  <2>3. ASSUME NEW y \in S PROVE f[y] \in S \cup {Nil}
    <3>1. y \in Waiters /\ f[y] \in Reach(f, b) \cup {Nil}
      BY ReachClosed
    <3>2. o \in {y} \cup Reach(f, f[y])
      BY <3>1, ReachStep
    <3>. QED  BY <1>1, <3>1, <3>2
  <2>4. Reach(f, b) \subseteq S
    BY <2>1, <2>2, <2>3, ReachLeast
  <2>. QED  BY <2>4
<1>3. Ends(f, x)
  BY <1>1, <1>2 DEF Ends
<1>4. x \notin Reach(f, f[x])
  <2>. SUFFICES ASSUME x \in Reach(f, f[x]) PROVE FALSE
    OBVIOUS
  <2>. DEFINE S == {y \in Reach(f, x) : x \in Reach(f, y)}
  <2>1. x \in Waiters /\ x \in Blocks /\ f[x] \in Blocks /\ x \in Reach(f, x)
    BY ReachSub DEF Blocks, WaitLinks
  <2>2. S \in SUBSET Waiters /\ x \in S
    BY <2>1, ReachClosed
  <2>3. ASSUME NEW y \in S PROVE f[y] \in S \cup {Nil}
    <3>1. y \in Waiters /\ f[y] \in Reach(f, x) \cup {Nil}
      BY <2>1, ReachClosed
    <3>2. x \in {y} \cup Reach(f, f[y])
      BY <3>1, ReachStep
    <3>3. x \in Reach(f, f[y])
      BY <3>2
    <3>. QED  BY <3>1, <3>3
  <2>4. Reach(f, x) \subseteq S
    BY <2>2, <2>3, ReachLeast
  <2>5. x \in Reach(f, o)
    BY <1>2, <2>4
  <2>6. o \in Waiters /\ Reach(f, o) = {o} \cup Reach(f, Nil)
    BY <1>1, ReachStep, ReachClosed
  <2>7. x = o
    BY <2>5, <2>6, ReachStep
  <2>. QED  BY <1>1, <2>7, ReachStep
<1>5. f[x] # x
  BY <1>4, ReachSub
<1>6. f[x] # b
  <2>. SUFFICES ASSUME f[x] = b PROVE FALSE
    OBVIOUS
  <2>. QED  BY <1>4
<1>. QED  BY <1>3, <1>4, <1>5, <1>6

LEMMA ReachOrder ==
  ASSUME WaitAssumption, NEW f \in WaitLinks, NEW b \in Blocks,
         NEW x \in Reach(f, b), NEW y \in Reach(f, b)
  PROVE  y \in Reach(f, x) \/ x \in Reach(f, y)
<1>. DEFINE S == {u \in Reach(f, b) : y \in Reach(f, u) \/ u \in Reach(f, y)}
<1>1. S \in SUBSET Waiters /\ b \in S \cup {Nil}
  BY ReachClosed
<1>2. y \in Blocks /\ y \in Reach(f, y)
  BY ReachSub DEF Blocks
<1>3. ASSUME NEW u \in S PROVE f[u] \in S \cup {Nil}
  <2>1. u \in Waiters /\ f[u] \in Reach(f, b) \cup {Nil}
    BY ReachClosed
  <2>2. CASE u \in Reach(f, y)
    BY <1>2, <2>1, <2>2, ReachClosed
  <2>3. CASE y \in Reach(f, u) /\ u # y
    <3>1. y \in {u} \cup Reach(f, f[u])
      BY <2>1, <2>3, ReachStep
    <3>. QED  BY <2>1, <2>3, <3>1
  <2>. QED  BY <1>2, <2>2, <2>3
<1>4. Reach(f, b) \subseteq S
  BY <1>1, <1>3, ReachLeast
<1>. QED  BY <1>4

LEMMA ReachBefore ==
  ASSUME WaitAssumption, NEW f \in WaitLinks, NEW b \in Blocks, NEW y \in Reach(f, b), y # b
  PROVE  \E x \in Reach(f, b) : f[x] = y
<1>. SUFFICES ASSUME \A x \in Reach(f, b) : f[x] # y PROVE FALSE
  OBVIOUS
<1>. DEFINE S == Reach(f, b) \ {y}
<1>1. S \in SUBSET Waiters /\ b \in S \cup {Nil} /\ \A x \in S : f[x] \in S \cup {Nil}
  BY ReachClosed
<1>2. Reach(f, b) \subseteq S
  BY <1>1, ReachLeast
<1>. QED  BY <1>2

LEMMA ReachOnce ==
  ASSUME WaitAssumption, NEW f \in WaitLinks, NEW b \in Blocks, Ends(f, b),
         NEW x \in Reach(f, b), NEW y \in Reach(f, b), f[x] = f[y]
  PROVE  x = y
<1>1. x \in Waiters /\ y \in Waiters
  BY ReachClosed
<1>2. x \notin Reach(f, f[x]) /\ y \notin Reach(f, f[y])
  BY EndsFrom
<1>3. Reach(f, x) = {x} \cup Reach(f, f[x]) /\ Reach(f, y) = {y} \cup Reach(f, f[y])
  BY <1>1, ReachStep
<1>. QED  BY <1>2, <1>3, ReachOrder

(* A new block in front.                                                   *)
LEMMA ReachPush ==
  ASSUME WaitAssumption,
         NEW f \in WaitLinks, NEW b \in Blocks, NEW w \in Waiters, w \notin Reach(f, b),
         NEW g \in WaitLinks, g[w] = b, \A x \in Waiters : x # w => g[x] = f[x]
  PROVE  /\ Reach(g, w) = {w} \cup Reach(f, b) /\ (Ends(f, b) => Ends(g, w))
         /\ \A x \in Reach(f, b) : Reach(g, x) = Reach(f, x)
<1>1. g \in WaitLinks /\ g[w] = b /\ \A x \in Waiters : x # w => g[x] = f[x]
  OBVIOUS
<1>2. Reach(g, b) = Reach(f, b)
  <2>1. \A x \in Reach(f, b) : g[x] = f[x]
    BY <1>1, ReachClosed
  <2>. QED  BY <1>1, <2>1, ReachKept
<1>3. Reach(g, w) = {w} \cup Reach(f, b)
  <2>1. Reach(g, w) = {w} \cup Reach(g, g[w])
    BY <1>1, ReachStep
  <2>. QED  BY <1>1, <1>2, <2>1
<1>4. ASSUME NEW x \in Reach(f, b) PROVE Reach(g, x) = Reach(f, x)
  <2>1. x \in Blocks /\ \A u \in Reach(f, x) : g[u] = f[u]
    BY <1>1, ReachSub, ReachClosed DEF Blocks
  <2>. QED  BY <1>1, <2>1, ReachKept
<1>5. ASSUME Ends(f, b) PROVE Ends(g, w)
  <2>1. CASE b = Nil
    BY <1>1, <1>3, <2>1 DEF Ends
  <2>2. CASE b # Nil
    <3>1. PICK o \in Reach(f, b) : f[o] = Nil
      BY <1>5, <2>2 DEF Ends
    <3>2. o \in Waiters /\ g[o] = Nil /\ o \in Reach(g, w)
      BY <1>1, <1>3, <3>1, ReachClosed
    <3>. QED  BY <3>2 DEF Ends
  <2>. QED  BY <2>1, <2>2
<1>. QED  BY <1>3, <1>4, <1>5

(* A block taken out from behind another one.                              *)
LEMMA ReachUnlink ==
  ASSUME WaitAssumption, NEW f \in WaitLinks, NEW b \in Blocks, Ends(f, b),
         NEW x \in Reach(f, b), NEW y \in Waiters, f[x] = y,
         NEW g \in WaitLinks, g[x] = f[y], \A u \in Waiters : u # x => g[u] = f[u]
  PROVE  /\ y # b /\ x # y /\ y \in Reach(f, b)
         /\ \A h \in Reach(f, b) : h # y => Reach(g, h) = Reach(f, h) \ {y} /\ Ends(g, h)
<1>1. x \in Waiters /\ y \in Reach(f, b) /\ y # b /\ y # x
  <2>1. x \in Waiters /\ y \in Reach(f, b) \cup {Nil}
    BY ReachClosed
  <2>. QED  BY <2>1, EndsFrom DEF WaitAssumption
<1>2. g \in WaitLinks /\ g[x] = f[y] /\ \A u \in Waiters : u # x => g[u] = f[u]
  OBVIOUS
<1>3. \A u \in Reach(f, b) : u # x => f[u] # y
  BY ReachOnce
<1>4. f[y] # y
  BY <1>1, EndsFrom
<1>5. ASSUME NEW h \in Reach(f, b), h # y
      PROVE  Reach(g, h) = Reach(f, h) \ {y} /\ Ends(g, h)
  <2>1. h \in Waiters /\ h \in Blocks /\ Reach(f, h) \subseteq Reach(f, b) /\ h \in Reach(f, h)
    BY ReachSub DEF Blocks
  <2>2. Ends(f, h)
    BY EndsFrom
  <2>3. CASE x \notin Reach(f, h)
    <3>1. y \notin Reach(f, h)
      BY <1>3, <1>5, <2>1, <2>3, ReachBefore
    <3>2. \A u \in Reach(f, h) : g[u] = f[u]
      BY <1>2, <2>1, <2>3, ReachClosed
    <3>3. Reach(g, h) = Reach(f, h) /\ Ends(g, h)
      BY <1>2, <2>1, <2>2, <3>2, ReachKept
    <3>. QED  BY <3>1, <3>3
  <2>4. CASE x \in Reach(f, h)
    <3>. DEFINE S == Reach(f, h) \ {y}
                T == Reach(g, h) \cup {y}
    <3>1. S \in SUBSET Waiters /\ h \in S
      BY <1>5, <2>1, ReachClosed
    <3>2. ASSUME NEW u \in S PROVE g[u] \in S \cup {Nil}
      <4>1. u \in Waiters /\ f[u] \in Reach(f, h) \cup {Nil}
        BY <2>1, ReachClosed
      <4>2. y \in Reach(f, h)
        <5>1. f[x] \in Reach(f, h) \cup {Nil}
          BY <2>1, <2>4, ReachClosed
        <5>. QED  BY <5>1 DEF WaitAssumption
      <4>3. f[y] \in Reach(f, h) \cup {Nil}
        BY <2>1, <4>2, ReachClosed
      <4>4. CASE u = x
        BY <1>2, <1>4, <4>3, <4>4
      <4>5. CASE u # x
        BY <1>2, <1>3, <2>1, <4>1, <4>5
      <4>. QED  BY <4>4, <4>5
    <3>3. Reach(g, h) \subseteq S
      <4>1. h \in S \cup {Nil} /\ \A u \in S : g[u] \in S \cup {Nil}
        BY <3>1, <3>2
      <4>. HIDE DEF S
      <4>. QED  BY <3>1, <4>1, ReachLeast
    <3>4. x \in Reach(g, h)
      <4>. SUFFICES ASSUME x \notin Reach(g, h) PROVE FALSE
        OBVIOUS
      <4>1. \A u \in Reach(g, h) : f[u] = g[u]
        BY <1>2, <2>1, ReachClosed
      <4>2. Reach(f, h) = Reach(g, h)
        BY <1>2, <2>1, <4>1, ReachKept
      <4>. QED  BY <2>4, <4>2
    <3>5. T \in SUBSET Waiters /\ h \in T
      BY <1>2, <2>1, ReachClosed
    <3>6. ASSUME NEW u \in T PROVE f[u] \in T \cup {Nil}
      <4>1. \A v \in Reach(g, h) : v \in Waiters /\ g[v] \in Reach(g, h) \cup {Nil}
        BY <1>2, <2>1, ReachClosed
      <4>2. CASE u = y
        BY <1>2, <3>4, <4>1, <4>2
      <4>3. CASE u = x
        BY <4>3
      <4>4. CASE u # y /\ u # x
        BY <1>2, <4>1, <4>4
      <4>. QED  BY <4>2, <4>3, <4>4
    <3>7. Reach(f, h) \subseteq T
      <4>1. h \in T \cup {Nil} /\ \A u \in T : f[u] \in T \cup {Nil}
        BY <3>5, <3>6
      <4>. HIDE DEF T
      <4>. QED  BY <3>5, <4>1, ReachLeast
    <3>8. Reach(g, h) = S
      BY <3>3, <3>7
    <3>9. PICK o \in Reach(f, h) : f[o] = Nil
      BY <2>1, <2>2 DEF WaitAssumption, Ends
    <3>10. ASSUME o = y PROVE Ends(g, h)
      BY <1>2, <3>4, <3>9, <3>10 DEF Ends
    <3>11. ASSUME o # y PROVE Ends(g, h)
      <4>1. o # x /\ o \in Waiters
        BY <2>1, <3>9, ReachClosed DEF WaitAssumption
      <4>. QED  BY <1>2, <3>8, <3>9, <3>11, <4>1 DEF Ends
    <3>. QED  BY <3>8, <3>10, <3>11
  <2>. QED  BY <2>3, <2>4
<1>. QED  BY <1>1, <1>2, <1>5

-----------------------------------------------------------------------------
(* The state.  Where a caller may be, and what the lock of the bucket      *)
(* means.                                                                  *)
WaiterLabels == {"out", "optimize", "optimizeCas", "compare", "spin", "keyed", "timedOut",
                 "keyedAgain", "remove", "giveUpRemove", "removeWalk", "keyedLocked",
                 "unlock", "wakeList", "releaseOfList"}
WakerLabels == {"out", "wake", "wakeWalk", "wakeItem", "wakeHeadFlag", "release", "unlock",
                "wakeList", "releaseOfList"}

WaitTypes ==
  /\ head \in Words
  /\ back \in WaitLinks /\ notify \in WaitLinks /\ next \in WaitLinks
  /\ flag \in [Waiters -> {0, 1, 2, 4}]
  /\ pc \in [Callers -> WaiterLabels \cup WakerLabels]
  /\ cur \in [Callers -> Words]
  /\ item \in [Callers -> Blocks]
  /\ wakes \in [Callers -> Seq(Waiters)]
  /\ then \in [Callers -> {"compare", "out"}]
  /\ last \in [Callers -> BOOLEAN]
  /\ \A w \in Waiters : pc[w] \in WaiterLabels
  /\ \A k \in Wakers : pc[k] \in WakerLabels /\ then[k] = "out"

WaitLock ==
  /\ LockHeldOnce
  /\ head.blk = Nil => head = Empty
  /\ head.all => head.lock
  /\ \A t \in Callers : last[t] => pc[t] # "wakeWalk" /\ (pc[t] = "wakeItem" => item[t] = Nil)

LEMMA WaitersAndWakers ==
  ASSUME WaitAssumption
  PROVE  /\ \A w \in Waiters : w \in Callers /\ w \in Blocks /\ w # Nil /\ w \notin Wakers
         /\ \A k \in Wakers : k \in Callers /\ k \notin Waiters
         /\ Nil \in Blocks /\ \A b \in Blocks : b # Nil => b \in Waiters
BY DEF WaitAssumption, Callers, Blocks

LEMMA WordParts ==
  ASSUME WaitAssumption
  PROVE  /\ \A c \in Words : c.blk \in Blocks /\ c.lock \in BOOLEAN /\ c.all \in BOOLEAN
         /\ Empty \in Words /\ Empty.blk = Nil /\ ~Empty.lock /\ ~Empty.all
         /\ \A c \in Words : /\ [c EXCEPT !.lock = FALSE] \in Words
                             /\ [c EXCEPT !.lock = TRUE] \in Words
                             /\ [c EXCEPT !.all = TRUE] \in Words
                             /\ Unlocked(c) \in Words
                             /\ Unlocked(c) = Empty \/ (~c.all /\ Unlocked(c).blk = c.blk)
                             /\ c.all => Unlocked(c) = Empty
                             /\ ~c.all => Unlocked(c).blk = c.blk /\ ~Unlocked(c).all
                             /\ ~Unlocked(c).lock
         /\ \A c \in Words : \A b \in Blocks : [c EXCEPT !.blk = b] \in Words
BY WaitersAndWakers DEF Words, Empty, Unlocked

-----------------------------------------------------------------------------
(* Hints.  In the list from b, h has a next pointer to the oldest block,   *)
(* and from there on notify leads back; no block before h has one.         *)
Hinted(f, m, n, b, h) ==
  /\ h \in Reach(f, b)
  /\ \A x \in Reach(f, b) \ Reach(f, h) : n[x] = Nil
  /\ n[h] \in Reach(f, h) /\ f[n[h]] = Nil
  /\ \A x \in Reach(f, h) : f[x] # Nil => m[f[x]] = x

(* The blocks before c are as they were pushed.                            *)
Walkable(f, m, n, b, c) ==
  /\ c \in Reach(f, b) /\ m[c] = Nil
  /\ \A x \in Reach(f, b) \ Reach(f, c) : n[x] = Nil /\ m[x] = Nil

(* What a walk over the blocks of S notes down.                            *)
Noted(f, m, S) ==
  [w \in Waiters |-> IF \E x \in S : f[x] = w THEN CHOOSE x \in S : f[x] = w ELSE m[w]]

LEMMA NotedBack ==
  ASSUME WaitAssumption,
         NEW f \in WaitLinks, NEW m \in WaitLinks, NEW b \in Blocks, Ends(f, b),
         NEW S \in SUBSET Reach(f, b)
  PROVE  /\ Noted(f, m, S) \in WaitLinks
         /\ \A x \in S : f[x] # Nil => Noted(f, m, S)[f[x]] = x
         /\ \A w \in Waiters : (\A x \in S : f[x] # w) => Noted(f, m, S)[w] = m[w]
<1>1. S \subseteq Waiters
  BY ReachClosed
<1>2. ASSUME NEW w \in Waiters PROVE Noted(f, m, S)[w] \in Blocks
  <2>1. CASE \E x \in S : f[x] = w
    BY <1>1, <2>1 DEF Noted, Blocks
  <2>2. CASE ~ \E x \in S : f[x] = w
    BY <2>2 DEF Noted, WaitLinks
  <2>. QED  BY <2>1, <2>2
<1>3. Noted(f, m, S) \in WaitLinks
  BY <1>2 DEF Noted, WaitLinks
<1>4. ASSUME NEW x \in S, f[x] # Nil PROVE Noted(f, m, S)[f[x]] = x
  <2>1. f[x] \in Waiters
    BY <1>1, <1>4, WaitersAndWakers DEF WaitLinks
  <2>2. \A y \in S : f[y] = f[x] => y = x
    BY ReachOnce
  <2>. QED  BY <2>1, <2>2 DEF Noted
<1>5. ASSUME NEW w \in Waiters, \A x \in S : f[x] # w PROVE Noted(f, m, S)[w] = m[w]
  BY <1>5 DEF Noted
<1>. QED  BY <1>3, <1>4, <1>5

LEMMA NotedKept ==
  ASSUME WaitAssumption,
         NEW f \in WaitLinks, NEW m \in WaitLinks, NEW b \in Blocks, Ends(f, b),
         NEW S \in SUBSET Reach(f, b), NEW w \in Waiters, w \notin Reach(f, b)
  PROVE  Noted(f, m, S)[w] = m[w]
<1>1. \A x \in S : f[x] # w
  BY ReachClosed DEF WaitAssumption
<1>. QED  BY <1>1, NotedBack

(* Two blocks of a list are in one order only.                             *)
LEMMA ReachApart ==
  ASSUME WaitAssumption, NEW f \in WaitLinks, NEW b \in Blocks, Ends(f, b),
         NEW x \in Reach(f, b), NEW y \in Reach(f, x), x \in Reach(f, y)
  PROVE  x = y
<1>. SUFFICES ASSUME x # y PROVE FALSE
  OBVIOUS
<1>1. y \in Reach(f, b) /\ x \in Waiters /\ y \in Waiters
  BY ReachSub, WaitersAndWakers
<1>2. Reach(f, x) = {x} \cup Reach(f, f[x])
  BY <1>1, ReachStep
<1>3. f[x] \in Blocks /\ y \in Reach(f, f[x])
  BY <1>1, <1>2 DEF WaitLinks
<1>4. Reach(f, y) \subseteq Reach(f, f[x])
  BY <1>3, ReachSub
<1>. QED  BY <1>4, EndsFrom

LEMMA ReachNotBefore ==
  ASSUME WaitAssumption,
         NEW f \in WaitLinks, NEW b \in Blocks, Ends(f, b), NEW c \in Reach(f, b),
         NEW x \in Reach(f, c)
  PROVE  f[x] # b /\ f[x] # c /\ f[x] \notin Reach(f, b) \ Reach(f, c)
<1>1. c \in Blocks /\ Reach(f, c) \subseteq Reach(f, b) /\ Ends(f, c)
  BY ReachSub, EndsFrom, WaitersAndWakers
<1>2. f[x] # b /\ f[x] # c
  BY <1>1, EndsFrom
<1>3. f[x] \in Reach(f, c) \cup {Nil} /\ Reach(f, b) \subseteq Waiters
  BY <1>1, ReachClosed
<1>. QED  BY <1>2, <1>3 DEF WaitAssumption

(* The walk to the first block with a hint ...                             *)
LEMMA HintFound ==
  ASSUME WaitAssumption, NEW f \in WaitLinks, NEW m, NEW n, NEW b \in Blocks,
         Ends(f, b), NEW h \in Waiters, Hinted(f, m, n, b, h),
         NEW c \in Waiters, Walkable(f, m, n, b, c)
  PROVE  /\ h \in Reach(f, c) /\ n[h] # Nil /\ Reach(f, h) \subseteq Reach(f, c)
         /\ \A x \in Reach(f, c) \ Reach(f, h) : n[x] = Nil
         /\ \A z \in Reach(f, c) :
              (n[z] # Nil /\ \A x \in Reach(f, c) \ Reach(f, z) : n[x] = Nil) => z = h
<1>1. c \in Blocks /\ h \in Blocks /\ b \in Waiters
  BY ReachStep, WaitersAndWakers DEF Walkable
<1>2. c \in Reach(f, b) /\ Reach(f, c) \subseteq Reach(f, b) /\ Ends(f, c) /\ Reach(f, b) \subseteq Waiters
  BY ReachSub, EndsFrom, ReachClosed DEF Walkable
<1>3. n[h] # Nil
  BY <1>1, ReachClosed DEF WaitAssumption, Hinted
<1>4. h \in Reach(f, c) /\ Reach(f, h) \subseteq Reach(f, c)
  <2>1. h \in Reach(f, c)
    BY <1>3, <1>2 DEF Hinted, Walkable
  <2>. QED  BY <1>1, <2>1, ReachSub
<1>5. \A x \in Reach(f, c) \ Reach(f, h) : n[x] = Nil
  BY <1>2 DEF Hinted
<1>6. \A z \in Reach(f, c) :
        (n[z] # Nil /\ \A x \in Reach(f, c) \ Reach(f, z) : n[x] = Nil) => z = h
  <2>. SUFFICES ASSUME NEW z \in Reach(f, c), n[z] # Nil,
                       \A x \in Reach(f, c) \ Reach(f, z) : n[x] = Nil
                PROVE  z = h
    OBVIOUS
  <2>1. z \in Reach(f, h)
    BY <1>5
  <2>2. h \in Reach(f, z)
    BY <1>3, <1>4
  <2>. QED  BY <1>1, <1>2, <1>4, <2>1, <2>2, ReachApart
<1>. QED  BY <1>3, <1>4, <1>5, <1>6

(* ... and the copy of that hint.                                          *)
LEMMA HintWalk ==
  ASSUME WaitAssumption,
         NEW f \in WaitLinks, NEW m \in WaitLinks, NEW n \in WaitLinks, NEW b \in Blocks,
         Ends(f, b), NEW h \in Waiters, Hinted(f, m, n, b, h),
         NEW c \in Waiters, Walkable(f, m, n, b, c), m[b] = Nil,
         NEW m2, m2 = Noted(f, m, Reach(f, c) \ Reach(f, h)),
         NEW n2 \in WaitLinks, n2[c] = n[h], \A x \in Waiters : x # c => n2[x] = n[x]
  PROVE  /\ m2 \in WaitLinks /\ m2[b] = Nil
         /\ Hinted(f, m2, n2, b, c) /\ Walkable(f, m2, n2, b, c)
         /\ n2[c] \in Reach(f, c)
<1>1. c \in Blocks /\ h \in Blocks /\ b \in Waiters
  BY ReachStep, WaitersAndWakers DEF Walkable
<1>2. c \in Reach(f, b) /\ Reach(f, c) \subseteq Reach(f, b) /\ Ends(f, c) /\ Reach(f, b) \subseteq Waiters
  BY ReachSub, EndsFrom, ReachClosed DEF Walkable
<1>4. h \in Reach(f, c) /\ Reach(f, h) \subseteq Reach(f, c)
  BY HintFound
<1>. DEFINE S == Reach(f, c) \ Reach(f, h)
<1>8. /\ m2 \in WaitLinks
      /\ \A x \in S : f[x] # Nil => m2[f[x]] = x
      /\ \A w \in Waiters : (\A x \in S : f[x] # w) => m2[w] = m[w]
  <2>1. S \in SUBSET Reach(f, b) /\ m2 = Noted(f, m, S)
    BY <1>2
  <2>. HIDE DEF S
  <2>2. /\ Noted(f, m, S) \in WaitLinks
        /\ \A x \in S : f[x] # Nil => Noted(f, m, S)[f[x]] = x
        /\ \A w \in Waiters : (\A x \in S : f[x] # w) => Noted(f, m, S)[w] = m[w]
    BY <2>1, NotedBack
  <2>. QED  BY <2>1, <2>2
<1>9. n2 \in WaitLinks /\ n2[c] = n[h] /\ \A x \in Waiters : x # c => n2[x] = n[x]
  OBVIOUS
<1>10. m2[b] = Nil /\ m2[c] = Nil /\ \A x \in Reach(f, b) \ Reach(f, c) : m2[x] = Nil
  <2>1. \A x \in S : f[x] # b /\ f[x] # c /\ f[x] \notin Reach(f, b) \ Reach(f, c)
    BY <1>2, ReachNotBefore
  <2>2. m[c] = Nil /\ \A x \in Reach(f, b) \ Reach(f, c) : m[x] = Nil
    BY DEF Walkable
  <2>3. \A w \in {b, c} \cup (Reach(f, b) \ Reach(f, c)) : w \in Waiters /\ \A x \in S : f[x] # w
    BY <1>1, <1>2, <2>1
  <2>. QED  BY <1>8, <2>2, <2>3
<1>11. c \in Reach(f, c) /\ \A x \in Reach(f, b) \ Reach(f, c) : n2[x] = Nil
  <2>1. c \in Reach(f, c)
    BY <1>2, ReachSub
  <2>2. \A x \in Reach(f, b) \ Reach(f, c) : n[x] = Nil /\ x # c /\ x \in Waiters
    BY <1>2, <2>1 DEF Walkable
  <2>. QED  BY <1>9, <2>1, <2>2
<1>12. n2[c] \in Reach(f, c) /\ f[n2[c]] = Nil
  BY <1>4, <1>9 DEF Hinted
<1>13. ASSUME NEW x \in Reach(f, c), f[x] # Nil PROVE m2[f[x]] = x
  <2>1. CASE x \in S
    BY <1>8, <1>13, <2>1
  <2>2. CASE x \in Reach(f, h)
    <3>1. m[f[x]] = x
      BY <1>13, <2>2 DEF Hinted
    <3>2. f[x] \in Waiters
      BY <1>2, <1>13, WaitersAndWakers DEF WaitLinks
    <3>3. \A y \in S : f[y] # f[x]
      BY <1>2, <2>2, ReachOnce
    <3>. QED  BY <1>8, <3>1, <3>2, <3>3
  <2>. QED  BY <2>1, <2>2
<1>. QED  BY <1>2, <1>8, <1>9, <1>10, <1>11, <1>12, <1>13 DEF Hinted, Walkable

(* A walk over the whole list from c, and a hint there.                    *)
LEMMA FullWalk ==
  ASSUME WaitAssumption,
         NEW f \in WaitLinks, NEW m \in WaitLinks, NEW n \in WaitLinks, NEW b \in Blocks,
         Ends(f, b), NEW c \in Reach(f, b), m[b] = Nil,
         \A x \in Reach(f, b) \ Reach(f, c) : n[x] = Nil,
         n[c] \in Reach(f, c), f[n[c]] = Nil,
         NEW m2, m2 = Noted(f, m, Reach(f, c))
  PROVE  m2 \in WaitLinks /\ m2[b] = Nil /\ Hinted(f, m2, n, b, c)
<1>1. c \in Blocks /\ b \in Waiters /\ Reach(f, c) \subseteq Reach(f, b) /\ c \in Reach(f, c)
  BY ReachSub, ReachStep, WaitersAndWakers
<1>2. /\ m2 \in WaitLinks
      /\ \A x \in Reach(f, c) : f[x] # Nil => m2[f[x]] = x
      /\ \A w \in Waiters : (\A x \in Reach(f, c) : f[x] # w) => m2[w] = m[w]
  <2>1. Reach(f, c) \in SUBSET Reach(f, b)
    BY <1>1
  <2>. QED  BY <2>1, NotedBack
<1>3. m2[b] = Nil
  BY <1>1, <1>2, ReachNotBefore
<1>. QED  BY <1>1, <1>2, <1>3 DEF Hinted

LEMMA EntireWalk ==
  ASSUME WaitAssumption,
         NEW f \in WaitLinks, NEW m \in WaitLinks, NEW n \in WaitLinks, NEW b \in Waiters,
         Ends(f, b), m[b] = Nil, n[b] \in Reach(f, b), f[n[b]] = Nil
  PROVE  /\ Noted(f, m, Reach(f, b)) \in WaitLinks
         /\ Noted(f, m, Reach(f, b))[b] = Nil
         /\ Hinted(f, Noted(f, m, Reach(f, b)), n, b, b)
<1>1. b \in Blocks /\ b \in Reach(f, b)
  BY ReachClosed, WaitersAndWakers
<1>2. PICK m2 : m2 = Noted(f, m, Reach(f, b))
  OBVIOUS
<1>3. \A x \in Reach(f, b) \ Reach(f, b) : n[x] = Nil
  OBVIOUS
<1>4. m2 \in WaitLinks /\ m2[b] = Nil /\ Hinted(f, m2, n, b, b)
  BY <1>1, <1>2, <1>3, FullWalk
<1>. QED  BY <1>2, <1>4

(* The newest block leaves the list, and its hint goes to the next one.    *)
LEMMA HintNext ==
  ASSUME WaitAssumption,
         NEW f \in WaitLinks, NEW m \in WaitLinks, NEW n \in WaitLinks, NEW b \in Waiters,
         Ends(f, b), Hinted(f, m, n, b, b), NEW o \in Waiters, f[b] = o,
         NEW m2 \in WaitLinks, \A x \in Waiters : x # o => m2[x] = m[x],
         NEW n2 \in WaitLinks, n2[o] = n[b]
  PROVE  Hinted(f, m2, n2, o, o)
<1>1. b \in Blocks /\ o \in Blocks /\ Nil \in Blocks /\ b \in Reach(f, b) /\ o \in Reach(f, o)
  BY ReachClosed, WaitersAndWakers
<1>2. Reach(f, b) = {b} \cup Reach(f, o)
  BY ReachStep
<1>3. Ends(f, o)
  BY <1>1, <1>2, EndsFrom
<1>4. n2[o] = n[b] /\ \A x \in Waiters : x # o => m2[x] = m[x]
  OBVIOUS
<1>5. n[b] \in Reach(f, o) /\ f[n[b]] = Nil
  BY <1>2 DEF WaitAssumption, Hinted
<1>6. ASSUME NEW x \in Reach(f, o), f[x] # Nil PROVE m2[f[x]] = x
  <2>1. f[x] # o /\ x \in Waiters
    BY <1>1, <1>3, EndsFrom, ReachClosed
  <2>2. m[f[x]] = x
    BY <1>2, <1>6 DEF Hinted
  <2>3. f[x] \in Waiters
    BY <1>6, <2>1, WaitersAndWakers DEF WaitLinks
  <2>. QED  BY <1>4, <2>1, <2>2, <2>3
<1>. QED  BY <1>1, <1>4, <1>5, <1>6 DEF Hinted

(* A block behind c is unlinked by a waker.                                *)
LEMMA HintUnlink ==
  ASSUME WaitAssumption,
         NEW f \in WaitLinks, NEW m \in WaitLinks, NEW n \in WaitLinks, NEW b \in Blocks,
         Ends(f, b), NEW c \in Waiters, Hinted(f, m, n, b, c), Walkable(f, m, n, b, c),
         m[b] = Nil, NEW y \in Reach(f, c), y # c,
         NEW x, x = m[y],
         NEW g \in WaitLinks, g[x] = f[y], \A u \in Waiters : u # x => g[u] = f[u],
         NEW m2 \in WaitLinks, \A u \in Waiters : u # f[y] => m2[u] = m[u],
         NEW n2 \in WaitLinks, \A u \in Waiters : u # x /\ u # c => n2[u] = n[u],
         f[y] # Nil => m2[f[y]] = x /\ n2 = n,
         f[y] = Nil => n2[c] = x
  PROVE  /\ x \in Reach(f, c) /\ f[x] = y /\ x # y /\ m2[b] = Nil
         /\ Reach(g, b) = Reach(f, b) \ {y} /\ Ends(g, b)
         /\ Hinted(g, m2, n2, b, c) /\ Walkable(g, m2, n2, b, c)
         /\ x \in Reach(g, c)
<1>1. c \in Blocks /\ c \in Reach(f, b) /\ Reach(f, c) \subseteq Reach(f, b) /\ c \in Reach(f, c)
      /\ Ends(f, c) /\ b \in Waiters /\ Reach(f, b) \subseteq Waiters
  BY ReachSub, EndsFrom, ReachStep, ReachClosed, WaitersAndWakers DEF Walkable
<1>2. x \in Reach(f, c) /\ f[x] = y
  <2>1. PICK z \in Reach(f, c) : f[z] = y
    BY <1>1, ReachBefore
  <2>2. y # Nil
    BY <1>1 DEF WaitAssumption
  <2>. QED  BY <2>1, <2>2 DEF Hinted
<1>3. x \in Reach(f, b) /\ x \in Waiters /\ y \in Waiters /\ y \in Reach(f, b)
  BY <1>1, <1>2
<1>4. /\ y # b /\ x # y
      /\ \A h \in Reach(f, b) : h # y => Reach(g, h) = Reach(f, h) \ {y} /\ Ends(g, h)
  BY <1>2, <1>3, ReachUnlink
<1>5. b \in Reach(f, b)
  BY <1>1, ReachClosed
<1>6. Reach(g, b) = Reach(f, b) \ {y} /\ Ends(g, b) /\ Reach(g, c) = Reach(f, c) \ {y} /\ Ends(g, c)
  BY <1>1, <1>4, <1>5
<1>7. x \in Reach(g, c)
  BY <1>2, <1>4, <1>6
<1>8. g[x] = f[y] /\ \A z \in Waiters : z # x => g[z] = f[z]
  OBVIOUS
<1>10. \A w \in Waiters : w # f[y] => m2[w] = m[w]
  OBVIOUS
<1>11. f[y] # b /\ f[y] # c /\ f[y] \notin Reach(f, b) \ Reach(f, c)
  BY <1>1, ReachNotBefore
<1>12. m2[b] = Nil /\ m2[c] = Nil /\ \A w \in Reach(f, b) \ Reach(f, c) : m2[w] = Nil
  BY <1>1, <1>10, <1>11 DEF Walkable
<1>13. \A w \in Reach(f, b) \ Reach(f, c) : n2[w] = Nil
  <2>1. \A w \in Reach(f, b) \ Reach(f, c) : w \in Waiters /\ w # c /\ w # x /\ n[w] = Nil
    BY <1>1, <1>2 DEF Walkable
  <2>. QED  BY <2>1
<1>14. Reach(g, b) \ Reach(g, c) = Reach(f, b) \ Reach(f, c)
  BY <1>6
<1>15. n2[c] \in Reach(g, c) /\ g[n2[c]] = Nil
  <2>1. CASE f[y] # Nil
    <3>1. n2 = n /\ n[c] \in Reach(f, c) /\ f[n[c]] = Nil
      BY <2>1 DEF Hinted
    <3>2. n[c] # y /\ n[c] # x
      BY <1>2, <2>1, <3>1, <1>3 DEF WaitAssumption
    <3>3. n[c] \in Waiters
      BY <1>1, <3>1
    <3>. QED  BY <1>6, <1>8, <3>1, <3>2, <3>3
  <2>2. CASE f[y] = Nil
    <3>1. n2[c] = x
      BY <2>2
    <3>. QED  BY <1>7, <1>8, <2>2, <3>1
  <2>. QED  BY <2>1, <2>2
<1>16. ASSUME NEW z \in Reach(g, c), g[z] # Nil PROVE m2[g[z]] = z
  <2>1. z \in Reach(f, c) /\ z # y /\ z \in Waiters
    BY <1>1, <1>6
  <2>2. CASE z = x
    BY <1>8, <1>16, <2>2
  <2>3. CASE z # x
    <3>1. g[z] = f[z] /\ m[f[z]] = z
      BY <1>8, <1>16, <2>1, <2>3 DEF Hinted
    <3>2. f[z] # f[y]
      BY <1>1, <2>1, ReachOnce
    <3>3. f[z] \in Waiters
      BY <1>16, <2>1, <3>1, WaitersAndWakers DEF WaitLinks
    <3>. QED  BY <1>10, <3>1, <3>2, <3>3
  <2>. QED  BY <2>2, <2>3
<1>17. c \in Reach(g, b)
  BY <1>1, <1>6
<1>. QED  BY <1>2, <1>4, <1>6, <1>7, <1>12, <1>13, <1>14, <1>15, <1>16, <1>17
         DEF Hinted, Walkable

-----------------------------------------------------------------------------
(* The keyed events a thread is going to release.                          *)
RangeOf(s) == {s[i] : i \in DOMAIN s}
Distinct(s) == \A i, j \in DOMAIN s : s[i] = s[j] => i = j

LEMMA WakesPush ==
  ASSUME NEW s \in Seq(Waiters), NEW b \in Waiters, Distinct(s), b \notin RangeOf(s)
  PROVE  /\ <<b>> \o s \in Seq(Waiters) /\ Distinct(<<b>> \o s)
         /\ RangeOf(<<b>> \o s) = {b} \cup RangeOf(s)
         /\ <<b>> \o s # <<>>
<1>. DEFINE r == <<b>> \o s
<1>1. /\ r \in Seq(Waiters) /\ Len(r) = Len(s) + 1 /\ r[1] = b
      /\ \A i \in 1..Len(s) : r[i + 1] = s[i]
      /\ \A i \in 2..Len(r) : r[i] = s[i - 1] /\ i - 1 \in 1..Len(s)
  OBVIOUS
<1>2. DOMAIN r = 1..Len(r) /\ DOMAIN s = 1..Len(s) /\ Len(s) \in Nat
  BY <1>1
<1>. HIDE DEF r
<1>3. \A i \in DOMAIN r : i = 1 \/ i \in 2..Len(r)
  BY <1>1, <1>2
<1>4. \A i \in 2..Len(r) : r[i] \in RangeOf(s)
  BY <1>1, <1>2 DEF RangeOf
<1>5. Distinct(r)
  <2>. SUFFICES ASSUME NEW i \in DOMAIN r, NEW j \in DOMAIN r, r[i] = r[j] PROVE i = j
    BY DEF Distinct
  <2>1. CASE i = 1 \/ j = 1
    BY <1>1, <1>3, <1>4, <2>1
  <2>2. CASE i \in 2..Len(r) /\ j \in 2..Len(r)
    <3>1. s[i - 1] = s[j - 1] /\ i - 1 \in DOMAIN s /\ j - 1 \in DOMAIN s
      BY <1>1, <1>2, <2>2
    <3>2. i - 1 = j - 1
      BY <3>1 DEF Distinct
    <3>. QED  BY <1>1, <1>2, <2>2, <3>2
  <2>. QED  BY <1>3, <2>1, <2>2
<1>6. RangeOf(r) = {b} \cup RangeOf(s)
  <2>1. \A i \in DOMAIN r : r[i] \in {b} \cup RangeOf(s)
    BY <1>1, <1>3, <1>4
  <2>2. b \in RangeOf(r)
    BY <1>1, <1>2 DEF RangeOf
  <2>3. ASSUME NEW i \in DOMAIN s PROVE s[i] \in RangeOf(r)
    <3>1. i + 1 \in DOMAIN r /\ r[i + 1] = s[i]
      BY <1>1, <1>2
    <3>. QED  BY <3>1 DEF RangeOf
  <2>4. RangeOf(r) \subseteq {b} \cup RangeOf(s)
    BY <2>1 DEF RangeOf
  <2>5. RangeOf(s) \subseteq RangeOf(r)
    BY <2>3 DEF RangeOf
  <2>. QED  BY <2>2, <2>4, <2>5
<1>7. r # <<>>
  BY <1>1, <1>2
<1>. QED  BY <1>1, <1>5, <1>6, <1>7 DEF r

LEMMA WakesPop ==
  ASSUME NEW s \in Seq(Waiters), s # <<>>, Distinct(s)
  PROVE  /\ Head(s) \in Waiters /\ Tail(s) \in Seq(Waiters) /\ Distinct(Tail(s))
         /\ Head(s) \in RangeOf(s) /\ RangeOf(Tail(s)) = RangeOf(s) \ {Head(s)}
         /\ Head(s) = s[1] /\ (Len(s) = 1 => Tail(s) = <<>>)
<1>. DEFINE r == Tail(s)
<1>1. /\ r \in Seq(Waiters) /\ Len(s) = Len(r) + 1 /\ s[1] = Head(s) /\ Head(s) \in Waiters
      /\ \A i \in 1..Len(r) : r[i] = s[i + 1] /\ i + 1 \in 1..Len(s)
      /\ \A i \in 1..Len(s) : i # 1 => i - 1 \in 1..Len(r) /\ r[i - 1] = s[i]
  OBVIOUS
<1>2. DOMAIN r = 1..Len(r) /\ DOMAIN s = 1..Len(s) /\ Len(r) \in Nat /\ 1 \in DOMAIN s
  BY <1>1
<1>3. Len(s) = 1 => r = <<>>
  <2>. HIDE DEF r
  <2>0. Len(r) \in Nat /\ Len(s) \in Nat /\ Len(s) = Len(r) + 1
    BY <1>1, <1>2
  <2>1. \A i, j \in Nat : i = j + 1 /\ i = 1 => j = 0
    OBVIOUS
  <2>2. Len(s) = 1 => Len(r) = 0
    BY <2>0, <2>1, Zenon
  <2>. QED  BY <1>1, <2>2
<1>. HIDE DEF r
<1>4. Distinct(r)
  <2>. SUFFICES ASSUME NEW i \in DOMAIN r, NEW j \in DOMAIN r, r[i] = r[j] PROVE i = j
    BY DEF Distinct
  <2>1. s[i + 1] = s[j + 1] /\ i + 1 \in DOMAIN s /\ j + 1 \in DOMAIN s
    BY <1>1, <1>2
  <2>2. i + 1 = j + 1
    BY <2>1 DEF Distinct
  <2>. QED  BY <1>2, <2>2
<1>5. RangeOf(r) \subseteq RangeOf(s) \ {Head(s)}
  <2>. SUFFICES ASSUME NEW i \in DOMAIN r PROVE r[i] \in RangeOf(s) /\ r[i] # s[1]
    BY <1>1 DEF RangeOf
  <2>1. r[i] = s[i + 1] /\ i + 1 \in DOMAIN s /\ i + 1 # 1
    BY <1>1, <1>2
  <2>2. s[i + 1] # s[1]
    BY <1>2, <2>1 DEF Distinct
  <2>. QED  BY <2>1, <2>2 DEF RangeOf
<1>6. RangeOf(s) \ {Head(s)} \subseteq RangeOf(r)
  <2>. SUFFICES ASSUME NEW i \in DOMAIN s, s[i] # s[1] PROVE s[i] \in RangeOf(r)
    BY <1>1 DEF RangeOf
  <2>1. i - 1 \in DOMAIN r /\ r[i - 1] = s[i]
    BY <1>1, <1>2
  <2>. QED  BY <2>1 DEF RangeOf
<1>7. Head(s) \in RangeOf(s)
  BY <1>1, <1>2 DEF RangeOf
<1>. QED  BY <1>1, <1>3, <1>4, <1>5, <1>6, <1>7 DEF r

LEMMA WakesOne ==
  ASSUME NEW b \in Waiters
  PROVE  <<b>> \in Seq(Waiters) /\ Distinct(<<b>>) /\ RangeOf(<<b>>) = {b} /\ Len(<<b>>) = 1
         /\ RangeOf(<<>>) = {} /\ <<>> \in Seq(Waiters) /\ Distinct(<<>>)
<1>1. DOMAIN <<b>> = {1} /\ <<b>>[1] = b /\ DOMAIN <<>> = {} /\ Len(<<b>>) = 1
  OBVIOUS
<1>2. <<b>> \in Seq(Waiters) /\ <<>> \in Seq(Waiters)
  OBVIOUS
<1>. QED  BY <1>1, <1>2 DEF Distinct, RangeOf

-----------------------------------------------------------------------------
(* The invariant.                                                          *)
Asleep == {"keyed", "timedOut", "keyedLocked"}
Spinning == {"optimize", "optimizeCas", "compare", "spin"}
Leaving == {"remove", "giveUpRemove", "removeWalk"}
OfList == {"wakeList", "releaseOfList"}

(* Threads that use the word they read from the bucket.                    *)
Walking(t) ==
  \/ pc[t] \in {"optimize", "optimizeCas", "removeWalk", "wakeWalk"}
  \/ pc[t] = "wakeItem" /\ item[t] # Nil

WaitHints ==
  /\ head.blk # Nil => /\ notify[head.blk] = Nil
                       /\ \E h \in Waiters : Hinted(back, notify, next, head.blk, h)
  /\ \A t \in Callers : Walking(t) => Walkable(back, notify, next, head.blk, cur[t].blk)
  /\ \A t \in Callers : (pc[t] = "wakeItem" /\ item[t] # Nil) =>
       /\ Hinted(back, notify, next, head.blk, cur[t].blk)
       /\ item[t] \in Reach(back, cur[t].blk)

(* Where a block may be: in the list of the bucket, or in the hands of a   *)
(* thread that is going to mark it.                                        *)
InList == Reach(back, head.blk)
InHands(t) ==
  IF pc[t] \in OfList THEN Reach(back, item[t])
  ELSE IF pc[t] = "wakeHeadFlag" THEN {item[t]} ELSE {}

IsListed(w) == w \in InList \/ \E t \in Callers : w \in InHands(t)
IsWaiting(w) == \/ pc[w] \in Asleep \cup Spinning \cup Leaving
                \/ pc[w] \in OfList /\ then[w] = "compare"

HandEnds(t) ==
  /\ pc[t] \in OfList => Ends(back, item[t])
  /\ pc[t] = "wakeHeadFlag" => item[t] # Nil /\ notify[item[t]] = Nil

ListsEnd == Ends(back, head.blk) /\ \A t \in Callers : HandEnds(t)

ListsApart ==
  /\ \A t \in Callers : InList \cap InHands(t) = {}
  /\ \A t, u \in Callers : t # u => InHands(t) \cap InHands(u) = {}

(* The blocks nobody has marked woken are those that wait.                 *)
ListedWait == \A w \in Waiters : IsListed(w) <=> (IsWaiting(w) /\ flag[w] # 2)

FlagFits(w) ==
  /\ pc[w] \in Asleep => flag[w] \in {0, 2}
  /\ pc[w] \in Spinning => flag[w] \in {1, 2}
  /\ (pc[w] \in OfList /\ then[w] = "compare") => flag[w] \in {1, 2}
  /\ pc[w] \in Leaving => flag[w] \in {1, 2, 4}

FlagsFit == \A w \in Waiters : FlagFits(w)

WaitPlaces == ListsEnd /\ ListsApart /\ ListedWait /\ FlagsFit

(* Whose keyed event has to be released, and by whom.                      *)
Owed(b) == (pc[b] \in Asleep /\ flag[b] = 2) \/ pc[b] = "keyedAgain"

WaitWakes ==
  /\ \A t \in Callers : wakes[t] # <<>> =>
       pc[t] \in {"wakeWalk", "wakeItem", "wakeHeadFlag", "release", "releaseOfList"}
  /\ \A t \in Callers : pc[t] = "releaseOfList" => Len(wakes[t]) = 1
  /\ \A t \in Callers : Distinct(wakes[t])
  /\ \A b \in Waiters : Owed(b) <=> \E t \in Callers : b \in RangeOf(wakes[t])
  /\ \A t, u \in Callers : t # u => RangeOf(wakes[t]) \cap RangeOf(wakes[u]) = {}

WaitInv == WaitTypes /\ WaitLock /\ WaitHints /\ WaitPlaces /\ WaitWakes

-----------------------------------------------------------------------------
(* What the steps do to the list of the bucket.                            *)
LEMMA FromIs ==
  /\ \A b : From(b) = Reach(back, b)
  /\ \A f, S : Backlinked(f, S) = Noted(f, notify, S)
BY DEF From, Reach, Backlinked, Noted

LEMMA WalkEffect ==
  ASSUME WaitAssumption,
         WaitTypes, WaitHints, Ends(back, head.blk), NEW t \in Callers, Walking(t),
         WalkToHint(cur[t].blk)
  PROVE  /\ notify' \in WaitLinks /\ next' \in WaitLinks /\ notify'[head.blk] = Nil
         /\ Hinted(back, notify', next', head.blk, cur[t].blk)
         /\ Walkable(back, notify', next', head.blk, cur[t].blk)
         /\ next'[cur[t].blk] \in Reach(back, cur[t].blk)
         /\ \A x \in Waiters : x \notin Reach(back, head.blk) => notify'[x] = notify[x]
<1>. DEFINE b == head.blk
            c == cur[t].blk
<1>1. back \in WaitLinks /\ notify \in WaitLinks /\ next \in WaitLinks /\ b \in Blocks
  BY WordParts DEF WaitTypes
<1>2. Walkable(back, notify, next, b, c)
  BY DEF WaitHints
<1>3. c \in Waiters /\ b # Nil
  BY <1>1, <1>2, ReachClosed, ReachStep DEF Walkable
<1>4. PICK h \in Waiters : Hinted(back, notify, next, b, h)
  BY <1>3 DEF WaitHints
<1>5. notify[b] = Nil
  BY <1>3 DEF WaitHints
<1>10. Ends(back, b)
  OBVIOUS
<1>. HIDE DEF b, c
<1>6. Hint(c) = h
  <2>0. /\ h \in Reach(back, c) /\ next[h] # Nil /\ Reach(back, h) \subseteq Reach(back, c)
        /\ \A x \in Reach(back, c) \ Reach(back, h) : next[x] = Nil
        /\ \A z \in Reach(back, c) :
             (next[z] # Nil /\ \A x \in Reach(back, c) \ Reach(back, z) : next[x] = Nil) => z = h
    BY <1>1, <1>2, <1>3, <1>4, <1>10, HintFound, Zenon
  <2>1. h \in Reach(back, c) /\ next[h] # Nil /\ \A x \in Reach(back, c) \ Reach(back, h) : next[x] = Nil
    BY <2>0
  <2>2. \A z \in Reach(back, c) :
          (next[z] # Nil /\ \A x \in Reach(back, c) \ Reach(back, z) : next[x] = Nil) => z = h
    BY <1>1, <1>2, <1>3, <1>4, <1>10, HintFound
  <2>3. Hint(c) = CHOOSE z \in Reach(back, c) :
                    next[z] # Nil /\ \A x \in Reach(back, c) \ Reach(back, z) : next[x] = Nil
    BY FromIs DEF Hint
  <2>. QED  BY <2>1, <2>2, <2>3
<1>7. notify' = Noted(back, notify, Reach(back, c) \ Reach(back, h))
  BY <1>6, FromIs DEF WalkToHint, c
<1>8. next' = [next EXCEPT ![c] = next[h]]
  BY <1>6 DEF WalkToHint, c
<1>9. next' \in WaitLinks /\ next'[c] = next[h] /\ \A x \in Waiters : x # c => next'[x] = next[x]
  BY <1>1, <1>3, <1>8 DEF WaitLinks
<1>11. /\ notify' \in WaitLinks /\ notify'[b] = Nil
       /\ Hinted(back, notify', next', b, c) /\ Walkable(back, notify', next', b, c)
       /\ next'[c] \in Reach(back, c)
  BY <1>1, <1>2, <1>3, <1>4, <1>5, <1>7, <1>9, <1>10, HintWalk
<1>12. \A x \in Waiters : x \notin Reach(back, b) => notify'[x] = notify[x]
  <2>1. Reach(back, c) \ Reach(back, h) \in SUBSET Reach(back, b)
    BY <1>1, <1>2, ReachSub DEF Walkable
  <2>. QED  BY <1>1, <1>7, <1>10, <2>1, NotedKept
<1>. QED  BY <1>9, <1>11, <1>12 DEF b, c

LEMMA RemoveHeadEffect ==
  ASSUME WaitAssumption, WaitTypes, WaitHints, Ends(back, head.blk), NEW w \in Waiters,
         head.blk = w, back[w] # Nil,
         notify' = [Backlinked(back, From(back[w])) EXCEPT ![back[w]] = notify[w]],
         next' = [next EXCEPT ![back[w]] = CHOOSE x \in From(back[w]) : back[x] = Nil]
  PROVE  /\ notify' \in WaitLinks /\ next' \in WaitLinks /\ notify'[back[w]] = Nil
         /\ Hinted(back, notify', next', back[w], back[w])
         /\ \A x \in Waiters : x \notin Reach(back, head.blk) => notify'[x] = notify[x]
<1>. DEFINE o == back[w]
            m == [notify EXCEPT ![o] = notify[w]]
<1>1. /\ back \in WaitLinks /\ notify \in WaitLinks /\ next \in WaitLinks
      /\ w \in Blocks /\ o \in Blocks /\ o \in Waiters /\ Nil \in Blocks
  BY WaitersAndWakers DEF WaitTypes, WaitLinks
<1>2. notify[w] = Nil
  BY WaitersAndWakers DEF WaitHints
<1>3. Ends(back, w)
  OBVIOUS
<1>4. o \in Reach(back, o) /\ o \in Reach(back, w) /\ Ends(back, o)
  <2>1. Reach(back, w) = {w} \cup Reach(back, o)
    BY <1>1, ReachStep
  <2>2. o \in Reach(back, o)
    BY <1>1, ReachClosed
  <2>. QED  BY <1>1, <1>3, <2>1, <2>2, EndsFrom
<1>. DEFINE old == CHOOSE x \in Reach(back, o) : back[x] = Nil
<1>5. next' = [next EXCEPT ![o] = old]
  BY FromIs
<1>6. old \in Reach(back, o) /\ back[old] = Nil
  BY <1>1, <1>4 DEF Ends
<1>. HIDE DEF old
<1>7. next' \in WaitLinks /\ next'[o] = old
  <2>1. old \in Blocks
    BY <1>1, <1>6, ReachClosed, WaitersAndWakers
  <2>. QED  BY <1>1, <1>5, <2>1 DEF WaitLinks
<1>8. m \in WaitLinks /\ m[o] = Nil
  BY <1>1, <1>2 DEF WaitLinks
<1>. DEFINE mm == Noted(back, m, Reach(back, o))
<1>9. mm \in WaitLinks /\ mm[o] = Nil /\ Hinted(back, mm, next', o, o)
  <2>1. next'[o] \in Reach(back, o) /\ back[next'[o]] = Nil
    BY <1>6, <1>7
  <2>4. m[o] = Nil /\ m \in WaitLinks
    BY <1>8
  <2>5. o \in Waiters /\ back \in WaitLinks /\ Ends(back, o) /\ next' \in WaitLinks
    BY <1>1, <1>4, <1>7
  <2>. HIDE DEF m, o
  <2>6. PICK n2 \in WaitLinks : n2 = next'
    BY <2>5
  <2>7. n2[o] \in Reach(back, o) /\ back[n2[o]] = Nil
    BY <2>1, <2>6
  <2>8. /\ Noted(back, m, Reach(back, o)) \in WaitLinks
        /\ Noted(back, m, Reach(back, o))[o] = Nil
        /\ Hinted(back, Noted(back, m, Reach(back, o)), n2, o, o)
    BY <2>4, <2>5, <2>7, EntireWalk
  <2>. QED  BY <2>6, <2>8
<1>10. notify' = Noted(back, m, Reach(back, o))
  <2>1. \A x \in Reach(back, o) : back[x] # o
    BY <1>1, <1>4, EndsFrom
  <2>2. notify' = [Noted(back, notify, Reach(back, o)) EXCEPT ![o] = notify[w]]
    BY FromIs
  <2>3. \A v \in Waiters : notify'[v] = Noted(back, m, Reach(back, o))[v]
    BY <1>1, <2>1, <2>2 DEF Noted, WaitLinks
  <2>4. notify' = [v \in Waiters |-> notify'[v]]
    BY <2>2 DEF Noted
  <2>5. Noted(back, m, Reach(back, o)) = [v \in Waiters |-> Noted(back, m, Reach(back, o))[v]]
    BY DEF Noted
  <2>. QED  BY <2>3, <2>4, <2>5
<1>11. ASSUME NEW x \in Waiters, x \notin Reach(back, w) PROVE notify'[x] = notify[x]
  <2>1. Reach(back, o) \in SUBSET Reach(back, w) /\ x # o
    BY <1>1, <1>4, <1>11, ReachSub
  <2>2. Noted(back, m, Reach(back, o))[x] = m[x]
    <3>. HIDE DEF m, o
    <3>. QED  BY <1>1, <1>3, <1>8, <1>11, <2>1, NotedKept
  <2>. QED  BY <1>1, <1>10, <2>1, <2>2 DEF WaitLinks
<1>. QED  BY <1>7, <1>9, <1>10, <1>11

(* A walk over the whole list, whether or not a block was unlinked.        *)
LEMMA RemoveBehindEffect ==
  ASSUME WaitAssumption, WaitTypes, WaitHints, Ends(back, head.blk), NEW w \in Waiters,
         pc[w] = "removeWalk", RemoveBehind(w)
  PROVE  /\ notify' \in WaitLinks /\ next' \in WaitLinks /\ back' \in WaitLinks
         /\ notify'[head.blk] = Nil /\ Ends(back', head.blk)
         /\ Hinted(back', notify', next', head.blk, cur[w].blk)
         /\ \A x \in Waiters : x \notin Reach(back, head.blk) => back'[x] = back[x]
         /\ \A x \in Waiters : x \notin Reach(back, head.blk) => notify'[x] = notify[x]
         /\ w \in Reach(back, cur[w].blk) =>
              /\ w \in Reach(back, head.blk)
              /\ Reach(back', head.blk) = Reach(back, head.blk) \ {w}
         /\ w \notin Reach(back, cur[w].blk) => back' = back
<1>. DEFINE b == head.blk
            c == cur[w].blk
            found == w \in Reach(back, c)
            x == CHOOSE z \in Reach(back, c) : back[z] = w
            rest == Reach(back, c) \ {w}
            old == CHOOSE z \in rest : back'[z] = Nil
<1>1. /\ back \in WaitLinks /\ notify \in WaitLinks /\ next \in WaitLinks /\ b \in Blocks
      /\ Ends(back, b)
  BY WordParts DEF WaitTypes
<1>2. Walkable(back, notify, next, b, c)
  BY WaitersAndWakers DEF WaitHints, Walking
<1>3. /\ c \in Waiters /\ c \in Blocks /\ b # Nil /\ b \in Waiters /\ c \in Reach(back, b)
      /\ Reach(back, c) \subseteq Reach(back, b) /\ Reach(back, b) \subseteq Waiters
      /\ Ends(back, c) /\ c \in Reach(back, c) /\ b \in Reach(back, b)
  <2>1. c \in Reach(back, b)
    BY <1>2 DEF Walkable
  <2>2. c \in Waiters /\ c \in Blocks /\ b # Nil /\ b \in Waiters
    BY <1>1, <2>1, ReachClosed, ReachStep, WaitersAndWakers
  <2>. QED  BY <1>1, <2>1, <2>2, ReachSub, ReachClosed, EndsFrom
<1>4. notify[b] = Nil
  BY <1>3 DEF WaitHints
<1>5. c # w
  BY DEF RemoveBehind
<1>6. /\ back' = IF found THEN [back EXCEPT ![x] = back[w]] ELSE back
      /\ notify' = Noted(back', notify, rest)
      /\ found => next' = [next EXCEPT ![x] = IF back[w] = Nil THEN x ELSE next[x], ![c] = old]
      /\ ~found => next' = [next EXCEPT ![c] = old]
  <2>1. From(c) = Reach(back, c)
    BY FromIs
  <2>2. back' = IF found THEN [back EXCEPT ![x] = back[w]] ELSE back
    BY <2>1 DEF RemoveBehind
  <2>3. notify' = Noted(back', notify, rest)
    BY <2>1, FromIs DEF RemoveBehind
  <2>4. found => next' = [next EXCEPT ![x] = IF back[w] = Nil THEN x ELSE next[x], ![c] = old]
    BY <2>1 DEF RemoveBehind
  <2>5. ~found => next' = [next EXCEPT ![c] = old]
    BY <2>1 DEF RemoveBehind
  <2>. QED  BY <2>2, <2>3, <2>4, <2>5
<1>. HIDE DEF b, c, found, x, rest, old
<1>7. found => x \in Reach(back, c) /\ back[x] = w /\ x \in Waiters
  BY <1>1, <1>3, <1>5, ReachBefore DEF found, x
<1>8. found => /\ back' \in WaitLinks /\ back'[x] = back[w]
               /\ \A z \in Waiters : z # x => back'[z] = back[z]
  BY <1>1, <1>6, <1>7 DEF WaitLinks
<1>9. ~found => back' = back /\ back' \in WaitLinks
  BY <1>1, <1>6
<1>10. found => /\ w \in Reach(back, b) /\ w # b
                /\ Reach(back', b) = Reach(back, b) \ {w} /\ Ends(back', b)
                /\ Reach(back', c) = rest /\ Ends(back', c)
  <2>. SUFFICES ASSUME found PROVE /\ w \in Reach(back, b) /\ w # b
                                   /\ Reach(back', b) = Reach(back, b) \ {w} /\ Ends(back', b)
                                   /\ Reach(back', c) = rest /\ Ends(back', c)
    OBVIOUS
  <2>1. x \in Reach(back, b)
    BY <1>3, <1>7
  <2>2. /\ w # b /\ w \in Reach(back, b)
        /\ \A h \in Reach(back, b) : h # w => Reach(back', h) = Reach(back, h) \ {w} /\ Ends(back', h)
    BY <1>1, <1>7, <1>8, <2>1, ReachUnlink
  <2>. QED  BY <1>3, <1>5, <2>2 DEF rest
<1>11. ~found => Reach(back', b) = Reach(back, b) /\ Reach(back', c) = rest
                 /\ Ends(back', b) /\ Ends(back', c)
  BY <1>1, <1>3, <1>9 DEF rest, found
<1>12. /\ back' \in WaitLinks /\ Ends(back', b) /\ Ends(back', c) /\ Reach(back', c) = rest
       /\ c \in Reach(back', b) /\ Reach(back', b) \ Reach(back', c) \subseteq Reach(back, b) \ Reach(back, c)
  BY <1>3, <1>5, <1>8, <1>9, <1>10, <1>11 DEF rest, found
<1>13. old \in rest /\ back'[old] = Nil
  <2>1. \E z \in rest : back'[z] = Nil
    BY <1>3, <1>12, WaitersAndWakers DEF Ends
  <2>. QED  BY <2>1 DEF old
<1>14. old \in Waiters /\ old \in Blocks
  BY <1>3, <1>13, WaitersAndWakers DEF rest
<1>15. /\ next' \in WaitLinks /\ next'[c] = old
       /\ \A z \in Waiters : (z # c /\ (found => z # x)) => next'[z] = next[z]
  <2>1. CASE found
    BY <1>1, <1>3, <1>6, <1>7, <1>14, <2>1, WaitersAndWakers DEF WaitLinks
  <2>2. CASE ~found
    BY <1>1, <1>3, <1>6, <1>14, <2>2 DEF WaitLinks
  <2>. QED  BY <2>1, <2>2
<1>16. \A z \in Reach(back', b) \ Reach(back', c) : next'[z] = Nil
  <2>1. ASSUME NEW z \in Reach(back', b) \ Reach(back', c) PROVE next'[z] = Nil
    <3>1. z \in Reach(back, b) \ Reach(back, c)
      BY <1>12
    <3>2. z \in Waiters /\ z # c /\ next[z] = Nil /\ (found => z # x)
      BY <1>2, <1>3, <1>7, <3>1 DEF Walkable
    <3>. QED  BY <1>15, <3>2
  <2>. QED  BY <2>1
<1>17. notify' \in WaitLinks /\ notify'[b] = Nil /\ Hinted(back', notify', next', b, c)
  <2>1. notify' = Noted(back', notify, Reach(back', c))
    BY <1>6, <1>12
  <2>2. next'[c] \in Reach(back', c) /\ back'[next'[c]] = Nil
    BY <1>12, <1>13, <1>15
  <2>. QED  BY <1>1, <1>4, <1>12, <1>15, <1>16, <2>1, <2>2, FullWalk
<1>18. \A z \in Waiters : z \notin Reach(back, b) => back'[z] = back[z]
  BY <1>3, <1>7, <1>8, <1>9
<1>19. \A z \in Waiters : z \notin Reach(back, b) => notify'[z] = notify[z]
  <2>1. Reach(back', c) \in SUBSET Reach(back', b) /\ Reach(back', b) \subseteq Reach(back, b)
    BY <1>1, <1>3, <1>10, <1>11, <1>12, ReachSub
  <2>2. PICK g \in WaitLinks : g = back'
    BY <1>12
  <2>3. \A z \in Waiters : z \notin Reach(g, b) => Noted(g, notify, Reach(g, c))[z] = notify[z]
    BY <1>1, <1>12, <2>1, <2>2, NotedKept
  <2>. QED  BY <1>6, <1>12, <2>1, <2>2, <2>3
<1>. QED  BY <1>8, <1>9, <1>10, <1>12, <1>15, <1>17, <1>18, <1>19 DEF b, c, found

(* A new block in front of a list that already has a hint.                 *)
Pushed(f, m, n, b, w, g, m2, n2) ==
  /\ b \in Waiters /\ w \in Waiters /\ w \notin Reach(f, b)
  /\ g[w] = b /\ m2[w] = Nil /\ n2[w] = Nil
  /\ \A x \in Waiters : x # w => g[x] = f[x] /\ m2[x] = m[x] /\ n2[x] = n[x]

LEMMA HintPush ==
  ASSUME WaitAssumption,
         NEW f \in WaitLinks, NEW m \in WaitLinks, NEW n \in WaitLinks, NEW b, NEW w,
         NEW g \in WaitLinks, NEW m2 \in WaitLinks, NEW n2 \in WaitLinks,
         Pushed(f, m, n, b, w, g, m2, n2)
  PROVE  /\ Reach(g, w) = {w} \cup Reach(f, b) /\ (Ends(f, b) => Ends(g, w))
         /\ \A h \in Waiters : Hinted(f, m, n, b, h) => Hinted(g, m2, n2, w, h)
         /\ \A c \in Waiters : Walkable(f, m, n, b, c) => Walkable(g, m2, n2, w, c)
         /\ \A c \in Reach(f, b) : Reach(g, c) = Reach(f, c)
<1>0. b \in Waiters /\ w \in Waiters /\ w \notin Reach(f, b) /\ g[w] = b /\ m2[w] = Nil /\ n2[w] = Nil
  BY DEF Pushed
<1>1. b \in Blocks /\ w \in Blocks /\ Reach(f, b) \subseteq Waiters
  BY <1>0, ReachClosed, WaitersAndWakers
<1>2. \A x \in Waiters : x # w => g[x] = f[x]
  BY DEF Pushed
<1>3. Reach(g, w) = {w} \cup Reach(f, b) /\ (Ends(f, b) => Ends(g, w))
  BY <1>0, <1>1, <1>2, ReachPush
<1>4. \A x \in Reach(f, b) : Reach(g, x) = Reach(f, x)
  BY <1>0, <1>1, <1>2, ReachPush
<1>5. \A x \in Waiters : x # w => g[x] = f[x] /\ m2[x] = m[x] /\ n2[x] = n[x]
  BY DEF Pushed
<1>6. \A x \in Reach(f, b) : x # w /\ x \in Waiters /\ Reach(f, x) \subseteq Reach(f, b)
  BY <1>0, <1>1, ReachSub
<1>7. ASSUME NEW h \in Waiters, Hinted(f, m, n, b, h) PROVE Hinted(g, m2, n2, w, h)
  <2>1. h \in Reach(f, b) /\ Reach(g, h) = Reach(f, h) /\ Reach(f, h) \subseteq Reach(f, b)
    BY <1>4, <1>6, <1>7 DEF Hinted
  <2>2. \A x \in Reach(g, w) \ Reach(g, h) : n2[x] = Nil
    BY <1>0, <1>3, <1>5, <1>6, <1>7, <2>1 DEF Hinted
  <2>3. n2[h] \in Reach(g, h) /\ g[n2[h]] = Nil
    <3>1. n[h] \in Reach(f, h) /\ f[n[h]] = Nil
      BY <1>7 DEF Hinted
    <3>. QED  BY <1>5, <1>6, <2>1, <3>1
  <2>4. \A x \in Reach(g, h) : g[x] # Nil => m2[g[x]] = x
    <3>1. SUFFICES ASSUME NEW x \in Reach(f, h), f[x] # Nil PROVE m2[f[x]] = x
      BY <1>5, <1>6, <2>1
    <3>2. m[f[x]] = x
      BY <1>7, <3>1 DEF Hinted
    <3>3. f[x] \in Reach(f, b)
      BY <1>1, <2>1, <3>1, ReachClosed
    <3>. QED  BY <1>5, <1>6, <3>2, <3>3
  <2>. QED  BY <1>3, <2>1, <2>2, <2>3, <2>4 DEF Hinted
<1>8. ASSUME NEW c \in Waiters, Walkable(f, m, n, b, c) PROVE Walkable(g, m2, n2, w, c)
  <2>1. c \in Reach(f, b) /\ Reach(g, c) = Reach(f, c)
    BY <1>4, <1>8 DEF Walkable
  <2>. QED  BY <1>0, <1>3, <1>5, <1>6, <1>8, <2>1 DEF Walkable
<1>. QED  BY <1>3, <1>4, <1>7, <1>8

(* The block that led to b, and nobody before the newest.                  *)
LEMMA HintBack ==
  ASSUME WaitAssumption,
         NEW f \in WaitLinks, NEW m \in WaitLinks, NEW n, NEW b \in Blocks, Ends(f, b),
         NEW c \in Waiters, Hinted(f, m, n, b, c), Walkable(f, m, n, b, c),
         NEW y \in Reach(f, c)
  PROVE  m[y] # Nil => m[y] \in Reach(f, c)
<1>1. CASE y = c
  BY <1>1 DEF Walkable
<1>2. CASE y # c
  <2>1. c \in Blocks /\ y \in Waiters
    BY WaitersAndWakers, ReachClosed
  <2>2. PICK z \in Reach(f, c) : f[z] = y
    BY <1>2, <2>1, ReachBefore
  <2>. QED  BY <2>1, <2>2 DEF WaitAssumption, Hinted
<1>. QED  BY <1>1, <1>2

-----------------------------------------------------------------------------
(* What the other threads do not notice.                                   *)
Others(t) ==
  \A u \in Callers : u # t =>
    /\ pc'[u] = pc[u] /\ cur'[u] = cur[u] /\ item'[u] = item[u]
    /\ then'[u] = then[u] /\ last'[u] = last[u] /\ wakes'[u] = wakes[u]

LEMMA OthersStay ==
  ASSUME NEW t \in Callers, Others(t), NEW u \in Callers, u # t
  PROVE  /\ HoldsLock(u)' <=> HoldsLock(u)
         /\ Walking(u)' <=> Walking(u)
         /\ IsWaiting(u)' <=> IsWaiting(u)
<1>1. pc'[u] = pc[u] /\ item'[u] = item[u] /\ then'[u] = then[u] /\ last'[u] = last[u]
  BY DEF Others
<1>2. HoldsLock(u)' <=> HoldsLock(u)
  BY <1>1 DEF HoldsLock
<1>3. Walking(u)' <=> Walking(u)
  BY <1>1 DEF Walking
<1>4. IsWaiting(u)' <=> IsWaiting(u)
  BY <1>1 DEF IsWaiting
<1>. QED  BY <1>2, <1>3, <1>4

(* The lock stays where it is, is taken, or is given back.                 *)
LockMove(t) ==
  \/ (HoldsLock(t)' <=> HoldsLock(t)) /\ (head'.lock <=> head.lock)
  \/ ~head.lock /\ head'.lock /\ HoldsLock(t)'
  \/ HoldsLock(t) /\ ~head'.lock /\ ~HoldsLock(t)'

LEMMA LockMoves ==
  ASSUME LockHeldOnce, NEW t \in Callers, LockMove(t),
         \A u \in Callers : u # t => (HoldsLock(u)' <=> HoldsLock(u))
  PROVE  LockHeldOnce'
<1>1. CASE (HoldsLock(t)' <=> HoldsLock(t)) /\ (head'.lock <=> head.lock)
  <2>1. \A u \in Callers : HoldsLock(u)' <=> HoldsLock(u)
    BY <1>1
  <2>. QED  BY <1>1, <2>1 DEF LockHeldOnce
<1>2. CASE ~head.lock /\ head'.lock /\ HoldsLock(t)'
  <2>1. \A u \in Callers : u # t => ~HoldsLock(u)'
    BY <1>2 DEF LockHeldOnce
  <2>. QED  BY <1>2, <2>1 DEF LockHeldOnce
<1>3. CASE HoldsLock(t) /\ ~head'.lock /\ ~HoldsLock(t)'
  <2>1. \A u \in Callers : ~HoldsLock(u)'
    BY <1>3 DEF LockHeldOnce
  <2>. QED  BY <1>3, <2>1 DEF LockHeldOnce
<1>. QED  BY <1>1, <1>2, <1>3 DEF LockMove

LEMMA WalkingHolds ==
  ASSUME WaitLock, NEW u \in Callers, Walking(u)
  PROVE  HoldsLock(u) /\ head.lock
<1>1. HoldsLock(u)
  BY DEF WaitLock, Walking, HoldsLock
<1>. QED  BY <1>1 DEF WaitLock, LockHeldOnce

LEMMA WalkingWillHold ==
  ASSUME WaitLock', NEW u \in Callers, Walking(u)'
  PROVE  HoldsLock(u)' /\ head'.lock
<1>1. HoldsLock(u)'
  BY DEF WaitLock, Walking, HoldsLock
<1>. QED  BY <1>1 DEF WaitLock, LockHeldOnce

(* Whoever holds the lock is the only one that walks.                      *)
LEMMA OneWalker ==
  ASSUME WaitLock', NEW t \in Callers, HoldsLock(t)' \/ ~head'.lock,
         NEW u \in Callers, Walking(u)'
  PROVE  u = t /\ HoldsLock(t)'
<1>1. HoldsLock(u)' /\ head'.lock
  BY WalkingWillHold
<1>. QED  BY <1>1 DEF WaitLock, LockHeldOnce

-----------------------------------------------------------------------------
(* How the parts of the invariant are kept.                                *)
LEMMA NewestWalk ==
  ASSUME WaitAssumption, WaitTypes, WaitHints, head.blk # Nil
  PROVE  Walkable(back, notify, next, head.blk, head.blk)
<1>1. head.blk \in Reach(back, head.blk)
  BY WordParts, WaitersAndWakers, ReachClosed DEF WaitTypes
<1>. QED  BY <1>1 DEF WaitHints, Walkable

LEMMA QuietHints ==
  ASSUME WaitHints, NEW t \in Callers,
         back' = back, notify' = notify, next' = next, head'.blk = head.blk,
         \A u \in Callers : (u # t /\ Walking(u)') =>
           Walking(u) /\ cur'[u] = cur[u] /\ item'[u] = item[u] /\ pc'[u] = pc[u],
         Walking(t)' => Walkable(back, notify, next, head.blk, cur'[t].blk),
         (pc'[t] = "wakeItem" /\ item'[t] # Nil) =>
           /\ Hinted(back, notify, next, head.blk, cur'[t].blk)
           /\ item'[t] \in Reach(back, cur'[t].blk)
  PROVE  WaitHints'
<1>1. head'.blk # Nil => /\ notify'[head'.blk] = Nil
                         /\ \E h \in Waiters : Hinted(back', notify', next', head'.blk, h)
  BY DEF WaitHints
<1>2. ASSUME NEW u \in Callers, Walking(u)'
      PROVE  Walkable(back', notify', next', head'.blk, cur'[u].blk)
  BY <1>2 DEF WaitHints
<1>3. ASSUME NEW u \in Callers, pc'[u] = "wakeItem", item'[u] # Nil
      PROVE  /\ Hinted(back', notify', next', head'.blk, cur'[u].blk)
             /\ item'[u] \in Reach(back', cur'[u].blk)
  <2>1. CASE u = t
    BY <1>3, <2>1
  <2>2. CASE u # t
    <3>1. Walking(u)'
      BY <1>3 DEF Walking
    <3>. QED  BY <1>3, <2>2, <3>1 DEF WaitHints
  <2>. QED  BY <2>1, <2>2
<1>. QED  BY <1>1, <1>2, <1>3 DEF WaitHints

LEMMA HintsOfHolder ==
  ASSUME WaitLock', NEW t \in Callers, HoldsLock(t)' \/ ~head'.lock,
         head'.blk # Nil => /\ notify'[head'.blk] = Nil
                            /\ \E h \in Waiters : Hinted(back', notify', next', head'.blk, h),
         Walking(t)' => Walkable(back', notify', next', head'.blk, cur'[t].blk),
         (Walking(t)' /\ pc'[t] = "wakeItem" /\ item'[t] # Nil) =>
           /\ Hinted(back', notify', next', head'.blk, cur'[t].blk)
           /\ item'[t] \in Reach(back', cur'[t].blk)
  PROVE  WaitHints'
<1>1. \A u \in Callers : Walking(u)' => u = t
  BY OneWalker
<1>2. ASSUME NEW u \in Callers, Walking(u)'
      PROVE  Walkable(back', notify', next', head'.blk, cur'[u].blk)
  BY <1>1, <1>2
<1>3. ASSUME NEW u \in Callers, pc'[u] = "wakeItem", item'[u] # Nil
      PROVE  /\ Hinted(back', notify', next', head'.blk, cur'[u].blk)
             /\ item'[u] \in Reach(back', cur'[u].blk)
  <2>1. Walking(u)'
    BY <1>3 DEF Walking
  <2>2. u = t
    BY <1>1, <2>1
  <2>. QED  BY <1>3, <2>1, <2>2
<1>. QED  BY <1>2, <1>3 DEF WaitHints

LEMMA HandsKept ==
  ASSUME WaitAssumption, WaitTypes, back' \in WaitLinks, NEW u \in Callers, HandEnds(u),
         pc'[u] = pc[u], item'[u] = item[u],
         \A x \in InHands(u) : back'[x] = back[x] /\ notify'[x] = notify[x]
  PROVE  InHands(u)' = InHands(u) /\ HandEnds(u)'
<1>1. back \in WaitLinks /\ item[u] \in Blocks
  BY DEF WaitTypes
<1>2. CASE pc[u] \in OfList
  <2>1. InHands(u) = Reach(back, item[u]) /\ InHands(u)' = Reach(back', item[u])
    BY <1>2 DEF InHands
  <2>2. \A x \in Reach(back, item[u]) : back'[x] = back[x]
    BY <2>1
  <2>3. Reach(back', item[u]) = Reach(back, item[u]) /\ (Ends(back, item[u]) => Ends(back', item[u]))
    BY <1>1, <2>2, ReachKept
  <2>4. pc'[u] # "wakeHeadFlag"
    BY <1>2 DEF OfList
  <2>. QED  BY <1>2, <2>1, <2>3, <2>4 DEF HandEnds
<1>3. CASE pc[u] = "wakeHeadFlag"
  <2>1. InHands(u) = {item[u]} /\ InHands(u)' = {item[u]} /\ pc[u] \notin OfList
    BY <1>3 DEF InHands, OfList
  <2>. QED  BY <1>3, <2>1 DEF HandEnds
<1>4. CASE pc[u] \notin OfList \cup {"wakeHeadFlag"}
  BY <1>4 DEF InHands, HandEnds
<1>. QED  BY <1>2, <1>3, <1>4

LEMMA EmptyHands ==
  ASSUME NEW u \in Callers
  PROVE  /\ pc[u] \notin OfList \cup {"wakeHeadFlag"} => InHands(u) = {} /\ HandEnds(u)
         /\ pc'[u] \notin OfList \cup {"wakeHeadFlag"} => InHands(u)' = {} /\ HandEnds(u)'
<1>1. pc[u] \notin OfList \cup {"wakeHeadFlag"} => InHands(u) = {} /\ HandEnds(u)
  BY DEF InHands, HandEnds
<1>2. pc'[u] \notin OfList \cup {"wakeHeadFlag"} => InHands(u)' = {} /\ HandEnds(u)'
  BY DEF InHands, HandEnds
<1>. QED  BY <1>1, <1>2

(* The lists of the others stay as they are when a step changes no block   *)
(* of theirs.                                                              *)
LEMMA OthersHands ==
  ASSUME WaitAssumption,
         WaitTypes, ListsEnd, ListsApart, back' \in WaitLinks, NEW t \in Callers,
         \A u \in Callers : (u # t /\ pc[u] \in OfList \cup {"wakeHeadFlag"}) =>
            pc'[u] = pc[u] /\ item'[u] = item[u],
         \A u \in Callers : (u # t /\ pc[u] \notin OfList \cup {"wakeHeadFlag"}) =>
            pc'[u] \notin OfList \cup {"wakeHeadFlag"},
         \A x \in Waiters : (x \notin InList /\ IsListed(x)) =>
            back'[x] = back[x] /\ notify'[x] = notify[x],
         NEW u \in Callers, u # t
  PROVE  InHands(u)' = InHands(u) /\ HandEnds(u)'
<1>1. HandEnds(u)
  BY DEF ListsEnd
<1>2. InHands(u) \subseteq Waiters
  <2>1. CASE pc[u] \in OfList
    BY <2>1, ReachClosed DEF InHands, WaitTypes
  <2>2. CASE pc[u] = "wakeHeadFlag"
    <3>1. item[u] \in Waiters
      BY <1>1, <2>2, WaitersAndWakers DEF HandEnds, WaitTypes
    <3>. QED  BY <2>2, <3>1 DEF InHands, OfList
  <2>3. CASE pc[u] \notin OfList \cup {"wakeHeadFlag"}
    BY <2>3, EmptyHands
  <2>. QED  BY <2>1, <2>2, <2>3
<1>3. \A x \in InHands(u) : back'[x] = back[x] /\ notify'[x] = notify[x]
  BY <1>2 DEF ListsApart, IsListed
<1>4. CASE pc[u] \in OfList \cup {"wakeHeadFlag"}
  BY <1>1, <1>3, <1>4, HandsKept
<1>5. CASE pc[u] \notin OfList \cup {"wakeHeadFlag"}
  BY <1>5, EmptyHands
<1>. QED  BY <1>4, <1>5

(* Blocks leave the lists, or enter them, through thread t.                *)
LEMMA PlacesMove ==
  ASSUME ListsApart, ListedWait, NEW t \in Callers, NEW gone, NEW come,
         \A u \in Callers : u # t => InHands(u)' = InHands(u),
         InList' \cup InHands(t)' = ((InList \cup InHands(t)) \ gone) \cup come,
         InList' \cap InHands(t)' = {},
         gone \subseteq InList \cup InHands(t),
         \A x \in come : ~IsListed(x) /\ IsWaiting(x)' /\ flag'[x] # 2,
         \A x \in gone : ~(IsWaiting(x)' /\ flag'[x] # 2),
         \A x \in Waiters : x \notin gone \cup come =>
           ((IsWaiting(x)' /\ flag'[x] # 2) <=> (IsWaiting(x) /\ flag[x] # 2))
  PROVE  ListsApart' /\ ListedWait'
<1>. DEFINE L == InList \cup InHands(t)
            L2 == InList' \cup InHands(t)'
<1>1. \A u \in Callers : u # t => L \cap InHands(u) = {}
  BY DEF ListsApart
<1>2. \A u \in Callers : u # t => come \cap InHands(u) = {}
  BY DEF IsListed
<1>3. L2 \subseteq L \cup come
  OBVIOUS
<1>4. \A u \in Callers : u # t => L2 \cap InHands(u)' = {}
  BY <1>1, <1>2, <1>3
<1>5. ListsApart'
  <2>1. \A u \in Callers : InList' \cap InHands(u)' = {}
    BY <1>4
  <2>2. ASSUME NEW u \in Callers, NEW v \in Callers, u # v
        PROVE  InHands(u)' \cap InHands(v)' = {}
    <3>1. CASE u = t
      BY <1>4, <2>2, <3>1
    <3>2. CASE v = t
      BY <1>4, <2>2, <3>2
    <3>3. CASE u # t /\ v # t
      BY <2>2, <3>3 DEF ListsApart
    <3>. QED  BY <3>1, <3>2, <3>3
  <2>. QED  BY <2>1, <2>2 DEF ListsApart
<1>6. ASSUME NEW x \in Waiters
      PROVE  IsListed(x)' <=> (IsWaiting(x)' /\ flag'[x] # 2)
  <2>1. IsListed(x) <=> x \in L \/ \E u \in Callers : u # t /\ x \in InHands(u)
    BY DEF IsListed
  <2>2. IsListed(x)' <=> x \in L2 \/ \E u \in Callers : u # t /\ x \in InHands(u)
    BY DEF IsListed
  <2>3. CASE x \in come
    BY <2>2, <2>3
  <2>4. CASE x \in gone /\ x \notin come
    <3>1. x \notin L2
      BY <2>4
    <3>2. \A u \in Callers : u # t => x \notin InHands(u)
      BY <1>1, <2>4
    <3>. QED  BY <2>2, <2>4, <3>1, <3>2
  <2>5. CASE x \notin gone \cup come
    <3>1. x \in L2 <=> x \in L
      BY <2>5
    <3>2. IsListed(x) <=> (IsWaiting(x) /\ flag[x] # 2)
      BY DEF ListedWait
    <3>. QED  BY <2>1, <2>2, <2>5, <3>1, <3>2
  <2>. QED  BY <2>3, <2>4, <2>5
<1>. QED  BY <1>5, <1>6 DEF ListedWait

(* What a caller has still to release, and who owes it.                    *)
Releasing == {"wakeWalk", "wakeItem", "wakeHeadFlag", "release", "releaseOfList"}

LEMMA WakesMove ==
  ASSUME WaitTypes, WaitWakes, NEW t \in Callers,
         \A u \in Callers : u # t =>
           /\ wakes'[u] = wakes[u]
           /\ wakes[u] # <<>> => pc'[u] = pc[u]
           /\ pc'[u] = "releaseOfList" => pc[u] = "releaseOfList",
         wakes'[t] # <<>> => pc'[t] \in Releasing,
         pc'[t] = "releaseOfList" => Len(wakes'[t]) = 1,
         Distinct(wakes'[t]),
         NEW gone, NEW come,
         gone \subseteq RangeOf(wakes[t]),
         RangeOf(wakes'[t]) = (RangeOf(wakes[t]) \ gone) \cup come,
         \A x \in come : ~Owed(x) /\ Owed(x)' /\ x \in Waiters,
         \A x \in gone : ~Owed(x)',
         \A x \in Waiters : x \notin gone \cup come => (Owed(x)' <=> Owed(x))
  PROVE  WaitWakes'
<1>1. \A u \in Callers : wakes'[u] # <<>> => pc'[u] \in Releasing
  <2>. SUFFICES ASSUME NEW u \in Callers, u # t, wakes'[u] # <<>> PROVE pc'[u] \in Releasing
    OBVIOUS
  <2>1. wakes[u] # <<>> /\ pc'[u] = pc[u]
    OBVIOUS
  <2>. QED  BY <2>1 DEF WaitWakes, Releasing
<1>2. \A u \in Callers : pc'[u] = "releaseOfList" => Len(wakes'[u]) = 1
  BY DEF WaitWakes
<1>3. \A u \in Callers : Distinct(wakes'[u])
  BY DEF WaitWakes
<1>4. \A u \in Callers : u # t => RangeOf(wakes'[u]) = RangeOf(wakes[u])
  OBVIOUS
<1>5. \A u \in Callers : RangeOf(wakes[u]) \subseteq Waiters
  BY DEF WaitTypes, RangeOf
<1>6. \A u, v \in Callers : u # v => RangeOf(wakes[u]) \cap RangeOf(wakes[v]) = {}
  BY DEF WaitWakes
<1>7. \A x \in Waiters : Owed(x) <=> \E u \in Callers : x \in RangeOf(wakes[u])
  BY DEF WaitWakes
<1>8. \A u \in Callers : u # t => come \cap RangeOf(wakes[u]) = {}
  BY <1>7
<1>9. \A u \in Callers : u # t => RangeOf(wakes'[t]) \cap RangeOf(wakes'[u]) = {}
  BY <1>4, <1>6, <1>8
<1>10. \A u, v \in Callers : u # v => RangeOf(wakes'[u]) \cap RangeOf(wakes'[v]) = {}
  <2>. SUFFICES ASSUME NEW u \in Callers, NEW v \in Callers, u # v
                PROVE  RangeOf(wakes'[u]) \cap RangeOf(wakes'[v]) = {}
    OBVIOUS
  <2>1. CASE u = t \/ v = t
    BY <1>9, <2>1
  <2>2. CASE u # t /\ v # t
    BY <1>4, <1>6, <2>2
  <2>. QED  BY <2>1, <2>2
<1>11. ASSUME NEW x \in Waiters
       PROVE  Owed(x)' <=> \E u \in Callers : x \in RangeOf(wakes'[u])
  <2>1. (\E u \in Callers : x \in RangeOf(wakes'[u])) <=>
          (x \in RangeOf(wakes'[t]) \/ \E u \in Callers : u # t /\ x \in RangeOf(wakes[u]))
    BY <1>4
  <2>2. (\E u \in Callers : x \in RangeOf(wakes[u])) <=>
          (x \in RangeOf(wakes[t]) \/ \E u \in Callers : u # t /\ x \in RangeOf(wakes[u]))
    OBVIOUS
  <2>3. CASE x \in come
    BY <2>1, <2>3
  <2>4. CASE x \in gone /\ x \notin come
    <3>1. \A u \in Callers : u # t => x \notin RangeOf(wakes[u])
      BY <1>6, <2>4
    <3>. QED  BY <2>1, <2>4, <3>1
  <2>5. CASE x \notin gone \cup come
    <3>1. x \in RangeOf(wakes'[t]) <=> x \in RangeOf(wakes[t])
      BY <2>5
    <3>. QED  BY <1>7, <2>1, <2>2, <2>5, <3>1
  <2>. QED  BY <2>3, <2>4, <2>5
<1>. QED  BY <1>1, <1>2, <1>3, <1>10, <1>11 DEF WaitWakes, Releasing

LEMMA WakesKept ==
  ASSUME WaitTypes, WaitWakes, NEW t \in Callers, Others(t), wakes'[t] = wakes[t],
         wakes[t] # <<>> => pc'[t] \in Releasing,
         pc'[t] # "releaseOfList",
         \A x \in Waiters : Owed(x)' <=> Owed(x)
  PROVE  WaitWakes'
<1>1. \A u \in Callers : u # t => /\ wakes'[u] = wakes[u]
                                  /\ wakes[u] # <<>> => pc'[u] = pc[u]
                                  /\ pc'[u] = "releaseOfList" => pc[u] = "releaseOfList"
  BY DEF Others
<1>2. PICK none : none = {}
  OBVIOUS
<1>3. /\ Distinct(wakes'[t]) /\ RangeOf(wakes'[t]) = (RangeOf(wakes[t]) \ none) \cup none
      /\ none \subseteq RangeOf(wakes[t])
      /\ \A x \in none : ~Owed(x) /\ Owed(x)' /\ x \in Waiters
      /\ \A x \in none : ~Owed(x)'
  BY <1>2 DEF WaitWakes
<1>4. \A x \in Waiters : x \notin none \cup none => (Owed(x)' <=> Owed(x))
  OBVIOUS
<1>5. (wakes'[t] # <<>> => pc'[t] \in Releasing) /\ (pc'[t] = "releaseOfList" => Len(wakes'[t]) = 1)
  OBVIOUS
<1>. QED  BY <1>1, <1>3, <1>4, <1>5, WakesMove

LEMMA OthersFit ==
  ASSUME WaitAssumption, WaitPlaces, NEW t \in Callers, Others(t), NEW x \in Waiters, x # t,
         flag'[x] = flag[x]
  PROVE  /\ FlagFits(x)' /\ (Owed(x)' <=> Owed(x))
         /\ (IsWaiting(x)' /\ flag'[x] # 2) <=> (IsWaiting(x) /\ flag[x] # 2)
<1>1. x \in Callers
  BY WaitersAndWakers
<1>2. pc'[x] = pc[x] /\ then'[x] = then[x]
  BY <1>1 DEF Others
<1>3. FlagFits(x)
  BY DEF WaitPlaces, FlagsFit
<1>4. FlagFits(x)'
  BY <1>2, <1>3 DEF FlagFits
<1>5. Owed(x)' <=> Owed(x)
  BY <1>2 DEF Owed
<1>6. IsWaiting(x)' <=> IsWaiting(x)
  BY <1>2 DEF IsWaiting
<1>. QED  BY <1>4, <1>5, <1>6

LEMMA QuietPlaces ==
  ASSUME WaitAssumption, WaitTypes, WaitPlaces, NEW t \in Callers, Others(t),
         back' = back, notify' = notify, head'.blk = head.blk,
         \A x \in Waiters : x # t => flag'[x] = flag[x],
         t \in Waiters =>
           /\ FlagFits(t)'
           /\ (IsWaiting(t)' /\ flag'[t] # 2) <=> (IsWaiting(t) /\ flag[t] # 2),
         InHands(t)' = InHands(t), HandEnds(t)'
  PROVE  WaitPlaces'
<1>1. InList' = InList
  BY DEF InList
<1>2. back \in WaitLinks /\ Ends(back', head'.blk)
  BY DEF WaitTypes, WaitPlaces, ListsEnd
<1>3. \A u \in Callers : u # t => InHands(u)' = InHands(u) /\ HandEnds(u)'
  <2>. SUFFICES ASSUME NEW u \in Callers, u # t PROVE InHands(u)' = InHands(u) /\ HandEnds(u)'
    OBVIOUS
  <2>1. HandEnds(u)
    BY DEF WaitPlaces, ListsEnd
  <2>2. pc'[u] = pc[u] /\ item'[u] = item[u]
    BY DEF Others
  <2>. QED  BY <1>2, <2>1, <2>2, HandsKept
<1>4. ListsEnd'
  BY <1>2, <1>3 DEF ListsEnd
<1>5. FlagsFit'
  BY OthersFit DEF FlagsFit
<1>6. PICK none : none = {}
  OBVIOUS
<1>7. ListsApart' /\ ListedWait'
  <2>1. ListsApart /\ ListedWait /\ InList \cap InHands(t) = {}
    BY DEF WaitPlaces, ListsApart
  <2>2. InList' \cup InHands(t)' = ((InList \cup InHands(t)) \ none) \cup none
    BY <1>1, <1>6
  <2>3. InList' \cap InHands(t)' = {}
    BY <1>1, <2>1
  <2>4. \A x \in Waiters : x \notin none \cup none =>
           ((IsWaiting(x)' /\ flag'[x] # 2) <=> (IsWaiting(x) /\ flag[x] # 2))
    BY OthersFit
  <2>5. \A u \in Callers : u # t => InHands(u)' = InHands(u)
    BY <1>3
  <2>6. none \subseteq InList \cup InHands(t)
    BY <1>6
  <2>7. \A x \in none : ~IsListed(x) /\ IsWaiting(x)' /\ flag'[x] # 2
    BY <1>6
  <2>8. \A x \in none : ~(IsWaiting(x)' /\ flag'[x] # 2)
    BY <1>6
  <2>. QED  BY <2>1, <2>2, <2>3, <2>4, <2>5, <2>6, <2>7, <2>8, PlacesMove
<1>. QED  BY <1>4, <1>5, <1>7 DEF WaitPlaces

WordFits ==
  /\ head.blk = Nil => head = Empty
  /\ head.all => head.lock
LastFits(t) == last[t] => pc[t] # "wakeWalk" /\ (pc[t] = "wakeItem" => item[t] = Nil)

LEMMA LockStep ==
  ASSUME WaitLock, NEW t \in Callers, LockMove(t), WordFits', LastFits(t)',
         \A u \in Callers : u # t => (HoldsLock(u)' <=> HoldsLock(u)),
         \A u \in Callers : u # t => LastFits(u)'
  PROVE  WaitLock'
<1>1. LockHeldOnce'
  BY LockMoves DEF WaitLock
<1>. QED  BY <1>1 DEF WaitLock, WordFits, LastFits

LEMMA OthersLock ==
  ASSUME WaitLock, NEW t \in Callers, Others(t), LockMove(t), WordFits', LastFits(t)'
  PROVE  WaitLock'
<1>1. \A u \in Callers : u # t => (HoldsLock(u)' <=> HoldsLock(u))
  BY OthersStay
<1>2. ASSUME NEW u \in Callers, u # t PROVE LastFits(u)'
  <2>1. LastFits(u) /\ last'[u] = last[u] /\ pc'[u] = pc[u] /\ item'[u] = item[u]
    BY <1>2 DEF WaitLock, LastFits, Others
  <2>. QED  BY <2>1 DEF LastFits
<1>. QED  BY <1>1, <1>2, LockStep

LEMMA QuietStep ==
  ASSUME WaitAssumption, WaitInv, WaitTypes', NEW t \in Callers, Others(t),
         back' = back, notify' = notify, next' = next, head'.blk = head.blk,
         LockMove(t), WordFits', LastFits(t)',
         Walking(t)' => Walkable(back, notify, next, head.blk, cur'[t].blk),
         (pc'[t] = "wakeItem" /\ item'[t] # Nil) =>
           /\ Hinted(back, notify, next, head.blk, cur'[t].blk)
           /\ item'[t] \in Reach(back, cur'[t].blk),
         \A x \in Waiters : x # t => flag'[x] = flag[x],
         t \in Waiters =>
           /\ FlagFits(t)' /\ (Owed(t)' <=> Owed(t))
           /\ (IsWaiting(t)' /\ flag'[t] # 2) <=> (IsWaiting(t) /\ flag[t] # 2),
         InHands(t)' = InHands(t), HandEnds(t)',
         wakes'[t] = wakes[t], wakes[t] # <<>> => pc'[t] \in Releasing,
         pc'[t] # "releaseOfList"
  PROVE  WaitInv'
<1>1. WaitTypes /\ WaitLock /\ WaitHints /\ WaitPlaces /\ WaitWakes
  BY DEF WaitInv
<1>2. WaitLock'
  BY <1>1, OthersLock
<1>3. WaitHints'
  <2>1. \A u \in Callers : (u # t /\ Walking(u)') =>
           Walking(u) /\ cur'[u] = cur[u] /\ item'[u] = item[u] /\ pc'[u] = pc[u]
    BY OthersStay DEF Others
  <2>. QED  BY <1>1, <2>1, QuietHints
<1>4. WaitPlaces'
  BY <1>1, QuietPlaces
<1>5. WaitWakes'
  <2>1. \A x \in Waiters : Owed(x)' <=> Owed(x)
    BY <1>1, OthersFit
  <2>. QED  BY <1>1, <2>1, WakesKept
<1>. QED  BY <1>1, <1>2, <1>3, <1>4, <1>5 DEF WaitInv

-----------------------------------------------------------------------------
(* The steps that leave the lists alone.                                   *)
LEMMA PcOthers ==
  ASSUME NEW t \in Callers, WaitTypes, NEW label, pc' = [pc EXCEPT ![t] = label],
         UNCHANGED <<cur, item, wakes, then, last>>
  PROVE  Others(t) /\ pc'[t] = label
BY DEF WaitTypes, Others

(* All but pc, flag and the counts of the model.                           *)
Unmoved == UNCHANGED <<head, back, notify, next, cur, item, wakes, then, last>>

LEMMA WaiterQuiet ==
  ASSUME WaitAssumption, WaitInv, NEW w \in Waiters,
         NEW label \in {"remove", "spin", "out", "keyed", "timedOut", "keyedAgain"},
         NEW mark \in {0, 1, 2, 4},
         pc[w] \in {"compare", "spin", "keyed", "timedOut", "giveUpRemove"},
         pc' = [pc EXCEPT ![w] = label], flag' = [flag EXCEPT ![w] = mark],
         Unmoved,
         FlagFits(w)', Owed(w)' <=> Owed(w),
         (IsWaiting(w)' /\ flag'[w] # 2) <=> (IsWaiting(w) /\ flag[w] # 2)
  PROVE  WaitInv'
<1>1. WaitTypes /\ WaitLock /\ WaitHints /\ WaitPlaces /\ WaitWakes
  BY DEF WaitInv
<1>2. w \in Callers /\ w \notin Wakers
  BY WaitersAndWakers
<1>3. Others(w) /\ pc'[w] = label
  BY <1>1, <1>2, PcOthers DEF Unmoved
<1>4. /\ back' = back /\ notify' = notify /\ next' = next /\ head' = head /\ cur' = cur
      /\ item' = item /\ wakes' = wakes /\ then' = then /\ last' = last
  BY DEF Unmoved
<1>5. WaitTypes'
  <2>1. pc' \in [Callers -> WaiterLabels \cup WakerLabels]
    BY <1>1, <1>2 DEF WaitTypes, WaiterLabels
  <2>2. flag' \in [Waiters -> {0, 1, 2, 4}]
    BY <1>1 DEF WaitTypes
  <2>3. \A x \in Waiters : pc'[x] \in WaiterLabels
    BY <1>1, <1>2, WaitersAndWakers DEF WaitTypes, WaiterLabels
  <2>4. \A k \in Wakers : pc'[k] \in WakerLabels /\ then'[k] = "out"
    BY <1>1, <1>2, <1>4, WaitersAndWakers DEF WaitTypes
  <2>. QED  BY <1>1, <1>4, <2>1, <2>2, <2>3, <2>4 DEF WaitTypes
<1>6. LockMove(w) /\ WordFits' /\ LastFits(w)'
  <2>1. ~HoldsLock(w) /\ ~HoldsLock(w)'
    BY <1>3 DEF HoldsLock
  <2>2. WordFits'
    BY <1>1, <1>4 DEF WordFits, WaitLock
  <2>3. LastFits(w)'
    BY <1>3 DEF LastFits
  <2>. QED  BY <1>4, <2>1, <2>2, <2>3 DEF LockMove
<1>7. ~Walking(w)' /\ pc'[w] # "wakeItem" /\ pc'[w] # "releaseOfList"
  BY <1>3 DEF Walking
<1>8. \A x \in Waiters : x # w => flag'[x] = flag[x]
  BY <1>1 DEF WaitTypes
<1>9. InHands(w)' = InHands(w) /\ HandEnds(w)'
  BY <1>2, <1>3, EmptyHands DEF OfList
<1>10. wakes'[w] = wakes[w] /\ wakes[w] = <<>>
  BY <1>1, <1>2, <1>4 DEF WaitWakes
<1>. QED  BY <1>2, <1>3, <1>4, <1>5, <1>6, <1>7, <1>8, <1>9, <1>10, QuietStep

LEMMA WaiterQuietSteps ==
  ASSUME WaitAssumption, WaitInv, NEW w \in Waiters,
         Compare(w) \/ SpinSucceeds(w) \/ FallAsleep(w) \/ Timeout(w) \/ MarkTimedOut(w)
                    \/ GiveUpRemove(w)
  PROVE  WaitInv'
<1>1. WaitTypes /\ FlagFits(w) /\ flag[w] \in {0, 1, 2, 4} /\ w \in Callers
  BY WaitersAndWakers DEF WaitInv, WaitPlaces, FlagsFit, WaitTypes
<1>2. flag = [flag EXCEPT ![w] = flag[w]]
  BY <1>1 DEF WaitTypes
<1>3. CASE Compare(w)
  <2>0. PICK label : label = IF AddressOf[w] \in changed THEN "remove" ELSE "spin"
    OBVIOUS
  <2>1. pc' = [pc EXCEPT ![w] = label] /\ label \in {"remove", "spin"}
    BY <1>3, <2>0 DEF Compare, Goto
  <2>2. pc[w] = "compare" /\ flag' = flag /\ Unmoved
    BY <1>3 DEF Compare, local, links, Unmoved
  <2>3. pc'[w] = label /\ flag'[w] = flag[w]
    BY <1>1, <2>1, <2>2 DEF WaitTypes
  <2>4. FlagFits(w)' /\ (Owed(w)' <=> Owed(w))
    BY <1>1, <2>1, <2>2, <2>3 DEF FlagFits, Owed, Asleep, Spinning, Leaving, OfList
  <2>5. IsWaiting(w)' /\ IsWaiting(w)
    BY <2>1, <2>2, <2>3 DEF IsWaiting, Asleep, Spinning, Leaving
  <2>6. (IsWaiting(w)' /\ flag'[w] # 2) <=> (IsWaiting(w) /\ flag[w] # 2)
    BY <2>3, <2>5
  <2>7. label \in {"remove", "spin", "out", "keyed", "timedOut", "keyedAgain"}
        /\ pc[w] \in {"compare", "spin", "keyed", "timedOut", "giveUpRemove"}
    BY <2>1, <2>2
  <2>8. pc' = [pc EXCEPT ![w] = label] /\ Unmoved
    BY <2>1, <2>2
  <2>9. flag' = [flag EXCEPT ![w] = flag[w]]
    BY <1>2, <2>2
  <2>. QED  BY <1>1, <2>4, <2>6, <2>7, <2>8, <2>9, WaiterQuiet
<1>4. CASE SpinSucceeds(w)
  <2>1. pc' = [pc EXCEPT ![w] = "out"] /\ pc[w] = "spin" /\ flag' = flag /\ flag[w] % 2 = 0
        /\ Unmoved
    BY <1>4 DEF SpinSucceeds, local, links, Unmoved, Goto
  <2>2. pc'[w] = "out" /\ flag'[w] = flag[w]
    BY <1>1, <2>1 DEF WaitTypes
  <2>3. flag[w] = 2
    BY <1>1, <2>1 DEF FlagFits, Spinning
  <2>4. FlagFits(w)' /\ (Owed(w)' <=> Owed(w))
    BY <1>1, <2>1, <2>2 DEF FlagFits, Owed, Asleep, Spinning, Leaving, OfList
  <2>. QED  BY <1>1, <1>2, <2>1, <2>2, <2>3, <2>4, WaiterQuiet
<1>5. CASE FallAsleep(w)
  <2>1. pc' = [pc EXCEPT ![w] = "keyed"] /\ pc[w] = "spin" /\ flag' = [flag EXCEPT ![w] = flag[w] - 1]
        /\ flag[w] % 2 = 1 /\ Unmoved
    BY <1>5 DEF FallAsleep, local, links, Unmoved, Goto
  <2>2. flag[w] = 1
    BY <1>1, <2>1 DEF FlagFits, Spinning
  <2>3. pc'[w] = "keyed" /\ flag'[w] = 0 /\ flag' = [flag EXCEPT ![w] = 0]
    BY <1>1, <2>1, <2>2 DEF WaitTypes
  <2>4. FlagFits(w)' /\ (Owed(w)' <=> Owed(w))
    BY <2>1, <2>3 DEF FlagFits, Owed, Asleep, Spinning, Leaving, OfList
  <2>5. IsWaiting(w)' /\ IsWaiting(w)
    BY <2>1, <2>3 DEF IsWaiting, Asleep, Spinning
  <2>6. pc' = [pc EXCEPT ![w] = "keyed"] /\ pc[w] = "spin" /\ flag' = [flag EXCEPT ![w] = 0]
        /\ Unmoved
    BY <2>1, <2>3
  <2>7. (IsWaiting(w)' /\ flag'[w] # 2) <=> (IsWaiting(w) /\ flag[w] # 2)
    BY <2>2, <2>3, <2>5
  <2>. QED  BY <2>4, <2>6, <2>7, WaiterQuiet
<1>6. CASE Timeout(w)
  <2>1. pc' = [pc EXCEPT ![w] = "timedOut"] /\ pc[w] = "keyed" /\ flag' = flag
        /\ Unmoved
    BY <1>6 DEF Timeout, local, links, Unmoved, Goto
  <2>2. pc'[w] = "timedOut" /\ flag'[w] = flag[w]
    BY <1>1, <2>1 DEF WaitTypes
  <2>3. FlagFits(w)' /\ (Owed(w)' <=> Owed(w))
    BY <1>1, <2>1, <2>2 DEF FlagFits, Owed, Asleep, Spinning, Leaving, OfList
  <2>4. IsWaiting(w)' /\ IsWaiting(w)
    BY <2>1, <2>2 DEF IsWaiting, Asleep
  <2>. QED  BY <1>1, <1>2, <2>1, <2>2, <2>3, <2>4, WaiterQuiet
<1>7. CASE MarkTimedOut(w)
  <2>1. PICK label : label = IF flag[w] = 2 THEN "keyedAgain" ELSE "remove"
    OBVIOUS
  <2>2. pc' = [pc EXCEPT ![w] = label] /\ pc[w] = "timedOut" /\ flag' = [flag EXCEPT ![w] = 4]
        /\ Unmoved
    BY <1>7, <2>1 DEF MarkTimedOut, local, links, Unmoved, Goto
  <2>3. pc'[w] = label /\ flag'[w] = 4 /\ label \in {"keyedAgain", "remove"}
    BY <1>1, <2>1, <2>2 DEF WaitTypes
  <2>4. FlagFits(w)'
    BY <2>3 DEF FlagFits, Asleep, Spinning, Leaving, OfList
  <2>5. Owed(w)' <=> Owed(w)
    BY <1>1, <2>1, <2>2, <2>3 DEF Owed, Asleep
  <2>6. (IsWaiting(w)' /\ flag'[w] # 2) <=> (IsWaiting(w) /\ flag[w] # 2)
    BY <1>1, <2>1, <2>2, <2>3 DEF IsWaiting, Asleep, Spinning, Leaving, OfList
  <2>. QED  BY <2>1, <2>2, <2>3, <2>4, <2>5, <2>6, WaiterQuiet
<1>8. CASE GiveUpRemove(w)
  <2>1. PICK label : label = IF flag[w] = 2 THEN "out" ELSE "spin"
    OBVIOUS
  <2>2. pc' = [pc EXCEPT ![w] = label] /\ pc[w] = "giveUpRemove" /\ flag' = [flag EXCEPT ![w] = 1]
        /\ Unmoved
    BY <1>8, <2>1 DEF GiveUpRemove, local, links, Unmoved, Goto
  <2>3. pc'[w] = label /\ flag'[w] = 1 /\ label \in {"out", "spin"}
    BY <1>1, <2>1, <2>2 DEF WaitTypes
  <2>4. FlagFits(w)'
    BY <2>3 DEF FlagFits, Asleep, Spinning, Leaving, OfList
  <2>5. Owed(w)' <=> Owed(w)
    BY <2>2, <2>3 DEF Owed, Asleep
  <2>6. (IsWaiting(w)' /\ flag'[w] # 2) <=> (IsWaiting(w) /\ flag[w] # 2)
    BY <2>1, <2>2, <2>3 DEF IsWaiting, Asleep, Spinning, Leaving, OfList
  <2>. QED  BY <2>1, <2>2, <2>3, <2>4, <2>5, <2>6, WaiterQuiet
<1>. QED  BY <1>3, <1>4, <1>5, <1>6, <1>7, <1>8

ListsUnmoved == UNCHANGED <<back, notify, next, flag, wakes>>

OwnLabel(t) ==
  /\ pc' \in [Callers -> WaiterLabels \cup WakerLabels]
  /\ t \in Waiters => pc'[t] \in WaiterLabels
  /\ t \in Wakers => pc'[t] \in WakerLabels /\ then'[t] = "out"

LEMMA LabelTypes ==
  ASSUME WaitAssumption, WaitTypes, NEW t \in Callers, Others(t), OwnLabel(t)
  PROVE  /\ pc' \in [Callers -> WaiterLabels \cup WakerLabels]
         /\ \A x \in Waiters : pc'[x] \in WaiterLabels
         /\ \A k \in Wakers : pc'[k] \in WakerLabels /\ then'[k] = "out"
<1>1. \A x \in Waiters : pc'[x] \in WaiterLabels
  BY WaitersAndWakers DEF WaitTypes, Others, OwnLabel
<1>2. \A k \in Wakers : pc'[k] \in WakerLabels /\ then'[k] = "out"
  BY WaitersAndWakers DEF WaitTypes, Others, OwnLabel
<1>. QED  BY <1>1, <1>2 DEF OwnLabel

LEMMA CallerQuiet ==
  ASSUME WaitAssumption, WaitInv, NEW t \in Callers, Others(t), OwnLabel(t), ListsUnmoved,
         head' \in Words, head'.blk = head.blk,
         cur' \in [Callers -> Words], item' \in [Callers -> Blocks],
         then' \in [Callers -> {"compare", "out"}], last' \in [Callers -> BOOLEAN],
         LockMove(t), WordFits', LastFits(t)',
         Walking(t)' => Walkable(back, notify, next, head.blk, cur'[t].blk),
         (pc'[t] = "wakeItem" /\ item'[t] # Nil) =>
           /\ Hinted(back, notify, next, head.blk, cur'[t].blk)
           /\ item'[t] \in Reach(back, cur'[t].blk),
         t \in Waiters => FlagFits(t)' /\ (Owed(t)' <=> Owed(t)) /\ (IsWaiting(t)' <=> IsWaiting(t)),
         pc[t] \notin {"releaseOfList", "wakeHeadFlag"}, pc[t] = "wakeList" => item[t] = Nil,
         pc'[t] \notin OfList \cup {"wakeHeadFlag"},
         wakes[t] # <<>> => pc'[t] \in Releasing
  PROVE  WaitInv'
<1>1. WaitTypes /\ WaitLock /\ WaitHints /\ WaitPlaces /\ WaitWakes
  BY DEF WaitInv
<1>2. back' = back /\ notify' = notify /\ next' = next /\ flag' = flag /\ wakes' = wakes
  BY DEF ListsUnmoved
<1>3. WaitTypes'
  BY <1>1, <1>2, LabelTypes DEF WaitTypes
<1>4. InHands(t)' = InHands(t) /\ HandEnds(t)'
  <2>1. InHands(t) = {}
    <3>1. CASE pc[t] = "wakeList"
      BY <1>1, <3>1, ReachStep DEF InHands, OfList, WaitTypes
    <3>2. CASE pc[t] # "wakeList"
      BY <3>2, EmptyHands DEF OfList
    <3>. QED  BY <3>1, <3>2
  <2>. QED  BY <2>1, EmptyHands
<1>5. pc'[t] # "releaseOfList" /\ wakes'[t] = wakes[t] /\ \A x \in Waiters : x # t => flag'[x] = flag[x]
  BY <1>2 DEF OfList
<1>6. t \in Waiters => /\ FlagFits(t)' /\ (Owed(t)' <=> Owed(t))
                       /\ (IsWaiting(t)' /\ flag'[t] # 2) <=> (IsWaiting(t) /\ flag[t] # 2)
  BY <1>2
<1>. QED  BY <1>2, <1>3, <1>4, <1>5, <1>6, QuietStep

(* The same with the lock and its word as they are.                        *)
LEMMA CallerSameLock ==
  ASSUME WaitInv, head' = head, NEW t \in Callers, HoldsLock(t)' <=> HoldsLock(t)
  PROVE  LockMove(t) /\ WordFits' /\ head' \in Words /\ head'.blk = head.blk
<1>1. WordFits'
  BY DEF WaitInv, WaitLock, WordFits
<1>2. LockMove(t)
  BY DEF LockMove
<1>. QED  BY <1>1, <1>2 DEF WaitInv, WaitTypes

LEMMA EndOfListStep ==
  ASSUME WaitAssumption, WaitInv, NEW t \in Callers, EndOfList(t)
  PROVE  WaitInv'
<1>1. WaitTypes /\ WaitWakes
  BY DEF WaitInv
<1>2. /\ pc[t] = "wakeList" /\ item[t] = Nil /\ pc' = [pc EXCEPT ![t] = then[t]]
      /\ head' = head /\ cur' = cur /\ item' = item /\ then' = then /\ last' = last /\ ListsUnmoved
      /\ flag' = flag
  BY DEF EndOfList, Goto, local, links, ListsUnmoved
<1>3. then[t] \in {"compare", "out"} /\ pc'[t] = then[t]
  BY <1>1, <1>2 DEF WaitTypes
<1>4. Others(t)
  BY <1>1, <1>2 DEF WaitTypes, Others, ListsUnmoved
<1>5. OwnLabel(t)
  BY <1>1, <1>2, <1>3 DEF WaitTypes, OwnLabel, WaiterLabels, WakerLabels
<1>6. LockMove(t) /\ WordFits' /\ head' \in Words /\ head'.blk = head.blk
  <2>1. HoldsLock(t)' <=> HoldsLock(t)
    BY <1>2, <1>3 DEF HoldsLock
  <2>. QED  BY <1>2, <2>1, CallerSameLock
<1>7. ~Walking(t)' /\ LastFits(t)' /\ pc'[t] # "wakeItem" /\ pc'[t] \notin OfList \cup {"wakeHeadFlag"}
  BY <1>3 DEF Walking, LastFits, OfList
<1>8. ASSUME t \in Waiters
      PROVE  FlagFits(t)' /\ (Owed(t)' <=> Owed(t)) /\ (IsWaiting(t)' <=> IsWaiting(t))
  <2>1. FlagFits(t)
    BY <1>8 DEF WaitInv, WaitPlaces, FlagsFit
  <2>2. FlagFits(t)'
    BY <1>2, <1>3, <2>1 DEF FlagFits, Asleep, Spinning, Leaving, OfList
  <2>3. Owed(t)' <=> Owed(t)
    BY <1>2, <1>3 DEF Owed, Asleep
  <2>4. IsWaiting(t)' <=> IsWaiting(t)
    BY <1>2, <1>3 DEF IsWaiting, Asleep, Spinning, Leaving, OfList
  <2>. QED  BY <2>2, <2>3, <2>4
<1>9. wakes[t] = <<>>
  BY <1>1, <1>2 DEF WaitWakes
<1>10. cur' \in [Callers -> Words] /\ item' \in [Callers -> Blocks]
       /\ then' \in [Callers -> {"compare", "out"}] /\ last' \in [Callers -> BOOLEAN]
  BY <1>1, <1>2 DEF WaitTypes
<1>. QED  BY <1>2, <1>4, <1>5, <1>6, <1>7, <1>8, <1>9, <1>10, CallerQuiet

(* A waker that goes on without the list.                                  *)
LEMMA WakerQuiet ==
  ASSUME WaitAssumption, WaitInv, NEW k \in Wakers, NEW label \in WakerLabels,
         pc' = [pc EXCEPT ![k] = label],
         pc[k] \in {"out", "wake", "wakeItem", "release"},
         label \in {"wake", "out", "release", "unlock"},
         ListsUnmoved, cur' = cur, item' = item, then' = then,
         last' \in [Callers -> BOOLEAN], \A u \in Callers : u # k => last'[u] = last[u],
         head' \in Words, head'.blk = head.blk, head'.lock = head.lock, WordFits',
         HoldsLock(k)' <=> HoldsLock(k),
         wakes[k] # <<>> => label = "release"
  PROVE  WaitInv'
<1>1. WaitTypes /\ k \in Callers /\ k \notin Waiters
  BY WaitersAndWakers DEF WaitInv
<1>2. pc'[k] = label
  BY <1>1 DEF WaitTypes
<1>3. Others(k)
  BY <1>1 DEF WaitTypes, Others, ListsUnmoved
<1>4. OwnLabel(k)
  BY <1>1, <1>2 DEF WaitTypes, OwnLabel
<1>5. LockMove(k)
  BY DEF LockMove
<1>6. ~Walking(k)' /\ LastFits(k)' /\ pc'[k] # "wakeItem" /\ pc'[k] \notin OfList \cup {"wakeHeadFlag"}
  BY <1>2 DEF Walking, LastFits, OfList
<1>7. wakes[k] # <<>> => pc'[k] \in Releasing
  BY <1>2 DEF Releasing
<1>8. /\ cur' \in [Callers -> Words] /\ item' \in [Callers -> Blocks]
      /\ then' \in [Callers -> {"compare", "out"}]
  BY <1>1 DEF WaitTypes
<1>9. pc[k] \notin {"releaseOfList", "wakeHeadFlag"} /\ pc[k] # "wakeList"
  OBVIOUS
<1>. QED  BY <1>1, <1>3, <1>4, <1>5, <1>6, <1>7, <1>8, <1>9, CallerQuiet

LEMMA WakerQuietSteps ==
  ASSUME WaitAssumption, WaitInv, NEW k \in Wakers, Change(k) \/ WakeEnd(k) \/ ReleaseEnd(k)
  PROVE  WaitInv'
<1>1. WaitTypes /\ WaitWakes /\ k \in Callers /\ last \in [Callers -> BOOLEAN]
      /\ last[k] \in BOOLEAN
  BY WaitersAndWakers DEF WaitInv, WaitTypes
<1>2. head \in Words /\ WordFits
  BY DEF WaitInv, WaitTypes, WaitLock, WordFits
<1>3. CASE Change(k)
  <2>1. /\ pc[k] = "out" /\ pc' = [pc EXCEPT ![k] = "wake"] /\ ListsUnmoved /\ head' = head
        /\ cur' = cur /\ item' = item /\ then' = then /\ last' = last
    BY <1>3 DEF Change, Goto, local, links, ListsUnmoved
  <2>2. wakes[k] = <<>> /\ pc'[k] = "wake"
    BY <1>1, <2>1 DEF WaitWakes, WaitTypes
  <2>3. HoldsLock(k)' <=> HoldsLock(k)
    BY <2>1, <2>2 DEF HoldsLock
  <2>4. WordFits' /\ "wake" \in WakerLabels
    BY <1>2, <2>1 DEF WordFits, WakerLabels
  <2>. QED  BY <1>1, <1>2, <2>1, <2>2, <2>3, <2>4, WakerQuiet
<1>4. CASE WakeEnd(k)
  <2>1. /\ pc[k] = "wakeItem" /\ pc' = [pc EXCEPT ![k] = "release"] /\ ListsUnmoved /\ head' = head
        /\ cur' = cur /\ item' = item /\ then' = then /\ last' = last
    BY <1>4 DEF WakeEnd, Goto, local, links, ListsUnmoved
  <2>2. pc'[k] = "release"
    BY <1>1, <2>1 DEF WaitTypes
  <2>3. HoldsLock(k)' <=> HoldsLock(k)
    BY <2>1, <2>2 DEF HoldsLock
  <2>4. WordFits' /\ "release" \in WakerLabels
    BY <1>2, <2>1 DEF WordFits, WakerLabels
  <2>. QED  BY <1>1, <1>2, <2>1, <2>2, <2>3, <2>4, WakerQuiet
<1>5. CASE ReleaseEnd(k)
  <2>1. PICK label : label = IF last[k] THEN "out" ELSE "unlock"
    OBVIOUS
  <2>2. /\ pc[k] = "release" /\ pc' = [pc EXCEPT ![k] = label] /\ ListsUnmoved /\ head' = head
        /\ cur' = cur /\ item' = item /\ then' = then /\ last' = last /\ wakes[k] = <<>>
    BY <1>5, <2>1 DEF ReleaseEnd, Goto, local, links, ListsUnmoved
  <2>3. pc'[k] = label
    BY <1>1, <2>2 DEF WaitTypes
  <2>4. HoldsLock(k)' <=> HoldsLock(k)
    BY <2>1, <2>2, <2>3 DEF HoldsLock
  <2>5. WordFits' /\ label \in WakerLabels /\ label \in {"wake", "out", "release", "unlock"}
    BY <1>2, <2>1, <2>2 DEF WordFits, WakerLabels
  <2>. QED  BY <1>1, <1>2, <2>2, <2>3, <2>4, <2>5, WakerQuiet
<1>. QED  BY <1>3, <1>4, <1>5

LEMMA WakeSkipStep ==
  ASSUME WaitAssumption, WaitInv, NEW k \in Wakers, WakeSkip(k)
  PROVE  WaitInv'
<1>1. WaitTypes /\ WaitHints /\ WaitLock /\ WaitPlaces /\ k \in Callers /\ k \notin Waiters
  BY WaitersAndWakers DEF WaitInv
<1>2. /\ pc[k] = "wakeItem" /\ item[k] # Nil /\ item' = [item EXCEPT ![k] = notify[item[k]]]
      /\ pc' = pc /\ head' = head /\ cur' = cur /\ then' = then /\ last' = last /\ ListsUnmoved
  BY DEF WakeSkip, links, ListsUnmoved
<1>3. item[k] \in Waiters /\ notify[item[k]] \in Blocks /\ ~last[k]
  BY <1>1, <1>2, WaitersAndWakers DEF WaitTypes, WaitLinks, WaitLock
<1>4. Others(k)
  BY <1>1, <1>2 DEF WaitTypes, Others, ListsUnmoved
<1>5. OwnLabel(k)
  BY <1>1, <1>2 DEF WaitTypes, OwnLabel
<1>6. /\ cur' \in [Callers -> Words] /\ item' \in [Callers -> Blocks] /\ item'[k] = notify[item[k]]
      /\ then' \in [Callers -> {"compare", "out"}] /\ last' \in [Callers -> BOOLEAN]
  BY <1>1, <1>2, <1>3 DEF WaitTypes
<1>7. LockMove(k) /\ WordFits' /\ head' \in Words /\ head'.blk = head.blk
  <2>1. HoldsLock(k)' <=> HoldsLock(k)
    BY <1>2 DEF HoldsLock
  <2>. QED  BY <1>1, <1>2, <2>1, CallerSameLock
<1>8. LastFits(k)'
  BY <1>2, <1>3 DEF LastFits
<1>9. /\ Walkable(back, notify, next, head.blk, cur[k].blk)
      /\ Hinted(back, notify, next, head.blk, cur[k].blk)
      /\ item[k] \in Reach(back, cur[k].blk)
  BY <1>1, <1>2 DEF WaitHints, Walking
<1>10. notify[item[k]] # Nil => notify[item[k]] \in Reach(back, cur[k].blk)
  <2>1. /\ back \in WaitLinks /\ notify \in WaitLinks /\ head.blk \in Blocks /\ Ends(back, head.blk)
        /\ cur[k].blk \in Waiters
    <3>1. head.blk \in Blocks /\ back \in WaitLinks
      BY <1>1, WordParts DEF WaitTypes
    <3>2. cur[k].blk \in Waiters
      BY <1>9, <3>1, ReachClosed DEF Walkable
    <3>. QED  BY <1>1, <3>1, <3>2 DEF WaitTypes, WaitPlaces, ListsEnd
  <2>. QED  BY <1>9, <2>1, HintBack
<1>11. Walking(k)' => Walkable(back, notify, next, head.blk, cur'[k].blk)
  BY <1>2, <1>9
<1>12. (pc'[k] = "wakeItem" /\ item'[k] # Nil) =>
           /\ Hinted(back, notify, next, head.blk, cur'[k].blk)
           /\ item'[k] \in Reach(back, cur'[k].blk)
  BY <1>2, <1>6, <1>9, <1>10
<1>13. /\ pc[k] \notin {"releaseOfList", "wakeHeadFlag"} /\ pc[k] # "wakeList"
       /\ pc'[k] \notin OfList \cup {"wakeHeadFlag"} /\ pc'[k] \in Releasing
  BY <1>2 DEF OfList, Releasing
<1>. QED  BY <1>1, <1>2, <1>4, <1>5, <1>6, <1>7, <1>8, <1>11, <1>12, <1>13, CallerQuiet

(* Taking the lock, or asking its holder to wake everybody.                *)
LEMMA AskedWord ==
  ASSUME WaitAssumption, head \in Words, WordFits, head.blk # Nil
  PROVE  /\ [head EXCEPT !.all = TRUE] \in Words /\ [head EXCEPT !.lock = TRUE] \in Words
         /\ [head EXCEPT !.all = TRUE].blk = head.blk /\ [head EXCEPT !.lock = TRUE].blk = head.blk
         /\ [head EXCEPT !.all = TRUE].lock = head.lock /\ [head EXCEPT !.lock = TRUE].lock
BY WordParts DEF Words

LEMMA WakeLockStep ==
  ASSUME WaitAssumption, WaitInv, NEW k \in Wakers, WakeLock(k)
  PROVE  WaitInv'
<1>1. WaitTypes /\ WaitHints /\ WaitWakes /\ k \in Callers /\ k \notin Waiters
  BY WaitersAndWakers DEF WaitInv
<1>2. head \in Words /\ WordFits /\ last \in [Callers -> BOOLEAN]
  BY DEF WaitInv, WaitTypes, WaitLock, WordFits
<1>3. /\ pc[k] = "wake" /\ last' = [last EXCEPT ![k] = FALSE] /\ ListsUnmoved
      /\ item' = item /\ then' = then
  BY DEF WakeLock, links, ListsUnmoved
<1>4. /\ wakes[k] = <<>> /\ last' \in [Callers -> BOOLEAN] /\ ~last'[k]
      /\ \A u \in Callers : u # k => last'[u] = last[u]
  BY <1>1, <1>2, <1>3 DEF WaitWakes
<1>5. CASE head.blk = Nil \/ head.all
  <2>1. pc' = [pc EXCEPT ![k] = "out"] /\ head' = head /\ cur' = cur
    BY <1>5 DEF WakeLock, Goto
  <2>2. pc'[k] = "out"
    BY <1>1, <2>1 DEF WaitTypes
  <2>3. HoldsLock(k)' <=> HoldsLock(k)
    BY <1>3, <2>2 DEF HoldsLock
  <2>4. WordFits' /\ "out" \in WakerLabels
    BY <1>2, <2>1 DEF WordFits, WakerLabels
  <2>. QED  BY <1>2, <1>3, <1>4, <2>1, <2>3, <2>4, WakerQuiet
<1>6. CASE head.blk # Nil /\ ~head.all /\ head.lock
  <2>1. pc' = [pc EXCEPT ![k] = "out"] /\ head' = [head EXCEPT !.all = TRUE] /\ cur' = cur
    BY <1>6 DEF WakeLock, Goto
  <2>2. pc'[k] = "out"
    BY <1>1, <2>1 DEF WaitTypes
  <2>3. HoldsLock(k)' <=> HoldsLock(k)
    BY <1>3, <2>2 DEF HoldsLock
  <2>4. head' \in Words /\ head'.blk = head.blk /\ head'.lock = head.lock
    BY <1>2, <1>6, <2>1, AskedWord
  <2>5. WordFits' /\ "out" \in WakerLabels
    BY <1>6, <2>4 DEF WordFits, WakerLabels
  <2>. QED  BY <1>3, <1>4, <2>1, <2>3, <2>4, <2>5, WakerQuiet
<1>7. CASE head.blk # Nil /\ ~head.all /\ ~head.lock
  <2>1. /\ pc' = [pc EXCEPT ![k] = "wakeWalk"] /\ head' = [head EXCEPT !.lock = TRUE]
        /\ cur' = [cur EXCEPT ![k] = head']
    BY <1>7 DEF WakeLock, Goto
  <2>2. head' \in Words /\ head'.blk = head.blk /\ head'.lock
    BY <1>2, <1>7, <2>1, AskedWord
  <2>3. pc'[k] = "wakeWalk" /\ cur'[k] = head' /\ cur' \in [Callers -> Words]
    BY <1>1, <2>1, <2>2 DEF WaitTypes
  <2>4. Others(k)
    BY <1>1, <1>3, <2>1 DEF WaitTypes, Others, ListsUnmoved
  <2>5. OwnLabel(k)
    BY <1>1, <1>3, <2>1, <2>3 DEF WaitTypes, OwnLabel, WakerLabels
  <2>6. LockMove(k)
    BY <1>7, <2>2, <2>3 DEF LockMove, HoldsLock
  <2>7. WordFits' /\ LastFits(k)'
    BY <1>4, <1>7, <2>2 DEF WordFits, LastFits
  <2>8. Walkable(back, notify, next, head.blk, cur'[k].blk)
    BY <1>1, <1>7, <2>2, <2>3, NewestWalk
  <2>9. item' \in [Callers -> Blocks] /\ then' \in [Callers -> {"compare", "out"}]
    BY <1>1, <1>3 DEF WaitTypes
  <2>10. /\ pc[k] \notin {"releaseOfList", "wakeHeadFlag"} /\ pc[k] # "wakeList"
         /\ pc'[k] \notin OfList \cup {"wakeHeadFlag"} /\ pc'[k] # "wakeItem"
    BY <1>3, <2>3 DEF OfList
  <2>. QED  BY <1>1, <1>3, <1>4, <2>2, <2>3, <2>4, <2>5, <2>6, <2>7, <2>8, <2>9, <2>10, CallerQuiet
<1>8. head.all \in BOOLEAN /\ head.lock \in BOOLEAN
  BY <1>2, WordParts
<1>. QED  BY <1>5, <1>6, <1>7, <1>8

LEMMA WalkedNotEmpty ==
  ASSUME WaitAssumption, WaitInv, NEW t \in Callers, Walking(t)
  PROVE  /\ head.blk # Nil /\ head.lock /\ HoldsLock(t)
         /\ Walkable(back, notify, next, head.blk, cur[t].blk)
         /\ Walkable(back, notify, next, head.blk, head.blk)
         /\ cur[t].blk \in Waiters /\ head.blk \in Waiters
<1>1. WaitTypes /\ WaitHints /\ WaitLock
  BY DEF WaitInv
<1>2. Walkable(back, notify, next, head.blk, cur[t].blk)
  BY <1>1 DEF WaitHints
<1>3. back \in WaitLinks /\ head.blk \in Blocks
  BY <1>1, WordParts DEF WaitTypes
<1>4. head.blk # Nil /\ cur[t].blk \in Waiters /\ head.blk \in Waiters
  BY <1>2, <1>3, ReachStep, ReachClosed, WaitersAndWakers DEF Walkable
<1>. QED  BY <1>1, <1>2, <1>4, NewestWalk, WalkingHolds

LEMMA StillWaiting ==
  ASSUME WaitInv, NEW w \in Waiters, flag'[w] = flag[w],
         \/ pc[w] \in Leaving /\ pc'[w] \in Leaving
         \/ pc[w] \in Spinning /\ pc'[w] \in Spinning
  PROVE  FlagFits(w)' /\ (Owed(w)' <=> Owed(w)) /\ (IsWaiting(w)' <=> IsWaiting(w))
<1>1. FlagFits(w)
  BY DEF WaitInv, WaitPlaces, FlagsFit
<1>2. FlagFits(w)'
  BY <1>1 DEF FlagFits, Asleep, Spinning, Leaving, OfList
<1>3. Owed(w)' <=> Owed(w)
  BY DEF Owed, Asleep, Spinning, Leaving
<1>4. IsWaiting(w)' /\ IsWaiting(w)
  BY DEF IsWaiting
<1>. QED  BY <1>2, <1>3, <1>4

LEMMA RemoveLockStep ==
  ASSUME WaitAssumption, WaitInv, NEW w \in Waiters, RemoveLock(w)
  PROVE  WaitInv'
<1>1. WaitTypes /\ WaitHints /\ WaitWakes /\ w \in Callers /\ w \notin Wakers
  BY WaitersAndWakers DEF WaitInv
<1>2. head \in Words /\ WordFits
  BY DEF WaitInv, WaitTypes, WaitLock, WordFits
<1>3. /\ pc[w] = "remove" /\ ListsUnmoved /\ flag' = flag
      /\ item' = item /\ then' = then /\ last' = last
  BY DEF RemoveLock, links, ListsUnmoved
<1>4. /\ wakes[w] = <<>> /\ item' \in [Callers -> Blocks] /\ last' \in [Callers -> BOOLEAN]
      /\ then' \in [Callers -> {"compare", "out"}]
  BY <1>1, <1>3 DEF WaitWakes, WaitTypes
<1>5. pc[w] \notin {"releaseOfList", "wakeHeadFlag"} /\ pc[w] # "wakeList" /\ ~HoldsLock(w)
  BY <1>3 DEF HoldsLock
<1>6. CASE head.blk = Nil \/ head.lock
  <2>1. pc' = [pc EXCEPT ![w] = "giveUpRemove"] /\ cur' = cur
    BY <1>6 DEF RemoveLock, Goto
  <2>2. head' \in Words /\ head'.blk = head.blk /\ head'.lock = head.lock /\ WordFits'
    <3>1. CASE head.blk = Nil
      <4>1. head' = head
        BY <3>1 DEF RemoveLock
      <4>. QED  BY <1>2, <4>1 DEF WordFits
    <3>2. CASE head.blk # Nil
      <4>1. head' = [head EXCEPT !.all = TRUE]
        BY <1>6, <3>2 DEF RemoveLock
      <4>2. head' \in Words /\ head'.blk = head.blk /\ head'.lock = head.lock
        BY <1>2, <3>2, <4>1, AskedWord
      <4>. QED  BY <1>6, <3>2, <4>2 DEF WordFits
    <3>. QED  BY <3>1, <3>2
  <2>3. pc'[w] = "giveUpRemove"
    BY <1>1, <2>1 DEF WaitTypes
  <2>4. Others(w)
    BY <1>1, <1>3, <2>1 DEF WaitTypes, Others, ListsUnmoved
  <2>5. OwnLabel(w) /\ cur' \in [Callers -> Words]
    BY <1>1, <1>3, <2>1, <2>3 DEF WaitTypes, OwnLabel, WaiterLabels
  <2>6. LockMove(w) /\ LastFits(w)' /\ ~Walking(w)'
    BY <1>5, <2>2, <2>3 DEF LockMove, HoldsLock, LastFits, Walking
  <2>7. FlagFits(w)' /\ (Owed(w)' <=> Owed(w)) /\ (IsWaiting(w)' <=> IsWaiting(w))
    BY <1>3, <2>3, StillWaiting DEF Leaving
  <2>8. pc'[w] \notin OfList \cup {"wakeHeadFlag"} /\ pc'[w] # "wakeItem"
    BY <2>3 DEF OfList
  <2>. QED  BY <1>1, <1>3, <1>4, <1>5, <2>2, <2>4, <2>5, <2>6, <2>7, <2>8, CallerQuiet
<1>7. CASE head.blk # Nil /\ ~head.lock
  <2>1. /\ pc' = [pc EXCEPT ![w] = "removeWalk"] /\ head' = [head EXCEPT !.lock = TRUE]
        /\ cur' = [cur EXCEPT ![w] = head']
    BY <1>7 DEF RemoveLock, Goto
  <2>2. head' \in Words /\ head'.blk = head.blk /\ head'.lock
    BY <1>2, <1>7, <2>1, AskedWord
  <2>3. pc'[w] = "removeWalk" /\ cur'[w] = head' /\ cur' \in [Callers -> Words]
    BY <1>1, <2>1, <2>2 DEF WaitTypes
  <2>4. Others(w)
    BY <1>1, <1>3, <2>1 DEF WaitTypes, Others, ListsUnmoved
  <2>5. OwnLabel(w)
    BY <1>1, <2>1, <2>3 DEF WaitTypes, OwnLabel, WaiterLabels
  <2>6. LockMove(w)
    BY <1>7, <2>2, <2>3 DEF LockMove, HoldsLock
  <2>7. WordFits' /\ LastFits(w)'
    BY <1>7, <2>2, <2>3 DEF WordFits, LastFits
  <2>8. Walkable(back, notify, next, head.blk, cur'[w].blk)
    BY <1>1, <1>7, <2>2, <2>3, NewestWalk
  <2>9. FlagFits(w)' /\ (Owed(w)' <=> Owed(w)) /\ (IsWaiting(w)' <=> IsWaiting(w))
    BY <1>3, <2>3, StillWaiting DEF Leaving
  <2>10. pc'[w] \notin OfList \cup {"wakeHeadFlag"} /\ pc'[w] # "wakeItem"
    BY <2>3 DEF OfList
  <2>. QED  BY <1>1, <1>3, <1>4, <1>5, <2>2, <2>3, <2>4, <2>5, <2>6, <2>7, <2>8, <2>9, <2>10,
               CallerQuiet
<1>. QED  BY <1>6, <1>7

(* A compare-exchange fails: the list has grown, or everybody is to be     *)
(* woken; the caller goes on with the word it has found.                   *)
LEMMA CasFails ==
  ASSUME WaitAssumption, WaitInv, NEW t \in Callers, Walking(t),
         NEW label \in {"optimize", "removeWalk", "wakeWalk"},
         pc' = [pc EXCEPT ![t] = label], cur' = [cur EXCEPT ![t] = head],
         head' = head, ListsUnmoved, item' = item, then' = then, last' = last,
         \/ t \in Waiters /\ label = "optimize" /\ pc[t] = "optimizeCas"
         \/ t \in Waiters /\ label = "removeWalk" /\ pc[t] = "removeWalk"
         \/ t \in Wakers /\ label = "wakeWalk" /\ pc[t] = "wakeItem"
  PROVE  WaitInv'
<1>1. WaitTypes /\ WaitHints /\ WaitLock /\ WaitWakes
  BY DEF WaitInv
<1>2. pc'[t] = label /\ cur'[t] = head
  BY <1>1 DEF WaitTypes
<1>3. /\ item' \in [Callers -> Blocks] /\ last' \in [Callers -> BOOLEAN]
      /\ then' \in [Callers -> {"compare", "out"}] /\ cur' \in [Callers -> Words]
  BY <1>1 DEF WaitTypes
<1>4. Others(t)
  BY <1>1 DEF WaitTypes, Others, ListsUnmoved
<1>5. OwnLabel(t)
  BY <1>1, <1>2, WaitersAndWakers DEF WaitTypes, OwnLabel, WaiterLabels, WakerLabels
<1>6. LockMove(t) /\ WordFits' /\ head' \in Words /\ head'.blk = head.blk
  <2>1. HoldsLock(t) /\ HoldsLock(t)'
    BY <1>2, WalkedNotEmpty DEF HoldsLock
  <2>. QED  BY <2>1, CallerSameLock
<1>7. LastFits(t)'
  BY <1>1, <1>2 DEF LastFits, WaitLock, Walking
<1>8. Walkable(back, notify, next, head.blk, cur'[t].blk)
  BY <1>2, WalkedNotEmpty
<1>9. t \in Waiters => FlagFits(t)' /\ (Owed(t)' <=> Owed(t)) /\ (IsWaiting(t)' <=> IsWaiting(t))
  <2>1. flag' = flag
    BY DEF ListsUnmoved
  <2>2. t \in Waiters => \/ pc[t] \in Leaving /\ pc'[t] \in Leaving
                         \/ pc[t] \in Spinning /\ pc'[t] \in Spinning
    BY <1>2, WaitersAndWakers DEF Leaving, Spinning
  <2>. QED  BY <2>1, <2>2, StillWaiting
<1>10. /\ pc[t] \notin {"releaseOfList", "wakeHeadFlag"} /\ pc[t] # "wakeList"
       /\ pc'[t] \notin OfList \cup {"wakeHeadFlag"} /\ pc'[t] # "wakeItem"
  BY <1>2 DEF OfList
<1>11. wakes[t] # <<>> => pc'[t] \in Releasing
  BY <1>1, <1>2 DEF WaitWakes, Releasing
<1>. QED  BY <1>3, <1>4, <1>5, <1>6, <1>7, <1>8, <1>9, <1>10, <1>11, CallerQuiet

(* The lock is given back, nobody asked for more.                          *)
LEMMA GiveBack ==
  ASSUME WaitAssumption, WaitInv, NEW t \in Callers, ~head.all, HoldsLock(t),
         NEW label \in {"compare", "out"},
         pc' = [pc EXCEPT ![t] = label], head' = Unlocked(head), ListsUnmoved,
         cur' = cur, last' = last,
         item' = [item EXCEPT ![t] = head.blk], then' = [then EXCEPT ![t] = label],
         \/ label = "compare" /\ t \in Waiters /\ pc[t] = "optimizeCas"
         \/ label = "out" /\ pc[t] = "unlock"
  PROVE  WaitInv'
<1>1. WaitTypes /\ WaitHints /\ WaitLock /\ WaitWakes /\ WordFits
  BY DEF WaitInv, WaitLock, WordFits
<1>2. pc'[t] = label
  BY <1>1 DEF WaitTypes
<1>3. /\ item' \in [Callers -> Blocks] /\ last' \in [Callers -> BOOLEAN]
      /\ then' \in [Callers -> {"compare", "out"}] /\ cur' \in [Callers -> Words]
  BY <1>1, WordParts DEF WaitTypes
<1>4. Others(t)
  BY <1>1 DEF WaitTypes, Others, ListsUnmoved
<1>5. OwnLabel(t)
  BY <1>1, <1>2, WaitersAndWakers DEF WaitTypes, OwnLabel, WaiterLabels, WakerLabels
<1>6. head \in Words
  BY <1>1 DEF WaitTypes
<1>7. head' \in Words /\ head'.blk = head.blk /\ ~head'.lock /\ ~head'.all
  BY <1>6, WordParts
<1>8. head'.blk = Nil => head' = Empty
  BY <1>1, <1>6, <1>7, WordParts DEF WordFits, Unlocked, Empty
<1>9. LockMove(t) /\ WordFits' /\ LastFits(t)' /\ ~Walking(t)'
  <2>1. ~HoldsLock(t)'
    BY <1>2 DEF HoldsLock
  <2>2. LastFits(t)' /\ ~Walking(t)'
    BY <1>2 DEF LastFits, Walking
  <2>. QED  BY <1>7, <1>8, <2>1, <2>2 DEF LockMove, WordFits
<1>10. t \in Waiters => FlagFits(t)' /\ (Owed(t)' <=> Owed(t)) /\ (IsWaiting(t)' <=> IsWaiting(t))
  <2>1. flag' = flag
    BY DEF ListsUnmoved
  <2>2. CASE label = "compare"
    <3>1. pc[t] \in Spinning /\ pc'[t] \in Spinning
      BY <1>2, <2>2 DEF Spinning
    <3>. QED  BY <2>1, <3>1, StillWaiting
  <2>3. CASE label = "out"
    <3>1. pc[t] = "unlock" /\ pc'[t] = "out"
      BY <1>2, <2>3
    <3>. QED  BY <3>1 DEF FlagFits, Owed, IsWaiting, Asleep, Spinning, Leaving, OfList
  <2>. QED  BY <2>2, <2>3
<1>11. /\ pc[t] \notin {"releaseOfList", "wakeHeadFlag"} /\ pc[t] # "wakeList"
       /\ pc'[t] \notin OfList \cup {"wakeHeadFlag"} /\ pc'[t] # "wakeItem"
  BY <1>2 DEF OfList
<1>12. wakes[t] = <<>>
  BY <1>1 DEF WaitWakes
<1>. QED  BY <1>3, <1>4, <1>5, <1>7, <1>9, <1>10, <1>11, <1>12, CallerQuiet

(* The lock is given back with the list: thread t is going to wake it.     *)
LEMMA ListEmptied ==
  ASSUME WaitAssumption, WaitInv, NEW t \in Callers, head.all, HoldsLock(t),
         NEW label \in {"compare", "out"},
         pc' = [pc EXCEPT ![t] = "wakeList"], head' = Unlocked(head), ListsUnmoved,
         cur' = cur, last' = last,
         item' = [item EXCEPT ![t] = head.blk], then' = [then EXCEPT ![t] = label],
         \/ label = "compare" /\ t \in Waiters /\ pc[t] = "optimizeCas"
         \/ label = "out" /\ pc[t] = "unlock"
  PROVE  WaitInv'
<1>1. WaitTypes /\ WaitHints /\ WaitLock /\ WaitWakes /\ WaitPlaces
  BY DEF WaitInv
<1>2. pc'[t] = "wakeList" /\ then'[t] = label /\ item'[t] = head.blk
  BY <1>1, WordParts DEF WaitTypes
<1>3. /\ item' \in [Callers -> Blocks] /\ last' \in [Callers -> BOOLEAN]
      /\ then' \in [Callers -> {"compare", "out"}] /\ cur' \in [Callers -> Words]
  BY <1>1, WordParts DEF WaitTypes
<1>4. Others(t)
  BY <1>1 DEF WaitTypes, Others, ListsUnmoved
<1>5. OwnLabel(t)
  BY <1>1, <1>2, WaitersAndWakers DEF WaitTypes, OwnLabel, WaiterLabels, WakerLabels
<1>6. head' = Empty /\ head' \in Words /\ head'.blk = Nil /\ ~head'.lock
  <2>1. head \in Words
    BY <1>1 DEF WaitTypes
  <2>2. head' = Empty
    BY <2>1, WordParts
  <2>. QED  BY <2>2, WordParts
<1>7. back' = back /\ notify' = notify /\ next' = next /\ flag' = flag /\ wakes' = wakes
  BY DEF ListsUnmoved
<1>8. WaitTypes'
  BY <1>1, <1>3, <1>4, <1>5, <1>6, <1>7, LabelTypes DEF WaitTypes
<1>9. WaitLock'
  <2>1. LockMove(t) /\ LastFits(t)'
    BY <1>2, <1>6 DEF LockMove, HoldsLock, LastFits
  <2>2. WordFits'
    BY <1>6, WordParts DEF WordFits
  <2>. QED  BY <1>1, <1>4, <2>1, <2>2, OthersLock
<1>10. WaitHints'
  <2>1. ~Walking(t)'
    BY <1>2 DEF Walking
  <2>. QED  BY <1>6, <1>9, <2>1, HintsOfHolder
<1>11. WaitPlaces'
  <2>1. /\ back \in WaitLinks /\ Ends(back, head.blk) /\ ListsApart /\ ListedWait /\ ListsEnd
        /\ Reach(back, Nil) = {}
    BY <1>1, ReachStep DEF WaitTypes, WaitPlaces, ListsEnd
  <2>2. InList' = {} /\ InHands(t)' = InList /\ InHands(t) = {}
    <3>1. InList' = {}
      BY <1>6, <1>7, <2>1 DEF InList
    <3>2. InHands(t)' = InList
      BY <1>2, <1>7 DEF InHands, InList, OfList
    <3>3. InHands(t) = {}
      BY EmptyHands DEF OfList
    <3>. QED  BY <3>1, <3>2, <3>3
  <2>3. \A u \in Callers : u # t => InHands(u)' = InHands(u) /\ HandEnds(u)'
    <3>. SUFFICES ASSUME NEW u \in Callers, u # t PROVE InHands(u)' = InHands(u) /\ HandEnds(u)'
      OBVIOUS
    <3>1. HandEnds(u) /\ pc'[u] = pc[u] /\ item'[u] = item[u]
      BY <1>4, <2>1 DEF ListsEnd, Others
    <3>. QED  BY <1>1, <1>7, <2>1, <3>1, HandsKept
  <2>4. HandEnds(t)'
    BY <1>2, <1>7, <2>1 DEF HandEnds
  <2>5. ListsEnd'
    <3>1. Ends(back', head'.blk)
      BY <1>6 DEF Ends
    <3>. QED  BY <2>3, <2>4, <3>1 DEF ListsEnd
  <2>6. ASSUME t \in Waiters
        PROVE  FlagFits(t)' /\ (IsWaiting(t)' <=> IsWaiting(t))
    <3>1. FlagFits(t)
      BY <1>1, <2>6 DEF WaitPlaces, FlagsFit
    <3>2. CASE label = "compare"
      <4>1. pc[t] = "optimizeCas"
        BY <3>2
      <4>2. FlagFits(t)'
        BY <1>2, <1>7, <3>1, <4>1 DEF FlagFits, Asleep, Spinning, Leaving, OfList
      <4>3. IsWaiting(t)' /\ IsWaiting(t)
        BY <1>2, <3>2, <4>1 DEF IsWaiting, Spinning, OfList
      <4>. QED  BY <4>2, <4>3
    <3>3. CASE label = "out"
      <4>1. pc[t] = "unlock"
        BY <3>3
      <4>. QED  BY <1>2, <3>3, <4>1 DEF FlagFits, IsWaiting, Asleep, Spinning, Leaving, OfList
    <3>. QED  BY <3>2, <3>3
  <2>7. FlagsFit'
    BY <1>1, <1>4, <1>7, <2>6, OthersFit DEF FlagsFit
  <2>8. PICK none : none = {}
    OBVIOUS
  <2>9. /\ InList' \cup InHands(t)' = ((InList \cup InHands(t)) \ none) \cup none
        /\ InList' \cap InHands(t)' = {} /\ none \subseteq InList \cup InHands(t)
    BY <2>2, <2>8
  <2>10. \A x \in Waiters : x \notin none \cup none =>
           ((IsWaiting(x)' /\ flag'[x] # 2) <=> (IsWaiting(x) /\ flag[x] # 2))
    BY <1>1, <1>4, <1>7, <2>6, OthersFit
  <2>11. \A x \in none : ~IsListed(x) /\ IsWaiting(x)' /\ flag'[x] # 2
    BY <2>8
  <2>12. \A x \in none : ~(IsWaiting(x)' /\ flag'[x] # 2)
    BY <2>8
  <2>13. \A u \in Callers : u # t => InHands(u)' = InHands(u)
    BY <2>3
  <2>14. ListsApart' /\ ListedWait'
    BY <2>1, <2>9, <2>10, <2>11, <2>12, <2>13, PlacesMove
  <2>. QED  BY <2>5, <2>7, <2>14 DEF WaitPlaces
<1>12. WaitWakes'
  <2>1. wakes[t] = <<>>
    BY <1>1 DEF WaitWakes
  <2>2. \A x \in Waiters : Owed(x)' <=> Owed(x)
    <3>. SUFFICES ASSUME NEW x \in Waiters PROVE Owed(x)' <=> Owed(x)
      OBVIOUS
    <3>1. CASE x = t
      BY <1>2, <1>7, <3>1 DEF Owed, Asleep
    <3>2. CASE x # t
      BY <1>1, <1>4, <1>7, <3>2, OthersFit
    <3>. QED  BY <3>1, <3>2
  <2>. QED  BY <1>1, <1>2, <1>4, <1>7, <2>1, <2>2, WakesKept
<1>. QED  BY <1>8, <1>9, <1>10, <1>11, <1>12 DEF WaitInv

LEMMA UnlockSteps ==
  ASSUME WaitAssumption,
         WaitInv, NEW t \in Callers, Unlock(t) \/ (t \in Waiters /\ OptimizeUnlock(t))
  PROVE  WaitInv'
<1>1. WaitTypes /\ WaitLock /\ head.all \in BOOLEAN
  BY WordParts DEF WaitInv, WaitTypes
<1>2. CASE Unlock(t)
  <2>1. /\ pc[t] = "unlock" /\ head' = Unlocked(head) /\ ListsUnmoved /\ cur' = cur /\ last' = last
        /\ item' = [item EXCEPT ![t] = head.blk] /\ then' = [then EXCEPT ![t] = "out"]
        /\ pc' = [pc EXCEPT ![t] = IF head.all THEN "wakeList" ELSE "out"]
    BY <1>2 DEF Unlock, WakeEntireList, Goto, links, ListsUnmoved
  <2>2. HoldsLock(t)
    BY <2>1 DEF HoldsLock
  <2>3. CASE head.all
    BY <2>1, <2>2, <2>3, ListEmptied
  <2>4. CASE ~head.all
    BY <2>1, <2>2, <2>4, GiveBack
  <2>. QED  BY <1>1, <2>3, <2>4
<1>3. CASE t \in Waiters /\ OptimizeUnlock(t)
  <2>1. pc[t] = "optimizeCas" /\ ListsUnmoved /\ last' = last
    BY <1>3 DEF OptimizeUnlock, links, ListsUnmoved
  <2>2. HoldsLock(t) /\ Walking(t)
    BY <2>1 DEF HoldsLock, Walking
  <2>3. CASE head = cur[t]
    <3>1. /\ head' = Unlocked(head) /\ cur' = cur
          /\ item' = [item EXCEPT ![t] = head.blk] /\ then' = [then EXCEPT ![t] = "compare"]
          /\ pc' = [pc EXCEPT ![t] = IF head.all THEN "wakeList" ELSE "compare"]
      BY <1>3, <2>3 DEF OptimizeUnlock, WakeEntireList, Goto
    <3>2. CASE head.all
      BY <1>3, <2>1, <2>2, <3>1, <3>2, ListEmptied
    <3>3. CASE ~head.all
      BY <1>3, <2>1, <2>2, <3>1, <3>3, GiveBack
    <3>. QED  BY <1>1, <3>2, <3>3
  <2>4. CASE head # cur[t]
    <3>1. /\ head' = head /\ cur' = [cur EXCEPT ![t] = head] /\ item' = item /\ then' = then
          /\ pc' = [pc EXCEPT ![t] = "optimize"]
      BY <1>3, <2>4 DEF OptimizeUnlock, Goto
    <3>. QED  BY <1>3, <2>1, <2>2, <3>1, CasFails
  <2>. QED  BY <2>3, <2>4
<1>. QED  BY <1>2, <1>3

-----------------------------------------------------------------------------
(* The steps that change the lists.                                        *)
LEMMA PlacesStep ==
  ASSUME WaitAssumption,
         WaitTypes, WaitPlaces, back' \in WaitLinks, NEW t \in Callers, Others(t),
         \A x \in Waiters : (x \notin InList /\ IsListed(x)) =>
            back'[x] = back[x] /\ notify'[x] = notify[x],
         Ends(back', head'.blk), HandEnds(t)', \A x \in Waiters : FlagFits(x)',
         NEW gone \in SUBSET Waiters, NEW come \in SUBSET Waiters,
         InList' \cup InHands(t)' = ((InList \cup InHands(t)) \ gone) \cup come,
         InList' \cap InHands(t)' = {},
         gone \subseteq InList \cup InHands(t),
         \A x \in come : ~IsListed(x) /\ IsWaiting(x)' /\ flag'[x] # 2,
         \A x \in gone : ~(IsWaiting(x)' /\ flag'[x] # 2),
         \A x \in Waiters : x \notin gone \cup come =>
           ((IsWaiting(x)' /\ flag'[x] # 2) <=> (IsWaiting(x) /\ flag[x] # 2))
  PROVE  WaitPlaces'
<1>1. ListsEnd /\ ListsApart /\ ListedWait
  BY DEF WaitPlaces
<1>2. \A u \in Callers : u # t => InHands(u)' = InHands(u) /\ HandEnds(u)'
  <2>1. \A u \in Callers : u # t => pc'[u] = pc[u] /\ item'[u] = item[u]
    BY DEF Others
  <2>. SUFFICES ASSUME NEW u \in Callers, u # t PROVE InHands(u)' = InHands(u) /\ HandEnds(u)'
    OBVIOUS
  <2>2. \A v \in Callers : (v # t /\ pc[v] \in OfList \cup {"wakeHeadFlag"}) =>
            pc'[v] = pc[v] /\ item'[v] = item[v]
    BY <2>1
  <2>3. \A v \in Callers : (v # t /\ pc[v] \notin OfList \cup {"wakeHeadFlag"}) =>
            pc'[v] \notin OfList \cup {"wakeHeadFlag"}
    BY <2>1
  <2>. QED  BY <1>1, <2>2, <2>3, OthersHands
<1>3. ListsEnd'
  BY <1>2 DEF ListsEnd
<1>4. FlagsFit'
  BY DEF FlagsFit
<1>5. ListsApart' /\ ListedWait'
  <2>1. \A u \in Callers : u # t => InHands(u)' = InHands(u)
    BY <1>2
  <2>. QED  BY <1>1, <2>1, PlacesMove
<1>. QED  BY <1>3, <1>4, <1>5 DEF WaitPlaces

(* No block enters or leaves.                                              *)
LEMMA PlacesSame ==
  ASSUME WaitAssumption, WaitTypes, WaitPlaces, NEW t \in Callers, Others(t),
         back' = back, head' = head,
         \A x \in Waiters : x \notin InList => notify'[x] = notify[x],
         InHands(t) = {}, InHands(t)' = {}, HandEnds(t)', \A x \in Waiters : FlagFits(x)',
         \A x \in Waiters : (IsWaiting(x)' /\ flag'[x] # 2) <=> (IsWaiting(x) /\ flag[x] # 2)
  PROVE  WaitPlaces'
<1>1. InList' = InList /\ back' \in WaitLinks /\ Ends(back', head'.blk)
  BY DEF InList, WaitTypes, WaitPlaces, ListsEnd
<1>2. PICK none \in SUBSET Waiters : none = {}
  OBVIOUS
<1>3. /\ InList' \cup InHands(t)' = ((InList \cup InHands(t)) \ none) \cup none
      /\ InList' \cap InHands(t)' = {} /\ none \subseteq InList \cup InHands(t)
  BY <1>1, <1>2
<1>4. \A x \in none : ~IsListed(x) /\ IsWaiting(x)' /\ flag'[x] # 2
  BY <1>2
<1>5. \A x \in none : ~(IsWaiting(x)' /\ flag'[x] # 2)
  BY <1>2
<1>6. \A x \in Waiters : (x \notin InList /\ IsListed(x)) =>
            back'[x] = back[x] /\ notify'[x] = notify[x]
  OBVIOUS
<1>7. \A x \in Waiters : x \notin none \cup none =>
           ((IsWaiting(x)' /\ flag'[x] # 2) <=> (IsWaiting(x) /\ flag[x] # 2))
  OBVIOUS
<1>. QED  BY <1>1, <1>3, <1>4, <1>5, <1>6, <1>7, PlacesStep

LEMMA WalkStep ==
  ASSUME WaitAssumption, WaitInv, NEW t \in Callers, WalkToHint(cur[t].blk),
         head' = head, back' = back, flag' = flag, wakes' = wakes, cur' = cur, then' = then,
         last' = last, NEW label \in {"optimizeCas", "wakeItem"}, pc' = [pc EXCEPT ![t] = label],
         \/ /\ t \in Waiters /\ pc[t] = "optimize" /\ label = "optimizeCas" /\ item' = item
         \/ /\ t \in Wakers /\ pc[t] = "wakeWalk" /\ label = "wakeItem"
            /\ item' = [item EXCEPT ![t] = next'[cur[t].blk]]
  PROVE  WaitInv'
<1>1. WaitTypes /\ WaitHints /\ WaitLock /\ WaitWakes /\ WaitPlaces /\ Ends(back, head.blk)
  BY DEF WaitInv, WaitPlaces, ListsEnd
<1>2. Walking(t)
  BY DEF Walking
<1>3. /\ notify' \in WaitLinks /\ next' \in WaitLinks /\ notify'[head.blk] = Nil
      /\ Hinted(back, notify', next', head.blk, cur[t].blk)
      /\ Walkable(back, notify', next', head.blk, cur[t].blk)
      /\ next'[cur[t].blk] \in Reach(back, cur[t].blk)
      /\ \A x \in Waiters : x \notin Reach(back, head.blk) => notify'[x] = notify[x]
  BY <1>1, <1>2, WalkEffect
<1>4. cur[t].blk \in Waiters /\ head.blk \in Waiters /\ HoldsLock(t)
  BY <1>2, WalkedNotEmpty
<1>5. pc'[t] = label
  BY <1>1 DEF WaitTypes
<1>6. item' \in [Callers -> Blocks]
  BY <1>1, <1>3, <1>4 DEF WaitTypes, WaitLinks
<1>7. Others(t) /\ OwnLabel(t)
  <2>1. Others(t)
    BY <1>1 DEF WaitTypes, Others
  <2>2. OwnLabel(t)
    BY <1>1, <1>5, WaitersAndWakers DEF WaitTypes, OwnLabel, WaiterLabels, WakerLabels
  <2>. QED  BY <2>1, <2>2
<1>8. WaitTypes'
  BY <1>1, <1>3, <1>6, <1>7, LabelTypes DEF WaitTypes
<1>9. HoldsLock(t)' /\ (label = "wakeItem" => ~last[t])
  BY <1>1, <1>5, WaitersAndWakers DEF HoldsLock, WaitLock
<1>10. WaitLock'
  <2>1. LockMove(t) /\ WordFits' /\ LastFits(t)'
    BY <1>1, <1>4, <1>5, <1>9 DEF LockMove, WordFits, LastFits, WaitLock
  <2>. QED  BY <1>1, <1>7, <2>1, OthersLock
<1>11. WaitHints'
  <2>1. Walkable(back', notify', next', head'.blk, cur'[t].blk)
    BY <1>3
  <2>2. pc'[t] = "wakeItem" => /\ Hinted(back', notify', next', head'.blk, cur'[t].blk)
                               /\ item'[t] \in Reach(back', cur'[t].blk)
    BY <1>1, <1>3, <1>5 DEF WaitTypes
  <2>3. /\ notify'[head'.blk] = Nil
        /\ \E h \in Waiters : Hinted(back', notify', next', head'.blk, h)
    BY <1>3, <1>4
  <2>. QED  BY <1>9, <1>10, <2>1, <2>2, <2>3, HintsOfHolder
<1>12. \A x \in Waiters : /\ FlagFits(x)' /\ (Owed(x)' <=> Owed(x))
                          /\ (IsWaiting(x)' /\ flag'[x] # 2) <=> (IsWaiting(x) /\ flag[x] # 2)
  <2>. SUFFICES ASSUME NEW x \in Waiters
                PROVE  /\ FlagFits(x)' /\ (Owed(x)' <=> Owed(x))
                       /\ (IsWaiting(x)' /\ flag'[x] # 2) <=> (IsWaiting(x) /\ flag[x] # 2)
    OBVIOUS
  <2>1. CASE x = t
    <3>1. pc[x] \in Spinning /\ pc'[x] \in Spinning
      BY <1>5, <2>1, WaitersAndWakers DEF Spinning
    <3>. QED  BY <3>1, StillWaiting
  <2>2. CASE x # t
    BY <1>1, <1>7, <2>2, OthersFit
  <2>. QED  BY <2>1, <2>2
<1>13. WaitPlaces'
  <2>1. InHands(t) = {} /\ InHands(t)' = {} /\ HandEnds(t)'
    BY <1>5, EmptyHands DEF OfList
  <2>2. \A x \in Waiters : x \notin InList => notify'[x] = notify[x]
    BY <1>3 DEF InList
  <2>. QED  BY <1>1, <1>7, <1>12, <2>1, <2>2, PlacesSame
<1>14. WaitWakes'
  <2>1. wakes[t] # <<>> => pc'[t] \in Releasing
    BY <1>1, <1>5 DEF WaitWakes, Releasing
  <2>. QED  BY <1>1, <1>5, <1>7, <1>12, <2>1, WakesKept
<1>. QED  BY <1>8, <1>10, <1>11, <1>13, <1>14 DEF WaitInv

LEMMA WalkSteps ==
  ASSUME WaitAssumption, WaitInv, NEW t \in Callers,
         (t \in Waiters /\ OptimizeWalk(t)) \/ (t \in Wakers /\ WakeWalk(t))
  PROVE  WaitInv'
<1>1. CASE t \in Waiters /\ OptimizeWalk(t)
  <2>1. /\ WalkToHint(cur[t].blk) /\ head' = head /\ back' = back /\ flag' = flag
        /\ wakes' = wakes /\ cur' = cur /\ then' = then /\ last' = last /\ item' = item
        /\ pc[t] = "optimize" /\ pc' = [pc EXCEPT ![t] = "optimizeCas"]
    BY <1>1 DEF OptimizeWalk, Goto, local
  <2>. QED  BY <1>1, <2>1, WalkStep
<1>2. CASE t \in Wakers /\ WakeWalk(t)
  <2>1. /\ WalkToHint(cur[t].blk) /\ head' = head /\ back' = back /\ flag' = flag
        /\ wakes' = wakes /\ cur' = cur /\ then' = then /\ last' = last
        /\ item' = [item EXCEPT ![t] = next'[cur[t].blk]]
        /\ pc[t] = "wakeWalk" /\ pc' = [pc EXCEPT ![t] = "wakeItem"]
    BY <1>2 DEF WakeWalk, Goto
  <2>. QED  BY <1>2, <2>1, WalkStep
<1>. QED  BY <1>1, <1>2

LEMMA PushStep ==
  ASSUME WaitAssumption, WaitInv, NEW w \in Waiters, Push(w)
  PROVE  WaitInv'
<1>. DEFINE b == head.blk
            behind == b # Nil
            locks == behind /\ ~head.lock
<1>1. WaitTypes /\ WaitHints /\ WaitLock /\ WaitWakes /\ WaitPlaces /\ Ends(back, b)
  BY DEF WaitInv, WaitPlaces, ListsEnd
<1>2. w \in Callers /\ w \in Blocks /\ w # Nil /\ w \notin Wakers
  BY WaitersAndWakers
<1>3. PICK label : label = IF locks THEN "optimize" ELSE "compare"
  OBVIOUS
<1>4. /\ pc[w] = "out" /\ pc' = [pc EXCEPT ![w] = label]
      /\ back' = [back EXCEPT ![w] = b]
      /\ next' = [next EXCEPT ![w] = IF behind THEN Nil ELSE w]
      /\ notify' = [notify EXCEPT ![w] = Nil] /\ flag' = [flag EXCEPT ![w] = 1]
      /\ head' = [head EXCEPT !.blk = w, !.lock = @ \/ behind]
      /\ cur' = [cur EXCEPT ![w] = head']
      /\ item' = item /\ wakes' = wakes /\ then' = then /\ last' = last
  BY <1>3 DEF Push, Goto
<1>5. head \in Words /\ b \in Blocks /\ head.lock \in BOOLEAN /\ WordFits
  BY <1>1, WordParts DEF WaitTypes, WaitLock, WordFits
<1>6. /\ head' \in Words /\ head'.blk = w /\ head'.all = head.all
      /\ head'.lock <=> (head.lock \/ behind)
  BY <1>2, <1>4, <1>5 DEF Words
<1>. HIDE DEF b, behind, locks
<1>7. /\ pc'[w] = label /\ cur'[w] = head' /\ label \in {"optimize", "compare"}
      /\ pc' \in [Callers -> WaiterLabels \cup WakerLabels] /\ cur' \in [Callers -> Words]
  BY <1>1, <1>2, <1>3, <1>4, <1>6 DEF WaitTypes, WaiterLabels
<1>8. Others(w) /\ OwnLabel(w)
  <2>1. Others(w)
    BY <1>1, <1>2, <1>4 DEF WaitTypes, Others
  <2>2. OwnLabel(w)
    BY <1>2, <1>7 DEF OwnLabel, WaiterLabels
  <2>. QED  BY <2>1, <2>2
<1>9. /\ back' \in WaitLinks /\ back'[w] = b /\ notify' \in WaitLinks /\ notify'[w] = Nil
      /\ next' \in WaitLinks /\ next'[w] = IF behind THEN Nil ELSE w
      /\ flag' \in [Waiters -> {0, 1, 2, 4}] /\ flag'[w] = 1
      /\ \A x \in Waiters : x # w => /\ back'[x] = back[x] /\ notify'[x] = notify[x]
                                     /\ next'[x] = next[x] /\ flag'[x] = flag[x]
  BY <1>1, <1>2, <1>4, <1>5, WaitersAndWakers DEF WaitTypes, WaitLinks
<1>10. WaitTypes'
  <2>1. /\ pc' \in [Callers -> WaiterLabels \cup WakerLabels]
        /\ \A x \in Waiters : pc'[x] \in WaiterLabels
        /\ \A k \in Wakers : pc'[k] \in WakerLabels /\ then'[k] = "out"
    BY <1>1, <1>2, <1>8, LabelTypes
  <2>. QED  BY <1>1, <1>4, <1>6, <1>7, <1>9, <2>1 DEF WaitTypes
<1>11. WaitLock'
  <2>1. WordFits'
    BY <1>2, <1>5, <1>6 DEF WordFits
  <2>2. LastFits(w)'
    BY <1>7 DEF LastFits
  <2>3. ~HoldsLock(w)
    BY <1>4 DEF HoldsLock
  <2>4. CASE locks
    <3>1. ~head.lock /\ head'.lock /\ HoldsLock(w)'
      BY <1>3, <1>6, <1>7, <2>4 DEF HoldsLock, locks
    <3>. QED  BY <1>1, <1>2, <1>8, <2>1, <2>2, <3>1, OthersLock DEF LockMove
  <2>5. CASE ~locks
    <3>1. ~HoldsLock(w)' /\ (head'.lock <=> head.lock)
      BY <1>3, <1>6, <1>7, <2>5 DEF HoldsLock, locks
    <3>. QED  BY <1>1, <1>2, <1>8, <2>1, <2>2, <2>3, <3>1, OthersLock DEF LockMove
  <2>. QED  BY <2>4, <2>5
<1>12. ~IsListed(w) /\ ~IsWaiting(w) /\ ~Owed(w)
  <2>1. ~IsWaiting(w) /\ ~Owed(w)
    BY <1>4 DEF IsWaiting, Owed, Asleep, Spinning, Leaving, OfList
  <2>. QED  BY <1>1, <2>1 DEF WaitPlaces, ListedWait
<1>13. w \notin Reach(back, b)
  BY <1>12 DEF IsListed, InList, b
<1>14. Reach(back', w) = {w} \cup Reach(back, b) /\ Ends(back', w)
  BY <1>1, <1>5, <1>9, <1>13, ReachPush DEF WaitTypes
<1>15. WaitHints'
  <2>1. CASE b = Nil
    <3>1. ~head'.lock /\ ~behind
      BY <1>5, <1>6, <2>1, WordParts DEF WordFits, b, behind
    <3>2. ~Walking(w)'
      BY <1>3, <1>7, <3>1 DEF Walking, locks
    <3>3. Reach(back', w) = {w} /\ back'[w] = Nil /\ next'[w] = w
      BY <1>1, <1>9, <1>14, <2>1, <3>1, ReachStep DEF WaitTypes
    <3>4. Hinted(back', notify', next', w, w)
      BY <3>3 DEF Hinted
    <3>5. /\ notify'[head'.blk] = Nil
          /\ \E h \in Waiters : Hinted(back', notify', next', head'.blk, h)
      BY <1>6, <1>9, <3>4
    <3>. QED  BY <1>2, <1>11, <3>1, <3>2, <3>5, HintsOfHolder
  <2>2. CASE b # Nil
    <3>1. b \in Waiters /\ next'[w] = Nil /\ back \in WaitLinks /\ notify \in WaitLinks /\ next \in WaitLinks
      BY <1>1, <1>5, <1>9, <2>2, WaitersAndWakers DEF WaitTypes, behind
    <3>2. /\ \A h \in Waiters : Hinted(back, notify, next, b, h) => Hinted(back', notify', next', w, h)
          /\ \A c \in Waiters : Walkable(back, notify, next, b, c) => Walkable(back', notify', next', w, c)
          /\ \A c \in Reach(back, b) : Reach(back', c) = Reach(back, c)
      <4>1. Pushed(back, notify, next, b, w, back', notify', next')
        BY <1>9, <1>13, <3>1 DEF Pushed
      <4>2. \A h \in Waiters : Hinted(back, notify, next, b, h) => Hinted(back', notify', next', w, h)
        BY <1>9, <3>1, <4>1, HintPush
      <4>3. \A c \in Waiters : Walkable(back, notify, next, b, c) => Walkable(back', notify', next', w, c)
        BY <1>9, <3>1, <4>1, HintPush
      <4>4. \A c \in Reach(back, b) : Reach(back', c) = Reach(back, c)
        BY <1>5, <1>9, <1>13, <3>1, ReachPush
      <4>. QED  BY <4>2, <4>3, <4>4
    <3>3. /\ notify'[head'.blk] = Nil
          /\ \E h \in Waiters : Hinted(back', notify', next', head'.blk, h)
      BY <1>1, <1>6, <1>9, <2>2, <3>2 DEF WaitHints, b
    <3>4. Walkable(back', notify', next', w, w)
      <4>1. w \in Reach(back', w)
        BY <1>14
      <4>. QED  BY <1>9, <4>1 DEF Walkable
    <3>5. ASSUME NEW u \in Callers, Walking(u)', u # w
          PROVE  /\ Walkable(back, notify, next, b, cur[u].blk) /\ cur'[u] = cur[u]
                 /\ cur[u].blk \in Waiters /\ cur[u].blk \in Reach(back, b)
                 /\ pc'[u] = pc[u] /\ item'[u] = item[u]
      <4>1. Walking(u) /\ cur'[u] = cur[u] /\ pc'[u] = pc[u] /\ item'[u] = item[u]
        BY <1>2, <1>8, <3>5, OthersStay DEF Others
      <4>2. Walkable(back, notify, next, b, cur[u].blk)
        BY <1>1, <4>1 DEF WaitHints, b
      <4>. QED  BY <1>5, <3>1, <4>1, <4>2, ReachClosed DEF Walkable
    <3>6. ASSUME NEW u \in Callers, Walking(u)'
          PROVE  Walkable(back', notify', next', head'.blk, cur'[u].blk)
      <4>1. CASE u = w
        BY <1>6, <1>7, <3>4, <4>1
      <4>2. CASE u # w
        BY <1>6, <3>2, <3>5, <3>6, <4>2
      <4>. QED  BY <4>1, <4>2
    <3>7. ASSUME NEW u \in Callers, pc'[u] = "wakeItem", item'[u] # Nil
          PROVE  /\ Hinted(back', notify', next', head'.blk, cur'[u].blk)
                 /\ item'[u] \in Reach(back', cur'[u].blk)
      <4>1. Walking(u)' /\ u # w
        BY <1>7, <3>7 DEF Walking
      <4>2. /\ Hinted(back, notify, next, b, cur[u].blk)
            /\ item[u] \in Reach(back, cur[u].blk)
        BY <1>1, <3>5, <3>7, <4>1 DEF WaitHints, b
      <4>. QED  BY <1>6, <3>2, <3>5, <4>1, <4>2
    <3>. QED  BY <3>3, <3>6, <3>7 DEF WaitHints
  <2>. QED  BY <2>1, <2>2
<1>16. IsWaiting(w)' /\ flag'[w] # 2 /\ FlagFits(w)' /\ ~Owed(w)'
  BY <1>7, <1>9 DEF IsWaiting, FlagFits, Owed, Asleep, Spinning, Leaving, OfList
<1>17. WaitPlaces'
  <2>1. PICK none \in SUBSET Waiters : none = {}
    OBVIOUS
  <2>2. PICK come \in SUBSET Waiters : come = {w}
    OBVIOUS
  <2>3. InList' = {w} \cup InList /\ InHands(w) = {} /\ InHands(w)' = {} /\ HandEnds(w)'
    <3>1. InList' = {w} \cup InList
      BY <1>6, <1>14 DEF InList, b
    <3>2. pc[w] \notin OfList \cup {"wakeHeadFlag"} /\ pc'[w] \notin OfList \cup {"wakeHeadFlag"}
      BY <1>4, <1>7 DEF OfList
    <3>. QED  BY <1>2, <3>1, <3>2, EmptyHands
  <2>4. \A x \in Waiters : (x \notin InList /\ IsListed(x)) =>
            back'[x] = back[x] /\ notify'[x] = notify[x]
    BY <1>9, <1>12
  <2>5. \A x \in Waiters : FlagFits(x)'
    BY <1>1, <1>2, <1>8, <1>9, <1>16, OthersFit
  <2>6. /\ InList' \cup InHands(w)' = ((InList \cup InHands(w)) \ none) \cup come
        /\ InList' \cap InHands(w)' = {} /\ none \subseteq InList \cup InHands(w)
    BY <2>1, <2>2, <2>3
  <2>7. \A x \in come : ~IsListed(x) /\ IsWaiting(x)' /\ flag'[x] # 2
    BY <1>12, <1>16, <2>2
  <2>8. \A x \in none : ~(IsWaiting(x)' /\ flag'[x] # 2)
    BY <2>1
  <2>9. \A x \in Waiters : x \notin none \cup come =>
           ((IsWaiting(x)' /\ flag'[x] # 2) <=> (IsWaiting(x) /\ flag[x] # 2))
    BY <1>1, <1>2, <1>8, <1>9, <2>2, OthersFit
  <2>10. Ends(back', head'.blk)
    BY <1>6, <1>14
  <2>. QED  BY <1>1, <1>2, <1>8, <1>9, <2>3, <2>4, <2>5, <2>6, <2>7, <2>8, <2>9, <2>10, PlacesStep
<1>18. WaitWakes'
  <2>1. wakes[w] = <<>> /\ wakes'[w] = wakes[w]
    BY <1>1, <1>2, <1>4 DEF WaitWakes
  <2>2. \A x \in Waiters : Owed(x)' <=> Owed(x)
    BY <1>1, <1>2, <1>8, <1>9, <1>12, <1>16, OthersFit
  <2>3. pc'[w] # "releaseOfList"
    BY <1>7
  <2>. QED  BY <1>1, <1>2, <1>8, <2>1, <2>2, <2>3, WakesKept
<1>. QED  BY <1>10, <1>11, <1>15, <1>17, <1>18 DEF WaitInv

(* The holder of the lock is done with the list, and says how it left it.  *)
LEMMA HolderLeaves ==
  ASSUME WaitInv, NEW t \in Callers, Others(t), HoldsLock(t), ~Walking(t)', LastFits(t)', WordFits',
         \/ HoldsLock(t)' /\ head'.lock /\ head.lock
         \/ ~HoldsLock(t)' /\ ~head'.lock,
         head'.blk # Nil => /\ notify'[head'.blk] = Nil
                            /\ \E h \in Waiters : Hinted(back', notify', next', head'.blk, h)
  PROVE  WaitLock' /\ WaitHints'
<1>1. WaitLock'
  <2>1. LockMove(t)
    BY DEF LockMove
  <2>. QED  BY <2>1, OthersLock DEF WaitInv
<1>. QED  BY <1>1, HintsOfHolder

LEMMA RemoveHeadStep ==
  ASSUME WaitAssumption, WaitInv, NEW w \in Waiters, RemoveHead(w)
  PROVE  WaitInv'
<1>1. WaitTypes /\ WaitHints /\ WaitLock /\ WaitWakes /\ WaitPlaces /\ Ends(back, head.blk)
  BY DEF WaitInv, WaitPlaces, ListsEnd
<1>2. w \in Callers /\ w \in Blocks /\ w # Nil /\ w \notin Wakers
  BY WaitersAndWakers
<1>3. /\ pc[w] = "removeWalk" /\ cur[w].blk = w
      /\ back' = back /\ flag' = flag /\ item' = item /\ wakes' = wakes /\ then' = then /\ last' = last
  BY DEF RemoveHead
<1>4. Walking(w) /\ HoldsLock(w) /\ head.lock
  BY <1>2, <1>3, WalkedNotEmpty DEF Walking
<1>5. CASE head # cur[w]
  <2>1. /\ head' = head /\ cur' = [cur EXCEPT ![w] = head] /\ ListsUnmoved
        /\ pc' = [pc EXCEPT ![w] = "removeWalk"]
    <3>1. head' = head /\ cur' = [cur EXCEPT ![w] = head] /\ notify' = notify /\ next' = next /\ pc' = pc
      BY <1>5 DEF RemoveHead
    <3>2. pc = [pc EXCEPT ![w] = "removeWalk"]
      BY <1>1, <1>3 DEF WaitTypes
    <3>. QED  BY <1>3, <3>1, <3>2 DEF ListsUnmoved
  <2>. QED  BY <1>2, <1>3, <1>4, <2>1, CasFails
<1>6. CASE head = cur[w]
  <2>. DEFINE older == back[w]
  <2>1. PICK label : label = IF older = Nil THEN "out" ELSE "unlock"
    OBVIOUS
  <2>2. head.blk = w /\ back \in WaitLinks /\ older \in Blocks /\ head \in Words
    BY <1>1, <1>2, <1>3, <1>6 DEF WaitTypes, WaitLinks
  <2>3. cur' = cur /\ pc' = [pc EXCEPT ![w] = label]
    BY <1>6, <2>1 DEF RemoveHead, Goto
  <2>4. pc'[w] = label /\ label \in {"out", "unlock"}
    BY <1>1, <1>2, <2>1, <2>3 DEF WaitTypes
  <2>5. Others(w) /\ OwnLabel(w)
    <3>1. Others(w)
      BY <1>1, <1>2, <1>3, <2>3 DEF WaitTypes, Others
    <3>2. OwnLabel(w)
      BY <1>1, <1>2, <2>3, <2>4 DEF WaitTypes, OwnLabel, WaiterLabels
    <3>. QED  BY <3>1, <3>2
  <2>6. older = Nil => head' = Empty /\ notify' = notify /\ next' = next
    BY <1>6 DEF RemoveHead
  <2>7. older # Nil => head' = [head EXCEPT !.blk = older]
    BY <1>6 DEF RemoveHead
  <2>8. /\ notify' \in WaitLinks /\ next' \in WaitLinks
        /\ older # Nil => notify'[older] = Nil /\ Hinted(back, notify', next', older, older)
        /\ \A x \in Waiters : x \notin Reach(back, head.blk) => notify'[x] = notify[x]
    <3>1. CASE older = Nil
      BY <1>1, <2>6, <3>1 DEF WaitTypes
    <3>2. CASE older # Nil
      <4>1. /\ notify' = [Backlinked(back, From(back[w])) EXCEPT ![back[w]] = notify[w]]
            /\ next' = [next EXCEPT ![back[w]] = CHOOSE x \in From(back[w]) : back[x] = Nil]
        BY <1>6, <3>2 DEF RemoveHead
      <4>. QED  BY <1>1, <2>2, <3>2, <4>1, RemoveHeadEffect
    <3>. QED  BY <3>1, <3>2
  <2>9. /\ head' \in Words /\ head'.blk = older /\ WordFits'
        /\ older = Nil => ~head'.lock
        /\ older # Nil => head'.lock
    <3>1. CASE older = Nil
      BY <2>6, <3>1, WordParts DEF WordFits
    <3>2. CASE older # Nil
      <4>1. head'.blk = older /\ head'.lock
        BY <1>4, <2>2, <2>7, <3>2 DEF Words
      <4>2. head' \in Words
        BY <2>2, <2>7, <3>2, WordParts
      <4>. QED  BY <3>2, <4>1, <4>2 DEF WordFits
    <3>. QED  BY <3>1, <3>2
  <2>. HIDE DEF older
  <2>10. WaitTypes'
    <3>1. /\ pc' \in [Callers -> WaiterLabels \cup WakerLabels]
          /\ \A x \in Waiters : pc'[x] \in WaiterLabels
          /\ \A k \in Wakers : pc'[k] \in WakerLabels /\ then'[k] = "out"
      BY <1>1, <1>2, <2>5, LabelTypes
    <3>. QED  BY <1>1, <1>3, <2>3, <2>8, <2>9, <3>1 DEF WaitTypes
  <2>11. WaitLock' /\ WaitHints'
    <3>1. ~Walking(w)' /\ LastFits(w)'
      BY <2>4 DEF Walking, LastFits
    <3>2. \/ HoldsLock(w)' /\ head'.lock /\ head.lock
          \/ ~HoldsLock(w)' /\ ~head'.lock
      BY <1>4, <2>1, <2>4, <2>9 DEF HoldsLock
    <3>3. head'.blk # Nil => /\ notify'[head'.blk] = Nil
                             /\ \E h \in Waiters : Hinted(back', notify', next', head'.blk, h)
      BY <1>3, <2>2, <2>8, <2>9, WaitersAndWakers
    <3>. QED  BY <1>2, <1>4, <2>5, <2>9, <3>1, <3>2, <3>3, HolderLeaves
  <2>12. ~IsWaiting(w)' /\ ~Owed(w)' /\ FlagFits(w)' /\ ~Owed(w)
    BY <1>3, <2>4 DEF IsWaiting, Owed, FlagFits, Asleep, Spinning, Leaving, OfList
  <2>13. WaitPlaces'
    <3>1. PICK none \in SUBSET Waiters : none = {}
      OBVIOUS
    <3>2. PICK gone \in SUBSET Waiters : gone = {w}
      OBVIOUS
    <3>3. /\ Reach(back, w) = {w} \cup Reach(back, older) /\ w \notin Reach(back, older)
          /\ Ends(back, older)
      <4>1. Reach(back, w) = {w} \cup Reach(back, back[w]) /\ w \in Reach(back, w)
        BY <2>2, ReachStep
      <4>2. w \notin Reach(back, back[w])
        BY <1>1, <1>2, <2>2, <4>1, EndsFrom
      <4>3. Ends(back, older)
        <5>1. CASE older = Nil
          BY <5>1 DEF Ends
        <5>2. CASE older # Nil
          <6>1. older \in Reach(back, older)
            BY <2>2, <5>2, ReachClosed, WaitersAndWakers
          <6>2. older \in Reach(back, w)
            BY <4>1, <6>1 DEF older
          <6>. QED  BY <1>1, <1>2, <2>2, <6>2, EndsFrom
        <5>. QED  BY <5>1, <5>2
      <4>. QED  BY <4>1, <4>2, <4>3 DEF older
    <3>4. InList' = InList \ {w} /\ w \in InList
      BY <1>3, <2>2, <2>9, <3>3 DEF InList
    <3>5. InHands(w) = {} /\ InHands(w)' = {} /\ HandEnds(w)'
      <4>1. pc[w] \notin OfList \cup {"wakeHeadFlag"} /\ pc'[w] \notin OfList \cup {"wakeHeadFlag"}
        BY <1>3, <2>4 DEF OfList
      <4>. QED  BY <1>2, <4>1, EmptyHands
    <3>6. \A x \in Waiters : (x \notin InList /\ IsListed(x)) =>
              back'[x] = back[x] /\ notify'[x] = notify[x]
      BY <1>3, <2>8 DEF InList
    <3>7. \A x \in Waiters : FlagFits(x)'
      BY <1>1, <1>2, <1>3, <2>5, <2>12, OthersFit
    <3>8. /\ InList' \cup InHands(w)' = ((InList \cup InHands(w)) \ gone) \cup none
          /\ InList' \cap InHands(w)' = {} /\ gone \subseteq InList \cup InHands(w)
      BY <3>1, <3>2, <3>4, <3>5
    <3>9. \A x \in none : ~IsListed(x) /\ IsWaiting(x)' /\ flag'[x] # 2
      BY <3>1
    <3>10. \A x \in gone : ~(IsWaiting(x)' /\ flag'[x] # 2)
      BY <2>12, <3>2
    <3>11. \A x \in Waiters : x \notin gone \cup none =>
             ((IsWaiting(x)' /\ flag'[x] # 2) <=> (IsWaiting(x) /\ flag[x] # 2))
      BY <1>1, <1>2, <1>3, <2>5, <3>2, OthersFit
    <3>12. Ends(back', head'.blk) /\ back' \in WaitLinks
      BY <1>3, <2>2, <2>9, <3>3
    <3>. QED  BY <1>1, <1>2, <2>5, <3>5, <3>6, <3>7, <3>8, <3>9, <3>10, <3>11, <3>12, PlacesStep
  <2>14. WaitWakes'
    <3>1. wakes[w] = <<>> /\ wakes'[w] = wakes[w]
      BY <1>1, <1>2, <1>3 DEF WaitWakes
    <3>2. \A x \in Waiters : Owed(x)' <=> Owed(x)
      BY <1>1, <1>2, <1>3, <2>5, <2>12, OthersFit
    <3>3. pc'[w] # "releaseOfList"
      BY <2>4
    <3>. QED  BY <1>1, <1>2, <2>5, <3>1, <3>2, <3>3, WakesKept
  <2>. QED  BY <2>10, <2>11, <2>13, <2>14 DEF WaitInv
<1>. QED  BY <1>5, <1>6

LEMMA RemoveBehindStep ==
  ASSUME WaitAssumption, WaitInv, NEW w \in Waiters, RemoveBehind(w)
  PROVE  WaitInv'
<1>. DEFINE found == w \in Reach(back, cur[w].blk)
<1>1. WaitTypes /\ WaitHints /\ WaitLock /\ WaitWakes /\ WaitPlaces /\ Ends(back, head.blk)
  BY DEF WaitInv, WaitPlaces, ListsEnd
<1>2. w \in Callers /\ w \in Blocks /\ w # Nil /\ w \notin Wakers
  BY WaitersAndWakers
<1>3. /\ pc[w] = "removeWalk" /\ head' = head /\ cur' = cur /\ item' = item /\ wakes' = wakes
      /\ then' = then /\ last' = last
  BY DEF RemoveBehind, local
<1>4. Walking(w) /\ HoldsLock(w) /\ head.lock /\ cur[w].blk \in Waiters
  BY <1>2, <1>3, WalkedNotEmpty DEF Walking
<1>5. /\ notify' \in WaitLinks /\ next' \in WaitLinks /\ back' \in WaitLinks
      /\ notify'[head.blk] = Nil /\ Ends(back', head.blk)
      /\ Hinted(back', notify', next', head.blk, cur[w].blk)
      /\ \A x \in Waiters : x \notin Reach(back, head.blk) => back'[x] = back[x]
      /\ \A x \in Waiters : x \notin Reach(back, head.blk) => notify'[x] = notify[x]
      /\ found => /\ w \in Reach(back, head.blk)
                  /\ Reach(back', head.blk) = Reach(back, head.blk) \ {w}
      /\ ~found => back' = back
  BY <1>1, <1>3, RemoveBehindEffect
<1>6. /\ found => flag' = flag
      /\ ~found => flag' = [flag EXCEPT ![w] = 0]
  <2>1. found <=> w \in From(cur[w].blk)
    BY FromIs
  <2>. QED  BY <2>1 DEF RemoveBehind
<1>7. PICK label : label = IF found \/ flag[w] = 2 THEN "unlock" ELSE "keyedLocked"
  OBVIOUS
<1>8. pc' = [pc EXCEPT ![w] = label]
  <2>1. found <=> w \in From(cur[w].blk)
    BY FromIs
  <2>2. CASE found
    <3>1. pc' = [pc EXCEPT ![w] = "unlock"]
      BY <2>1, <2>2 DEF RemoveBehind, Goto
    <3>. QED  BY <1>7, <2>2, <3>1
  <2>3. CASE ~found
    <3>1. pc' = [pc EXCEPT ![w] = IF flag[w] = 2 THEN "unlock" ELSE "keyedLocked"]
      BY <2>1, <2>3 DEF RemoveBehind, Goto
    <3>. QED  BY <1>7, <2>3, <3>1
  <2>. QED  BY <2>2, <2>3
<1>. HIDE DEF found
<1>9. pc'[w] = label /\ label \in {"unlock", "keyedLocked"}
  BY <1>1, <1>2, <1>7, <1>8 DEF WaitTypes
<1>10. /\ flag' \in [Waiters -> {0, 1, 2, 4}] /\ \A x \in Waiters : x # w => flag'[x] = flag[x]
       /\ found => flag'[w] = flag[w]
       /\ ~found => flag'[w] = 0
  BY <1>1, <1>6 DEF WaitTypes
<1>11. Others(w) /\ OwnLabel(w)
  <2>1. Others(w)
    BY <1>1, <1>2, <1>3, <1>8 DEF WaitTypes, Others
  <2>2. OwnLabel(w)
    BY <1>1, <1>2, <1>8, <1>9 DEF WaitTypes, OwnLabel, WaiterLabels
  <2>. QED  BY <2>1, <2>2
<1>12. WaitTypes'
  <2>1. /\ pc' \in [Callers -> WaiterLabels \cup WakerLabels]
        /\ \A x \in Waiters : pc'[x] \in WaiterLabels
        /\ \A k \in Wakers : pc'[k] \in WakerLabels /\ then'[k] = "out"
    BY <1>1, <1>2, <1>11, LabelTypes
  <2>. QED  BY <1>1, <1>3, <1>5, <1>10, <2>1 DEF WaitTypes
<1>13. WaitLock' /\ WaitHints'
  <2>1. ~Walking(w)' /\ LastFits(w)'
    BY <1>9 DEF Walking, LastFits
  <2>2. HoldsLock(w)' /\ head'.lock /\ head.lock
    BY <1>3, <1>4, <1>9 DEF HoldsLock
  <2>3. /\ notify'[head'.blk] = Nil
        /\ \E h \in Waiters : Hinted(back', notify', next', head'.blk, h)
    BY <1>3, <1>4, <1>5
  <2>4. WordFits'
    BY <1>1, <1>3 DEF WaitLock, WordFits
  <2>. QED  BY <1>2, <1>4, <1>11, <2>1, <2>2, <2>3, <2>4, HolderLeaves
<1>14. FlagFits(w)' /\ ~Owed(w)' /\ ~Owed(w)
  BY <1>3, <1>7, <1>9, <1>10 DEF FlagFits, Owed, Asleep, Spinning, Leaving, OfList
<1>15. found => ~IsWaiting(w)'
  BY <1>7, <1>9 DEF IsWaiting, Asleep, Spinning, Leaving, OfList
<1>16. ~found => ((IsWaiting(w)' /\ flag'[w] # 2) <=> (IsWaiting(w) /\ flag[w] # 2))
  BY <1>3, <1>7, <1>9, <1>10 DEF IsWaiting, Asleep, Spinning, Leaving, OfList
<1>17. WaitPlaces'
  <2>1. PICK none \in SUBSET Waiters : none = {}
    OBVIOUS
  <2>2. PICK gone \in SUBSET Waiters : gone = IF found THEN {w} ELSE {}
    OBVIOUS
  <2>3. InList' = InList \ gone /\ gone \subseteq InList
    BY <1>3, <1>5, <2>2 DEF InList
  <2>4. InHands(w) = {} /\ InHands(w)' = {} /\ HandEnds(w)'
    <3>1. pc[w] \notin OfList \cup {"wakeHeadFlag"} /\ pc'[w] \notin OfList \cup {"wakeHeadFlag"}
      BY <1>3, <1>9 DEF OfList
    <3>. QED  BY <1>2, <3>1, EmptyHands
  <2>5. \A x \in Waiters : (x \notin InList /\ IsListed(x)) =>
            back'[x] = back[x] /\ notify'[x] = notify[x]
    BY <1>5 DEF InList
  <2>6. \A x \in Waiters : FlagFits(x)'
    BY <1>1, <1>2, <1>10, <1>11, <1>14, OthersFit
  <2>7. /\ InList' \cup InHands(w)' = ((InList \cup InHands(w)) \ gone) \cup none
        /\ InList' \cap InHands(w)' = {} /\ gone \subseteq InList \cup InHands(w)
    BY <2>1, <2>3, <2>4
  <2>8. \A x \in none : ~IsListed(x) /\ IsWaiting(x)' /\ flag'[x] # 2
    BY <2>1
  <2>9. \A x \in gone : ~(IsWaiting(x)' /\ flag'[x] # 2)
    BY <1>15, <2>2
  <2>10. \A x \in Waiters : x \notin gone \cup none =>
           ((IsWaiting(x)' /\ flag'[x] # 2) <=> (IsWaiting(x) /\ flag[x] # 2))
    <3>. SUFFICES ASSUME NEW x \in Waiters, x \notin gone
                  PROVE  (IsWaiting(x)' /\ flag'[x] # 2) <=> (IsWaiting(x) /\ flag[x] # 2)
      OBVIOUS
    <3>1. CASE x = w
      BY <1>16, <2>2, <3>1
    <3>2. CASE x # w
      BY <1>1, <1>2, <1>10, <1>11, <3>2, OthersFit
    <3>. QED  BY <3>1, <3>2
  <2>11. Ends(back', head'.blk)
    BY <1>3, <1>5
  <2>. QED  BY <1>1, <1>2, <1>5, <1>11, <2>4, <2>5, <2>6, <2>7, <2>8, <2>9, <2>10, <2>11, PlacesStep
<1>18. WaitWakes'
  <2>1. wakes[w] = <<>> /\ wakes'[w] = wakes[w]
    BY <1>1, <1>2, <1>3 DEF WaitWakes
  <2>2. \A x \in Waiters : Owed(x)' <=> Owed(x)
    BY <1>1, <1>2, <1>10, <1>11, <1>14, OthersFit
  <2>3. pc'[w] # "releaseOfList"
    BY <1>9
  <2>. QED  BY <1>1, <1>2, <1>11, <2>1, <2>2, <2>3, WakesKept
<1>. QED  BY <1>12, <1>13, <1>17, <1>18 DEF WaitInv

(* A block of the lists is marked woken.                                   *)
LEMMA MarkedBlock ==
  ASSUME WaitInv, NEW b \in Waiters, IsListed(b), flag'[b] = 2, pc'[b] = pc[b], then'[b] = then[b]
  PROVE  /\ FlagFits(b)' /\ ~Owed(b) /\ IsWaiting(b) /\ flag[b] # 2
         /\ Owed(b)' <=> flag[b] = 0
<1>1. IsWaiting(b) /\ flag[b] # 2 /\ FlagFits(b)
  BY DEF WaitInv, WaitPlaces, ListedWait, FlagsFit
<1>2. ~Owed(b)
  BY <1>1 DEF Owed, IsWaiting, Asleep, Spinning, Leaving, OfList
<1>3. FlagFits(b)'
  BY DEF FlagFits
<1>4. CASE pc[b] \in Asleep
  <2>1. flag[b] = 0
    BY <1>1, <1>4 DEF FlagFits
  <2>. QED  BY <1>1, <1>2, <1>3, <1>4, <2>1 DEF Owed
<1>5. CASE pc[b] \notin Asleep
  <2>1. flag[b] # 0 /\ pc[b] # "keyedAgain"
    BY <1>1, <1>5 DEF FlagFits, IsWaiting, Spinning, Leaving, OfList
  <2>. QED  BY <1>1, <1>2, <1>3, <1>5, <2>1 DEF Owed
<1>. QED  BY <1>4, <1>5

LEMMA MarkedWakes ==
  ASSUME WaitAssumption, WaitInv, NEW t \in Callers, Others(t), NEW b \in Waiters, IsListed(b),
         flag' = [flag EXCEPT ![b] = 2], pc'[b] = pc[b], then'[b] = then[b],
         flag[b] = 0 => /\ Distinct(wakes'[t]) /\ pc'[t] \in Releasing
                        /\ RangeOf(wakes'[t]) = {b} \cup RangeOf(wakes[t]),
         flag[b] # 0 => wakes'[t] = wakes[t] /\ (wakes[t] # <<>> => pc'[t] \in Releasing),
         pc'[t] = "releaseOfList" => Len(wakes'[t]) = 1,
         t \in Waiters /\ t # b => (Owed(t)' <=> Owed(t))
  PROVE  WaitWakes'
<1>1. WaitTypes /\ WaitWakes /\ WaitPlaces /\ flag'[b] = 2
      /\ \A x \in Waiters : x # b => flag'[x] = flag[x]
  BY DEF WaitInv, WaitTypes
<1>2. ~Owed(b) /\ (Owed(b)' <=> flag[b] = 0)
  BY <1>1, MarkedBlock
<1>3. \A u \in Callers : u # t => /\ wakes'[u] = wakes[u]
                                  /\ wakes[u] # <<>> => pc'[u] = pc[u]
                                  /\ pc'[u] = "releaseOfList" => pc[u] = "releaseOfList"
  BY DEF Others
<1>4. PICK come \in SUBSET Waiters : come = IF flag[b] = 0 THEN {b} ELSE {}
  OBVIOUS
<1>5. PICK none \in SUBSET Waiters : none = {}
  OBVIOUS
<1>6. /\ Distinct(wakes'[t]) /\ (wakes'[t] # <<>> => pc'[t] \in Releasing)
      /\ none \subseteq RangeOf(wakes[t])
      /\ RangeOf(wakes'[t]) = (RangeOf(wakes[t]) \ none) \cup come
  BY <1>1, <1>4, <1>5 DEF WaitWakes
<1>7. \A x \in come : ~Owed(x) /\ Owed(x)' /\ x \in Waiters
  BY <1>2, <1>4
<1>8. \A x \in none : ~Owed(x)'
  BY <1>5
<1>9. \A x \in Waiters : x \notin none \cup come => (Owed(x)' <=> Owed(x))
  <2>. SUFFICES ASSUME NEW x \in Waiters, x \notin come PROVE Owed(x)' <=> Owed(x)
    OBVIOUS
  <2>1. CASE x = b
    BY <1>2, <1>4, <2>1
  <2>2. CASE x # b /\ x = t
    BY <2>2
  <2>3. CASE x # b /\ x # t
    BY <1>1, <2>3, OthersFit
  <2>. QED  BY <2>1, <2>2, <2>3
<1>. QED  BY <1>1, <1>3, <1>6, <1>7, <1>8, <1>9, WakesMove

LEMMA MarkTypes ==
  ASSUME WaitAssumption,
         WaitInv, NEW k \in Wakers, NEW b \in Waiters, IsListed(b), MarkWoken(k, b)
  PROVE  /\ wakes' \in [Callers -> Seq(Waiters)] /\ flag' \in [Waiters -> {0, 1, 2, 4}]
         /\ flag' = [flag EXCEPT ![b] = 2] /\ flag'[b] = 2
         /\ item' \in [Callers -> Blocks] /\ item' = [item EXCEPT ![k] = notify[b]]
         /\ pc'[k] \in {"release", "wakeItem"} /\ pc' = [pc EXCEPT ![k] = pc'[k]]
         /\ pc' \in [Callers -> WaiterLabels \cup WakerLabels]
         /\ \A u \in Callers : u # k => wakes'[u] = wakes[u] /\ pc'[u] = pc[u]
         /\ flag[b] = 0 => /\ Distinct(wakes'[k])
                           /\ RangeOf(wakes'[k]) = {b} \cup RangeOf(wakes[k])
         /\ flag[b] # 0 => wakes'[k] = wakes[k]
<1>1. WaitTypes /\ WaitWakes /\ WaitPlaces /\ k \in Callers
  BY WaitersAndWakers DEF WaitInv
<1>2. PICK label \in {"release", "wakeItem"} : pc' = [pc EXCEPT ![k] = label]
  <2>1. pc' = [pc EXCEPT ![k] = IF flag[b] # 2 /\ k \notin WakeAll THEN "release" ELSE "wakeItem"]
    BY DEF MarkWoken, Goto
  <2>. QED  BY <2>1
<1>3. /\ pc'[k] = label /\ pc' = [pc EXCEPT ![k] = pc'[k]]
      /\ pc' \in [Callers -> WaiterLabels \cup WakerLabels]
      /\ \A u \in Callers : u # k => pc'[u] = pc[u]
  BY <1>1, <1>2 DEF WaitTypes, WakerLabels
<1>4. /\ flag' = [flag EXCEPT ![b] = 2] /\ flag'[b] = 2 /\ flag' \in [Waiters -> {0, 1, 2, 4}]
      /\ item' = [item EXCEPT ![k] = notify[b]] /\ item' \in [Callers -> Blocks]
  BY <1>1 DEF MarkWoken, WaitTypes, WaitLinks
<1>5. b \notin RangeOf(wakes[k]) /\ Distinct(wakes[k]) /\ wakes[k] \in Seq(Waiters)
  <2>1. ~Owed(b)
    <3>1. IsWaiting(b) /\ flag[b] # 2
      BY <1>1 DEF WaitPlaces, ListedWait
    <3>. QED  BY <3>1 DEF Owed, IsWaiting, Asleep, Spinning, Leaving, OfList
  <2>. QED  BY <1>1, <2>1 DEF WaitWakes, WaitTypes
<1>6. /\ <<b>> \o wakes[k] \in Seq(Waiters) /\ Distinct(<<b>> \o wakes[k])
      /\ RangeOf(<<b>> \o wakes[k]) = {b} \cup RangeOf(wakes[k])
  BY <1>5, WakesPush
<1>7. flag[b] = 0 => /\ wakes'[k] = <<b>> \o wakes[k] /\ wakes' \in [Callers -> Seq(Waiters)]
                     /\ \A u \in Callers : u # k => wakes'[u] = wakes[u]
  <2>. SUFFICES ASSUME flag[b] = 0
                PROVE  /\ wakes'[k] = <<b>> \o wakes[k] /\ wakes' \in [Callers -> Seq(Waiters)]
                       /\ \A u \in Callers : u # k => wakes'[u] = wakes[u]
    OBVIOUS
  <2>1. wakes' = [wakes EXCEPT ![k] = <<b>> \o wakes[k]]
    BY DEF MarkWoken
  <2>. QED  BY <1>1, <1>6, <2>1 DEF WaitTypes
<1>8. flag[b] # 0 => wakes' = wakes
  BY DEF MarkWoken
<1>9. wakes' \in [Callers -> Seq(Waiters)] /\ \A u \in Callers : u # k => wakes'[u] = wakes[u]
  BY <1>1, <1>7, <1>8 DEF WaitTypes
<1>. QED  BY <1>3, <1>4, <1>6, <1>7, <1>8, <1>9

LEMMA WakeHeadFlagStep ==
  ASSUME WaitAssumption, WaitInv, NEW k \in Wakers, WakeHeadFlag(k)
  PROVE  WaitInv'
<1>1. WaitTypes /\ WaitHints /\ WaitLock /\ WaitWakes /\ WaitPlaces
  BY DEF WaitInv
<1>2. k \in Callers /\ k \notin Waiters
  BY WaitersAndWakers
<1>0. PICK b \in Blocks : b = item[k]
  BY <1>1, <1>2 DEF WaitTypes
<1>3. /\ pc[k] = "wakeHeadFlag" /\ MarkWoken(k, b) /\ head' = head /\ cur' = cur
      /\ back' = back /\ notify' = notify /\ next' = next /\ then' = then /\ last' = last
  BY <1>0 DEF WakeHeadFlag, links
<1>4. HandEnds(k)
  BY <1>1, <1>2 DEF WaitPlaces, ListsEnd
<1>5. /\ b \in Waiters /\ notify[b] = Nil /\ InHands(k) = {b} /\ IsListed(b)
  <2>1. b # Nil /\ notify[b] = Nil
    BY <1>0, <1>3, <1>4 DEF HandEnds
  <2>2. b \in Waiters
    BY <1>0, <2>1, WaitersAndWakers
  <2>3. InHands(k) = {b}
    BY <1>0, <1>3 DEF InHands, OfList
  <2>. QED  BY <1>2, <2>1, <2>2, <2>3 DEF IsListed
<1>6. /\ wakes' \in [Callers -> Seq(Waiters)] /\ flag' \in [Waiters -> {0, 1, 2, 4}]
      /\ flag' = [flag EXCEPT ![b] = 2] /\ flag'[b] = 2
      /\ item' \in [Callers -> Blocks] /\ item' = [item EXCEPT ![k] = notify[b]]
      /\ pc'[k] \in {"release", "wakeItem"} /\ pc' = [pc EXCEPT ![k] = pc'[k]]
      /\ pc' \in [Callers -> WaiterLabels \cup WakerLabels]
      /\ \A u \in Callers : u # k => wakes'[u] = wakes[u] /\ pc'[u] = pc[u]
      /\ flag[b] = 0 => /\ Distinct(wakes'[k])
                        /\ RangeOf(wakes'[k]) = {b} \cup RangeOf(wakes[k])
      /\ flag[b] # 0 => wakes'[k] = wakes[k]
  BY <1>3, <1>5, MarkTypes
<1>7. item'[k] = Nil /\ \A u \in Callers : u # k => item'[u] = item[u]
  BY <1>1, <1>2, <1>5, <1>6 DEF WaitTypes
<1>8. Others(k) /\ OwnLabel(k)
  <2>1. Others(k)
    BY <1>3, <1>6, <1>7 DEF Others
  <2>2. OwnLabel(k)
    BY <1>1, <1>2, <1>3, <1>6 DEF OwnLabel, WakerLabels, WaitTypes
  <2>. QED  BY <2>1, <2>2
<1>9. WaitTypes'
  BY <1>1, <1>2, <1>3, <1>6, <1>8, LabelTypes DEF WaitTypes
<1>10. WaitLock'
  <2>1. HoldsLock(k)' <=> HoldsLock(k)
    BY <1>3, <1>6 DEF HoldsLock
  <2>2. LockMove(k) /\ WordFits'
    BY <1>2, <1>3, <2>1, CallerSameLock
  <2>3. LastFits(k)'
    BY <1>6, <1>7 DEF LastFits
  <2>. QED  BY <1>1, <1>2, <1>8, <2>2, <2>3, OthersLock
<1>11. WaitHints'
  <2>1. ~Walking(k)' /\ ~(pc'[k] = "wakeItem" /\ item'[k] # Nil)
    BY <1>6, <1>7 DEF Walking
  <2>2. \A u \in Callers : (u # k /\ Walking(u)') =>
           Walking(u) /\ cur'[u] = cur[u] /\ item'[u] = item[u] /\ pc'[u] = pc[u]
    BY <1>2, <1>8, OthersStay DEF Others
  <2>3. head'.blk = head.blk
    BY <1>3
  <2>. QED  BY <1>1, <1>2, <1>3, <2>1, <2>2, <2>3, QuietHints
<1>12. \A x \in Waiters : x # k /\ x \in Callers /\ pc'[x] = pc[x] /\ then'[x] = then[x]
  BY <1>2, <1>3, <1>6, WaitersAndWakers
<1>13. FlagFits(b)' /\ IsWaiting(b)
  <2>1. pc'[b] = pc[b] /\ then'[b] = then[b] /\ flag'[b] = 2
    BY <1>5, <1>6, <1>12
  <2>2. /\ FlagFits(b)' /\ ~Owed(b) /\ IsWaiting(b) /\ flag[b] # 2
        /\ Owed(b)' <=> flag[b] = 0
    BY <1>5, <2>1, MarkedBlock
  <2>. QED  BY <2>2
<1>14. \A x \in Waiters : x # b => flag'[x] = flag[x]
  BY <1>1, <1>6 DEF WaitTypes
<1>15. WaitPlaces'
  <2>1. PICK none \in SUBSET Waiters : none = {}
    OBVIOUS
  <2>2. PICK gone \in SUBSET Waiters : gone = {b}
    BY <1>5
  <2>3. InList' = InList
    BY <1>3 DEF InList
  <2>4. InHands(k)' = {} /\ HandEnds(k)'
    <3>1. pc'[k] \notin OfList \cup {"wakeHeadFlag"}
      BY <1>6 DEF OfList
    <3>. QED  BY <1>2, <3>1, EmptyHands
  <2>5. b \notin InList
    BY <1>1, <1>2, <1>5 DEF WaitPlaces, ListsApart
  <2>6. \A x \in Waiters : FlagFits(x)'
    <3>. SUFFICES ASSUME NEW x \in Waiters PROVE FlagFits(x)'
      OBVIOUS
    <3>1. CASE x = b
      BY <1>13, <3>1
    <3>2. CASE x # b
      BY <1>1, <1>2, <1>8, <1>12, <1>14, <3>2, OthersFit
    <3>. QED  BY <3>1, <3>2
  <2>7. /\ InList' \cup InHands(k)' = ((InList \cup InHands(k)) \ gone) \cup none
        /\ InList' \cap InHands(k)' = {} /\ gone \subseteq InList \cup InHands(k)
    BY <1>5, <2>1, <2>2, <2>3, <2>4, <2>5
  <2>8. \A x \in none : ~IsListed(x) /\ IsWaiting(x)' /\ flag'[x] # 2
    BY <2>1
  <2>9. \A x \in gone : ~(IsWaiting(x)' /\ flag'[x] # 2)
    BY <1>6, <2>2
  <2>10. \A x \in Waiters : x \notin gone \cup none =>
           ((IsWaiting(x)' /\ flag'[x] # 2) <=> (IsWaiting(x) /\ flag[x] # 2))
    BY <1>1, <1>2, <1>8, <1>12, <1>14, <2>2, OthersFit
  <2>11. Ends(back', head'.blk) /\ back' \in WaitLinks
    BY <1>1, <1>3 DEF WaitPlaces, ListsEnd, WaitTypes
  <2>12. \A x \in Waiters : (x \notin InList /\ IsListed(x)) =>
            back'[x] = back[x] /\ notify'[x] = notify[x]
    BY <1>3
  <2>. QED  BY <1>1, <1>2, <1>8, <2>4, <2>6, <2>7, <2>8, <2>9, <2>10, <2>11, <2>12, PlacesStep
<1>16. WaitWakes'
  <2>1. pc'[k] \in Releasing /\ pc'[k] # "releaseOfList"
    BY <1>6 DEF Releasing
  <2>. QED  BY <1>2, <1>5, <1>6, <1>8, <1>12, <2>1, MarkedWakes
<1>. QED  BY <1>9, <1>10, <1>11, <1>15, <1>16 DEF WaitInv

(* The next block of a list that is woken entirely.                        *)
LEMMA StillOfList ==
  ASSUME WaitTypes, NEW t \in Waiters, FlagFits(t), pc[t] \in OfList, pc'[t] \in OfList,
         then'[t] = then[t], flag'[t] = flag[t]
  PROVE  /\ FlagFits(t)' /\ (Owed(t)' <=> Owed(t))
         /\ (IsWaiting(t)' /\ flag'[t] # 2) <=> (IsWaiting(t) /\ flag[t] # 2)
<1>1. FlagFits(t)' /\ ~Owed(t) /\ ~Owed(t)'
  BY DEF FlagFits, Owed, OfList, Asleep, Spinning, Leaving
<1>2. IsWaiting(t)' <=> IsWaiting(t)
  BY DEF IsWaiting, OfList, Asleep, Spinning, Leaving
<1>. QED  BY <1>1, <1>2

LEMMA WakeNextOfListStep ==
  ASSUME WaitAssumption, WaitInv, NEW t \in Callers, WakeNextOfList(t)
  PROVE  WaitInv'
<1>1. WaitTypes /\ WaitHints /\ WaitLock /\ WaitWakes /\ WaitPlaces
  BY DEF WaitInv
<1>2. PICK b \in Blocks : b = item[t]
  BY <1>1 DEF WaitTypes
<1>3. /\ pc[t] = "wakeList" /\ b # Nil /\ head' = head /\ cur' = cur /\ back' = back
      /\ notify' = notify /\ next' = next /\ then' = then /\ last' = last
      /\ item' = [item EXCEPT ![t] = back[b]] /\ flag' = [flag EXCEPT ![b] = 2]
  BY <1>2 DEF WakeNextOfList, links
<1>4. /\ b \in Waiters /\ b \in Callers /\ back[b] \in Blocks /\ HandEnds(t)
      /\ back \in WaitLinks /\ wakes[t] = <<>>
  <2>1. b \in Waiters /\ b \in Callers
    BY <1>2, <1>3, WaitersAndWakers
  <2>. QED  BY <1>1, <1>3, <2>1 DEF WaitTypes, WaitLinks, WaitPlaces, ListsEnd, WaitWakes
<1>5. InHands(t) = Reach(back, b) /\ Ends(back, b) /\ b \in Reach(back, b) /\ IsListed(b)
  <2>1. InHands(t) = Reach(back, b) /\ Ends(back, b)
    BY <1>2, <1>3, <1>4 DEF InHands, HandEnds, OfList
  <2>2. b \in Reach(back, b)
    BY <1>4, ReachClosed
  <2>. QED  BY <2>1, <2>2 DEF IsListed
<1>6. /\ b \notin Reach(back, back[b]) /\ Reach(back, b) = {b} \cup Reach(back, back[b])
      /\ Ends(back, back[b])
  <2>1. b \notin Reach(back, back[b]) /\ Reach(back, b) = {b} \cup Reach(back, back[b])
    BY <1>4, <1>5, EndsFrom, ReachStep
  <2>2. CASE back[b] = Nil
    BY <2>1, <2>2 DEF Ends
  <2>3. CASE back[b] # Nil
    <3>1. back[b] \in Reach(back, b)
      BY <1>4, <1>5, <2>3, ReachClosed
    <3>. QED  BY <1>4, <1>5, <2>1, <3>1, EndsFrom
  <2>. QED  BY <2>2, <2>3
<1>7. /\ FlagFits(b) /\ IsWaiting(b) /\ flag[b] # 2
      /\ FlagFits(t) \/ t \notin Waiters
  BY <1>1, <1>4, <1>5 DEF WaitPlaces, FlagsFit, ListedWait
<1>8. flag[b] = 0 => b # t
  BY <1>3, <1>7 DEF FlagFits, IsWaiting, OfList, Asleep, Spinning, Leaving
<1>9. PICK label \in {"wakeList", "releaseOfList"} :
        /\ pc' = [pc EXCEPT ![t] = label]
        /\ flag[b] # 0 => label = "wakeList"
  <2>1. CASE flag[b] = 0
    BY <1>2, <2>1 DEF WakeNextOfList, Goto
  <2>2. CASE flag[b] # 0
    <3>1. pc' = pc
      BY <1>2, <2>2 DEF WakeNextOfList
    <3>2. pc = [pc EXCEPT ![t] = "wakeList"]
      BY <1>1, <1>3 DEF WaitTypes
    <3>. QED  BY <2>2, <3>1, <3>2
  <2>. QED  BY <2>1, <2>2
<1>10. /\ wakes' \in [Callers -> Seq(Waiters)]
       /\ \A u \in Callers : u # t => wakes'[u] = wakes[u]
       /\ flag[b] = 0 => wakes'[t] = <<b>>
       /\ flag[b] # 0 => wakes'[t] = wakes[t]
  <2>1. flag[b] = 0 => wakes' = [wakes EXCEPT ![t] = <<b>>]
    BY <1>2 DEF WakeNextOfList
  <2>2. flag[b] # 0 => wakes' = wakes
    BY <1>2 DEF WakeNextOfList
  <2>3. <<b>> \in Seq(Waiters)
    BY <1>4, WakesOne
  <2>. QED  BY <1>1, <2>1, <2>2, <2>3 DEF WaitTypes
<1>11. pc'[t] = label /\ item'[t] = back[b] /\ item' \in [Callers -> Blocks]
  BY <1>1, <1>3, <1>4, <1>9 DEF WaitTypes
<1>12. /\ flag' \in [Waiters -> {0, 1, 2, 4}] /\ flag'[b] = 2
       /\ \A x \in Waiters : x # b => flag'[x] = flag[x]
  BY <1>1, <1>3, <1>4 DEF WaitTypes
<1>13. Others(t) /\ OwnLabel(t)
  <2>1. Others(t)
    BY <1>1, <1>3, <1>9, <1>10 DEF WaitTypes, Others
  <2>2. OwnLabel(t)
    BY <1>1, <1>3, <1>9, WaitersAndWakers DEF WaitTypes, OwnLabel, WaiterLabels, WakerLabels
  <2>. QED  BY <2>1, <2>2
<1>14. WaitTypes'
  <2>1. /\ pc' \in [Callers -> WaiterLabels \cup WakerLabels]
        /\ \A x \in Waiters : pc'[x] \in WaiterLabels
        /\ \A k \in Wakers : pc'[k] \in WakerLabels /\ then'[k] = "out"
    BY <1>1, <1>13, LabelTypes
  <2>. QED  BY <1>1, <1>3, <1>10, <1>11, <1>12, <2>1 DEF WaitTypes
<1>15. WaitLock'
  <2>1. HoldsLock(t)' <=> HoldsLock(t)
    BY <1>3, <1>9, <1>11 DEF HoldsLock
  <2>2. LockMove(t) /\ WordFits'
    BY <1>3, <2>1, CallerSameLock
  <2>3. LastFits(t)'
    BY <1>9, <1>11 DEF LastFits
  <2>. QED  BY <1>1, <1>13, <2>2, <2>3, OthersLock
<1>16. WaitHints'
  <2>1. ~Walking(t)' /\ ~(pc'[t] = "wakeItem" /\ item'[t] # Nil)
    BY <1>9, <1>11 DEF Walking
  <2>2. \A u \in Callers : (u # t /\ Walking(u)') =>
           Walking(u) /\ cur'[u] = cur[u] /\ item'[u] = item[u] /\ pc'[u] = pc[u]
    BY <1>13, OthersStay DEF Others
  <2>3. head'.blk = head.blk
    BY <1>3
  <2>. QED  BY <1>1, <1>3, <2>1, <2>2, <2>3, QuietHints
<1>17. t \in Waiters /\ t # b =>
         /\ FlagFits(t)' /\ (Owed(t)' <=> Owed(t))
         /\ (IsWaiting(t)' /\ flag'[t] # 2) <=> (IsWaiting(t) /\ flag[t] # 2)
  <2>. SUFFICES ASSUME t \in Waiters, t # b
                PROVE  /\ FlagFits(t)' /\ (Owed(t)' <=> Owed(t))
                       /\ (IsWaiting(t)' /\ flag'[t] # 2) <=> (IsWaiting(t) /\ flag[t] # 2)
    OBVIOUS
  <2>1. pc[t] \in OfList /\ pc'[t] \in OfList /\ then'[t] = then[t] /\ flag'[t] = flag[t]
    BY <1>3, <1>9, <1>11, <1>12 DEF OfList
  <2>. QED  BY <1>1, <1>7, <2>1, StillOfList
<1>18. pc'[b] = pc[b] /\ then'[b] = then[b]
  BY <1>3, <1>4, <1>8, <1>9, <1>11, <1>13 DEF Others
<1>19. FlagFits(b)'
  <2>1. /\ FlagFits(b)' /\ ~Owed(b) /\ IsWaiting(b) /\ flag[b] # 2
        /\ Owed(b)' <=> flag[b] = 0
    BY <1>4, <1>5, <1>12, <1>18, MarkedBlock
  <2>. QED  BY <2>1
<1>20. WaitPlaces'
  <2>1. PICK none \in SUBSET Waiters : none = {}
    OBVIOUS
  <2>2. PICK gone \in SUBSET Waiters : gone = {b}
    BY <1>4
  <2>3. InList' = InList
    BY <1>3 DEF InList
  <2>4. InHands(t)' = InHands(t) \ gone /\ HandEnds(t)'
    <3>1. InHands(t)' = Reach(back, back[b])
      BY <1>3, <1>9, <1>11 DEF InHands, OfList
    <3>2. HandEnds(t)'
      BY <1>3, <1>6, <1>9, <1>11 DEF HandEnds
    <3>. QED  BY <1>5, <1>6, <2>2, <3>1, <3>2
  <2>5. InList \cap InHands(t) = {} /\ gone \subseteq InHands(t)
    BY <1>1, <1>5, <2>2 DEF WaitPlaces, ListsApart
  <2>6. \A x \in Waiters : FlagFits(x)'
    <3>. SUFFICES ASSUME NEW x \in Waiters PROVE FlagFits(x)'
      OBVIOUS
    <3>1. CASE x = b
      BY <1>19, <3>1
    <3>2. CASE x # b /\ x = t
      BY <1>17, <3>2
    <3>3. CASE x # b /\ x # t
      BY <1>1, <1>12, <1>13, <3>3, OthersFit
    <3>. QED  BY <3>1, <3>2, <3>3
  <2>7. /\ InList' \cup InHands(t)' = ((InList \cup InHands(t)) \ gone) \cup none
        /\ InList' \cap InHands(t)' = {} /\ gone \subseteq InList \cup InHands(t)
    BY <2>1, <2>3, <2>4, <2>5
  <2>8. \A x \in none : ~IsListed(x) /\ IsWaiting(x)' /\ flag'[x] # 2
    BY <2>1
  <2>9. \A x \in gone : ~(IsWaiting(x)' /\ flag'[x] # 2)
    BY <1>12, <2>2
  <2>10. \A x \in Waiters : x \notin gone \cup none =>
           ((IsWaiting(x)' /\ flag'[x] # 2) <=> (IsWaiting(x) /\ flag[x] # 2))
    <3>. SUFFICES ASSUME NEW x \in Waiters, x # b
                  PROVE  (IsWaiting(x)' /\ flag'[x] # 2) <=> (IsWaiting(x) /\ flag[x] # 2)
      BY <2>2
    <3>1. CASE x = t
      BY <1>17, <3>1
    <3>2. CASE x # t
      BY <1>1, <1>12, <1>13, <3>2, OthersFit
    <3>. QED  BY <3>1, <3>2
  <2>11. Ends(back', head'.blk) /\ back' \in WaitLinks
    BY <1>1, <1>3, <1>4 DEF WaitPlaces, ListsEnd
  <2>12. \A x \in Waiters : (x \notin InList /\ IsListed(x)) =>
            back'[x] = back[x] /\ notify'[x] = notify[x]
    BY <1>3
  <2>. QED  BY <1>1, <1>13, <2>4, <2>6, <2>7, <2>8, <2>9, <2>10, <2>11, <2>12, PlacesStep
<1>21. WaitWakes'
  <2>1. flag[b] = 0 => /\ Distinct(wakes'[t]) /\ pc'[t] \in Releasing
                       /\ RangeOf(wakes'[t]) = {b} \cup RangeOf(wakes[t])
    <3>. SUFFICES ASSUME flag[b] = 0
                  PROVE  /\ Distinct(wakes'[t]) /\ pc'[t] \in Releasing
                         /\ RangeOf(wakes'[t]) = {b} \cup RangeOf(wakes[t])
      OBVIOUS
    <3>1. pc'[t] = "releaseOfList"
      <4>1. pc' = [pc EXCEPT ![t] = "releaseOfList"]
        BY <1>2 DEF WakeNextOfList, Goto
      <4>. QED  BY <1>1, <4>1 DEF WaitTypes
    <3>. QED  BY <1>4, <1>10, <3>1, WakesOne DEF Releasing
  <2>2. flag[b] # 0 => wakes'[t] = wakes[t] /\ (wakes[t] # <<>> => pc'[t] \in Releasing)
    BY <1>4, <1>10
  <2>3. pc'[t] = "releaseOfList" => Len(wakes'[t]) = 1
    <3>1. flag[b] # 0 => pc'[t] # "releaseOfList"
      BY <1>9, <1>11
    <3>. QED  BY <1>4, <1>10, <3>1, WakesOne
  <2>4. t \in Waiters /\ t # b => (Owed(t)' <=> Owed(t))
    BY <1>17
  <2>. QED  BY <1>3, <1>4, <1>5, <1>13, <1>18, <2>1, <2>2, <2>3, <2>4, MarkedWakes
<1>. QED  BY <1>14, <1>15, <1>16, <1>20, <1>21 DEF WaitInv

(* A waker takes the newest block out of the bucket.                       *)
LEMMA WakeHeadStep ==
  ASSUME WaitAssumption, WaitInv, NEW k \in Wakers, WakeHead(k)
  PROVE  WaitInv'
<1>1. WaitTypes /\ WaitHints /\ WaitLock /\ WaitWakes /\ WaitPlaces /\ Ends(back, head.blk)
  BY DEF WaitInv, WaitPlaces, ListsEnd
<1>2. k \in Callers /\ k \notin Waiters
  BY WaitersAndWakers
<1>3. PICK b \in Blocks : b = item[k]
  BY <1>1, <1>2 DEF WaitTypes
<1>4. /\ pc[k] = "wakeItem" /\ b # Nil /\ b = cur[k].blk /\ b \in Waiters
      /\ back' = back /\ flag' = flag /\ item' = item /\ wakes' = wakes /\ then' = then
  <2>1. /\ pc[k] = "wakeItem" /\ b # Nil /\ b = cur[k].blk
        /\ back' = back /\ flag' = flag /\ item' = item /\ wakes' = wakes /\ then' = then
    BY <1>3 DEF WakeHead, Matches
  <2>. QED  BY <2>1, WaitersAndWakers
<1>5. Walking(k)
  BY <1>3, <1>4 DEF Walking
<1>6. CASE head # cur[k]
  <2>1. /\ cur' = [cur EXCEPT ![k] = head] /\ pc' = [pc EXCEPT ![k] = "wakeWalk"]
        /\ head' = head /\ last' = last /\ ListsUnmoved
    BY <1>3, <1>4, <1>6 DEF WakeHead, Goto, ListsUnmoved
  <2>. QED  BY <1>2, <1>4, <1>5, <2>1, CasFails
<1>7. CASE head = cur[k]
  <2>1. PICK older \in Blocks : older = back[b]
    BY <1>1, <1>4 DEF WaitTypes, WaitLinks
  <2>2. /\ cur' = cur /\ pc' = [pc EXCEPT ![k] = "wakeHeadFlag"]
        /\ head' = IF older = Nil THEN Empty ELSE [cur[k] EXCEPT !.blk = older]
        /\ last' = [last EXCEPT ![k] = (older = Nil)]
        /\ older = Nil => notify' = notify /\ next' = next
        /\ older # Nil => /\ notify' = [notify EXCEPT ![older] = Nil]
                          /\ next' = [next EXCEPT ![older] = next[b]]
    BY <1>3, <1>7, <2>1 DEF WakeHead, Goto
  <2>3. head.blk = b /\ head.lock /\ HoldsLock(k) /\ head \in Words
    BY <1>1, <1>2, <1>4, <1>5, <1>7, WalkedNotEmpty DEF WaitTypes
  <2>4. Hinted(back, notify, next, b, b) /\ notify[b] = Nil /\ Ends(back, b)
    BY <1>1, <1>2, <1>3, <1>4, <1>7, <2>3 DEF WaitHints
  <2>5. pc'[k] = "wakeHeadFlag" /\ item'[k] = b
    BY <1>1, <1>2, <1>3, <1>4, <2>2 DEF WaitTypes
  <2>6. /\ head' \in Words /\ head'.blk = older
        /\ older = Nil => ~head'.lock /\ head' = Empty
        /\ older # Nil => head'.lock
    BY <1>7, <2>2, <2>3, WordParts DEF Words, Empty
  <2>7. last' \in [Callers -> BOOLEAN] /\ (last'[k] <=> older = Nil)
        /\ \A u \in Callers : u # k => last'[u] = last[u]
    <3>1. PICK v \in BOOLEAN : v <=> (older = Nil)
      OBVIOUS
    <3>2. last' = [last EXCEPT ![k] = v]
      <4>1. v = (older = Nil)
        BY <3>1
      <4>. QED  BY <2>2, <4>1
    <3>3. last \in [Callers -> BOOLEAN]
      BY <1>1 DEF WaitTypes
    <3>. QED  BY <1>2, <3>1, <3>2, <3>3
  <2>8. Others(k) /\ OwnLabel(k)
    <3>1. Others(k)
      BY <1>1, <1>2, <1>4, <2>2, <2>7 DEF WaitTypes, Others
    <3>2. OwnLabel(k)
      BY <1>1, <1>2, <1>4, <2>2 DEF WaitTypes, OwnLabel, WakerLabels
    <3>. QED  BY <3>1, <3>2
  <2>9. older # b /\ InList = {b} \cup Reach(back, older) /\ b \notin Reach(back, older)
        /\ (older # Nil => older \in Waiters /\ older \in InList /\ Ends(back, older))
    <3>1. back \in WaitLinks /\ b \in Reach(back, b)
      BY <1>1, <1>4, ReachClosed DEF WaitTypes
    <3>2. back[b] # b /\ b \notin Reach(back, back[b])
      BY <1>4, <2>4, <3>1, EndsFrom
    <3>3. Reach(back, b) = {b} \cup Reach(back, back[b])
      BY <1>4, <3>1, ReachStep
    <3>4. back[b] # Nil => back[b] \in Reach(back, b)
      BY <1>4, <3>1, ReachClosed
    <3>5. back[b] # Nil => Ends(back, back[b])
      BY <1>4, <2>4, <3>1, <3>4, EndsFrom
    <3>. QED  BY <2>1, <2>3, <3>2, <3>3, <3>4, <3>5, WaitersAndWakers DEF InList
  <2>10. /\ notify' \in WaitLinks /\ next' \in WaitLinks /\ notify'[b] = Nil
         /\ older # Nil => notify'[older] = Nil /\ Hinted(back, notify', next', older, older)
         /\ \A x \in Waiters : x \notin InList => notify'[x] = notify[x]
    <3>1. CASE older = Nil
      BY <1>1, <2>2, <2>4, <3>1 DEF WaitTypes
    <3>2. CASE older # Nil
      <4>1. back \in WaitLinks /\ notify \in WaitLinks /\ next \in WaitLinks /\ next[b] \in Blocks
        BY <1>1, <1>4 DEF WaitTypes, WaitLinks
      <4>2. /\ notify' \in WaitLinks /\ next' \in WaitLinks
            /\ notify'[older] = Nil /\ next'[older] = next[b]
            /\ \A x \in Waiters : x # older => notify'[x] = notify[x]
        BY <2>2, <2>9, <3>2, <4>1, WaitersAndWakers DEF WaitLinks
      <4>3. PICK m2 \in WaitLinks : m2 = notify'
        BY <4>2
      <4>4. PICK n2 \in WaitLinks : n2 = next'
        BY <4>2
      <4>5. Hinted(back, m2, n2, older, older)
        BY <1>4, <2>1, <2>4, <2>9, <3>2, <4>1, <4>2, <4>3, <4>4, HintNext
      <4>. QED  BY <1>4, <2>4, <2>9, <3>2, <4>2, <4>3, <4>4, <4>5
    <3>. QED  BY <3>1, <3>2
  <2>11. WaitTypes'
    <3>1. /\ pc' \in [Callers -> WaiterLabels \cup WakerLabels]
          /\ \A x \in Waiters : pc'[x] \in WaiterLabels
          /\ \A u \in Wakers : pc'[u] \in WakerLabels /\ then'[u] = "out"
      BY <1>1, <1>2, <2>8, LabelTypes
    <3>. QED  BY <1>1, <1>4, <2>2, <2>6, <2>7, <2>10, <3>1 DEF WaitTypes
  <2>12. WaitLock' /\ WaitHints'
    <3>1. ~Walking(k)' /\ LastFits(k)'
      BY <2>5 DEF Walking, LastFits
    <3>2. WordFits'
      BY <2>6, WordParts DEF WordFits
    <3>3. \/ HoldsLock(k)' /\ head'.lock /\ head.lock
          \/ ~HoldsLock(k)' /\ ~head'.lock
      BY <2>3, <2>5, <2>6, <2>7 DEF HoldsLock
    <3>4. head'.blk # Nil => /\ notify'[head'.blk] = Nil
                             /\ \E h \in Waiters : Hinted(back', notify', next', head'.blk, h)
      BY <1>4, <2>6, <2>9, <2>10
    <3>. QED  BY <1>2, <2>3, <2>8, <3>1, <3>2, <3>3, <3>4, HolderLeaves
  <2>13. \A x \in Waiters : /\ FlagFits(x)' /\ (Owed(x)' <=> Owed(x))
                            /\ (IsWaiting(x)' /\ flag'[x] # 2) <=> (IsWaiting(x) /\ flag[x] # 2)
    <3>1. \A x \in Waiters : x # k /\ flag'[x] = flag[x]
      BY <1>2, <1>4
    <3>. QED  BY <1>1, <1>2, <2>8, <3>1, OthersFit
  <2>14. WaitPlaces'
    <3>1. PICK none \in SUBSET Waiters : none = {}
      OBVIOUS
    <3>2. InList' = InList \ {b}
      BY <1>4, <2>6, <2>9 DEF InList
    <3>3. InHands(k) = {} /\ InHands(k)' = {b} /\ HandEnds(k)'
      <4>1. InHands(k) = {}
        BY <1>4 DEF InHands, OfList
      <4>2. InHands(k)' = {b}
        BY <2>5 DEF InHands, OfList
      <4>3. HandEnds(k)'
        BY <1>4, <2>5, <2>10 DEF HandEnds, OfList
      <4>. QED  BY <4>1, <4>2, <4>3
    <3>4. b \in InList
      BY <2>9
    <3>5. /\ InList' \cup InHands(k)' = ((InList \cup InHands(k)) \ none) \cup none
          /\ InList' \cap InHands(k)' = {} /\ none \subseteq InList \cup InHands(k)
      BY <3>1, <3>2, <3>3, <3>4
    <3>6. \A x \in none : ~IsListed(x) /\ IsWaiting(x)' /\ flag'[x] # 2
      BY <3>1
    <3>7. \A x \in none : ~(IsWaiting(x)' /\ flag'[x] # 2)
      BY <3>1
    <3>8. \A x \in Waiters : x \notin none \cup none =>
             ((IsWaiting(x)' /\ flag'[x] # 2) <=> (IsWaiting(x) /\ flag[x] # 2))
      BY <2>13
    <3>9. Ends(back', head'.blk) /\ back' \in WaitLinks
      BY <1>1, <1>4, <2>6, <2>9 DEF WaitTypes, Ends
    <3>10. \A x \in Waiters : (x \notin InList /\ IsListed(x)) =>
              back'[x] = back[x] /\ notify'[x] = notify[x]
      BY <1>4, <2>10
    <3>11. \A x \in Waiters : FlagFits(x)'
      BY <2>13
    <3>. QED  BY <1>1, <1>2, <2>8, <3>3, <3>5, <3>6, <3>7, <3>8, <3>9, <3>10, <3>11, PlacesStep
  <2>15. WaitWakes'
    <3>1. wakes'[k] = wakes[k] /\ pc'[k] \in Releasing /\ pc'[k] # "releaseOfList"
      BY <1>4, <2>5 DEF Releasing
    <3>2. \A x \in Waiters : Owed(x)' <=> Owed(x)
      BY <2>13
    <3>. QED  BY <1>1, <1>2, <2>8, <3>1, <3>2, WakesKept
  <2>. QED  BY <2>11, <2>12, <2>14, <2>15 DEF WaitInv
<1>. QED  BY <1>6, <1>7

(* A waker takes an older block out of the list: y, that x leads to.       *)
UnlinkedBlock(f, m, n, b, c, y, x, g, m2, n2) ==
  /\ b \in Blocks /\ c \in Waiters /\ x \in Waiters
  /\ Ends(f, b) /\ Hinted(f, m, n, b, c) /\ Walkable(f, m, n, b, c) /\ m[b] = Nil
  /\ y \in Reach(f, c) /\ y # c /\ x = m[y]
  /\ g[x] = f[y] /\ \A u \in Waiters : u # x => g[u] = f[u]
  /\ \A u \in Waiters : u # f[y] => m2[u] = m[u]
  /\ \A u \in Waiters : u # x /\ u # c => n2[u] = n[u]
  /\ f[y] # Nil => m2[f[y]] = x /\ n2 = n
  /\ f[y] = Nil => n2[c] = x

LEMMA HintUnlinked ==
  ASSUME WaitAssumption,
         NEW f \in WaitLinks, NEW m \in WaitLinks, NEW n \in WaitLinks, NEW b, NEW c, NEW y, NEW x,
         NEW g \in WaitLinks, NEW m2 \in WaitLinks, NEW n2 \in WaitLinks,
         UnlinkedBlock(f, m, n, b, c, y, x, g, m2, n2)
  PROVE  /\ m2[b] = Nil /\ Ends(g, b)
         /\ Reach(g, b) = Reach(f, b) \ {y}
         /\ Hinted(g, m2, n2, b, c) /\ Walkable(g, m2, n2, b, c) /\ x \in Reach(g, c)
<1>1. /\ b \in Blocks /\ c \in Waiters /\ x \in Waiters
      /\ Ends(f, b) /\ Hinted(f, m, n, b, c) /\ Walkable(f, m, n, b, c) /\ m[b] = Nil
      /\ y \in Reach(f, c) /\ y # c /\ x = m[y]
      /\ g[x] = f[y] /\ \A u \in Waiters : u # x => g[u] = f[u]
      /\ \A u \in Waiters : u # f[y] => m2[u] = m[u]
      /\ \A u \in Waiters : u # x /\ u # c => n2[u] = n[u]
      /\ f[y] # Nil => m2[f[y]] = x /\ n2 = n
      /\ f[y] = Nil => n2[c] = x
  BY DEF UnlinkedBlock
<1>2. /\ x \in Reach(f, c) /\ f[x] = y /\ x # y /\ m2[b] = Nil
      /\ Reach(g, b) = Reach(f, b) \ {y} /\ Ends(g, b)
      /\ Hinted(g, m2, n2, b, c) /\ Walkable(g, m2, n2, b, c)
      /\ x \in Reach(g, c)
  BY <1>1, HintUnlink
<1>. QED  BY <1>2

LEMMA WakeBehindStep ==
  ASSUME WaitAssumption, WaitInv, NEW k \in Wakers, WakeBehind(k)
  PROVE  WaitInv'
<1>1. WaitTypes /\ WaitHints /\ WaitLock /\ WaitWakes /\ WaitPlaces /\ Ends(back, head.blk)
  BY DEF WaitInv, WaitPlaces, ListsEnd
<1>2. k \in Callers /\ k \notin Waiters
  BY WaitersAndWakers
<1>3. PICK y \in Blocks : y = item[k]
  BY <1>1, <1>2 DEF WaitTypes
<1>4. PICK x \in Blocks \cup {notify[y]} : x = notify[y]
  OBVIOUS
<1>5. PICK c \in Blocks : c = cur[k].blk
  BY <1>1, <1>2, WordParts DEF WaitTypes
<1>6. /\ pc[k] = "wakeItem" /\ y # Nil /\ y # c /\ y \in Waiters /\ MarkWoken(k, y)
      /\ back' = [back EXCEPT ![x] = back[y]]
      /\ head' = head /\ cur' = cur /\ then' = then /\ last' = last
  <2>1. /\ pc[k] = "wakeItem" /\ y # Nil /\ y # c /\ MarkWoken(k, y)
        /\ back' = [back EXCEPT ![x] = back[y]]
        /\ head' = head /\ cur' = cur /\ then' = then /\ last' = last
    BY <1>3, <1>4, <1>5 DEF WakeBehind, Matches
  <2>. QED  BY <2>1, WaitersAndWakers
<1>7. Walking(k)
  BY <1>3, <1>6 DEF Walking
<1>8. PICK b \in Waiters : b = head.blk
  BY <1>2, <1>7, WalkedNotEmpty
<1>0. b \in Blocks
  BY WaitersAndWakers
<1>9. /\ head.lock /\ HoldsLock(k) /\ c \in Waiters /\ notify[b] = Nil
      /\ Walkable(back, notify, next, b, c) /\ Hinted(back, notify, next, b, c)
      /\ y \in Reach(back, c)
  <2>1. head.lock /\ HoldsLock(k) /\ c \in Waiters /\ Walkable(back, notify, next, b, c)
    BY <1>2, <1>5, <1>7, <1>8, WalkedNotEmpty
  <2>2. notify[b] = Nil
    BY <1>1, <1>8, WaitersAndWakers DEF WaitHints
  <2>3. Hinted(back, notify, next, b, c) /\ y \in Reach(back, c)
    BY <1>1, <1>2, <1>3, <1>5, <1>6, <1>8 DEF WaitHints
  <2>. QED  BY <2>1, <2>2, <2>3
<1>10. back \in WaitLinks /\ notify \in WaitLinks /\ next \in WaitLinks
       /\ \A z \in Waiters : back[z] \in Blocks
  BY <1>1 DEF WaitTypes, WaitLinks
<1>11. x \in Reach(back, c) /\ x \in Waiters
  <2>1. c \in Blocks
    OBVIOUS
  <2>2. PICK z \in Reach(back, c) : back[z] = y
    BY <1>6, <1>9, <1>10, <2>1, ReachBefore
  <2>3. notify[y] = z
    BY <1>6, <1>9, <2>2 DEF Hinted
  <2>. QED  BY <1>4, <1>9, <1>10, <2>2, <2>3, ReachClosed
<1>12. c \in Reach(back, b) /\ Reach(back, c) \subseteq Reach(back, b)
  <2>1. c \in Reach(back, b)
    BY <1>9 DEF Walkable
  <2>. QED  BY <1>0, <1>10, <2>1, ReachSub
<1>13. PICK g \in WaitLinks : g = back'
  BY <1>6, <1>10, <1>11 DEF WaitLinks
<1>14. g[x] = back[y] /\ \A u \in Waiters : u # x => g[u] = back[u]
  BY <1>6, <1>10, <1>11, <1>13 DEF WaitLinks
<1>15. /\ notify' \in WaitLinks /\ next' \in WaitLinks
       /\ \A u \in Waiters : u # back[y] => notify'[u] = notify[u]
       /\ \A u \in Waiters : u # x /\ u # c => next'[u] = next[u]
       /\ back[y] # Nil => notify'[back[y]] = x /\ next' = next
       /\ back[y] = Nil => next'[c] = x
  <2>1. CASE back[y] # Nil
    <3>1. notify' = [notify EXCEPT ![back[y]] = x] /\ next' = next
      BY <1>3, <1>4, <2>1 DEF WakeBehind
    <3>2. PICK o \in Waiters : o = back[y]
      BY <1>6, <1>10, <2>1, WaitersAndWakers
    <3>3. notify' \in WaitLinks /\ next' \in WaitLinks
      BY <1>10, <1>11, <3>1 DEF WaitLinks, Blocks
    <3>4. (\A u \in Waiters : u # o => notify'[u] = notify[u]) /\ notify'[o] = x
      BY <1>10, <3>1, <3>2 DEF WaitLinks
    <3>. QED  BY <2>1, <3>1, <3>2, <3>3, <3>4
  <2>2. CASE back[y] = Nil
    <3>1. next' = [next EXCEPT ![c] = x, ![x] = x] /\ notify' = notify
      BY <1>3, <1>4, <1>5, <2>2 DEF WakeBehind
    <3>2. notify' \in WaitLinks /\ next' \in WaitLinks
      BY <1>10, <1>11, <3>1 DEF WaitLinks, Blocks
    <3>3. (\A u \in Waiters : u # x /\ u # c => next'[u] = next[u]) /\ next'[c] = x
      BY <1>9, <1>10, <1>11, <3>1 DEF WaitLinks
    <3>. QED  BY <2>2, <3>1, <3>2, <3>3
  <2>. QED  BY <2>1, <2>2
<1>16. PICK m2 \in WaitLinks : m2 = notify'
  BY <1>15
<1>17. PICK n2 \in WaitLinks : n2 = next'
  BY <1>15
<1>18. UnlinkedBlock(back, notify, next, b, c, y, x, g, m2, n2)
  <2>1. Ends(back, b)
    BY <1>1, <1>8
  <2>2. /\ \A u \in Waiters : u # back[y] => m2[u] = notify[u]
        /\ \A u \in Waiters : u # x /\ u # c => n2[u] = next[u]
        /\ back[y] # Nil => m2[back[y]] = x /\ n2 = next
        /\ back[y] = Nil => n2[c] = x
    BY <1>15, <1>16, <1>17
  <2>. QED  BY <1>0, <1>4, <1>6, <1>9, <1>11, <1>14, <2>1, <2>2 DEF UnlinkedBlock
<1>19. /\ m2[b] = Nil /\ Ends(g, b) /\ Reach(g, b) = Reach(back, b) \ {y}
       /\ Hinted(g, m2, n2, b, c) /\ Walkable(g, m2, n2, b, c) /\ x \in Reach(g, c)
  BY <1>10, <1>18, HintUnlinked
<1>20. y \in InList /\ IsListed(y)
  BY <1>8, <1>9, <1>12 DEF InList, IsListed
<1>21. /\ wakes' \in [Callers -> Seq(Waiters)] /\ flag' \in [Waiters -> {0, 1, 2, 4}]
       /\ flag' = [flag EXCEPT ![y] = 2] /\ flag'[y] = 2
       /\ item' \in [Callers -> Blocks] /\ item' = [item EXCEPT ![k] = notify[y]]
       /\ pc'[k] \in {"release", "wakeItem"} /\ pc' = [pc EXCEPT ![k] = pc'[k]]
       /\ pc' \in [Callers -> WaiterLabels \cup WakerLabels]
       /\ \A u \in Callers : u # k => wakes'[u] = wakes[u] /\ pc'[u] = pc[u]
       /\ flag[y] = 0 => /\ Distinct(wakes'[k])
                         /\ RangeOf(wakes'[k]) = {y} \cup RangeOf(wakes[k])
       /\ flag[y] # 0 => wakes'[k] = wakes[k]
  BY <1>6, <1>20, MarkTypes
<1>22. item'[k] = x /\ \A u \in Callers : u # k => item'[u] = item[u]
  BY <1>1, <1>2, <1>4, <1>21 DEF WaitTypes
<1>23. Others(k) /\ OwnLabel(k)
  <2>1. Others(k)
    BY <1>6, <1>21, <1>22 DEF Others
  <2>2. OwnLabel(k)
    BY <1>1, <1>2, <1>6, <1>21 DEF OwnLabel, WakerLabels, WaitTypes
  <2>. QED  BY <2>1, <2>2
<1>24. WaitTypes'
  <2>1. /\ pc' \in [Callers -> WaiterLabels \cup WakerLabels]
        /\ \A w \in Waiters : pc'[w] \in WaiterLabels
        /\ \A u \in Wakers : pc'[u] \in WakerLabels /\ then'[u] = "out"
    BY <1>1, <1>2, <1>23, LabelTypes
  <2>. QED  BY <1>1, <1>6, <1>13, <1>15, <1>21, <2>1 DEF WaitTypes
<1>25. ~last[k] /\ HoldsLock(k)' /\ (HoldsLock(k)' <=> HoldsLock(k))
  <2>1. ~last[k]
    BY <1>1, <1>2, <1>3, <1>6 DEF WaitLock
  <2>2. HoldsLock(k)'
    BY <1>6, <1>21, <2>1 DEF HoldsLock
  <2>. QED  BY <1>9, <2>1, <2>2
<1>26. WaitLock'
  <2>1. LockMove(k) /\ WordFits'
    BY <1>2, <1>6, <1>25, CallerSameLock
  <2>2. LastFits(k)'
    BY <1>6, <1>25 DEF LastFits
  <2>. QED  BY <1>1, <1>2, <1>23, <2>1, <2>2, OthersLock
<1>27. WaitHints'
  <2>1. head'.blk # Nil => /\ notify'[head'.blk] = Nil
                           /\ \E h \in Waiters : Hinted(back', notify', next', head'.blk, h)
    BY <1>6, <1>8, <1>9, <1>13, <1>16, <1>17, <1>19
  <2>2. Walking(k)' => Walkable(back', notify', next', head'.blk, cur'[k].blk)
    BY <1>5, <1>6, <1>8, <1>13, <1>16, <1>17, <1>19
  <2>3. (Walking(k)' /\ pc'[k] = "wakeItem" /\ item'[k] # Nil) =>
           /\ Hinted(back', notify', next', head'.blk, cur'[k].blk)
           /\ item'[k] \in Reach(back', cur'[k].blk)
    BY <1>5, <1>6, <1>8, <1>13, <1>16, <1>17, <1>19, <1>22
  <2>. QED  BY <1>2, <1>25, <1>26, <2>1, <2>2, <2>3, HintsOfHolder
<1>28. \A w \in Waiters : w # k /\ w \in Callers /\ pc'[w] = pc[w] /\ then'[w] = then[w]
  BY <1>2, <1>6, <1>21, WaitersAndWakers
<1>29. FlagFits(y)'
  <2>1. pc'[y] = pc[y] /\ then'[y] = then[y] /\ flag'[y] = 2
    BY <1>6, <1>21, <1>28
  <2>2. /\ FlagFits(y)' /\ ~Owed(y) /\ IsWaiting(y) /\ flag[y] # 2
        /\ Owed(y)' <=> flag[y] = 0
    BY <1>6, <1>20, <2>1, MarkedBlock
  <2>. QED  BY <2>2
<1>30. \A w \in Waiters : w # y => flag'[w] = flag[w]
  BY <1>1, <1>21 DEF WaitTypes
<1>31. WaitPlaces'
  <2>1. PICK none \in SUBSET Waiters : none = {}
    OBVIOUS
  <2>2. PICK gone \in SUBSET Waiters : gone = {y}
    BY <1>6
  <2>3. InList' = InList \ gone /\ gone \subseteq InList
    BY <1>6, <1>8, <1>13, <1>19, <1>20, <2>2 DEF InList
  <2>4. InHands(k) = {} /\ InHands(k)' = {} /\ HandEnds(k)'
    <3>1. pc[k] \notin OfList \cup {"wakeHeadFlag"} /\ pc'[k] \notin OfList \cup {"wakeHeadFlag"}
      BY <1>6, <1>21 DEF OfList
    <3>. QED  BY <1>2, <3>1, EmptyHands
  <2>5. \A w \in Waiters : (w \notin InList /\ IsListed(w)) =>
            back'[w] = back[w] /\ notify'[w] = notify[w]
    <3>1. x \in InList
      BY <1>8, <1>11, <1>12 DEF InList
    <3>2. back[y] \in InList \cup {Nil}
      <4>1. head.blk \in Blocks
        BY <1>0, <1>8
      <4>. QED  BY <1>10, <1>20, <4>1, ReachClosed DEF InList
    <3>. QED  BY <1>13, <1>14, <1>15, <3>1, <3>2, WaitersAndWakers
  <2>6. \A w \in Waiters : FlagFits(w)'
    <3>. SUFFICES ASSUME NEW w \in Waiters PROVE FlagFits(w)'
      OBVIOUS
    <3>1. CASE w = y
      BY <1>29, <3>1
    <3>2. CASE w # y
      BY <1>1, <1>2, <1>23, <1>28, <1>30, <3>2, OthersFit
    <3>. QED  BY <3>1, <3>2
  <2>7. /\ InList' \cup InHands(k)' = ((InList \cup InHands(k)) \ gone) \cup none
        /\ InList' \cap InHands(k)' = {} /\ gone \subseteq InList \cup InHands(k)
    BY <2>1, <2>3, <2>4
  <2>8. \A w \in none : ~IsListed(w) /\ IsWaiting(w)' /\ flag'[w] # 2
    BY <2>1
  <2>9. \A w \in gone : ~(IsWaiting(w)' /\ flag'[w] # 2)
    BY <1>21, <2>2
  <2>10. \A w \in Waiters : w \notin gone \cup none =>
           ((IsWaiting(w)' /\ flag'[w] # 2) <=> (IsWaiting(w) /\ flag[w] # 2))
    BY <1>1, <1>2, <1>23, <1>28, <1>30, <2>2, OthersFit
  <2>11. Ends(back', head'.blk) /\ back' \in WaitLinks
    BY <1>6, <1>8, <1>13, <1>19
  <2>. QED  BY <1>1, <1>2, <1>23, <2>4, <2>5, <2>6, <2>7, <2>8, <2>9, <2>10, <2>11, PlacesStep
<1>32. WaitWakes'
  <2>1. pc'[k] \in Releasing /\ pc'[k] # "releaseOfList"
    BY <1>21 DEF Releasing
  <2>. QED  BY <1>2, <1>6, <1>20, <1>21, <1>23, <1>28, <2>1, MarkedWakes
<1>. QED  BY <1>24, <1>26, <1>27, <1>31, <1>32 DEF WaitInv

(* The keyed event of block b is released by t.                            *)
Released(t, b, label) ==
  /\ Meet(t, b, label) /\ b \in RangeOf(wakes[t])
  /\ wakes' \in [Callers -> Seq(Waiters)]
  /\ \A u \in Callers : u # t => wakes'[u] = wakes[u]
  /\ Distinct(wakes'[t]) /\ RangeOf(wakes'[t]) = RangeOf(wakes[t]) \ {b}
  /\ head' = head /\ back' = back /\ notify' = notify /\ next' = next /\ flag' = flag
  /\ cur' = cur /\ item' = item /\ then' = then /\ last' = last
  /\ \/ pc[t] = "releaseOfList" /\ label = "wakeList" /\ wakes'[t] = <<>>
     \/ pc[t] = "release" /\ label = "release" /\ t \in Wakers

LEMMA ReleasedStep ==
  ASSUME WaitAssumption,
         WaitInv, NEW t \in Callers, NEW b \in Waiters, NEW label, Released(t, b, label)
  PROVE  WaitInv'
<1>1. WaitTypes /\ WaitHints /\ WaitLock /\ WaitWakes /\ WaitPlaces
  BY DEF WaitInv
<1>2. /\ b \in RangeOf(wakes[t]) /\ wakes' \in [Callers -> Seq(Waiters)]
      /\ \A u \in Callers : u # t => wakes'[u] = wakes[u]
      /\ Distinct(wakes'[t]) /\ RangeOf(wakes'[t]) = RangeOf(wakes[t]) \ {b}
      /\ head' = head /\ back' = back /\ notify' = notify /\ next' = next /\ flag' = flag
      /\ cur' = cur /\ item' = item /\ then' = then /\ last' = last
      /\ pc[b] \in {"keyed", "keyedAgain", "keyedLocked"}
      /\ pc' = [pc EXCEPT ![t] = label,
                          ![b] = IF @ = "keyedLocked" THEN "unlock" ELSE "out"]
  BY DEF Released, Meet
<1>3. \/ pc[t] = "releaseOfList" /\ label = "wakeList" /\ wakes'[t] = <<>>
      \/ pc[t] = "release" /\ label = "release" /\ t \in Wakers
  BY DEF Released
<1>4. b # t /\ b \in Callers /\ b \notin Wakers /\ back \in WaitLinks
  BY <1>1, <1>2, <1>3, WaitersAndWakers DEF WaitTypes
<1>5. /\ pc'[t] = label /\ pc'[b] = (IF pc[b] = "keyedLocked" THEN "unlock" ELSE "out")
      /\ \A u \in Callers : (u # t /\ u # b) => pc'[u] = pc[u]
      /\ pc' \in [Callers -> WaiterLabels \cup WakerLabels]
  BY <1>1, <1>2, <1>3, <1>4 DEF WaitTypes, WaiterLabels, WakerLabels
<1>6. pc'[b] \in {"out", "unlock"} /\ label \in {"wakeList", "release"}
  BY <1>3, <1>5
<1>7. Owed(b) /\ wakes[b] = <<>>
  <2>1. Owed(b)
    BY <1>1, <1>2 DEF WaitWakes
  <2>2. wakes[b] = <<>>
    BY <1>1, <1>2, <1>4 DEF WaitWakes
  <2>. QED  BY <2>1, <2>2
<1>8. WaitTypes'
  <2>1. \A w \in Waiters : pc'[w] \in WaiterLabels
    <3>. SUFFICES ASSUME NEW w \in Waiters PROVE pc'[w] \in WaiterLabels
      OBVIOUS
    <3>1. w \in Callers /\ w \notin Wakers /\ pc[w] \in WaiterLabels
      BY <1>1, WaitersAndWakers DEF WaitTypes
    <3>. QED  BY <1>3, <1>5, <1>6, <3>1 DEF WaiterLabels
  <2>2. \A k \in Wakers : pc'[k] \in WakerLabels /\ then'[k] = "out"
    <3>. SUFFICES ASSUME NEW k \in Wakers PROVE pc'[k] \in WakerLabels /\ then'[k] = "out"
      OBVIOUS
    <3>1. k \in Callers /\ k # b /\ pc[k] \in WakerLabels /\ then[k] = "out"
      BY <1>1, <1>4, WaitersAndWakers DEF WaitTypes
    <3>. QED  BY <1>2, <1>5, <1>6, <3>1 DEF WakerLabels
  <2>. QED  BY <1>1, <1>2, <1>5, <2>1, <2>2 DEF WaitTypes
<1>9. WaitLock'
  <2>1. \A u \in Callers : HoldsLock(u)' <=> HoldsLock(u)
    <3>. SUFFICES ASSUME NEW u \in Callers PROVE HoldsLock(u)' <=> HoldsLock(u)
      OBVIOUS
    <3>1. CASE u = t
      BY <1>2, <1>3, <1>5, <3>1 DEF HoldsLock
    <3>2. CASE u = b
      BY <1>2, <1>4, <1>5, <3>2 DEF HoldsLock
    <3>3. CASE u # t /\ u # b
      BY <1>2, <1>5, <3>3 DEF HoldsLock
    <3>. QED  BY <3>1, <3>2, <3>3
  <2>2. \A u \in Callers : LastFits(u)'
    <3>. SUFFICES ASSUME NEW u \in Callers PROVE LastFits(u)'
      OBVIOUS
    <3>1. CASE u = t \/ u = b
      BY <1>5, <1>6, <3>1 DEF LastFits
    <3>2. CASE u # t /\ u # b
      BY <1>1, <1>2, <1>5, <3>2 DEF LastFits, WaitLock
    <3>. QED  BY <3>1, <3>2
  <2>3. LockMove(t) /\ WordFits'
    BY <1>1, <1>2, <2>1 DEF LockMove, WordFits, WaitLock
  <2>. QED  BY <1>1, <2>1, <2>2, <2>3, LockStep
<1>10. WaitHints'
  <2>1. ~Walking(t)' /\ ~(pc'[t] = "wakeItem" /\ item'[t] # Nil)
    BY <1>5, <1>6 DEF Walking
  <2>2. \A u \in Callers : (u # t /\ Walking(u)') =>
           Walking(u) /\ cur'[u] = cur[u] /\ item'[u] = item[u] /\ pc'[u] = pc[u]
    <3>. SUFFICES ASSUME NEW u \in Callers, u # t, Walking(u)'
                  PROVE  Walking(u) /\ cur'[u] = cur[u] /\ item'[u] = item[u] /\ pc'[u] = pc[u]
      OBVIOUS
    <3>1. u # b
      BY <1>6 DEF Walking
    <3>. QED  BY <1>2, <1>5, <3>1 DEF Walking
  <2>3. head'.blk = head.blk
    BY <1>2
  <2>. QED  BY <1>1, <1>2, <2>1, <2>2, <2>3, QuietHints
<1>11. \A x \in Waiters : x # b =>
          /\ FlagFits(x)' /\ (Owed(x)' <=> Owed(x))
          /\ (IsWaiting(x)' /\ flag'[x] # 2) <=> (IsWaiting(x) /\ flag[x] # 2)
  <2>. SUFFICES ASSUME NEW x \in Waiters, x # b
                PROVE  /\ FlagFits(x)' /\ (Owed(x)' <=> Owed(x))
                       /\ (IsWaiting(x)' /\ flag'[x] # 2) <=> (IsWaiting(x) /\ flag[x] # 2)
    OBVIOUS
  <2>1. FlagFits(x) /\ x \in Callers /\ x \notin Wakers
    BY <1>1, WaitersAndWakers DEF WaitPlaces, FlagsFit
  <2>2. CASE x = t
    <3>1. pc[x] \in OfList /\ pc'[x] \in OfList
      BY <1>3, <1>5, <2>1, <2>2 DEF OfList
    <3>. QED  BY <1>1, <1>2, <2>1, <3>1, StillOfList
  <2>3. CASE x # t
    <3>1. pc'[x] = pc[x] /\ flag'[x] = flag[x] /\ then'[x] = then[x]
      BY <1>2, <1>5, <2>1, <2>3
    <3>2. FlagFits(x)'
      BY <2>1, <3>1 DEF FlagFits
    <3>3. (Owed(x)' <=> Owed(x)) /\ (IsWaiting(x)' <=> IsWaiting(x))
      BY <3>1 DEF Owed, IsWaiting
    <3>. QED  BY <3>1, <3>2, <3>3
  <2>. QED  BY <2>2, <2>3
<1>12. /\ FlagFits(b)' /\ ~Owed(b)'
       /\ ~(IsWaiting(b)' /\ flag'[b] # 2) /\ ~(IsWaiting(b) /\ flag[b] # 2)
  <2>1. FlagFits(b)' /\ ~Owed(b)' /\ ~IsWaiting(b)'
    BY <1>6 DEF FlagFits, Owed, IsWaiting, Asleep, Spinning, Leaving, OfList
  <2>2. ~(IsWaiting(b) /\ flag[b] # 2)
    BY <1>7 DEF Owed, IsWaiting, Asleep, Spinning, Leaving, OfList
  <2>. QED  BY <2>1, <2>2
<1>13. WaitPlaces'
  <2>1. PICK none \in SUBSET Waiters : none = {}
    OBVIOUS
  <2>2. InList' = InList /\ back' \in WaitLinks
    BY <1>2, <1>4 DEF InList
  <2>3. ListsEnd /\ ListsApart /\ ListedWait
    BY <1>1 DEF WaitPlaces
  <2>4. InHands(t)' = InHands(t) /\ HandEnds(t)'
    <3>1. CASE pc[t] = "releaseOfList"
      BY <1>2, <1>3, <1>5, <2>3, <3>1 DEF InHands, HandEnds, OfList, ListsEnd
    <3>2. CASE pc[t] = "release"
      <4>1. pc[t] \notin OfList \cup {"wakeHeadFlag"} /\ pc'[t] \notin OfList \cup {"wakeHeadFlag"}
        BY <1>3, <1>5, <3>2 DEF OfList
      <4>. QED  BY <4>1, EmptyHands
    <3>. QED  BY <1>3, <3>1, <3>2
  <2>5. \A u \in Callers : u # t => InHands(u)' = InHands(u) /\ HandEnds(u)'
    <3>1. \A u \in Callers : (u # t /\ pc[u] \in OfList \cup {"wakeHeadFlag"}) =>
            pc'[u] = pc[u] /\ item'[u] = item[u]
      BY <1>2, <1>5 DEF OfList
    <3>2. \A u \in Callers : (u # t /\ pc[u] \notin OfList \cup {"wakeHeadFlag"}) =>
            pc'[u] \notin OfList \cup {"wakeHeadFlag"}
      <4>1. pc'[b] \notin OfList \cup {"wakeHeadFlag"}
        BY <1>6 DEF OfList
      <4>. QED  BY <1>5, <4>1
    <3>3. \A x \in Waiters : (x \notin InList /\ IsListed(x)) =>
            back'[x] = back[x] /\ notify'[x] = notify[x]
      BY <1>2
    <3>. QED  BY <1>1, <2>2, <2>3, <3>1, <3>2, <3>3, OthersHands
  <2>6. ListsApart' /\ ListedWait'
    <3>1. /\ InList' \cup InHands(t)' = ((InList \cup InHands(t)) \ none) \cup none
          /\ InList' \cap InHands(t)' = {} /\ none \subseteq InList \cup InHands(t)
      BY <2>1, <2>2, <2>3, <2>4 DEF ListsApart
    <3>2. \A x \in none : ~IsListed(x) /\ IsWaiting(x)' /\ flag'[x] # 2
      BY <2>1
    <3>3. \A x \in none : ~(IsWaiting(x)' /\ flag'[x] # 2)
      BY <2>1
    <3>4. \A x \in Waiters : x \notin none \cup none =>
             ((IsWaiting(x)' /\ flag'[x] # 2) <=> (IsWaiting(x) /\ flag[x] # 2))
      BY <1>11, <1>12
    <3>5. \A u \in Callers : u # t => InHands(u)' = InHands(u)
      BY <2>5
    <3>. QED  BY <2>3, <3>1, <3>2, <3>3, <3>4, <3>5, PlacesMove
  <2>7. ListsEnd'
    <3>1. Ends(back', head'.blk)
      BY <1>2, <2>3 DEF ListsEnd
    <3>. QED  BY <2>4, <2>5, <3>1 DEF ListsEnd
  <2>8. FlagsFit'
    BY <1>11, <1>12 DEF FlagsFit
  <2>. QED  BY <2>6, <2>7, <2>8 DEF WaitPlaces
<1>14. WaitWakes'
  <2>1. PICK none \in SUBSET Waiters : none = {}
    OBVIOUS
  <2>2. PICK gone \in SUBSET Waiters : gone = {b}
    OBVIOUS
  <2>3. \A u \in Callers : u # t => /\ wakes'[u] = wakes[u]
                                    /\ wakes[u] # <<>> => pc'[u] = pc[u]
                                    /\ pc'[u] = "releaseOfList" => pc[u] = "releaseOfList"
    BY <1>2, <1>5, <1>6, <1>7
  <2>4. wakes'[t] # <<>> => pc'[t] \in Releasing
    BY <1>3, <1>5 DEF Releasing
  <2>5. pc'[t] = "releaseOfList" => Len(wakes'[t]) = 1
    BY <1>5, <1>6
  <2>6. gone \subseteq RangeOf(wakes[t]) /\ RangeOf(wakes'[t]) = (RangeOf(wakes[t]) \ gone) \cup none
    BY <1>2, <2>1, <2>2
  <2>7. \A x \in none : ~Owed(x) /\ Owed(x)' /\ x \in Waiters
    BY <2>1
  <2>8. \A x \in gone : ~Owed(x)'
    BY <1>12, <2>2
  <2>9. \A x \in Waiters : x \notin gone \cup none => (Owed(x)' <=> Owed(x))
    BY <1>11, <2>2
  <2>10. Distinct(wakes'[t])
    BY <1>2
  <2>. QED  BY <1>1, <2>3, <2>4, <2>5, <2>6, <2>7, <2>8, <2>9, <2>10, WakesMove
<1>. QED  BY <1>8, <1>9, <1>10, <1>13, <1>14 DEF WaitInv

LEMMA ReleaseSteps ==
  ASSUME WaitAssumption,
         WaitInv, NEW t \in Callers, ReleaseOfList(t) \/ (t \in Wakers /\ Release(t))
  PROVE  WaitInv'
<1>1. wakes \in [Callers -> Seq(Waiters)] /\ Distinct(wakes[t])
      /\ (pc[t] = "releaseOfList" => Len(wakes[t]) = 1)
  BY DEF WaitInv, WaitTypes, WaitWakes
<1>2. wakes[t] # <<>>
  <2>1. CASE ReleaseOfList(t)
    <3>1. Len(wakes[t]) = 1
      BY <1>1, <2>1 DEF ReleaseOfList
    <3>. QED  BY <3>1
  <2>. QED  BY <2>1 DEF Release
<1>3. PICK s \in Seq(Waiters) : s = wakes[t]
  BY <1>1
<1>4. PICK b \in Waiters : b = Head(s)
  BY <1>1, <1>2, <1>3, WakesPop
<1>5. /\ Tail(s) \in Seq(Waiters) /\ Distinct(Tail(s)) /\ b \in RangeOf(s) /\ s[1] = b
      /\ RangeOf(Tail(s)) = RangeOf(s) \ {b} /\ (Len(s) = 1 => Tail(s) = <<>>)
  BY <1>1, <1>2, <1>3, <1>4, WakesPop
<1>6. CASE ReleaseOfList(t)
  <2>1. Tail(s) = <<>>
    BY <1>1, <1>3, <1>5, <1>6 DEF ReleaseOfList
  <2>2. /\ Meet(t, b, "wakeList") /\ wakes' = [wakes EXCEPT ![t] = <<>>]
        /\ pc[t] = "releaseOfList"
        /\ head' = head /\ back' = back /\ notify' = notify /\ next' = next /\ flag' = flag
        /\ cur' = cur /\ item' = item /\ then' = then /\ last' = last
    BY <1>3, <1>5, <1>6 DEF ReleaseOfList, links
  <2>3. /\ wakes'[t] = <<>> /\ wakes' \in [Callers -> Seq(Waiters)]
        /\ \A u \in Callers : u # t => wakes'[u] = wakes[u]
    BY <1>1, <1>5, <2>1, <2>2
  <2>4. Released(t, b, "wakeList")
    BY <1>3, <1>5, <2>1, <2>2, <2>3 DEF Released
  <2>. QED  BY <2>4, ReleasedStep
<1>7. CASE t \in Wakers /\ Release(t)
  <2>1. /\ Meet(t, b, "release") /\ wakes' = [wakes EXCEPT ![t] = Tail(s)] /\ pc[t] = "release"
        /\ head' = head /\ back' = back /\ notify' = notify /\ next' = next /\ flag' = flag
        /\ cur' = cur /\ item' = item /\ then' = then /\ last' = last
    BY <1>1, <1>3, <1>4, <1>7 DEF Release, links
  <2>2. /\ wakes'[t] = Tail(s) /\ wakes' \in [Callers -> Seq(Waiters)]
        /\ \A u \in Callers : u # t => wakes'[u] = wakes[u]
    BY <1>1, <1>5, <2>1
  <2>3. Released(t, b, "release")
    BY <1>3, <1>5, <1>7, <2>1, <2>2 DEF Released
  <2>. QED  BY <2>3, ReleasedStep
<1>. QED  BY <1>6, <1>7

-----------------------------------------------------------------------------
(* The invariant of the specification, and what follows from it.           *)
LEMMA WaitInit ==
  ASSUME WaitAssumption, Init
  PROVE  WaitInv
<1>1. /\ head = Empty /\ back = [w \in Waiters |-> Nil] /\ pc = [t \in Callers |-> "out"]
      /\ wakes = [t \in Callers |-> <<>>] /\ last = [t \in Callers |-> FALSE]
  BY DEF Init
<1>2. /\ Empty \in Words /\ Empty.blk = Nil /\ ~Empty.lock /\ ~Empty.all
  BY WordParts
<1>3. WaitTypes
  <2>1. <<>> \in Seq(Waiters) /\ Nil \in Blocks
    BY WaitersAndWakers
  <2>. QED
    BY <1>2, <2>1, WaitersAndWakers
    DEF Init, WaitTypes, WaitLinks, WaiterLabels, WakerLabels
<1>4. \A t \in Callers : /\ ~HoldsLock(t) /\ ~Walking(t) /\ InHands(t) = {} /\ HandEnds(t)
                         /\ pc[t] = "out" /\ wakes[t] = <<>> /\ ~last[t]
  BY <1>1 DEF HoldsLock, Walking, InHands, HandEnds, OfList
<1>5. WaitLock
  BY <1>1, <1>2, <1>4 DEF WaitLock, LockHeldOnce
<1>6. WaitHints
  BY <1>1, <1>2, <1>4 DEF WaitHints
<1>7. InList = {}
  <2>1. back \in WaitLinks
    BY <1>3 DEF WaitTypes
  <2>. QED  BY <1>1, <1>2, <2>1, ReachStep DEF InList
<1>8. \A w \in Waiters : ~IsWaiting(w) /\ ~Owed(w) /\ FlagFits(w) /\ ~IsListed(w)
  <2>1. \A w \in Waiters : pc[w] = "out"
    BY <1>4, WaitersAndWakers
  <2>2. \A w \in Waiters : ~IsWaiting(w) /\ ~Owed(w) /\ FlagFits(w)
    BY <2>1 DEF IsWaiting, Owed, FlagFits, Asleep, Spinning, Leaving, OfList
  <2>3. \A w \in Waiters : ~IsListed(w)
    BY <1>4, <1>7 DEF IsListed
  <2>. QED  BY <2>2, <2>3
<1>9. WaitPlaces
  <2>1. Ends(back, head.blk)
    BY <1>1, <1>2 DEF Ends
  <2>. QED  BY <1>4, <1>7, <1>8, <2>1 DEF WaitPlaces, ListsEnd, ListsApart, ListedWait, FlagsFit
<1>10. WaitWakes
  <2>1. \A t \in Callers : RangeOf(wakes[t]) = {} /\ Distinct(wakes[t])
    BY <1>4 DEF RangeOf, Distinct
  <2>. QED  BY <1>4, <1>8, <2>1 DEF WaitWakes
<1>. QED  BY <1>3, <1>5, <1>6, <1>9, <1>10 DEF WaitInv

LEMMA WaitStutter ==
  ASSUME WaitInv, UNCHANGED vars
  PROVE  WaitInv'
<1>1. /\ head' = head /\ back' = back /\ notify' = notify /\ next' = next /\ flag' = flag
      /\ pc' = pc /\ cur' = cur /\ item' = item /\ wakes' = wakes /\ then' = then
      /\ last' = last
  BY DEF vars
<1>2. WaitTypes'
  BY <1>1 DEF WaitInv, WaitTypes
<1>3. \A t \in Callers : /\ HoldsLock(t)' <=> HoldsLock(t)
                         /\ Walking(t)' <=> Walking(t)
                         /\ InHands(t)' = InHands(t)
                         /\ HandEnds(t)' <=> HandEnds(t)
  BY <1>1 DEF HoldsLock, Walking, InHands, HandEnds
<1>4. WaitLock'
  BY <1>1, <1>3 DEF WaitInv, WaitLock, LockHeldOnce
<1>5. WaitHints'
  BY <1>1, <1>3 DEF WaitInv, WaitHints
<1>6. InList' = InList
  BY <1>1 DEF InList
<1>7. \A w \in Waiters : /\ IsWaiting(w)' <=> IsWaiting(w)
                         /\ Owed(w)' <=> Owed(w)
                         /\ FlagFits(w)' <=> FlagFits(w)
                         /\ IsListed(w)' <=> IsListed(w)
  BY <1>1, <1>3, <1>6 DEF IsWaiting, Owed, FlagFits, IsListed
<1>8. WaitPlaces'
  BY <1>1, <1>3, <1>6, <1>7
  DEF WaitInv, WaitPlaces, ListsEnd, ListsApart, ListedWait, FlagsFit
<1>9. WaitWakes'
  BY <1>1, <1>7 DEF WaitInv, WaitWakes
<1>. QED  BY <1>2, <1>4, <1>5, <1>8, <1>9 DEF WaitInv

LEMMA WaitStep ==
  ASSUME WaitAssumption, WaitInv, [Next]_vars
  PROVE  WaitInv'
<1>1. ASSUME NEW w \in Waiters, Push(w) \/ WaiterStep(w) \/ Timeout(w)
      PROVE  WaitInv'
  <2>1. w \in Callers
    BY WaitersAndWakers
  <2>2. CASE Push(w)
    BY <2>2, PushStep
  <2>3. CASE Compare(w) \/ SpinSucceeds(w) \/ FallAsleep(w) \/ Timeout(w)
             \/ MarkTimedOut(w) \/ GiveUpRemove(w)
    BY <2>3, WaiterQuietSteps
  <2>4. CASE OptimizeWalk(w)
    BY <2>1, <2>4, WalkSteps
  <2>5. CASE OptimizeUnlock(w)
    BY <2>1, <2>5, UnlockSteps
  <2>6. CASE RemoveLock(w)
    BY <2>6, RemoveLockStep
  <2>7. CASE RemoveHead(w)
    BY <2>7, RemoveHeadStep
  <2>8. CASE RemoveBehind(w)
    BY <2>8, RemoveBehindStep
  <2>. QED  BY <1>1, <2>2, <2>3, <2>4, <2>5, <2>6, <2>7, <2>8 DEF WaiterStep
<1>2. ASSUME NEW t \in Callers, ListStep(t)
      PROVE  WaitInv'
  <2>1. CASE Unlock(t)
    BY <2>1, UnlockSteps
  <2>2. CASE WakeNextOfList(t)
    BY <2>2, WakeNextOfListStep
  <2>3. CASE ReleaseOfList(t)
    BY <2>3, ReleaseSteps
  <2>4. CASE EndOfList(t)
    BY <2>4, EndOfListStep
  <2>. QED  BY <1>2, <2>1, <2>2, <2>3, <2>4 DEF ListStep
<1>3. ASSUME NEW k \in Wakers, WakerStep(k)
      PROVE  WaitInv'
  <2>1. k \in Callers
    BY WaitersAndWakers
  <2>2. CASE Change(k) \/ WakeEnd(k) \/ ReleaseEnd(k)
    BY <2>2, WakerQuietSteps
  <2>3. CASE WakeLock(k)
    BY <2>3, WakeLockStep
  <2>4. CASE WakeWalk(k)
    BY <2>1, <2>4, WalkSteps
  <2>5. CASE WakeSkip(k)
    BY <2>5, WakeSkipStep
  <2>6. CASE WakeBehind(k)
    BY <2>6, WakeBehindStep
  <2>7. CASE WakeHead(k)
    BY <2>7, WakeHeadStep
  <2>8. CASE WakeHeadFlag(k)
    BY <2>8, WakeHeadFlagStep
  <2>9. CASE Release(k)
    BY <2>1, <2>9, ReleaseSteps
  <2>. QED  BY <1>3, <2>2, <2>3, <2>4, <2>5, <2>6, <2>7, <2>8, <2>9 DEF WakerStep
<1>4. CASE UNCHANGED vars
  BY <1>4, WaitStutter
<1>. QED  BY <1>1, <1>2, <1>3, <1>4 DEF Next, Finished

LEMMA WaitingInside ==
  ASSUME WaitInv, NEW w \in Waiters, IsListed(w)
  PROVE  Inside(w)
<1>1. IsWaiting(w)
  BY DEF WaitInv, WaitPlaces, ListedWait
<1>. QED  BY <1>1 DEF Inside, IsWaiting, Asleep, Spinning, Leaving, OfList

LEMMA ListIsSoundHolds ==
  ASSUME WaitAssumption, WaitInv
  PROVE  ListIsSound
<1>1. WaitTypes /\ WaitLock /\ WaitHints /\ ListsEnd /\ back \in WaitLinks /\ head.blk \in Blocks
  BY WordParts DEF WaitInv, WaitPlaces, WaitTypes
<1>2. LockHeldOnce
  BY <1>1 DEF WaitLock
<1>3. NoDanglingBlock
  <2>1. SoundList(head.blk)
    <3>1. \A x \in Reach(back, head.blk) : x \in Waiters /\ IsListed(x)
      BY DEF Reach, IsListed, InList
    <3>2. head.blk # Nil => \E x \in Reach(back, head.blk) : back[x] = Nil
      BY <1>1 DEF ListsEnd, Ends
    <3>. QED  BY <3>1, <3>2, FromIs, WaitingInside DEF SoundList
  <2>2. ASSUME NEW t \in Callers, pc[t] = "wakeList"
        PROVE  SoundList(item[t])
    <3>1. InHands(t) = Reach(back, item[t])
      BY <2>2 DEF InHands, OfList
    <3>2. \A x \in Reach(back, item[t]) : x \in Waiters /\ IsListed(x)
      BY <3>1 DEF Reach, IsListed
    <3>3. Ends(back, item[t])
      BY <1>1, <2>2 DEF ListsEnd, HandEnds, OfList
    <3>. QED  BY <3>2, <3>3, FromIs, WaitingInside DEF SoundList, Ends
  <2>3. ASSUME NEW t \in Callers, pc[t] \in {"wakeItem", "wakeHeadFlag"}, item[t] # Nil
        PROVE  Inside(item[t])
    <3>1. item[t] \in Waiters
      BY <1>1, <2>3, WaitersAndWakers DEF WaitTypes
    <3>2. CASE pc[t] = "wakeItem"
      <4>1. /\ Hinted(back, notify, next, head.blk, cur[t].blk)
            /\ item[t] \in Reach(back, cur[t].blk)
        BY <1>1, <2>3, <3>2 DEF WaitHints
      <4>2. cur[t].blk \in Reach(back, head.blk)
        BY <4>1 DEF Hinted
      <4>3. item[t] \in Reach(back, head.blk)
        BY <1>1, <4>1, <4>2, ReachSub
      <4>. QED  BY <3>1, <4>3, WaitingInside DEF IsListed, InList
    <3>3. CASE pc[t] = "wakeHeadFlag"
      <4>1. item[t] \in InHands(t)
        BY <3>3 DEF InHands, OfList
      <4>. QED  BY <3>1, <4>1, WaitingInside DEF IsListed
    <3>. QED  BY <2>3, <3>2, <3>3
  <2>. QED  BY <2>1, <2>2, <2>3 DEF NoDanglingBlock
<1>4. HintIsSound
  <2>. SUFFICES ASSUME head.blk # Nil
                PROVE  /\ \E x \in From(head.blk) : next[x] # Nil
                       /\ next[Hint(head.blk)] \in From(head.blk)
                       /\ back[next[Hint(head.blk)]] = Nil
                       /\ \A x \in From(Hint(head.blk)) : back[x] # Nil => notify[back[x]] = x
                       /\ notify[head.blk] = Nil
    BY DEF HintIsSound
  <2>1. PICK b \in Waiters : b = head.blk
    BY <1>1, WaitersAndWakers
  <2>2. PICK h \in Waiters : Hinted(back, notify, next, b, h)
    BY <1>1, <2>1, WaitersAndWakers DEF WaitHints
  <2>3. notify[b] = Nil /\ Ends(back, b) /\ Walkable(back, notify, next, b, b) /\ b \in Blocks
    BY <1>1, <2>1, NewestWalk, WaitersAndWakers DEF WaitHints, ListsEnd
  <2>4. /\ h \in Reach(back, b) /\ next[h] # Nil /\ Reach(back, h) \subseteq Reach(back, b)
        /\ \A x \in Reach(back, b) \ Reach(back, h) : next[x] = Nil
        /\ \A z \in Reach(back, b) :
             (next[z] # Nil /\ \A x \in Reach(back, b) \ Reach(back, z) : next[x] = Nil) => z = h
    <3>1. PICK f \in WaitLinks : f = back
      BY <1>1
    <3>2. PICK n \in WaitLinks : n = next
      BY <1>1 DEF WaitTypes
    <3>3. Ends(f, b) /\ Hinted(f, notify, n, b, h) /\ Walkable(f, notify, n, b, b)
      BY <2>2, <2>3, <3>1, <3>2
    <3>4. /\ h \in Reach(f, b) /\ n[h] # Nil /\ Reach(f, h) \subseteq Reach(f, b)
          /\ \A x \in Reach(f, b) \ Reach(f, h) : n[x] = Nil
      <4>1. h \in Reach(f, b)
        BY <2>3, <3>3, HintFound
      <4>2. n[h] # Nil
        BY <2>3, <3>3, HintFound
      <4>3. Reach(f, h) \subseteq Reach(f, b)
        BY <2>3, <3>3, HintFound
      <4>4. \A x \in Reach(f, b) \ Reach(f, h) : n[x] = Nil
        BY <3>3 DEF Hinted
      <4>. QED  BY <4>1, <4>2, <4>3, <4>4
    <3>5. \A z \in Reach(f, b) :
            (n[z] # Nil /\ \A x \in Reach(f, b) \ Reach(f, z) : n[x] = Nil) => z = h
      BY <2>3, <3>3, HintFound
    <3>. QED  BY <3>1, <3>2, <3>4, <3>5
  <2>5. Hint(b) = h
    <3>1. \E z \in From(b) : next[z] # Nil /\ \A x \in From(b) \ From(z) : next[x] = Nil
      BY <2>4, FromIs
    <3>2. /\ Hint(b) \in From(b) /\ next[Hint(b)] # Nil
          /\ \A x \in From(b) \ From(Hint(b)) : next[x] = Nil
      BY <3>1 DEF Hint
    <3>. QED  BY <2>4, <3>2, FromIs
  <2>6. /\ next[h] \in Reach(back, h) /\ back[next[h]] = Nil
        /\ \A x \in Reach(back, h) : back[x] # Nil => notify[back[x]] = x
    BY <2>2 DEF Hinted
  <2>. QED  BY <2>1, <2>3, <2>4, <2>5, <2>6, FromIs
<1>. QED  BY <1>2, <1>3, <1>4 DEF ListIsSound

LEMMA ReleaseMeetsWaiterHolds ==
  ASSUME WaitInv
  PROVE  ReleaseMeetsWaiter
<1>1. \A t \in Callers : ToRelease(t) = RangeOf(wakes[t]) /\ RangeOf(wakes[t]) \subseteq Waiters
  <2>. SUFFICES ASSUME NEW t \in Callers
                PROVE  ToRelease(t) = RangeOf(wakes[t]) /\ RangeOf(wakes[t]) \subseteq Waiters
    OBVIOUS
  <2>1. wakes[t] \in Seq(Waiters)
    BY DEF WaitInv, WaitTypes
  <2>2. \A i \in DOMAIN wakes[t] : wakes[t][i] \in Waiters
    BY <2>1
  <2>. QED  BY <2>2 DEF ToRelease, RangeOf
<1>2. \A t \in Callers : \A b \in ToRelease(t) : Owed(b)
  BY <1>1 DEF WaitInv, WaitWakes
<1>3. \A t \in Callers : \A b \in ToRelease(t) :
        pc[b] \in {"keyed", "timedOut", "keyedAgain", "keyedLocked"}
  BY <1>2 DEF Owed, Asleep
<1>4. \A t, u \in Callers : ToRelease(t) \cap ToRelease(u) # {} => t = u
  BY <1>1 DEF WaitInv, WaitWakes
<1>. QED  BY <1>3, <1>4 DEF ReleaseMeetsWaiter

LEMMA NobodyForgottenHolds ==
  ASSUME WaitInv
  PROVE  NobodyForgotten
<1>. SUFFICES ASSUME NEW w \in Waiters,
                     pc[w] \in {"spin", "keyed", "keyedLocked", "keyedAgain"}, flag[w] # 2,
                     w \notin From(head.blk)
              PROVE  \E t \in Callers :
                       \/ pc[t] \in {"wakeList", "releaseOfList"} /\ w \in From(item[t])
                       \/ pc[t] = "wakeHeadFlag" /\ item[t] = w
                       \/ w \in ToRelease(t)
  BY DEF NobodyForgotten
<1>1. CASE pc[w] = "keyedAgain"
  <2>1. Owed(w)
    BY <1>1 DEF Owed
  <2>2. PICK t \in Callers : w \in RangeOf(wakes[t])
    BY <2>1 DEF WaitInv, WaitWakes
  <2>. QED  BY <2>2 DEF RangeOf, ToRelease
<1>2. CASE pc[w] # "keyedAgain"
  <2>1. IsWaiting(w)
    BY <1>2 DEF IsWaiting, Asleep, Spinning
  <2>2. IsListed(w) /\ w \notin InList
    BY <2>1, FromIs DEF WaitInv, WaitPlaces, ListedWait, InList
  <2>3. PICK t \in Callers : w \in InHands(t)
    BY <2>2 DEF IsListed
  <2>4. \/ pc[t] \in OfList /\ w \in Reach(back, item[t])
        \/ pc[t] = "wakeHeadFlag" /\ item[t] = w
    BY <2>3 DEF InHands
  <2>. QED  BY <2>4, FromIs DEF OfList
<1>. QED  BY <1>1, <1>2

(* In every state of a bucket the invariant holds: whose the lock is, how  *)
(* far the walk of its holder has come, where each block is, and who still *)
(* has to release which keyed event.                                       *)
THEOREM WaitInvariance ==
  ASSUME WaitAssumption
  PROVE  Spec => []WaitInv
<1>1. Init => WaitInv
  BY WaitInit
<1>2. WaitInv /\ [Next]_vars => WaitInv'
  BY WaitStep
<1>. QED  BY <1>1, <1>2, PTL DEF Spec

(* The list of the bucket is changed by one thread at a time, never leads  *)
(* to a thread that has returned, and is well linked whenever it is free.  *)
THEOREM ListStaysSound ==
  ASSUME WaitAssumption
  PROVE  Spec => []ListIsSound
<1>1. WaitInv => ListIsSound
  BY ListIsSoundHolds
<1>. QED  BY <1>1, WaitInvariance, PTL

(* Every keyed event that a thread is going to release is waited for, or   *)
(* will be, and nobody else releases it.                                   *)
THEOREM EveryReleaseMeetsItsWaiter ==
  ASSUME WaitAssumption
  PROVE  Spec => []ReleaseMeetsWaiter
<1>1. WaitInv => ReleaseMeetsWaiter
  BY ReleaseMeetsWaiterHolds
<1>. QED  BY <1>1, WaitInvariance, PTL

(* A sleeping waiter that nobody has marked woken is in the list, or in    *)
(* the hands of a thread that is going to mark it.                         *)
THEOREM NobodyIsForgotten ==
  ASSUME WaitAssumption
  PROVE  Spec => []NobodyForgotten
<1>1. WaitInv => NobodyForgotten
  BY NobodyForgottenHolds
<1>. QED  BY <1>1, WaitInvariance, PTL
=============================================================================
