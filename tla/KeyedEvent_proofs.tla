------------------------- MODULE KeyedEvent_proofs --------------------------
(***************************************************************************)
(* For any number of threads, modes and calls: the slim lock is a          *)
(* reader/writer lock, and no walk of its list of waiters and no waker     *)
(* meets a block whose thread is gone.  For any number of callers and      *)
(* failures: InitFn runs in one synchronous caller at a time, and every    *)
(* caller gets the one context that was published.  For any number of      *)
(* waiters, wakers and timeouts: no walk of the list of a condition        *)
(* variable and no waker meets a block whose thread is gone, and without   *)
(* timeouts no wake-up is lost.                                            *)
(***************************************************************************)
EXTENDS KeyedEvent, FiniteSetTheorems, TLAPS

-----------------------------------------------------------------------------
(* Lists of blocks: f leads from each block of the set T to another one or *)
(* to Nil.  Induction over a list is the minimality of Met: a set that has *)
(* b and is closed under f has all blocks from b on.                       *)

(* A block or none, and links between blocks.                              *)
BlocksOf(T) == T \cup {Nil}
LinksOf(T) == [T -> BlocksOf(T)]

(* The blocks met from b along f, and whether that walk comes to an end.   *)
Met(T, f, b) ==
  {x \in T :
     \A S \in SUBSET T :
       (b \in S \cup {Nil} /\ \A y \in S : f[y] \in S \cup {Nil}) => x \in S}

Ends(T, f, b) == b # Nil => \E x \in Met(T, f, b) : f[x] = Nil

LEMMA MetLeast ==
  ASSUME NEW T, NEW f, NEW b, NEW S \in SUBSET T,
         b \in S \cup {Nil}, \A x \in S : f[x] \in S \cup {Nil}
  PROVE  Met(T, f, b) \subseteq S
BY DEF Met

LEMMA MetClosed ==
  ASSUME NEW T, Nil \notin T, NEW f \in LinksOf(T), NEW b \in BlocksOf(T)
  PROVE  /\ Met(T, f, b) \subseteq T
         /\ b \in Met(T, f, b) \cup {Nil}
         /\ b \in T => b \in Met(T, f, b)
         /\ \A x \in Met(T, f, b) : f[x] \in Met(T, f, b) \cup {Nil}
<1>1. Met(T, f, b) \subseteq T
  BY DEF Met
<1>2. b \in Met(T, f, b) \cup {Nil}
  BY DEF Met, BlocksOf
<1>3. \A x \in Met(T, f, b) : f[x] \in Met(T, f, b) \cup {Nil}
  BY DEF Met, LinksOf, BlocksOf
<1>. QED  BY <1>1, <1>2, <1>3

(* A list does not change by links that are not its own.                   *)
LEMMA MetKept ==
  ASSUME NEW T, Nil \notin T, NEW f \in LinksOf(T), NEW g \in LinksOf(T), NEW b \in BlocksOf(T),
         \A x \in Met(T, f, b) : g[x] = f[x]
  PROVE  Met(T, g, b) = Met(T, f, b) /\ (Ends(T, f, b) => Ends(T, g, b))
<1>1. Met(T, g, b) \subseteq Met(T, f, b)
  BY MetClosed, MetLeast
<1>2. ASSUME NEW w \in Met(T, f, b), NEW S \in SUBSET T,
             b \in S \cup {Nil}, \A x \in S : g[x] \in S \cup {Nil}
      PROVE  w \in S
  <2>. DEFINE B == S \cap Met(T, f, b)
  <2>1. b \in B \cup {Nil} /\ \A x \in B : f[x] \in B \cup {Nil}
    BY <1>2, MetClosed
  <2>2. B \in SUBSET T
    OBVIOUS
  <2>. QED  BY <2>1, <2>2 DEF Met
<1>3. Met(T, f, b) \subseteq Met(T, g, b)
  BY <1>2 DEF Met
<1>4. Met(T, g, b) = Met(T, f, b)
  BY <1>1, <1>3
<1>. QED  BY <1>4 DEF Ends

LEMMA MetStep ==
  ASSUME NEW T, Nil \notin T, NEW f \in LinksOf(T)
  PROVE  /\ Met(T, f, Nil) = {}
         /\ \A b \in T : Met(T, f, b) = {b} \cup Met(T, f, f[b])
<1>1. Met(T, f, Nil) \subseteq {}
  <2>1. {} \in SUBSET T /\ Nil \in {} \cup {Nil} /\ \A u \in {} : f[u] \in {} \cup {Nil}
    OBVIOUS
  <2>. QED  BY <2>1 DEF Met
<1>2. ASSUME NEW b \in T PROVE Met(T, f, b) = {b} \cup Met(T, f, f[b])
  <2>. DEFINE S == {b} \cup Met(T, f, f[b])
  <2>1. b \in BlocksOf(T) /\ f[b] \in BlocksOf(T)
    BY DEF BlocksOf, LinksOf
  <2>2. S \in SUBSET T /\ b \in S /\ \A x \in S : f[x] \in S \cup {Nil}
    BY <2>1, MetClosed
  <2>3. Met(T, f, b) \subseteq S
    BY <2>2 DEF Met
  <2>4. Met(T, f, b) \in SUBSET T /\ b \in Met(T, f, b)
    BY <2>1, MetClosed
  <2>5. f[b] \in Met(T, f, b) \cup {Nil} /\ \A x \in Met(T, f, b) : f[x] \in Met(T, f, b) \cup {Nil}
    BY <2>1, <2>4, MetClosed
  <2>6. Met(T, f, f[b]) \subseteq Met(T, f, b)
    BY <2>4, <2>5, MetLeast
  <2>. QED  BY <2>3, <2>4, <2>6
<1>. QED  BY <1>1, <1>2

LEMMA MetSub ==
  ASSUME NEW T, Nil \notin T, NEW f \in LinksOf(T), NEW b \in BlocksOf(T), NEW x \in Met(T, f, b)
  PROVE  x \in T /\ Met(T, f, x) \subseteq Met(T, f, b) /\ x \in Met(T, f, x)
<1>1. x \in T /\ x \in BlocksOf(T)
  BY MetClosed DEF BlocksOf
<1>2. Met(T, f, b) \in SUBSET T /\ \A u \in Met(T, f, b) : f[u] \in Met(T, f, b) \cup {Nil}
  BY MetClosed
<1>. QED  BY <1>1, <1>2, MetLeast, MetClosed

(* A list that ends has no cycle.                                          *)
LEMMA MetEnds ==
  ASSUME NEW T, Nil \notin T,
         NEW f \in LinksOf(T), NEW b \in BlocksOf(T), Ends(T, f, b), NEW x \in Met(T, f, b)
  PROVE  Ends(T, f, x) /\ x \notin Met(T, f, f[x]) /\ f[x] # x /\ f[x] # b
<1>1. PICK o \in Met(T, f, b) : f[o] = Nil
  <2>1. b # Nil
    BY MetStep
  <2>. QED  BY <2>1 DEF Ends
<1>2. \A y \in Met(T, f, b) : o \in Met(T, f, y)
  <2>. DEFINE S == {y \in Met(T, f, b) : o \in Met(T, f, y)}
  <2>1. S \in SUBSET T
    BY MetClosed
  <2>2. b \in S \cup {Nil}
    BY <1>1, MetClosed
  <2>3. ASSUME NEW y \in S PROVE f[y] \in S \cup {Nil}
    <3>1. y \in T /\ f[y] \in Met(T, f, b) \cup {Nil}
      BY MetClosed
    <3>2. o \in {y} \cup Met(T, f, f[y])
      BY <3>1, MetStep
    <3>. QED  BY <1>1, <3>1, <3>2
  <2>4. Met(T, f, b) \subseteq S
    BY <2>1, <2>2, <2>3 DEF Met
  <2>. QED  BY <2>4
<1>3. Ends(T, f, x)
  BY <1>1, <1>2 DEF Ends
<1>4. x \notin Met(T, f, f[x])
  <2>. SUFFICES ASSUME x \in Met(T, f, f[x]) PROVE FALSE
    OBVIOUS
  <2>. DEFINE S == {y \in Met(T, f, x) : x \in Met(T, f, y)}
  <2>1. x \in T /\ x \in BlocksOf(T) /\ f[x] \in BlocksOf(T) /\ x \in Met(T, f, x)
    BY MetSub DEF BlocksOf, LinksOf
  <2>2. S \in SUBSET T /\ x \in S
    BY <2>1, MetClosed
  <2>3. ASSUME NEW y \in S PROVE f[y] \in S \cup {Nil}
    <3>1. y \in T /\ f[y] \in Met(T, f, x) \cup {Nil}
      BY <2>1, MetClosed
    <3>2. x \in {y} \cup Met(T, f, f[y])
      BY <3>1, MetStep
    <3>3. x \in Met(T, f, f[y])
      BY <3>2
    <3>. QED  BY <3>1, <3>3
  <2>4. Met(T, f, x) \subseteq S
    BY <2>2, <2>3 DEF Met
  <2>5. x \in Met(T, f, o)
    BY <1>2, <2>4
  <2>6. o \in T /\ Met(T, f, o) = {o} \cup Met(T, f, Nil)
    BY <1>1, MetStep, MetClosed
  <2>7. x = o
    BY <2>5, <2>6, MetStep
  <2>. QED  BY <1>1, <2>7, MetStep
<1>5. f[x] # x
  BY <1>4, MetSub
<1>6. f[x] # b
  <2>. SUFFICES ASSUME f[x] = b PROVE FALSE
    OBVIOUS
  <2>. QED  BY <1>4
<1>. QED  BY <1>3, <1>4, <1>5, <1>6

LEMMA MetOrder ==
  ASSUME NEW T, Nil \notin T, NEW f \in LinksOf(T), NEW b \in BlocksOf(T),
         NEW x \in Met(T, f, b), NEW y \in Met(T, f, b)
  PROVE  y \in Met(T, f, x) \/ x \in Met(T, f, y)
<1>. DEFINE S == {u \in Met(T, f, b) : y \in Met(T, f, u) \/ u \in Met(T, f, y)}
<1>1. S \in SUBSET T /\ b \in S \cup {Nil}
  BY MetClosed
<1>2. y \in BlocksOf(T) /\ y \in Met(T, f, y)
  BY MetSub DEF BlocksOf
<1>3. ASSUME NEW u \in S PROVE f[u] \in S \cup {Nil}
  <2>1. u \in T /\ f[u] \in Met(T, f, b) \cup {Nil}
    BY MetClosed
  <2>2. CASE u \in Met(T, f, y)
    BY <1>2, <2>1, <2>2, MetClosed
  <2>3. CASE y \in Met(T, f, u) /\ u # y
    <3>1. y \in {u} \cup Met(T, f, f[u])
      BY <2>1, <2>3, MetStep
    <3>. QED  BY <2>1, <2>3, <3>1
  <2>. QED  BY <1>2, <2>2, <2>3
<1>4. Met(T, f, b) \subseteq S
  BY <1>1, <1>3 DEF Met
<1>. QED  BY <1>4

LEMMA MetBefore ==
  ASSUME NEW T, Nil \notin T, NEW f \in LinksOf(T), NEW b \in BlocksOf(T), NEW y \in Met(T, f, b), y # b
  PROVE  \E x \in Met(T, f, b) : f[x] = y
<1>. SUFFICES ASSUME \A x \in Met(T, f, b) : f[x] # y PROVE FALSE
  OBVIOUS
<1>. DEFINE S == Met(T, f, b) \ {y}
<1>1. S \in SUBSET T /\ b \in S \cup {Nil} /\ \A x \in S : f[x] \in S \cup {Nil}
  BY MetClosed
<1>2. Met(T, f, b) \subseteq S
  BY <1>1 DEF Met
<1>. QED  BY <1>2

LEMMA MetOnce ==
  ASSUME NEW T, Nil \notin T, NEW f \in LinksOf(T), NEW b \in BlocksOf(T), Ends(T, f, b),
         NEW x \in Met(T, f, b), NEW y \in Met(T, f, b), f[x] = f[y]
  PROVE  x = y
<1>1. x \in T /\ y \in T
  BY MetClosed
<1>2. x \notin Met(T, f, f[x]) /\ y \notin Met(T, f, f[y])
  BY MetEnds
<1>3. Met(T, f, x) = {x} \cup Met(T, f, f[x]) /\ Met(T, f, y) = {y} \cup Met(T, f, f[y])
  BY <1>1, MetStep
<1>. QED  BY <1>2, <1>3, MetOrder

(* A new block in front.                                                   *)
LEMMA MetPush ==
  ASSUME NEW T, Nil \notin T,
         NEW f \in LinksOf(T), NEW b \in BlocksOf(T), NEW w \in T, w \notin Met(T, f, b),
         NEW g \in LinksOf(T), g[w] = b, \A x \in T : x # w => g[x] = f[x]
  PROVE  /\ Met(T, g, w) = {w} \cup Met(T, f, b) /\ (Ends(T, f, b) => Ends(T, g, w))
         /\ \A x \in Met(T, f, b) : Met(T, g, x) = Met(T, f, x)
<1>1. g \in LinksOf(T) /\ g[w] = b /\ \A x \in T : x # w => g[x] = f[x]
  OBVIOUS
<1>2. Met(T, g, b) = Met(T, f, b)
  <2>1. \A x \in Met(T, f, b) : g[x] = f[x]
    BY <1>1, MetClosed
  <2>. QED  BY <1>1, <2>1, MetKept
<1>3. Met(T, g, w) = {w} \cup Met(T, f, b)
  <2>1. Met(T, g, w) = {w} \cup Met(T, g, g[w])
    BY <1>1, MetStep
  <2>. QED  BY <1>1, <1>2, <2>1
<1>4. ASSUME NEW x \in Met(T, f, b) PROVE Met(T, g, x) = Met(T, f, x)
  <2>1. x \in BlocksOf(T) /\ \A u \in Met(T, f, x) : g[u] = f[u]
    BY <1>1, MetSub, MetClosed DEF BlocksOf
  <2>. QED  BY <1>1, <2>1, MetKept
<1>5. ASSUME Ends(T, f, b) PROVE Ends(T, g, w)
  <2>1. CASE b = Nil
    BY <1>1, <1>3, <2>1 DEF Ends
  <2>2. CASE b # Nil
    <3>1. PICK o \in Met(T, f, b) : f[o] = Nil
      BY <1>5, <2>2 DEF Ends
    <3>2. o \in T /\ g[o] = Nil /\ o \in Met(T, g, w)
      BY <1>1, <1>3, <3>1, MetClosed
    <3>. QED  BY <3>2 DEF Ends
  <2>. QED  BY <2>1, <2>2
<1>. QED  BY <1>3, <1>4, <1>5

(* A block taken out from behind another one.                              *)
LEMMA MetUnlink ==
  ASSUME NEW T, Nil \notin T, NEW f \in LinksOf(T), NEW b \in BlocksOf(T), Ends(T, f, b),
         NEW x \in Met(T, f, b), NEW y \in T, f[x] = y,
         NEW g \in LinksOf(T), g[x] = f[y], \A u \in T : u # x => g[u] = f[u]
  PROVE  /\ y # b /\ x # y /\ y \in Met(T, f, b)
         /\ \A h \in Met(T, f, b) : h # y => Met(T, g, h) = Met(T, f, h) \ {y} /\ Ends(T, g, h)
<1>1. x \in T /\ y \in Met(T, f, b) /\ y # b /\ y # x
  <2>1. x \in T /\ y \in Met(T, f, b) \cup {Nil}
    BY MetClosed
  <2>. QED  BY <2>1, MetEnds
<1>2. g \in LinksOf(T) /\ g[x] = f[y] /\ \A u \in T : u # x => g[u] = f[u]
  OBVIOUS
<1>3. \A u \in Met(T, f, b) : u # x => f[u] # y
  BY MetOnce
<1>4. f[y] # y
  BY <1>1, MetEnds
<1>5. ASSUME NEW h \in Met(T, f, b), h # y
      PROVE  Met(T, g, h) = Met(T, f, h) \ {y} /\ Ends(T, g, h)
  <2>1. h \in T /\ h \in BlocksOf(T) /\ Met(T, f, h) \subseteq Met(T, f, b) /\ h \in Met(T, f, h)
    BY MetSub DEF BlocksOf
  <2>2. Ends(T, f, h)
    BY MetEnds
  <2>3. CASE x \notin Met(T, f, h)
    <3>1. y \notin Met(T, f, h)
      BY <1>3, <1>5, <2>1, <2>3, MetBefore
    <3>2. \A u \in Met(T, f, h) : g[u] = f[u]
      BY <1>2, <2>1, <2>3, MetClosed
    <3>3. Met(T, g, h) = Met(T, f, h) /\ Ends(T, g, h)
      BY <1>2, <2>1, <2>2, <3>2, MetKept
    <3>. QED  BY <3>1, <3>3
  <2>4. CASE x \in Met(T, f, h)
    <3>. DEFINE S == Met(T, f, h) \ {y}
                R == Met(T, g, h) \cup {y}
    <3>1. S \in SUBSET T /\ h \in S
      BY <1>5, <2>1, MetClosed
    <3>2. ASSUME NEW u \in S PROVE g[u] \in S \cup {Nil}
      <4>1. u \in T /\ f[u] \in Met(T, f, h) \cup {Nil}
        BY <2>1, MetClosed
      <4>2. y \in Met(T, f, h)
        <5>1. f[x] \in Met(T, f, h) \cup {Nil}
          BY <2>1, <2>4, MetClosed
        <5>. QED  BY <5>1
      <4>3. f[y] \in Met(T, f, h) \cup {Nil}
        BY <2>1, <4>2, MetClosed
      <4>4. CASE u = x
        BY <1>2, <1>4, <4>3, <4>4
      <4>5. CASE u # x
        BY <1>2, <1>3, <2>1, <4>1, <4>5
      <4>. QED  BY <4>4, <4>5
    <3>3. Met(T, g, h) \subseteq S
      <4>1. h \in S \cup {Nil} /\ \A u \in S : g[u] \in S \cup {Nil}
        BY <3>1, <3>2
      <4>. HIDE DEF S
      <4>. QED  BY <3>1, <4>1, MetLeast
    <3>4. x \in Met(T, g, h)
      <4>. SUFFICES ASSUME x \notin Met(T, g, h) PROVE FALSE
        OBVIOUS
      <4>1. \A u \in Met(T, g, h) : f[u] = g[u]
        BY <1>2, <2>1, MetClosed
      <4>2. Met(T, f, h) = Met(T, g, h)
        BY <1>2, <2>1, <4>1, MetKept
      <4>. QED  BY <2>4, <4>2
    <3>5. R \in SUBSET T /\ h \in R
      BY <1>2, <2>1, MetClosed
    <3>6. ASSUME NEW u \in R PROVE f[u] \in R \cup {Nil}
      <4>1. \A v \in Met(T, g, h) : v \in T /\ g[v] \in Met(T, g, h) \cup {Nil}
        BY <1>2, <2>1, MetClosed
      <4>2. CASE u = y
        BY <1>2, <3>4, <4>1, <4>2
      <4>3. CASE u = x
        BY <4>3
      <4>4. CASE u # y /\ u # x
        BY <1>2, <4>1, <4>4
      <4>. QED  BY <4>2, <4>3, <4>4
    <3>7. Met(T, f, h) \subseteq R
      <4>1. h \in R \cup {Nil} /\ \A u \in R : f[u] \in R \cup {Nil}
        BY <3>5, <3>6
      <4>. HIDE DEF R
      <4>. QED  BY <3>5, <4>1, MetLeast
    <3>8. Met(T, g, h) = S
      BY <3>3, <3>7
    <3>9. PICK o \in Met(T, f, h) : f[o] = Nil
      BY <2>1, <2>2 DEF Ends
    <3>10. ASSUME o = y PROVE Ends(T, g, h)
      BY <1>2, <3>4, <3>9, <3>10 DEF Ends
    <3>11. ASSUME o # y PROVE Ends(T, g, h)
      <4>1. o # x /\ o \in T
        BY <2>1, <3>9, MetClosed
      <4>. QED  BY <1>2, <3>8, <3>9, <3>11, <4>1 DEF Ends
    <3>. QED  BY <3>8, <3>10, <3>11
  <2>. QED  BY <2>3, <2>4
<1>. QED  BY <1>1, <1>2, <1>5

-----------------------------------------------------------------------------
(* Lists that are cut, joined and repaired.                                *)

LEMMA MetAnti ==
  ASSUME NEW T, Nil \notin T, NEW f \in LinksOf(T), NEW b \in BlocksOf(T), Ends(T, f, b),
         NEW x \in Met(T, f, b), NEW y \in Met(T, f, x), x \in Met(T, f, y)
  PROVE  x = y
<1>. SUFFICES ASSUME x # y PROVE FALSE
  OBVIOUS
<1>1. x \in T /\ f[x] \in BlocksOf(T)
  BY MetClosed DEF LinksOf
<1>2. y \in Met(T, f, f[x])
  BY <1>1, MetStep
<1>3. Met(T, f, y) \subseteq Met(T, f, f[x])
  BY <1>1, <1>2, MetSub
<1>. QED  BY <1>3, MetEnds

(* Links that stop earlier.                                                *)
LEMMA MetShort ==
  ASSUME NEW T, Nil \notin T, NEW f \in LinksOf(T), NEW g \in LinksOf(T), NEW b \in BlocksOf(T),
         \A x \in Met(T, f, b) : g[x] = f[x] \/ g[x] = Nil
  PROVE  Met(T, g, b) \subseteq Met(T, f, b) /\ (Ends(T, f, b) => Ends(T, g, b))
<1>1. Met(T, g, b) \subseteq Met(T, f, b)
  <2>1. Met(T, f, b) \in SUBSET T /\ b \in Met(T, f, b) \cup {Nil}
        /\ \A x \in Met(T, f, b) : g[x] \in Met(T, f, b) \cup {Nil}
    BY MetClosed
  <2>. QED  BY <2>1, MetLeast
<1>2. ASSUME Ends(T, f, b), ~Ends(T, g, b) PROVE FALSE
  <2>1. b # Nil /\ \A x \in Met(T, g, b) : g[x] # Nil
    BY <1>2 DEF Ends
  <2>2. \A x \in Met(T, g, b) : f[x] = g[x]
    BY <1>1, <2>1
  <2>3. Met(T, f, b) = Met(T, g, b)
    BY <2>2, MetKept
  <2>. QED  BY <1>2, <2>1, <2>2, <2>3 DEF Ends
<1>. QED  BY <1>1, <1>2

(* Links that change from s on only.                                       *)
LEMMA MetSplit ==
  ASSUME NEW T, Nil \notin T, NEW f \in LinksOf(T), NEW g \in LinksOf(T), NEW b \in BlocksOf(T),
         Ends(T, f, b), NEW s \in Met(T, f, b),
         \A x \in Met(T, f, b) : x \notin Met(T, f, s) => g[x] = f[x]
  PROVE  /\ s \in Met(T, g, b)
         /\ \A x \in Met(T, g, b) : x \in Met(T, g, s) \/ (x \in Met(T, f, b) /\ x \notin Met(T, f, s))
<1>1. s \in T /\ s \in BlocksOf(T) /\ s \in Met(T, f, s) /\ Met(T, f, b) \subseteq T
  BY MetSub, MetClosed DEF BlocksOf
<1>2. b \in T /\ b \in Met(T, f, b)
  <2>1. b # Nil
    BY MetStep
  <2>. QED  BY <2>1, MetClosed DEF BlocksOf
<1>3. b \in Met(T, f, s) => b = s
  BY <1>2, MetAnti
<1>4. ASSUME NEW x \in Met(T, f, b), x \notin Met(T, f, s)
      PROVE  f[x] = Nil \/ f[x] = s \/ (f[x] \in Met(T, f, b) /\ f[x] \notin Met(T, f, s))
  <2>1. f[x] \in Met(T, f, b) \cup {Nil}
    BY MetClosed
  <2>2. ASSUME f[x] \in Met(T, f, s), f[x] # s PROVE FALSE
    <3>1. PICK y \in Met(T, f, s) : f[y] = f[x]
      BY <1>1, <2>2, MetBefore
    <3>2. y \in Met(T, f, b)
      BY <3>1, MetSub
    <3>3. x = y
      BY <3>1, <3>2, MetOnce
    <3>. QED  BY <1>4, <3>3
  <2>. QED  BY <2>1, <2>2
<1>5. s \in Met(T, g, b)
  <2>. SUFFICES ASSUME s \notin Met(T, g, b) PROVE FALSE
    OBVIOUS
  <2>. DEFINE S == {x \in Met(T, f, b) : x \in Met(T, g, b) /\ x \notin Met(T, f, s)}
  <2>1. b \in Met(T, g, b)
    BY <1>2, MetClosed
  <2>2. S \in SUBSET T /\ b \in S \cup {Nil}
    BY <1>1, <1>2, <1>3, <2>1
  <2>3. ASSUME NEW x \in S PROVE f[x] \in S \cup {Nil}
    <3>1. g[x] = f[x] /\ g[x] \in Met(T, g, b) \cup {Nil}
      BY MetClosed
    <3>. QED  BY <1>4, <3>1
  <2>4. Met(T, f, b) \subseteq S
    <3>. HIDE DEF S
    <3>. QED  BY <2>2, <2>3, MetLeast
  <2>. QED  BY <2>4
<1>6. ASSUME NEW x \in Met(T, g, b)
      PROVE  x \in Met(T, g, s) \/ (x \in Met(T, f, b) /\ x \notin Met(T, f, s))
  <2>. DEFINE S == {u \in T : u \in Met(T, g, s) \/ (u \in Met(T, f, b) /\ u \notin Met(T, f, s))}
  <2>1. s \in Met(T, g, s)
    BY <1>1, MetClosed
  <2>2. S \in SUBSET T /\ b \in S \cup {Nil}
    BY <1>2, <1>3, <2>1
  <2>3. ASSUME NEW u \in S PROVE g[u] \in S \cup {Nil}
    <3>1. CASE u \in Met(T, g, s)
      BY <1>1, <3>1, MetClosed
    <3>2. CASE u \in Met(T, f, b) /\ u \notin Met(T, f, s)
      <4>1. g[u] = f[u]
        BY <3>2
      <4>. QED  BY <1>1, <1>4, <2>1, <3>2, <4>1
    <3>. QED  BY <3>1, <3>2
  <2>4. Met(T, g, b) \subseteq S
    <3>. HIDE DEF S
    <3>. QED  BY <2>2, <2>3, MetLeast
  <2>. QED  BY <2>4
<1>. QED  BY <1>5, <1>6

(* A list joined to the end of another.                                    *)
LEMMA MetJoin ==
  ASSUME NEW T, Nil \notin T, NEW f \in LinksOf(T), NEW a \in T, Ends(T, f, a),
         NEW c \in BlocksOf(T), Ends(T, f, c), Met(T, f, a) \cap Met(T, f, c) = {},
         NEW e \in Met(T, f, a), f[e] = Nil,
         NEW g \in LinksOf(T), g[e] = c, \A x \in T : x # e => g[x] = f[x]
  PROVE  /\ Met(T, g, a) = Met(T, f, a) \cup Met(T, f, c) /\ Ends(T, g, a)
         /\ \A h \in BlocksOf(T) :
              e \notin Met(T, f, h) => Met(T, g, h) = Met(T, f, h) /\ (Ends(T, f, h) => Ends(T, g, h))
<1>0. g[e] = c /\ \A x \in T : x # e => g[x] = f[x]
  OBVIOUS
<1>1. a \in BlocksOf(T) /\ a \in Met(T, f, a) /\ Met(T, f, a) \subseteq T /\ Met(T, f, c) \subseteq T
      /\ e \in T /\ c \in Met(T, f, c) \cup {Nil}
  BY MetClosed DEF BlocksOf
<1>2. ASSUME NEW h \in BlocksOf(T), e \notin Met(T, f, h)
      PROVE  Met(T, g, h) = Met(T, f, h) /\ (Ends(T, f, h) => Ends(T, g, h))
  <2>1. \A x \in Met(T, f, h) : g[x] = f[x]
    BY <1>0, <1>2, MetClosed
  <2>. QED  BY <2>1, MetKept
<1>3. Met(T, g, c) = Met(T, f, c) /\ Ends(T, g, c)
  BY <1>2
<1>4. Met(T, g, a) \subseteq Met(T, f, a) \cup Met(T, f, c)
  <2>. DEFINE S == Met(T, f, a) \cup Met(T, f, c)
  <2>1. S \in SUBSET T /\ a \in S \cup {Nil}
    BY <1>1
  <2>2. ASSUME NEW x \in S PROVE g[x] \in S \cup {Nil}
    <3>1. CASE x = e
      BY <1>0, <1>1, <3>1
    <3>2. CASE x # e
      <4>1. g[x] = f[x]
        BY <1>0, <1>1, <3>2
      <4>2. \A y \in Met(T, f, a) : f[y] \in Met(T, f, a) \cup {Nil}
        BY <1>1, MetClosed
      <4>3. \A y \in Met(T, f, c) : f[y] \in Met(T, f, c) \cup {Nil}
        BY <1>1, MetClosed
      <4>. QED  BY <4>1, <4>2, <4>3
    <3>. QED  BY <3>1, <3>2
  <2>3. a \in S \cup {Nil} /\ \A x \in S : g[x] \in S \cup {Nil}
    BY <2>1, <2>2
  <2>. HIDE DEF S
  <2>4. Met(T, g, a) \subseteq S
    BY <2>1, <2>3, MetLeast
  <2>. QED  BY <2>4 DEF S
<1>5. Met(T, f, a) \subseteq Met(T, g, a)
  <2>. DEFINE S == Met(T, f, a) \cap Met(T, g, a)
  <2>1. a \in Met(T, g, a) /\ \A y \in Met(T, g, a) : g[y] \in Met(T, g, a) \cup {Nil}
    BY <1>1, MetClosed
  <2>2. S \in SUBSET T /\ a \in S \cup {Nil}
    BY <1>1, <2>1
  <2>3. ASSUME NEW x \in S PROVE f[x] \in S \cup {Nil}
    <3>1. f[x] \in Met(T, f, a) \cup {Nil}
      BY <1>1, MetClosed
    <3>. QED  BY <1>0, <1>1, <2>1, <3>1
  <2>4. Met(T, f, a) \subseteq S
    <3>. HIDE DEF S
    <3>. QED  BY <2>2, <2>3, MetLeast
  <2>. QED  BY <2>4
<1>6. Met(T, f, c) \subseteq Met(T, g, a)
  <2>1. c \in Met(T, g, a) \cup {Nil}
    BY <1>0, <1>1, <1>5, MetClosed
  <2>2. CASE c = Nil
    BY <2>2, MetStep
  <2>3. CASE c \in Met(T, g, a)
    BY <1>1, <1>3, <2>3, MetSub
  <2>. QED  BY <2>1, <2>2, <2>3
<1>7. Met(T, g, a) = Met(T, f, a) \cup Met(T, f, c)
  BY <1>4, <1>5, <1>6
<1>8. Ends(T, g, a)
  <2>1. CASE c = Nil
    BY <1>0, <1>5, <2>1 DEF Ends
  <2>2. CASE c # Nil
    BY <1>3, <1>7, <2>2 DEF Ends
  <2>. QED  BY <2>1, <2>2
<1>. QED  BY <1>2, <1>7, <1>8

-----------------------------------------------------------------------------
(* The list of an SRW lock.  f leads from the newest block b to older ones *)
(* up to the first whose notify, m, is set; it leads to the oldest block,  *)
(* from which n leads back to that first one.                              *)
Listed(T, f, n, m, b) ==
  /\ Ends(T, f, b)
  /\ \A x \in Met(T, f, b) : n[x] = Nil
  /\ \A x \in Met(T, f, b) :
       f[x] = Nil => Ends(T, n, m[x]) /\ Met(T, n, m[x]) \cap Met(T, f, b) = {x}

Members(T, f, n, m, b) ==
  {w \in T : w \in Met(T, f, b) \/ \E x \in Met(T, f, b) : f[x] = Nil /\ w \in Met(T, n, m[x])}

LEMMA ListEnd ==
  ASSUME NEW T, Nil \notin T, NEW f \in LinksOf(T), NEW n \in LinksOf(T), NEW m \in LinksOf(T),
         NEW b \in BlocksOf(T), Listed(T, f, n, m, b),
         NEW e \in Met(T, f, b), f[e] = Nil
  PROVE  /\ \A x \in Met(T, f, b) : f[x] = Nil => x = e
         /\ Members(T, f, n, m, b) = Met(T, f, b) \cup Met(T, n, m[e])
         /\ e \in Met(T, n, m[e]) /\ m[e] \in T /\ e \in T /\ m[e] \in Met(T, n, m[e])
         /\ Ends(T, n, m[e])
<1>1. \A x \in Met(T, f, b) : f[x] = Nil => x = e
  BY MetOnce DEF Listed
<1>2. Members(T, f, n, m, b) = Met(T, f, b) \cup Met(T, n, m[e])
  <2>1. e \in T /\ m[e] \in BlocksOf(T)
    BY MetClosed DEF LinksOf
  <2>2. Met(T, f, b) \subseteq T /\ Met(T, n, m[e]) \subseteq T
    BY <2>1, MetClosed
  <2>. QED  BY <1>1, <2>2 DEF Members
<1>3. e \in Met(T, n, m[e]) /\ Ends(T, n, m[e])
  BY DEF Listed
<1>4. e \in T /\ m[e] \in BlocksOf(T)
  BY MetClosed DEF LinksOf
<1>5. m[e] \in T
  BY <1>3, <1>4, MetStep DEF BlocksOf
<1>. QED  BY <1>1, <1>2, <1>3, <1>4, <1>5, MetClosed

LEMMA ListHasEnd ==
  ASSUME NEW T, Nil \notin T, NEW f \in LinksOf(T), NEW n, NEW m,
         NEW b \in T, Listed(T, f, n, m, b)
  PROVE  \E e \in Met(T, f, b) : f[e] = Nil
BY DEF Listed, Ends

LEMMA NoList ==
  ASSUME NEW T, Nil \notin T, NEW f \in LinksOf(T), NEW n, NEW m
  PROVE  Listed(T, f, n, m, Nil) /\ Members(T, f, n, m, Nil) = {} /\ Met(T, f, Nil) = {}
BY MetStep DEF Listed, Members, Ends

(* A list whose links do not change.                                       *)
LEMMA ListKept ==
  ASSUME NEW T, Nil \notin T, NEW f \in LinksOf(T), NEW n \in LinksOf(T), NEW m \in LinksOf(T),
         NEW b \in BlocksOf(T), Listed(T, f, n, m, b),
         NEW k \in LinksOf(T), \A x \in Members(T, f, n, m, b) : k[x] = n[x]
  PROVE  Listed(T, f, k, m, b) /\ Members(T, f, k, m, b) = Members(T, f, n, m, b)
<1>1. CASE b = Nil
  BY <1>1, NoList
<1>2. CASE b # Nil
  <2>1. b \in T
    BY <1>2 DEF BlocksOf
  <2>2. PICK e \in Met(T, f, b) : f[e] = Nil
    BY <2>1, ListHasEnd
  <2>3. /\ \A x \in Met(T, f, b) : f[x] = Nil => x = e
        /\ Members(T, f, n, m, b) = Met(T, f, b) \cup Met(T, n, m[e])
        /\ m[e] \in T /\ Ends(T, n, m[e])
    BY <2>2, ListEnd
  <2>4. m[e] \in BlocksOf(T)
    BY <2>3 DEF BlocksOf
  <2>5. Met(T, k, m[e]) = Met(T, n, m[e]) /\ Ends(T, k, m[e])
    BY <2>3, <2>4, MetKept
  <2>6. Listed(T, f, k, m, b)
    BY <2>2, <2>3, <2>5 DEF Listed
  <2>. QED  BY <2>2, <2>3, <2>5, <2>6, ListEnd
<1>. QED  BY <1>1, <1>2

LEMMA ListPush ==
  ASSUME NEW T, Nil \notin T, NEW f \in LinksOf(T), NEW n \in LinksOf(T), NEW m \in LinksOf(T),
         NEW b \in T, Listed(T, f, n, m, b),
         NEW t \in T, t \notin Members(T, f, n, m, b),
         NEW g \in LinksOf(T), NEW k \in LinksOf(T), NEW l \in LinksOf(T),
         g[t] = b, k[t] = Nil, \A x \in T : x # t => g[x] = f[x] /\ k[x] = n[x] /\ l[x] = m[x]
  PROVE  /\ Listed(T, g, k, l, t)
         /\ Members(T, g, k, l, t) = Members(T, f, n, m, b) \cup {t}
         /\ Met(T, g, t) = {t} \cup Met(T, f, b)
         /\ \A x \in Met(T, g, t) : g[x] = Nil => x \in Met(T, f, b) /\ f[x] = Nil /\ l[x] = m[x]
<1>1. PICK e \in Met(T, f, b) : f[e] = Nil
  BY ListHasEnd
<1>2. b \in BlocksOf(T) /\ t \in BlocksOf(T)
  BY DEF BlocksOf
<1>3. /\ \A x \in Met(T, f, b) : f[x] = Nil => x = e
      /\ Members(T, f, n, m, b) = Met(T, f, b) \cup Met(T, n, m[e])
      /\ m[e] \in T /\ e \in T /\ e \in Met(T, n, m[e]) /\ Ends(T, n, m[e])
  BY <1>1, <1>2, ListEnd
<1>4. t \notin Met(T, f, b) /\ t \notin Met(T, n, m[e]) /\ e # t
  BY <1>1, <1>3
<1>5. Met(T, g, t) = {t} \cup Met(T, f, b) /\ Ends(T, g, t)
  <2>1. Ends(T, f, b)
    BY DEF Listed
  <2>2. g \in LinksOf(T) /\ g[t] = b /\ \A x \in T : x # t => g[x] = f[x]
    OBVIOUS
  <2>. QED  BY <1>2, <1>4, <2>1, <2>2, MetPush
<1>6. Met(T, f, b) \subseteq T /\ m[e] \in BlocksOf(T)
  BY <1>2, <1>3, MetClosed DEF BlocksOf
<1>7. \A x \in Met(T, n, m[e]) : k[x] = n[x]
  BY <1>4, <1>6, MetClosed
<1>8. Met(T, k, m[e]) = Met(T, n, m[e]) /\ Ends(T, k, m[e])
  BY <1>3, <1>6, <1>7, MetKept
<1>9. \A x \in Met(T, g, t) : g[x] = Nil => x = e /\ l[x] = m[x]
  BY <1>3, <1>4, <1>5, <1>6
<1>10. \A x \in Met(T, g, t) : k[x] = Nil
  BY <1>4, <1>5, <1>6 DEF Listed
<1>11. Met(T, n, m[e]) \cap Met(T, f, b) = {e}
  BY <1>1 DEF Listed
<1>12. Met(T, k, m[e]) \cap Met(T, g, t) = {e}
  BY <1>4, <1>5, <1>8, <1>11
<1>13. Listed(T, g, k, l, t)
  BY <1>5, <1>8, <1>9, <1>10, <1>12 DEF Listed
<1>14. e \in Met(T, g, t) /\ g[e] = Nil /\ l[e] = m[e]
  BY <1>1, <1>3, <1>4, <1>5
<1>15. Members(T, g, k, l, t) = Met(T, g, t) \cup Met(T, k, l[e])
  BY <1>2, <1>13, <1>14, ListEnd
<1>. QED  BY <1>1, <1>3, <1>5, <1>8, <1>9, <1>13, <1>14, <1>15

LEMMA ListFirst ==
  ASSUME NEW T, Nil \notin T,
         NEW g \in LinksOf(T), NEW k \in LinksOf(T), NEW l \in LinksOf(T),
         NEW t \in T, g[t] = Nil, k[t] = Nil, l[t] = t
  PROVE  Listed(T, g, k, l, t) /\ Members(T, g, k, l, t) = {t} /\ Met(T, g, t) = {t}
<1>1. Met(T, g, t) = {t} /\ Met(T, k, t) = {t}
  BY MetStep
<1>2. Ends(T, g, t) /\ Ends(T, k, t)
  BY <1>1 DEF Ends
<1>3. Listed(T, g, k, l, t)
  BY <1>1, <1>2 DEF Listed
<1>. QED  BY <1>1, <1>3 DEF Members

(* The walk from c gives next pointers, k, to the blocks it passes, and    *)
(* then c knows the oldest block.                                          *)
Taught(T, f, c, n, k) ==
  /\ \A x \in Met(T, f, c) : f[x] # Nil => k[f[x]] = x
  /\ \A w \in T : (\A x \in Met(T, f, c) : f[x] # w) => k[w] = n[w]

Cut(T, f, m, c, e, g, l) ==
  /\ g[c] = Nil /\ l[c] = m[e]
  /\ \A x \in T : x # c => g[x] = f[x] /\ l[x] = m[x]

LEMMA ListLink ==
  ASSUME NEW T, Nil \notin T, NEW f \in LinksOf(T), NEW n \in LinksOf(T), NEW m \in LinksOf(T),
         NEW b \in T, Listed(T, f, n, m, b),
         NEW c \in Met(T, f, b), NEW e \in Met(T, f, c), f[e] = Nil,
         NEW g \in LinksOf(T), NEW k \in LinksOf(T), NEW l \in LinksOf(T),
         Taught(T, f, c, n, k), Cut(T, f, m, c, e, g, l)
  PROVE  /\ Listed(T, g, k, l, b)
         /\ Members(T, g, k, l, b) = Members(T, f, n, m, b)
         /\ c \in Met(T, g, b) /\ Met(T, g, b) \subseteq Met(T, f, b)
         /\ Met(T, g, c) = {c}
<1>. DEFINE U == Met(T, f, b)
            W == Met(T, f, c)
            R == Met(T, n, m[e])
<1>. USE DEF Taught, Cut
<1>1. b \in BlocksOf(T) /\ c \in T /\ c \in BlocksOf(T) /\ W \subseteq U /\ c \in W /\ U \subseteq T
  BY MetSub, MetClosed DEF BlocksOf
<1>2. Ends(T, f, b) /\ (\A x \in U : n[x] = Nil) /\ Ends(T, n, m[e]) /\ R \cap U = {e}
  BY <1>1 DEF Listed
<1>3. /\ \A x \in U : f[x] = Nil => x = e
      /\ Members(T, f, n, m, b) = U \cup R
      /\ m[e] \in T /\ e \in T /\ m[e] \in BlocksOf(T) /\ R \subseteq T
  <2>1. e \in U
    BY <1>1
  <2>2. /\ \A x \in U : f[x] = Nil => x = e
        /\ Members(T, f, n, m, b) = U \cup R
        /\ m[e] \in T /\ e \in T
    BY <1>1, <2>1, ListEnd
  <2>. QED  BY <2>2, MetClosed DEF BlocksOf
<1>4. \A x \in W : f[x] \in W \cup {Nil} /\ f[x] # x
  <2>1. \A x \in W : f[x] \in W \cup {Nil}
    BY <1>1, MetClosed
  <2>2. \A x \in W : f[x] # x
    BY <1>1, <1>2, MetEnds
  <2>. QED  BY <2>1, <2>2
<1>5. \A x \in W : f[x] # c
  <2>1. Ends(T, f, c)
    BY <1>1, <1>2, MetEnds
  <2>. QED  BY <1>1, <2>1, MetEnds
<1>6. \A x \in W : x # c => \E y \in W : f[y] = x
  BY <1>1, MetBefore
(* Where the new next pointers lead.                                       *)
<1>7. k[c] = Nil /\ \A x \in W : x # c => k[x] \in W /\ f[k[x]] = x
  <2>1. k[c] = n[c]
    BY <1>1, <1>5
  <2>2. n[c] = Nil
    BY <1>1, <1>2
  <2>3. ASSUME NEW x \in W, x # c PROVE k[x] \in W /\ f[k[x]] = x
    <3>1. PICK y \in W : f[y] = x
      BY <1>6, <2>3
    <3>2. x # Nil
      BY <1>1
    <3>. QED  BY <3>1, <3>2
  <2>. QED  BY <2>1, <2>2, <2>3
<1>8. \A x \in T \ W : k[x] = n[x]
  <2>1. ASSUME NEW x \in T \ W PROVE \A y \in W : f[y] # x
    BY <1>4, <2>1
  <2>. QED  BY <2>1
<1>9. \A x \in R \ {e} : x \in T /\ x \notin W /\ n[x] \in R \cup {Nil}
  <2>1. \A x \in R \ {e} : x \notin U
    BY <1>2
  <2>. QED  BY <1>1, <1>3, <2>1, MetClosed
<1>10. m[e] \in R /\ e \in R
  BY <1>2, <1>3, MetClosed
<1>11. Met(T, k, m[e]) \subseteq R \cup W
  <2>. DEFINE S == R \cup W
  <2>1. S \in SUBSET T /\ m[e] \in S
    BY <1>1, <1>3, <1>10
  <2>2. ASSUME NEW x \in S PROVE k[x] \in S \cup {Nil}
    <3>1. CASE x \in W
      BY <1>7, <3>1
    <3>2. CASE x \notin W
      <4>1. x \in R \ {e}
        BY <3>2
      <4>. QED  BY <1>8, <1>9, <3>2, <4>1
    <3>. QED  BY <3>1, <3>2
  <2>3. m[e] \in S \cup {Nil} /\ \A x \in S : k[x] \in S \cup {Nil}
    BY <2>1, <2>2
  <2>. HIDE DEF S
  <2>4. Met(T, k, m[e]) \subseteq S
    BY <2>1, <2>3 DEF Met
  <2>. QED  BY <2>4 DEF S
<1>12. R \subseteq Met(T, k, m[e])
  <2>. DEFINE S == R \cap Met(T, k, m[e])
  <2>1. S \in SUBSET T /\ m[e] \in S
    BY <1>3, <1>10, MetClosed
  <2>2. ASSUME NEW x \in S PROVE n[x] \in S \cup {Nil}
    <3>1. CASE x = e
      BY <1>1, <1>2, <3>1
    <3>2. CASE x # e
      <4>1. x \in R \ {e}
        BY <3>2
      <4>2. k[x] = n[x] /\ n[x] \in R \cup {Nil}
        BY <1>8, <1>9, <4>1
      <4>3. k[x] \in Met(T, k, m[e]) \cup {Nil}
        BY <1>3, MetClosed
      <4>. QED  BY <4>2, <4>3
    <3>. QED  BY <3>1, <3>2
  <2>3. m[e] \in S \cup {Nil} /\ \A x \in S : n[x] \in S \cup {Nil}
    BY <2>1, <2>2
  <2>4. R \subseteq S
    <3>. HIDE DEF S
    <3>. QED  BY <2>1, <2>3 DEF Met
  <2>. QED  BY <2>4
<1>13. W \subseteq Met(T, k, m[e])
  <2>. SUFFICES ASSUME NEW x \in W, x \notin Met(T, k, m[e]) PROVE FALSE
    OBVIOUS
  <2>. DEFINE S == {y \in W : y \notin Met(T, k, m[e])}
  <2>1. S \in SUBSET T /\ x \in S /\ x \in T /\ x \in BlocksOf(T)
    BY <1>1 DEF BlocksOf
  <2>2. ASSUME NEW y \in S PROVE f[y] \in S \cup {Nil}
    <3>1. CASE f[y] = Nil
      BY <3>1
    <3>2. CASE f[y] # Nil
      <4>1. f[y] \in W /\ k[f[y]] = y
        BY <1>4, <3>2
      <4>2. f[y] \notin Met(T, k, m[e])
        <5>1. \A z \in Met(T, k, m[e]) : k[z] \in Met(T, k, m[e]) \cup {Nil}
          BY <1>3, MetClosed
        <5>. QED  BY <1>1, <4>1, <5>1
      <4>. QED  BY <4>1, <4>2
    <3>. QED  BY <3>1, <3>2
  <2>3. Met(T, f, x) \subseteq S
    <3>1. x \in S \cup {Nil} /\ \A y \in S : f[y] \in S \cup {Nil}
      BY <2>1, <2>2
    <3>. HIDE DEF S
    <3>. QED  BY <2>1, <3>1 DEF Met
  <2>4. Ends(T, f, x)
    BY <1>1, <1>2, MetEnds
  <2>5. \E z \in Met(T, f, x) : f[z] = Nil
    BY <2>1, <2>4 DEF Ends
  <2>6. e \in S
    BY <1>1, <1>3, <2>3, <2>5
  <2>. QED  BY <1>10, <1>12, <2>6
<1>14. Met(T, k, m[e]) = R \cup W
  BY <1>11, <1>12, <1>13
(* What remains of the walk from b.                                        *)
<1>15. Met(T, g, c) = {c}
  BY <1>1, MetStep
<1>16. Met(T, g, b) \subseteq (U \ W) \cup {c}
  <2>. DEFINE S == (U \ W) \cup {c}
  <2>1. S \in SUBSET T /\ b \in S
    <3>1. b \in U
      BY MetClosed DEF BlocksOf
    <3>2. b \in W => b = c
      <4>1. ASSUME b \in W, b # c PROVE FALSE
        <5>1. PICK y \in W : f[y] = b
          BY <1>6, <4>1
        <5>. QED  BY <1>1, <1>2, <5>1, MetEnds
      <4>. QED  BY <4>1
    <3>. QED  BY <1>1, <3>1, <3>2
  <2>2. ASSUME NEW x \in S PROVE g[x] \in S \cup {Nil}
    <3>1. CASE x = c
      BY <3>1
    <3>2. CASE x # c
      <4>1. x \in U /\ x \notin W /\ g[x] = f[x] /\ f[x] \in U \cup {Nil}
        BY <1>1, <3>2, MetClosed
      <4>2. f[x] \in W => f[x] = c
        <5>1. ASSUME f[x] \in W, f[x] # c PROVE FALSE
          <6>1. PICK y \in W : f[y] = f[x]
            BY <1>6, <5>1
          <6>2. y \in U
            BY <1>1
          <6>3. x = y
            BY <1>1, <1>2, <4>1, <6>1, <6>2, MetOnce
          <6>. QED  BY <4>1, <6>3
        <5>. QED  BY <5>1
      <4>. QED  BY <4>1, <4>2
    <3>. QED  BY <3>1, <3>2
  <2>3. b \in S \cup {Nil} /\ \A x \in S : g[x] \in S \cup {Nil}
    BY <2>1, <2>2
  <2>4. Met(T, g, b) \subseteq S
    <3>. HIDE DEF S
    <3>. QED  BY <2>1, <2>3 DEF Met
  <2>. QED  BY <2>4
<1>17. U \subseteq Met(T, g, b) \cup W
  <2>. DEFINE S == Met(T, g, b) \cup W
  <2>1. S \in SUBSET T /\ b \in S
    BY <1>1, MetClosed
  <2>2. ASSUME NEW x \in S PROVE f[x] \in S \cup {Nil}
    <3>1. CASE x \in W
      BY <1>4, <3>1
    <3>2. CASE x \notin W
      <4>1. x # c /\ x \in Met(T, g, b) /\ x \in T
        BY <1>1, <3>2, MetClosed
      <4>2. g[x] \in Met(T, g, b) \cup {Nil}
        BY <1>1, <4>1, MetClosed
      <4>. QED  BY <4>1, <4>2
    <3>. QED  BY <3>1, <3>2
  <2>3. b \in S \cup {Nil} /\ \A x \in S : f[x] \in S \cup {Nil}
    BY <2>1, <2>2
  <2>4. U \subseteq S
    <3>. HIDE DEF S
    <3>. QED  BY <2>1, <2>3 DEF Met
  <2>. QED  BY <2>4
<1>18. c \in Met(T, g, b)
  <2>. SUFFICES ASSUME c \notin Met(T, g, b) PROVE FALSE
    OBVIOUS
  <2>1. Met(T, g, b) \subseteq T
    BY <1>1, MetClosed
  <2>2. \A x \in Met(T, g, b) : f[x] = g[x]
    BY <2>1
  <2>3. Met(T, f, b) = Met(T, g, b)
    BY <1>1, <2>2, MetKept
  <2>. QED  BY <2>3
<1>19. \A x \in Met(T, g, b) : g[x] = Nil => x = c
  <2>1. ASSUME NEW x \in Met(T, g, b), g[x] = Nil, x # c PROVE FALSE
    <3>1. x \in U /\ x \notin W /\ f[x] = Nil
      BY <1>1, <1>16, <2>1
    <3>. QED  BY <1>3, <3>1
  <2>. QED  BY <2>1
<1>20. \A x \in Met(T, g, b) : k[x] = Nil
  BY <1>1, <1>2, <1>7, <1>8, <1>16
<1>21. Ends(T, g, b) /\ Ends(T, k, m[e])
  BY <1>7, <1>13, <1>1, <1>18 DEF Ends
<1>22. Met(T, k, m[e]) \cap Met(T, g, b) = {c}
  <2>1. R \cap (U \ W) = {}
    BY <1>2
  <2>. QED  BY <1>1, <1>14, <1>16, <1>18, <2>1
<1>23. Listed(T, g, k, l, b)
  BY <1>19, <1>20, <1>21, <1>22 DEF Listed
<1>24. Members(T, g, k, l, b) = Met(T, g, b) \cup Met(T, k, l[c])
  BY <1>1, <1>18, <1>23, ListEnd
<1>25. Members(T, g, k, l, b) = Members(T, f, n, m, b)
  BY <1>1, <1>3, <1>14, <1>16, <1>17, <1>24
<1>. QED  BY <1>1, <1>15, <1>16, <1>18, <1>23, <1>25

(* The oldest block, o, is cut off the newer ones, and c forgets it.       *)
Unlinked(T, c, o, n, m, k, l) ==
  /\ o = m[c] /\ n[o] # Nil /\ k[o] = Nil /\ l[c] = n[o]
  /\ \A x \in T : (x # o => k[x] = n[x]) /\ (x # c => l[x] = m[x])

(* The oldest block leaves a list with others.                             *)
LEMMA ListUnlink ==
  ASSUME NEW T, Nil \notin T, NEW f \in LinksOf(T), NEW n \in LinksOf(T), NEW m \in LinksOf(T),
         NEW b \in T, Listed(T, f, n, m, b), NEW c \in Met(T, f, b), f[c] = Nil,
         NEW o \in T, NEW k \in LinksOf(T), NEW l \in LinksOf(T), Unlinked(T, c, o, n, m, k, l)
  PROVE  /\ Listed(T, f, k, l, b)
         /\ Members(T, f, k, l, b) = Members(T, f, n, m, b) \ {o}
         /\ o \in Members(T, f, n, m, b)
         /\ Met(T, k, o) = {o} /\ Ends(T, k, o)
<1>. DEFINE U == Met(T, f, b)
            R == Met(T, n, o)
            p == n[o]
<1>0. /\ o = m[c] /\ n[o] # Nil /\ k[o] = Nil /\ l[c] = n[o]
      /\ \A x \in T : (x # o => k[x] = n[x]) /\ (x # c => l[x] = m[x])
  BY DEF Unlinked
<1>1. b \in BlocksOf(T) /\ o \in BlocksOf(T) /\ p \in BlocksOf(T) /\ p \in T /\ U \subseteq T
  BY <1>0, MetClosed DEF BlocksOf, LinksOf
<1>2. Ends(T, f, b) /\ (\A x \in U : n[x] = Nil) /\ Ends(T, n, o) /\ R \cap U = {c}
  BY <1>0 DEF Listed
<1>3. /\ \A x \in U : f[x] = Nil => x = c
      /\ Members(T, f, n, m, b) = U \cup R
  BY <1>0, <1>1, ListEnd
<1>4. R = {o} \cup Met(T, n, p) /\ o \in R
  BY <1>0, <1>1, MetStep
<1>5. o \notin U
  BY <1>0, <1>2
<1>6. o \notin Met(T, n, p)
  BY <1>0, <1>1, <1>2, <1>4, MetEnds
<1>7. p \in R
  BY <1>0, <1>1, <1>4, MetClosed
<1>8. Ends(T, n, p)
  BY <1>0, <1>1, <1>2, <1>7, MetEnds
<1>9. Met(T, k, p) = Met(T, n, p) /\ Ends(T, k, p)
  <2>1. \A x \in Met(T, n, p) : k[x] = n[x]
    BY <1>0, <1>1, <1>6, MetClosed
  <2>. QED  BY <1>0, <1>1, <1>8, <2>1, MetKept
<1>10. Met(T, k, p) \cap U = {c}
  BY <1>2, <1>4, <1>5, <1>9
<1>11. \A x \in U : k[x] = Nil
  BY <1>0, <1>1, <1>2, <1>5
<1>12. Listed(T, f, k, l, b)
  BY <1>0, <1>2, <1>3, <1>9, <1>10, <1>11 DEF Listed
<1>13. Members(T, f, k, l, b) = U \cup Met(T, k, p)
  BY <1>0, <1>1, <1>12, ListEnd
<1>14. Met(T, k, o) = {o}
  BY <1>0, <1>1, MetStep
<1>15. Ends(T, k, o)
  BY <1>0, <1>14 DEF Ends
<1>. QED  BY <1>3, <1>4, <1>5, <1>6, <1>9, <1>12, <1>13, <1>14, <1>15

-----------------------------------------------------------------------------
(* The lock.                                                               *)
(* The labels between the claim of the Waking flag and its reset, and those*)
(* at which a thread owns blocks it has unlinked.                          *)
Repairing == {"optimize", "optimizeCas", "wake", "wakeWriter", "takeAll"}
Taking == {"wakeWriter", "wakeEach", "release"}
LockLabels == {"out", "acquire", "in", "spin", "keyed", "claim", "unlock"} \cup Repairing \cup Taking
LockLinks == LinksOf(Threads)

LockWords == [Locked : BOOLEAN, Waiting : BOOLEAN, Waking : BOOLEAN, MultipleShared : BOOLEAN,
              top : BlocksOf(Threads), Shared : Nat]

LockTypes ==
  /\ lock \in LockWords
  /\ back \in LockLinks /\ notify \in LockLinks /\ next \in LockLinks
  /\ share \in [Threads -> Nat]
  /\ flag \in [Threads -> SUBSET {"exclusive", "shared", "waiting"}]
  /\ pc \in [Threads -> LockLabels]
  /\ mode \in [Threads -> {"exclusive", "shared"}]
  /\ status \in [Threads -> LockWords]
  /\ then \in [Threads -> {"out", "spin"}]
  /\ first \in LockLinks /\ wakee \in LockLinks
  /\ calls \in [Threads -> Nat]

(* The flags and the pointer or count beside them belong together.         *)
LockWord ==
  /\ lock.Waiting <=> lock.top # Nil
  /\ lock.Waking => lock.Waiting
  /\ lock.MultipleShared => lock.Waiting /\ lock.Locked
  /\ lock.Waiting => lock.Shared = 0

(* The list the word leads to, and its blocks.                             *)
LockList == Listed(Threads, Older, next, notify, lock.top)
InList == Members(Threads, Older, next, notify, lock.top)

(* One thread at a time repairs the list, and only while Waking is set; the*)
(* word it has read has the newest block of a part of the list.            *)
LockWaker ==
  /\ \A t \in Threads : pc[t] \in Repairing =>
       /\ lock.Waking
       /\ \A u \in Threads : pc[u] \in Repairing => u = t
       /\ status[t].top \in Met(Threads, Older, lock.top)
       /\ lock.MultipleShared => status[t].Locked
       /\ pc[t] \in {"wakeWriter", "takeAll"} => ~status[t].Locked
       /\ pc[t] = "takeAll" => first[t] # Nil /\ notify[status[t].top] = first[t]
  /\ \A t \in Threads : pc[t] = "claim" =>
       status[t].Waiting /\ ~status[t].Waking /\ ~status[t].Locked

(* The blocks t has unlinked and not yet released.                         *)
Taken(t) ==
  {w \in Threads : \/ pc[t] \in Taking /\ w \in Met(Threads, next, first[t])
                   \/ pc[t] = "release" /\ w = wakee[t]}

(* The owner of w has not gone on: it spins, with its bit still set, or    *)
(* has reset the bit and sleeps.                                           *)
Asleep(w) ==
  \/ /\ "waiting" \in flag[w]
     /\ pc[w] = "spin" \/ (pc[w] \in Repairing \cup Taking /\ then[w] = "spin")
  \/ "waiting" \notin flag[w] /\ pc[w] = "keyed"

(* Each block of a sleeper is in the list or with one waker, and a chain a *)
(* waker has taken comes to an end.                                        *)
LockPlaces ==
  /\ \A w \in InList : Asleep(w)
  /\ \A t \in Threads : \A w \in Taken(t) :
       Asleep(w) /\ w \notin InList /\ \A u \in Threads : w \in Taken(u) => u = t
  /\ \A t \in Threads : pc[t] \in Taking => Ends(Threads, next, first[t])
  /\ \A t \in Threads : pc[t] \in {"wakeWriter", "wakeEach"} => first[t] # Nil
  /\ \A t \in Threads : pc[t] = "release" =>
       /\ wakee[t] \in Threads
       /\ wakee[t] \notin Met(Threads, next, first[t])
       /\ pc[wakee[t]] = "keyed"

Sharing == Holders("shared")

(* The readers inside are as many as the word, or the oldest block, counts;*)
(* a writer inside is alone.                                               *)
LockHolders ==
  /\ ~lock.Locked => \A t \in Threads : pc[t] # "in" /\ pc[t] # "unlock"
  /\ \A t \in Threads : pc[t] = "in" /\ mode[t] = "exclusive" =>
       /\ lock.Shared = 0 /\ ~lock.MultipleShared
       /\ \A u \in Threads : pc[u] # "unlock" /\ (pc[u] = "in" => u = t)
  /\ ~lock.Waiting => Cardinality(Sharing) = lock.Shared
  /\ lock.Waiting /\ ~lock.MultipleShared =>
       \A t, u \in Threads : pc[t] = "in" /\ pc[u] = "in" => t = u
  /\ lock.MultipleShared =>
       \A x \in Met(Threads, Older, lock.top) :
         Older[x] = Nil => share[notify[x]] = Cardinality(Sharing)
  /\ \A t \in Threads : pc[t] = "unlock" =>
       lock.MultipleShared /\ Sharing = {} /\ \A u \in Threads : pc[u] = "unlock" => u = t

(* The inductive invariant.                                                *)
LockInv == LockTypes /\ LockWord /\ LockWaker /\ LockList /\ LockPlaces /\ LockHolders

-----------------------------------------------------------------------------
(* What the walk from a block of the list finds.                           *)
Learned(T, f, n, b) ==
  [t \in T |-> IF \E x \in Met(T, f, b) : f[x] = t
               THEN CHOOSE x \in Met(T, f, b) : f[x] = t ELSE n[t]]

LEMMA LinkedIs ==
  ASSUME NEW T, Nil \notin T, NEW f \in LinksOf(T), NEW n \in LinksOf(T), NEW b \in BlocksOf(T),
         Ends(T, f, b)
  PROVE  /\ Learned(T, f, n, b) \in LinksOf(T)
         /\ \A x \in Met(T, f, b) : f[x] # Nil => Learned(T, f, n, b)[f[x]] = x
         /\ \A w \in T : (\A x \in Met(T, f, b) : f[x] # w) => Learned(T, f, n, b)[w] = n[w]
<1>. DEFINE k == Learned(T, f, n, b)
<1>. USE DEF Learned
<1>1. ASSUME NEW w \in T PROVE k[w] \in BlocksOf(T)
  <2>1. CASE \E x \in Met(T, f, b) : f[x] = w
    <3>1. k[w] \in Met(T, f, b)
      BY <2>1
    <3>. QED  BY <3>1, MetClosed DEF BlocksOf
  <2>2. CASE ~ \E x \in Met(T, f, b) : f[x] = w
    <3>1. k[w] = n[w]
      BY <2>2
    <3>. QED  BY <3>1 DEF LinksOf
  <2>. QED  BY <2>1, <2>2
<1>2. k \in LinksOf(T)
  BY <1>1 DEF LinksOf
<1>3. ASSUME NEW x \in Met(T, f, b), f[x] # Nil PROVE k[f[x]] = x
  <2>1. f[x] \in T /\ x \in T
    BY <1>3, MetClosed DEF LinksOf, BlocksOf
  <2>2. k[f[x]] \in Met(T, f, b) /\ f[k[f[x]]] = f[x]
    BY <2>1
  <2>. QED  BY <2>2, MetOnce
<1>. QED  BY <1>2, <1>3

LEMMA OldestIs ==
  ASSUME NEW T, Nil \notin T, NEW f \in LinksOf(T), NEW b \in BlocksOf(T), Ends(T, f, b),
         NEW e \in Met(T, f, b), f[e] = Nil
  PROVE  (CHOOSE x \in Met(T, f, b) : f[x] = Nil) = e
<1>. DEFINE c == CHOOSE x \in Met(T, f, b) : f[x] = Nil
<1>1. c \in Met(T, f, b) /\ f[c] = Nil
  OBVIOUS
<1>. HIDE DEF c
<1>2. c = e
  BY <1>1, MetOnce
<1>. QED  BY <1>2 DEF c

LEMMA LockLinksOlder ==
  ASSUME LockTypes
  PROVE  Older \in LockLinks
BY DEF LockTypes, LockLinks, LinksOf, BlocksOf, Older

LEMMA WalkIs ==
  /\ \A b : Walk(b) = Met(Threads, Older, b)
  /\ \A b : Oldest(b) = notify[CHOOSE x \in Met(Threads, Older, b) : Older[x] = Nil]
  /\ \A b : Linked(b) = Learned(Threads, Older, next, b)
<1>1. \A b : Walk(b) = Met(Threads, Older, b)
  BY DEF Walk, Reach, Met
<1>. QED  BY <1>1 DEF Oldest, Linked, Learned

LEMMA WalkFrom ==
  ASSUME LockTypes, LockList, NEW c \in Met(Threads, Older, lock.top)
  PROVE  /\ c \in Threads /\ lock.top \in Threads
         /\ \E e \in Met(Threads, Older, c) :
              /\ Older[e] = Nil /\ e \in Met(Threads, Older, lock.top)
              /\ Oldest(c) = notify[e] /\ Oldest(lock.top) = notify[e]
              /\ notify[e] \in Threads /\ notify[e] \in InList
         /\ Linked(c) \in LockLinks
         /\ \A x \in Met(Threads, Older, c) : Older[x] # Nil => Linked(c)[Older[x]] = x
         /\ \A w \in Threads : (\A x \in Met(Threads, Older, c) : Older[x] # w)
              => Linked(c)[w] = next[w]
<1>. USE LockAssumption
<1>1. Older \in LinksOf(Threads) /\ next \in LinksOf(Threads) /\ notify \in LinksOf(Threads)
  BY LockLinksOlder DEF LockTypes, LockLinks
<1>2. lock.top \in BlocksOf(Threads)
  BY DEF LockTypes, LockWords
<1>3. c \in Threads /\ lock.top # Nil
  BY <1>1, <1>2, MetClosed, MetStep
<1>4. lock.top \in Threads /\ c \in BlocksOf(Threads)
  BY <1>2, <1>3 DEF BlocksOf
<1>5. Ends(Threads, Older, lock.top) /\ Ends(Threads, Older, c)
  BY <1>1, <1>2, MetEnds DEF LockList, Listed
<1>6. PICK e \in Met(Threads, Older, c) : Older[e] = Nil
  BY <1>3, <1>5, LockAssumption DEF Ends
<1>7. e \in Met(Threads, Older, lock.top)
  BY <1>1, <1>2, <1>6, MetSub
<1>8. Oldest(c) = notify[e]
  BY <1>1, <1>4, <1>5, <1>6, OldestIs, WalkIs
<1>9. Oldest(lock.top) = notify[e]
  BY <1>1, <1>2, <1>5, <1>6, <1>7, OldestIs, WalkIs
<1>10. notify[e] \in Threads /\ notify[e] \in InList
  BY <1>1, <1>2, <1>6, <1>7, ListEnd DEF LockList, InList
<1>13. /\ Linked(c) \in LinksOf(Threads)
       /\ \A x \in Met(Threads, Older, c) : Older[x] # Nil => Linked(c)[Older[x]] = x
       /\ \A w \in Threads : (\A x \in Met(Threads, Older, c) : Older[x] # w)
            => Linked(c)[w] = next[w]
  <2>1. Linked(c) = Learned(Threads, Older, next, c)
    BY WalkIs
  <2>2. /\ Learned(Threads, Older, next, c) \in LinksOf(Threads)
        /\ \A x \in Met(Threads, Older, c) :
             Older[x] # Nil => Learned(Threads, Older, next, c)[Older[x]] = x
        /\ \A w \in Threads : (\A x \in Met(Threads, Older, c) : Older[x] # w)
             => Learned(Threads, Older, next, c)[w] = next[w]
    BY <1>1, <1>4, <1>5, LinkedIs
  <2>. QED  BY <2>1, <2>2
<1>. QED  BY <1>3, <1>4, <1>6, <1>7, <1>8, <1>9, <1>10, <1>13 DEF LockLinks

LEMMA ListTypes ==
  ASSUME LockTypes
  PROVE  /\ Nil \notin Threads
         /\ Older \in LinksOf(Threads) /\ next \in LinksOf(Threads)
         /\ notify \in LinksOf(Threads) /\ back \in LinksOf(Threads)
         /\ first \in LinksOf(Threads) /\ wakee \in LinksOf(Threads)
         /\ lock.top \in BlocksOf(Threads)
         /\ Met(Threads, Older, lock.top) \subseteq InList
         /\ InList \subseteq Threads
<1>1. /\ Nil \notin Threads
      /\ Older \in LinksOf(Threads) /\ next \in LinksOf(Threads)
      /\ notify \in LinksOf(Threads) /\ back \in LinksOf(Threads)
      /\ first \in LinksOf(Threads) /\ wakee \in LinksOf(Threads)
      /\ lock.top \in BlocksOf(Threads)
  BY LockLinksOlder, LockAssumption DEF LockTypes, LockLinks, LockWords
<1>2. Met(Threads, Older, lock.top) \subseteq Threads
  BY <1>1, MetClosed
<1>. QED  BY <1>1, <1>2 DEF InList, Members

LEMMA LinkStep ==
  ASSUME LockTypes, LockList, NEW c \in Met(Threads, Older, lock.top),
         NEW g \in LinksOf(Threads), NEW l \in LinksOf(Threads), g[c] = Nil, l[c] = Oldest(c),
         \A x \in Threads : x # c => g[x] = Older[x] /\ l[x] = notify[x]
  PROVE  /\ Linked(c) \in LinksOf(Threads)
         /\ Listed(Threads, g, Linked(c), l, lock.top)
         /\ Members(Threads, g, Linked(c), l, lock.top) = InList
         /\ c \in Met(Threads, g, lock.top)
         /\ Met(Threads, g, lock.top) \subseteq Met(Threads, Older, lock.top)
         /\ Met(Threads, g, c) = {c}
         /\ l[c] = Oldest(lock.top) /\ Oldest(c) = Oldest(lock.top)
         /\ Oldest(c) \in InList /\ Oldest(c) \in Threads
         /\ \A x \in Threads \ InList : Linked(c)[x] = next[x]
<1>1. /\ c \in Threads /\ lock.top \in Threads
      /\ Linked(c) \in LinksOf(Threads)
      /\ \A x \in Met(Threads, Older, c) : Older[x] # Nil => Linked(c)[Older[x]] = x
      /\ \A w \in Threads : (\A x \in Met(Threads, Older, c) : Older[x] # w)
           => Linked(c)[w] = next[w]
  BY WalkFrom DEF LockLinks
<1>2. PICK e \in Met(Threads, Older, c) :
        /\ Older[e] = Nil /\ e \in Met(Threads, Older, lock.top)
        /\ Oldest(c) = notify[e] /\ Oldest(lock.top) = notify[e]
        /\ notify[e] \in Threads /\ notify[e] \in InList
  BY WalkFrom
<1>5. /\ Listed(Threads, g, Linked(c), l, lock.top)
      /\ Members(Threads, g, Linked(c), l, lock.top) = InList
      /\ c \in Met(Threads, g, lock.top)
      /\ Met(Threads, g, lock.top) \subseteq Met(Threads, Older, lock.top)
      /\ Met(Threads, g, c) = {c}
  <2>1. PICK k : k = Linked(c)
    OBVIOUS
  <2>2. k \in LinksOf(Threads) /\ Taught(Threads, Older, c, next, k)
    BY <1>1, <2>1 DEF Taught
  <2>3. Cut(Threads, Older, notify, c, e, g, l)
    BY <1>2 DEF Cut
  <2>4. /\ Nil \notin Threads /\ Older \in LinksOf(Threads) /\ next \in LinksOf(Threads)
        /\ notify \in LinksOf(Threads)
    BY ListTypes
  <2>5. lock.top \in Threads /\ Older[e] = Nil
    BY <1>1, <1>2
  <2>6. /\ Listed(Threads, g, k, l, lock.top)
        /\ Members(Threads, g, k, l, lock.top) = Members(Threads, Older, next, notify, lock.top)
        /\ c \in Met(Threads, g, lock.top)
        /\ Met(Threads, g, lock.top) \subseteq Met(Threads, Older, lock.top)
        /\ Met(Threads, g, c) = {c}
    <3>1. PICK f : f = Older
      OBVIOUS
    <3>2. PICK b : b = lock.top
      OBVIOUS
    <3>3. f \in LinksOf(Threads) /\ b \in Threads /\ c \in Met(Threads, f, b) /\ e \in Met(Threads, f, c)
      BY <3>1, <3>2, <2>4, <2>5
    <3>4. Listed(Threads, f, next, notify, b) /\ f[e] = Nil
      BY <3>1, <3>2, <2>5 DEF LockList
    <3>5. Taught(Threads, f, c, next, k) /\ Cut(Threads, f, notify, c, e, g, l)
      BY <3>1, <2>2, <2>3
    <3>6. /\ Listed(Threads, g, k, l, b)
          /\ Members(Threads, g, k, l, b) = Members(Threads, f, next, notify, b)
        /\ c \in Met(Threads, g, b)
        /\ Met(Threads, g, b) \subseteq Met(Threads, f, b)
        /\ Met(Threads, g, c) = {c}
      BY <3>3, <3>4, <3>5, <2>2, <2>4, ListLink
    <3>. QED BY <3>1, <3>2, <3>6
  <2>. QED  BY <2>1, <2>6 DEF InList
<1>6. ASSUME NEW x \in Threads \ InList PROVE Linked(c)[x] = next[x]
  <2>1. \A y \in Met(Threads, Older, c) : Older[y] \in Met(Threads, Older, c) \cup {Nil}
    BY <1>1, ListTypes, MetClosed DEF BlocksOf
  <2>2. Met(Threads, Older, c) \subseteq Met(Threads, Older, lock.top)
    BY ListTypes, MetSub
  <2>3. \A y \in Met(Threads, Older, c) : Older[y] # x
    BY <2>1, <2>2, <1>6, ListTypes
  <2>. QED  BY <1>1, <2>3
<1>. QED  BY <1>1, <1>2, <1>5, <1>6

(* What a step leaves as it is.                                            *)
LEMMA WordKept ==
  ASSUME LockWord, lock'.top = lock.top, lock'.Waiting = lock.Waiting, lock'.Shared = lock.Shared,
         lock'.MultipleShared = lock.MultipleShared, lock'.Locked = lock.Locked,
         lock'.Waking => lock.Waiting
  PROVE  LockWord'
BY DEF LockWord

LEMMA ListSame ==
  ASSUME LockList, back' = back, notify' = notify, next' = next, lock'.top = lock.top
  PROVE  LockList' /\ Older' = Older /\ InList' = InList
BY DEF LockList, InList, Older

LEMMA HoldersKept ==
  ASSUME LockHolders, lock'.Waiting = lock.Waiting, lock'.Shared = lock.Shared,
         lock'.MultipleShared = lock.MultipleShared, lock'.Locked = lock.Locked,
         \A t \in Threads : /\ pc'[t] = "in" <=> pc[t] = "in"
                            /\ pc[t] = "in" => mode'[t] = mode[t]
                            /\ pc'[t] = "unlock" <=> pc[t] = "unlock",
         lock.MultipleShared => \A x \in Met(Threads, Older', lock'.top) :
            Older'[x] = Nil => share'[notify'[x]] = Cardinality(Sharing)
  PROVE  LockHolders'
<1>1. Sharing' = Sharing
  BY DEF Sharing, Holders
<1>. QED  BY <1>1 DEF LockHolders

LEMMA PlacesSame ==
  ASSUME LockTypes, LockPlaces,
         back' = back, notify' = notify, next' = next, lock'.top = lock.top,
         first' = first, wakee' = wakee,
         \A t \in Threads : pc'[t] \in Taking => pc[t] \in Taking,
         \A t \in Threads : pc'[t] \in {"wakeWriter", "wakeEach"} => first[t] # Nil,
         \A t \in Threads : pc'[t] = "release" => pc[t] = "release" /\ pc'[wakee[t]] = "keyed",
         \A w \in Threads : Asleep(w) => \/ Asleep(w)'
                                         \/ w \notin InList /\ \A t \in Threads : w \notin Taken(t)'
  PROVE  LockPlaces'
<1>1. InList' = InList
  BY DEF InList, Older
<1>2. ASSUME NEW t \in Threads PROVE Taken(t)' \subseteq Taken(t)
  BY DEF Taken
<1>3. InList \subseteq Threads /\ \A t \in Threads : Taken(t) \subseteq Threads
  BY DEF InList, Members, Taken
<1>4. (\A w \in InList : Asleep(w))'
  BY <1>1, <1>3 DEF LockPlaces
<1>5. (\A t \in Threads : \A w \in Taken(t) :
         Asleep(w) /\ w \notin InList /\ \A u \in Threads : w \in Taken(u) => u = t)'
  <2>1. ASSUME NEW t \in Threads, NEW w \in Taken(t)'
        PROVE  Asleep(w)' /\ w \notin InList' /\ \A u \in Threads : w \in Taken(u)' => u = t
    BY <1>1, <1>2, <1>3, <2>1 DEF LockPlaces
  <2>. QED  BY <2>1
<1>6. (\A t \in Threads : pc[t] \in Taking => Ends(Threads, next, first[t]))'
  BY DEF LockPlaces
<1>7. (\A t \in Threads : pc[t] \in {"wakeWriter", "wakeEach"} => first[t] # Nil)'
  BY DEF LockPlaces
<1>8. (\A t \in Threads : pc[t] = "release" =>
         /\ wakee[t] \in Threads
         /\ wakee[t] \notin Met(Threads, next, first[t])
         /\ pc[wakee[t]] = "keyed")'
  BY DEF LockPlaces
<1>. QED  BY <1>4, <1>5, <1>6, <1>7, <1>8 DEF LockPlaces

-----------------------------------------------------------------------------
(* The words.                                                              *)
LEMMA WordParts ==
  ASSUME NEW w \in LockWords
  PROVE  /\ w.Locked \in BOOLEAN /\ w.Waiting \in BOOLEAN /\ w.Waking \in BOOLEAN
         /\ w.MultipleShared \in BOOLEAN /\ w.top \in BlocksOf(Threads) /\ w.Shared \in Nat
BY DEF LockWords

LEMMA FreeWord ==
  /\ Free \in LockWords
  /\ ~Free.Locked /\ ~Free.Waiting /\ ~Free.Waking /\ ~Free.MultipleShared
  /\ Free.top = Nil /\ Free.Shared = 0
BY DEF Free, LockWords, BlocksOf

LEMMA GrantedWord ==
  ASSUME LockTypes, NEW m
  PROVE  /\ Granted(m) \in LockWords
         /\ Granted(m).Locked /\ Granted(m).Waiting = lock.Waiting
         /\ Granted(m).Waking = lock.Waking /\ Granted(m).MultipleShared = lock.MultipleShared
         /\ Granted(m).top = lock.top
         /\ Granted(m).Shared = IF m = Exclusive \/ lock.Waiting THEN lock.Shared ELSE lock.Shared + 1
<1>1. lock \in LockWords /\ lock.Shared \in Nat /\ lock.Shared + 1 \in Nat
  BY WordParts DEF LockTypes
<1>2. CASE m = Exclusive \/ lock.Waiting
  BY <1>1, <1>2 DEF Granted, LockWords
<1>3. CASE ~(m = Exclusive \/ lock.Waiting)
  <2>1. PICK n \in Nat : n = lock.Shared + 1
    BY <1>1
  <2>2. Granted(m) = [lock EXCEPT !.Locked = TRUE, !.Shared = n]
    BY <1>3, <2>1 DEF Granted
  <2>. QED  BY <1>1, <1>3, <2>1, <2>2 DEF LockWords
<1>. QED  BY <1>2, <1>3

LEMMA QueuedWord ==
  ASSUME LockTypes, NEW t \in Threads, NEW w, w = [lock EXCEPT !.Waking = TRUE, !.top = t]
  PROVE  /\ w \in LockWords /\ w.Locked = lock.Locked /\ w.Waiting = lock.Waiting /\ w.Waking
         /\ w.MultipleShared = lock.MultipleShared /\ w.top = t /\ w.Shared = lock.Shared
BY DEF LockTypes, LockWords, BlocksOf

FirstOf(v, t, b) == [v EXCEPT !.Waiting = TRUE, !.top = t, !.Shared = 0, !.MultipleShared = b]

LEMMA FirstOfParts ==
  ASSUME NEW v \in LockWords, NEW t \in Threads, NEW b \in BOOLEAN
  PROVE  /\ FirstOf(v, t, b) \in LockWords
         /\ FirstOf(v, t, b).Locked = v.Locked
         /\ FirstOf(v, t, b).Waiting
         /\ FirstOf(v, t, b).Waking = v.Waking
         /\ FirstOf(v, t, b).MultipleShared = b
         /\ FirstOf(v, t, b).top = t
         /\ FirstOf(v, t, b).Shared = 0
BY DEF FirstOf, LockWords, BlocksOf

LEMMA FirstWord ==
  ASSUME LockTypes, NEW t \in Threads, NEW b
  PROVE  (b <=> lock.Shared > 1) /\ b \in BOOLEAN =>
         /\ FirstOf(lock, t, b) \in LockWords
         /\ FirstOf(lock, t, b).Locked = lock.Locked
         /\ FirstOf(lock, t, b).Waiting
         /\ FirstOf(lock, t, b).Waking = lock.Waking
         /\ FirstOf(lock, t, b).MultipleShared = b
         /\ FirstOf(lock, t, b).top = t
         /\ FirstOf(lock, t, b).Shared = 0
<1>1. lock \in LockWords
  BY DEF LockTypes
<1>. QED  BY <1>1, FirstOfParts

LEMMA NotWakingWord ==
  ASSUME NEW v \in LockWords, NEW w, w = [v EXCEPT !.Waking = FALSE]
  PROVE  /\ w \in LockWords /\ w.Locked = v.Locked /\ w.Waiting = v.Waiting /\ ~w.Waking
         /\ w.MultipleShared = v.MultipleShared /\ w.top = v.top /\ w.Shared = v.Shared
BY DEF LockWords

LEMMA WakingWord ==
  ASSUME NEW v \in LockWords, NEW w, w = [v EXCEPT !.Waking = TRUE]
  PROVE  /\ w \in LockWords /\ w.Locked = v.Locked /\ w.Waiting = v.Waiting /\ w.Waking
         /\ w.MultipleShared = v.MultipleShared /\ w.top = v.top /\ w.Shared = v.Shared
BY DEF LockWords

LEMMA ReleasedWord ==
  ASSUME NEW v \in LockWords, NEW w, w = [v EXCEPT !.Locked = FALSE]
  PROVE  /\ w \in LockWords /\ ~w.Locked /\ w.Waiting = v.Waiting /\ w.Waking = v.Waking
         /\ w.MultipleShared = v.MultipleShared /\ w.top = v.top /\ w.Shared = v.Shared
BY DEF LockWords

LEMMA LeftWord ==
  ASSUME NEW v \in LockWords, NEW n \in Nat, n + 1 = v.Shared, NEW w, w = [v EXCEPT !.Shared = @ - 1]
  PROVE  /\ w \in LockWords /\ w.Locked = v.Locked /\ w.Waiting = v.Waiting /\ w.Waking = v.Waking
         /\ w.MultipleShared = v.MultipleShared /\ w.top = v.top /\ w.Shared = n
<1>1. w = [v EXCEPT !.Shared = n]
  OBVIOUS
<1>. QED  BY <1>1 DEF LockWords

LEMMA UnlockedWord ==
  ASSUME NEW v \in LockWords, NEW w,
         w = [v EXCEPT !.MultipleShared = FALSE, !.Locked = FALSE, !.Waking = TRUE]
  PROVE  /\ w \in LockWords /\ ~w.Locked /\ w.Waiting = v.Waiting /\ w.Waking
         /\ ~w.MultipleShared /\ w.top = v.top /\ w.Shared = v.Shared
BY DEF LockWords

-----------------------------------------------------------------------------
(* The steps that leave the list alone.                                    *)
LEMMA StartStep ==
  ASSUME LockInv, NEW t \in Threads, Start(t)
  PROVE  LockInv'
<1>. USE DEF LockInv
<1>1. PICK m \in Modes[t] :
        /\ pc[t] = "out" /\ calls[t] > 0
        /\ calls' = [calls EXCEPT ![t] = @ - 1]
        /\ mode' = [mode EXCEPT ![t] = m]
        /\ pc' = [pc EXCEPT ![t] = "acquire"]
        /\ UNCHANGED <<lock, blocks, status, then, first, wakee>>
  BY DEF Start, Goto
<1>2. m \in {"exclusive", "shared"}
  BY LockAssumption
<1>3. UNCHANGED <<lock, back, notify, next, share, flag, status, then, first, wakee>>
  BY <1>1 DEF blocks
<1>4. LockTypes'
  <2>1. calls' \in [Threads -> Nat]
    BY <1>1 DEF LockTypes
  <2>2. mode' \in [Threads -> {"exclusive", "shared"}]
    BY <1>1, <1>2 DEF LockTypes
  <2>3. pc' \in [Threads -> LockLabels]
    BY <1>1 DEF LockTypes, LockLabels
  <2>. QED  BY <1>3, <2>1, <2>2, <2>3 DEF LockTypes
<1>5. LockWord'
  BY <1>3 DEF LockWord
<1>6. LockList' /\ Older' = Older /\ InList' = InList
  BY <1>3, ListSame
<1>7. \A u \in Threads : /\ u # t => pc'[u] = pc[u] /\ mode'[u] = mode[u]
                         /\ pc'[t] = "acquire" /\ pc[t] = "out"
  BY <1>1 DEF LockTypes
<1>8. LockWaker'
  BY <1>3, <1>6, <1>7 DEF LockWaker, Repairing
<1>9. LockPlaces'
  <2>1. \A w \in Threads : Asleep(w) => Asleep(w)'
    BY <1>3, <1>7 DEF Asleep, Repairing, Taking
  <2>2. /\ \A u \in Threads : pc'[u] \in Taking => pc[u] \in Taking
        /\ \A u \in Threads : pc'[u] \in {"wakeWriter", "wakeEach"} => first[u] # Nil
        /\ \A u \in Threads : pc'[u] = "release" => pc[u] = "release" /\ pc'[wakee[u]] = "keyed"
    BY <1>7 DEF Taking, LockPlaces
  <2>. QED  BY <1>3, <2>1, <2>2, PlacesSame
<1>10. LockHolders'
  <2>1. \A u \in Threads : /\ pc'[u] = "in" <=> pc[u] = "in"
                           /\ pc[u] = "in" => mode'[u] = mode[u]
                           /\ pc'[u] = "unlock" <=> pc[u] = "unlock"
    BY <1>7
  <2>2. lock.MultipleShared => \A x \in Met(Threads, Older', lock'.top) :
            Older'[x] = Nil => share'[notify'[x]] = Cardinality(Sharing)
    BY <1>3, <1>6 DEF LockHolders
  <2>. QED  BY <1>3, <2>1, <2>2, HoldersKept
<1>. QED  BY <1>4, <1>5, <1>6, <1>8, <1>9, <1>10

(* Who is granted the lock becomes a holder beside those who may be there. *)
LEMMA SharingJoins ==
  ASSUME NEW t \in Threads, t \notin Sharing, Sharing' = Sharing \cup {t}
  PROVE  Cardinality(Sharing)' = Cardinality(Sharing) + 1
<1>1. IsFiniteSet(Sharing)
  BY FS_Subset, LockAssumption DEF Sharing, Holders
<1>. QED  BY <1>1, FS_AddElement

LEMMA NobodyShares ==
  ASSUME Sharing = {}
  PROVE  Cardinality(Sharing) = 0
BY FS_EmptySet

LEMMA GrantedHolders ==
  ASSUME LockTypes, LockWord, LockHolders,
         NEW t \in Threads, NEW m \in {"exclusive", "shared"}, Grants(m), lock' = Granted(m),
         pc[t] # "in", pc'[t] = "in", mode'[t] = m,
         \A u \in Threads : u # t => pc'[u] = pc[u] /\ mode'[u] = mode[u]
  PROVE  LockHolders'
<1>1. /\ lock'.Locked /\ lock'.Waiting = lock.Waiting
      /\ lock'.MultipleShared = lock.MultipleShared
      /\ lock'.Shared = IF m = Exclusive \/ lock.Waiting THEN lock.Shared ELSE lock.Shared + 1
  BY GrantedWord
<1>2. ~lock.MultipleShared /\ (lock.Locked => m = "shared" /\ ~lock.Waiting /\ lock.Shared # 0)
  BY DEF LockWord, Grants, Exclusive
<1>3. \A u \in Threads : pc[u] # "unlock" /\ pc'[u] # "unlock"
  BY <1>2 DEF LockHolders
<1>4. ~lock.Locked => Sharing = {} /\ \A u \in Threads : u # t => pc'[u] # "in"
  BY DEF LockHolders, Sharing, Holders
<1>5. m = "exclusive" => Sharing' = {} /\ Sharing = {} /\ ~lock.Locked
  BY <1>2, <1>4 DEF Sharing, Holders
<1>6. m = "shared" => Sharing' = Sharing \cup {t} /\ t \notin Sharing
  BY DEF Sharing, Holders
<1>7. ~lock.Waiting => Cardinality(Sharing)' = lock'.Shared
  <2>. SUFFICES ASSUME ~lock.Waiting PROVE Cardinality(Sharing)' = lock'.Shared
    OBVIOUS
  <2>1. Cardinality(Sharing) = lock.Shared
    BY DEF LockHolders
  <2>2. CASE m = "exclusive"
    BY <1>1, <1>5, <2>1, <2>2 DEF Exclusive
  <2>3. CASE m = "shared"
    BY <1>1, <1>6, <2>1, <2>3, SharingJoins DEF Exclusive
  <2>. QED  BY <2>2, <2>3
<1>8. lock.Waiting => \A u \in Threads : u # t => pc'[u] # "in"
  BY <1>2, <1>4
<1>9. m = "exclusive" => lock'.Shared = 0 /\ \A u \in Threads : u # t => pc'[u] # "in"
  <2>. SUFFICES ASSUME m = "exclusive" PROVE lock.Shared = 0
    BY <1>1, <1>4, <1>5 DEF Exclusive
  <2>1. CASE lock.Waiting
    BY <2>1 DEF LockWord
  <2>2. CASE ~lock.Waiting
    BY <1>5, <2>2, NobodyShares DEF LockHolders
  <2>. QED  BY <2>1, <2>2
<1>10. m = "shared" => \A u \in Threads : pc'[u] = "in" => mode'[u] # "exclusive"
  BY <1>4, <1>2 DEF LockHolders
<1>. QED  BY <1>1, <1>2, <1>3, <1>7, <1>8, <1>9, <1>10 DEF LockHolders

LEMMA GrantedWaker ==
  ASSUME LockTypes, LockWaker, NEW t \in Threads, NEW m, lock' = Granted(m), Older' = Older,
         notify' = notify, status' = status, first' = first,
         pc'[t] \in {"in", "out"}, \A u \in Threads : u # t => pc'[u] = pc[u]
  PROVE  LockWaker'
<1>1. lock'.Waking = lock.Waking /\ lock'.top = lock.top /\ lock'.MultipleShared = lock.MultipleShared
  BY GrantedWord
<1>. QED  BY <1>1 DEF LockWaker, Repairing

LEMMA OutsidePlaces ==
  ASSUME LockTypes, LockPlaces,
         back' = back, notify' = notify, next' = next, lock'.top = lock.top,
         first' = first, wakee' = wakee, flag' = flag,
         NEW t \in Threads, pc[t] \in {"out", "acquire", "in", "claim", "unlock"},
         pc'[t] \notin Taking,
         \A u \in Threads : u # t => pc'[u] = pc[u] /\ then'[u] = then[u]
  PROVE  LockPlaces'
<1>1. \A w \in Threads : Asleep(w) => Asleep(w)'
  BY DEF Asleep, Repairing, Taking
<1>2. /\ \A u \in Threads : pc'[u] \in Taking => pc[u] \in Taking
      /\ \A u \in Threads : pc'[u] \in {"wakeWriter", "wakeEach"} => first[u] # Nil
      /\ \A u \in Threads : pc'[u] = "release" => pc[u] = "release" /\ pc'[wakee[u]] = "keyed"
  BY DEF Taking, LockPlaces
<1>. QED  BY <1>1, <1>2, PlacesSame

LEMMA AcquireStep ==
  ASSUME LockInv, NEW t \in Threads, Acquire(t)
  PROVE  LockInv'
<1>. USE DEF LockInv
<1>1. pc[t] = "acquire" /\ Grants(mode[t]) /\ lock' = Granted(mode[t])
  BY DEF Acquire
<1>2. UNCHANGED <<back, notify, next, share, flag, mode, status, then, first, wakee, calls>>
  BY DEF Acquire, blocks, local
<1>3. pc'[t] = "in" /\ \A u \in Threads : u # t => pc'[u] = pc[u]
  BY DEF Acquire, Goto, LockTypes
<1>4. /\ lock' \in LockWords /\ lock'.top = lock.top /\ lock'.Waiting = lock.Waiting
      /\ lock'.Waking = lock.Waking /\ lock'.MultipleShared = lock.MultipleShared /\ lock'.Locked
  BY <1>1, GrantedWord
<1>5. LockTypes'
  <2>1. pc' \in [Threads -> LockLabels]
    BY DEF Acquire, Goto, LockTypes, LockLabels
  <2>. QED  BY <1>2, <1>4, <2>1 DEF LockTypes
<1>6. LockWord'
  <2>1. lock.Waiting => lock'.Shared = lock.Shared
    BY <1>1, GrantedWord
  <2>. QED  BY <1>4, <2>1 DEF LockWord
<1>7. LockList' /\ Older' = Older /\ InList' = InList
  BY <1>2, <1>4, ListSame
<1>8. LockWaker'
  BY <1>1, <1>2, <1>3, <1>7, GrantedWaker
<1>9. LockPlaces'
  <2>1. pc[t] \in {"out", "acquire", "in", "claim", "unlock"} /\ pc'[t] \notin Taking
    BY <1>1, <1>3 DEF Taking
  <2>. QED  BY <1>2, <1>3, <1>4, <2>1, OutsidePlaces
<1>10. LockHolders'
  <2>1. mode[t] \in {"exclusive", "shared"}
    BY DEF LockTypes
  <2>. QED  BY <1>1, <1>2, <1>3, <2>1, GrantedHolders
<1>. QED  BY <1>5, <1>6, <1>7, <1>8, <1>9, <1>10

LEMMA TryAcquireStep ==
  ASSUME LockInv, NEW t \in Threads, TryAcquire(t)
  PROVE  LockInv'
<1>. USE DEF LockInv
<1>1. PICK m \in Modes[t] :
        /\ pc[t] = "out" /\ calls[t] > 0
        /\ calls' = [calls EXCEPT ![t] = @ - 1]
        /\ mode' = [mode EXCEPT ![t] = m]
        /\ lock' = IF Grants(m) THEN Granted(m) ELSE lock
        /\ pc' = [pc EXCEPT ![t] = IF Grants(m) THEN "in" ELSE "out"]
        /\ UNCHANGED <<blocks, status, then, first, wakee>>
  BY DEF TryAcquire, Goto
<1>. DEFINE label == IF Grants(m) THEN "in" ELSE "out"
<1>2. m \in {"exclusive", "shared"} /\ label \in {"in", "out"}
  BY LockAssumption
<1>3. UNCHANGED <<back, notify, next, share, flag, status, then, first, wakee>>
  BY <1>1 DEF blocks
<1>4. /\ pc'[t] = label /\ mode'[t] = m
      /\ \A u \in Threads : u # t => pc'[u] = pc[u] /\ mode'[u] = mode[u]
  BY <1>1 DEF LockTypes
<1>5. /\ lock' \in LockWords /\ lock'.top = lock.top /\ lock'.Waiting = lock.Waiting
      /\ lock'.Waking = lock.Waking /\ lock'.MultipleShared = lock.MultipleShared
      /\ lock.Locked => lock'.Locked
  <2>1. CASE Grants(m)
    BY <1>1, <2>1, GrantedWord
  <2>2. CASE ~Grants(m)
    BY <1>1, <2>2 DEF LockTypes
  <2>. QED  BY <2>1, <2>2
<1>6. LockTypes'
  <2>1. pc' \in [Threads -> LockLabels]
    <3>. HIDE DEF label
    <3>1. pc' = [pc EXCEPT ![t] = label]
      BY <1>1 DEF label
    <3>. QED  BY <1>2, <3>1 DEF LockTypes, LockLabels
  <2>2. calls' \in [Threads -> Nat]
    BY <1>1 DEF LockTypes
  <2>3. mode' \in [Threads -> {"exclusive", "shared"}]
    BY <1>1, <1>2 DEF LockTypes
  <2>. QED  BY <1>3, <1>5, <2>1, <2>2, <2>3 DEF LockTypes
<1>7. LockWord'
  <2>1. lock.Waiting => lock'.Shared = lock.Shared
    <3>1. CASE Grants(m)
      BY <1>1, <3>1, GrantedWord
    <3>2. CASE ~Grants(m)
      BY <1>1, <3>2
    <3>. QED  BY <3>1, <3>2
  <2>. QED  BY <1>5, <2>1 DEF LockWord
<1>8. LockList' /\ Older' = Older /\ InList' = InList
  BY <1>3, <1>5, ListSame
<1>9. LockPlaces'
  <2>1. pc[t] \in {"out", "acquire", "in", "claim", "unlock"} /\ pc'[t] \notin Taking
    BY <1>1, <1>2, <1>4 DEF Taking
  <2>. QED  BY <1>3, <1>4, <1>5, <2>1, OutsidePlaces
<1>10. LockWaker' /\ LockHolders'
  <2>1. CASE Grants(m)
    <3>1. lock' = Granted(m) /\ pc'[t] = "in" /\ pc[t] # "in"
      BY <1>1, <1>4, <2>1
    <3>2. LockHolders'
      BY <1>2, <1>4, <2>1, <3>1, GrantedHolders
    <3>. QED  BY <1>3, <1>4, <1>8, <3>1, <3>2, GrantedWaker
  <2>2. CASE ~Grants(m)
    <3>1. lock' = lock /\ pc'[t] = "out" /\ pc[t] = "out"
      BY <1>1, <1>4, <2>2
    <3>2. LockWaker'
      BY <1>3, <1>4, <1>8, <3>1 DEF LockWaker, Repairing
    <3>3. \A u \in Threads : /\ pc'[u] = "in" <=> pc[u] = "in"
                             /\ pc[u] = "in" => mode'[u] = mode[u]
                             /\ pc'[u] = "unlock" <=> pc[u] = "unlock"
      BY <1>4, <3>1
    <3>4. lock.MultipleShared => \A x \in Met(Threads, Older', lock'.top) :
              Older'[x] = Nil => share'[notify'[x]] = Cardinality(Sharing)
      BY <1>3, <1>8, <3>1 DEF LockHolders
    <3>5. LockHolders'
      BY <3>1, <3>3, <3>4, HoldersKept
    <3>. QED  BY <3>2, <3>5
  <2>. QED  BY <2>1, <2>2
<1>. QED  BY <1>6, <1>7, <1>8, <1>9, <1>10

(* The rest of a step that leaves the links and the holders alone.         *)
LEMMA QuietStep ==
  ASSUME LockInv, NEW t \in Threads, LockTypes', LockWaker', LockPlaces',
         back' = back, notify' = notify, next' = next, share' = share,
         lock'.Waiting = lock.Waiting, lock'.Shared = lock.Shared,
         lock'.MultipleShared = lock.MultipleShared, lock'.Locked = lock.Locked,
         lock'.top = lock.top, lock'.Waking => lock.Waiting, mode' = mode,
         \A u \in Threads : /\ pc'[u] = "in" <=> pc[u] = "in"
                            /\ pc'[u] = "unlock" <=> pc[u] = "unlock"
  PROVE  LockInv'
<1>1. LockWord'
  BY WordKept DEF LockInv
<1>2. LockList' /\ Older' = Older
  BY ListSame DEF LockInv
<1>3. lock.MultipleShared => \A x \in Met(Threads, Older', lock'.top) :
          Older'[x] = Nil => share'[notify'[x]] = Cardinality(Sharing)
  BY <1>2 DEF LockHolders, LockInv
<1>4. LockHolders'
  BY <1>3, HoldersKept DEF LockInv
<1>. QED  BY <1>1, <1>2, <1>4 DEF LockInv

LEMMA FallAsleepStep ==
  ASSUME LockInv, NEW t \in Threads, FallAsleep(t)
  PROVE  LockInv'
<1>. DEFINE label == IF "waiting" \in flag[t] THEN "keyed" ELSE "acquire"
<1>1. /\ pc[t] = "spin" /\ label \in {"keyed", "acquire"}
      /\ flag' = [flag EXCEPT ![t] = @ \ {"waiting"}]
      /\ pc' = [pc EXCEPT ![t] = label]
      /\ UNCHANGED <<lock, back, notify, next, share, mode, status, then, first, wakee, calls>>
  BY DEF FallAsleep, Goto, local
<1>2. /\ pc'[t] = label /\ flag'[t] = flag[t] \ {"waiting"}
      /\ \A u \in Threads : u # t => pc'[u] = pc[u] /\ flag'[u] = flag[u]
  BY <1>1 DEF LockInv, LockTypes
<1>3. LockTypes'
  <2>1. pc' \in [Threads -> LockLabels]
    <3>. HIDE DEF label
    <3>. QED  BY <1>1 DEF LockInv, LockTypes, LockLabels
  <2>2. flag' \in [Threads -> SUBSET {"exclusive", "shared", "waiting"}]
    BY <1>1 DEF LockInv, LockTypes
  <2>. QED  BY <1>1, <2>1, <2>2 DEF LockInv, LockTypes
<1>4. LockWaker'
  <2>1. Older' = Older
    BY <1>1, ListSame DEF LockInv
  <2>. QED  BY <1>1, <1>2, <2>1 DEF LockInv, LockWaker, Repairing
<1>5. LockPlaces'
  <2>1. \A w \in Threads : Asleep(w) => Asleep(w)'
    BY <1>1, <1>2 DEF Asleep, Repairing, Taking
  <2>2. /\ \A u \in Threads : pc'[u] \in Taking => pc[u] \in Taking
        /\ \A u \in Threads : pc'[u] \in {"wakeWriter", "wakeEach"} => first[u] # Nil
        /\ \A u \in Threads : pc'[u] = "release" => pc[u] = "release" /\ pc'[wakee[u]] = "keyed"
    BY <1>1, <1>2 DEF Taking, LockInv, LockPlaces
  <2>. QED  BY <1>1, <2>1, <2>2, PlacesSame DEF LockInv
<1>6. \A u \in Threads : /\ pc'[u] = "in" <=> pc[u] = "in"
                         /\ pc'[u] = "unlock" <=> pc[u] = "unlock"
  BY <1>1, <1>2
<1>7. lock.Waking => lock.Waiting
  BY DEF LockInv, LockWord
<1>. QED  BY <1>1, <1>3, <1>4, <1>5, <1>6, <1>7, QuietStep

(* The exchange of an optimiser or a waker fails, and it looks again.      *)
LEMMA LookAgain ==
  ASSUME LockInv, NEW t \in Threads, pc[t] \in {"optimizeCas", "wake", "takeAll"},
         NEW label \in {"optimize", "wake"},
         status' = [status EXCEPT ![t] = lock], pc' = [pc EXCEPT ![t] = label],
         UNCHANGED <<lock, back, notify, next, share, flag, mode, then, first, wakee, calls>>
  PROVE  LockInv'
<1>2. /\ pc'[t] = label /\ status'[t] = lock
      /\ \A u \in Threads : u # t => pc'[u] = pc[u] /\ status'[u] = status[u]
  BY DEF LockInv, LockTypes
<1>3. LockTypes'
  <2>1. pc' \in [Threads -> LockLabels]
    BY DEF LockInv, LockTypes, LockLabels, Repairing
  <2>2. status' \in [Threads -> LockWords]
    BY DEF LockInv, LockTypes
  <2>. QED  BY <2>1, <2>2 DEF LockInv, LockTypes
<1>4. LockWaker'
  <2>1. Older' = Older
    BY ListSame DEF LockInv
  <2>2. lock.Waking /\ lock.top # Nil /\ (lock.MultipleShared => lock.Locked)
    BY DEF LockInv, LockWaker, LockWord, Repairing
  <2>3. lock.top \in Met(Threads, Older, lock.top)
    BY <2>2, ListTypes, MetClosed DEF LockInv, BlocksOf
  <2>. QED  BY <1>2, <2>1, <2>2, <2>3 DEF LockInv, LockWaker, Repairing
<1>5. LockPlaces'
  <2>1. \A w \in Threads : Asleep(w) => Asleep(w)'
    BY <1>2 DEF Asleep, Repairing, Taking
  <2>2. /\ \A u \in Threads : pc'[u] \in Taking => pc[u] \in Taking
        /\ \A u \in Threads : pc'[u] \in {"wakeWriter", "wakeEach"} => first[u] # Nil
        /\ \A u \in Threads : pc'[u] = "release" => pc[u] = "release" /\ pc'[wakee[u]] = "keyed"
    BY <1>2 DEF Taking, LockInv, LockPlaces
  <2>. QED  BY <2>1, <2>2, PlacesSame DEF LockInv
<1>6. \A u \in Threads : /\ pc'[u] = "in" <=> pc[u] = "in"
                         /\ pc'[u] = "unlock" <=> pc[u] = "unlock"
  BY <1>2
<1>7. lock.Waking => lock.Waiting
  BY DEF LockInv, LockWord
<1>. QED  BY <1>3, <1>4, <1>5, <1>6, <1>7, QuietStep

(* The exchange succeeds, and the thread does not hold Waking any more.    *)
LEMMA PutDown ==
  ASSUME LockInv, NEW t \in Threads, pc[t] \in {"optimizeCas", "wake"},
         lock = status[t], lock' = NotWaking(t), pc' = [pc EXCEPT ![t] = then[t]],
         UNCHANGED <<back, notify, next, share, flag, mode, status, then, first, wakee, calls>>
  PROVE  LockInv'
<1>1. then[t] \in {"out", "spin"}
  BY DEF LockInv, LockTypes
<1>2. pc'[t] = then[t] /\ \A u \in Threads : u # t => pc'[u] = pc[u]
  BY DEF LockInv, LockTypes
<1>3. /\ lock' \in LockWords /\ lock'.Locked = lock.Locked /\ lock'.Waiting = lock.Waiting
      /\ ~lock'.Waking /\ lock'.MultipleShared = lock.MultipleShared
      /\ lock'.top = lock.top /\ lock'.Shared = lock.Shared
  BY NotWakingWord DEF LockInv, LockTypes, NotWaking
<1>4. LockTypes'
  <2>1. pc' \in [Threads -> LockLabels]
    BY <1>1 DEF LockInv, LockTypes, LockLabels
  <2>. QED  BY <1>3, <2>1 DEF LockInv, LockTypes
<1>5. LockWaker'
  <2>1. \A u \in Threads : pc'[u] \notin Repairing
    BY <1>1, <1>2 DEF LockInv, LockWaker, Repairing
  <2>. QED  BY <1>1, <1>2, <2>1 DEF LockInv, LockWaker
<1>6. LockPlaces'
  <2>1. \A w \in Threads : Asleep(w) => Asleep(w)'
    BY <1>2 DEF Asleep, Repairing, Taking
  <2>2. /\ \A u \in Threads : pc'[u] \in Taking => pc[u] \in Taking
        /\ \A u \in Threads : pc'[u] \in {"wakeWriter", "wakeEach"} => first[u] # Nil
        /\ \A u \in Threads : pc'[u] = "release" => pc[u] = "release" /\ pc'[wakee[u]] = "keyed"
    BY <1>1, <1>2 DEF Taking, LockInv, LockPlaces
  <2>. QED  BY <1>3, <2>1, <2>2, PlacesSame DEF LockInv
<1>7. \A u \in Threads : /\ pc'[u] = "in" <=> pc[u] = "in"
                         /\ pc'[u] = "unlock" <=> pc[u] = "unlock"
  BY <1>1, <1>2
<1>. QED  BY <1>3, <1>4, <1>5, <1>6, <1>7, QuietStep

LEMMA OptimizeDoneStep ==
  ASSUME LockInv, NEW t \in Threads, OptimizeDone(t)
  PROVE  LockInv'
<1>1. /\ pc[t] = "optimizeCas" /\ Exchange(t, NotWaking(t), then[t], "optimize")
      /\ UNCHANGED <<back, notify, next, share, flag, mode, then, first, wakee, calls>>
  BY DEF OptimizeDone, blocks
<1>2. CASE lock = status[t]
  BY <1>1, <1>2, PutDown DEF Exchange, Goto
<1>3. CASE lock # status[t]
  BY <1>1, <1>3, LookAgain DEF Exchange, Goto
<1>. QED  BY <1>2, <1>3

LEMMA StopWakingStep ==
  ASSUME LockInv, NEW t \in Threads, StopWaking(t)
  PROVE  LockInv'
<1>1. /\ pc[t] = "wake" /\ Exchange(t, NotWaking(t), then[t], "wake")
      /\ UNCHANGED <<back, notify, next, share, flag, mode, then, first, wakee, calls>>
  BY DEF StopWaking, blocks
<1>2. CASE lock = status[t]
  BY <1>1, <1>2, PutDown DEF Exchange, Goto
<1>3. CASE lock # status[t]
  BY <1>1, <1>3, LookAgain DEF Exchange, Goto
<1>. QED  BY <1>2, <1>3

LEMMA WakeWriterStep ==
  ASSUME LockInv, NEW t \in Threads, WakeWriter(t)
  PROVE  LockInv'
<1>1. /\ pc[t] = "wakeWriter" /\ lock' = [lock EXCEPT !.Waking = FALSE]
      /\ pc' = [pc EXCEPT ![t] = "wakeEach"]
      /\ UNCHANGED <<back, notify, next, share, flag, mode, status, then, first, wakee, calls>>
  BY DEF WakeWriter, Goto, blocks, local
<1>2. pc'[t] = "wakeEach" /\ \A u \in Threads : u # t => pc'[u] = pc[u]
  BY <1>1 DEF LockInv, LockTypes
<1>3. /\ lock' \in LockWords /\ lock'.Locked = lock.Locked /\ lock'.Waiting = lock.Waiting
      /\ ~lock'.Waking /\ lock'.MultipleShared = lock.MultipleShared
      /\ lock'.top = lock.top /\ lock'.Shared = lock.Shared
  BY <1>1, NotWakingWord DEF LockInv, LockTypes
<1>4. LockTypes'
  <2>1. pc' \in [Threads -> LockLabels]
    BY <1>1 DEF LockInv, LockTypes, LockLabels, Taking
  <2>. QED  BY <1>1, <1>3, <2>1 DEF LockInv, LockTypes
<1>5. LockWaker'
  <2>1. \A u \in Threads : pc'[u] \notin Repairing
    BY <1>1, <1>2 DEF LockInv, LockWaker, Repairing
  <2>. QED  BY <1>1, <1>2, <2>1 DEF LockInv, LockWaker
<1>6. LockPlaces'
  <2>1. \A w \in Threads : Asleep(w) => Asleep(w)'
    BY <1>1, <1>2 DEF Asleep, Repairing, Taking
  <2>2. /\ \A u \in Threads : pc'[u] \in Taking => pc[u] \in Taking
        /\ \A u \in Threads : pc'[u] \in {"wakeWriter", "wakeEach"} => first[u] # Nil
        /\ \A u \in Threads : pc'[u] = "release" => pc[u] = "release" /\ pc'[wakee[u]] = "keyed"
    BY <1>1, <1>2 DEF Taking, LockInv, LockPlaces
  <2>. QED  BY <1>1, <1>3, <2>1, <2>2, PlacesSame DEF LockInv
<1>7. \A u \in Threads : /\ pc'[u] = "in" <=> pc[u] = "in"
                         /\ pc'[u] = "unlock" <=> pc[u] = "unlock"
  BY <1>1, <1>2
<1>. QED  BY <1>1, <1>3, <1>4, <1>5, <1>6, <1>7, QuietStep

(* The thread that is released leaves the stack of nobody else.            *)
LEMMA ReleaseEventStep ==
  ASSUME LockInv, NEW t \in Threads, ReleaseEvent(t)
  PROVE  LockInv'
<1>. DEFINE label == IF first[t] = Nil THEN then[t] ELSE "wakeEach"
            s == wakee[t]
<1>1. /\ pc[t] = "release" /\ pc[s] = "keyed"
      /\ pc' = [pc EXCEPT ![t] = label, ![s] = "acquire"]
      /\ UNCHANGED <<lock, back, notify, next, share, flag, mode, status, then, first, wakee, calls>>
  BY DEF ReleaseEvent, Meet, blocks, local
<1>2. /\ s \in Threads /\ s # t /\ label \in {"out", "spin", "wakeEach"}
      /\ label = "wakeEach" => first[t] # Nil
  BY <1>1 DEF LockInv, LockPlaces, LockTypes
<1>. HIDE DEF label
<1>3. pc'[t] = label /\ pc'[s] = "acquire" /\ \A u \in Threads : u # t /\ u # s => pc'[u] = pc[u]
  BY <1>1, <1>2 DEF LockInv, LockTypes
<1>4. LockTypes'
  <2>1. pc' \in [Threads -> LockLabels]
    BY <1>1, <1>2 DEF LockInv, LockTypes, LockLabels, Taking
  <2>. QED  BY <1>1, <2>1 DEF LockInv, LockTypes
<1>5. LockWaker'
  <2>1. Older' = Older
    BY <1>1, ListSame DEF LockInv
  <2>2. \A u \in Threads : /\ pc'[u] \in Repairing => pc'[u] = pc[u]
                           /\ pc[u] \in Repairing => pc'[u] = pc[u]
                           /\ pc'[u] = "claim" => pc[u] = "claim"
    BY <1>1, <1>2, <1>3 DEF Repairing
  <2>3. \A u \in Threads : pc'[u] \in {"wakeWriter", "takeAll"} => pc[u] = pc'[u]
    BY <2>2 DEF Repairing
  <2>. QED  BY <1>1, <2>1, <2>2, <2>3 DEF LockInv, LockWaker
<1>6. LockPlaces'
  <2>1. s \in Taken(t) /\ s \notin InList /\ \A u \in Threads : s \in Taken(u) => u = t
    BY <1>1, <1>2 DEF Taken, LockInv, LockPlaces
  <2>2. s \notin Met(Threads, next, first[t])
    BY <1>1 DEF LockInv, LockPlaces
  <2>3. \A u \in Threads : s \notin Taken(u)'
    <3>1. s \notin Taken(t)'
      BY <1>1, <1>2, <1>3, <2>2 DEF Taken
    <3>2. ASSUME NEW u \in Threads, u # t PROVE s \notin Taken(u)'
      BY <1>1, <1>2, <1>3, <2>1, <3>2 DEF Taken, Taking
    <3>. QED  BY <3>1, <3>2
  <2>4. \A w \in Threads : w # s /\ Asleep(w) => Asleep(w)'
    BY <1>1, <1>2, <1>3 DEF Asleep, Repairing, Taking, label
  <2>5. /\ \A u \in Threads : pc'[u] \in Taking => pc[u] \in Taking
        /\ \A u \in Threads : pc'[u] \in {"wakeWriter", "wakeEach"} => first[u] # Nil
    BY <1>1, <1>2, <1>3 DEF Taking, LockInv, LockPlaces
  <2>6. ASSUME NEW u \in Threads, pc'[u] = "release"
        PROVE  pc[u] = "release" /\ pc'[wakee[u]] = "keyed"
    <3>1. u # t /\ pc[u] = "release"
      BY <1>2, <1>3, <2>6
    <3>2. wakee[u] \in Threads /\ wakee[u] # t /\ pc[wakee[u]] = "keyed"
      BY <1>1, <3>1 DEF LockInv, LockPlaces
    <3>3. wakee[u] # s
      BY <2>1, <3>1, <3>2 DEF Taken
    <3>. QED  BY <1>3, <3>1, <3>2, <3>3
  <2>. QED  BY <1>1, <2>1, <2>3, <2>4, <2>5, <2>6, PlacesSame DEF LockInv
<1>7. \A u \in Threads : /\ pc'[u] = "in" <=> pc[u] = "in"
                         /\ pc'[u] = "unlock" <=> pc[u] = "unlock"
  BY <1>1, <1>2, <1>3
<1>8. lock.Waking => lock.Waiting
  BY DEF LockInv, LockWord
<1>. QED  BY <1>1, <1>4, <1>5, <1>6, <1>7, <1>8, QuietStep

LEMMA ClaimStep ==
  ASSUME LockInv, NEW t \in Threads, Claim(t)
  PROVE  LockInv'
<1>1. /\ pc[t] = "claim"
      /\ UNCHANGED <<back, notify, next, share, flag, mode, then, first, wakee, calls>>
  BY DEF Claim, blocks
<1>2. status[t].Waiting /\ ~status[t].Waking /\ ~status[t].Locked
  BY <1>1 DEF LockInv, LockWaker
<1>3. PICK label \in {"wake", "out"} :
        /\ pc' = [pc EXCEPT ![t] = label]
        /\ label = "wake" => /\ lock = status[t]
                             /\ lock' = [lock EXCEPT !.Waking = TRUE]
                             /\ status' = [status EXCEPT ![t] = lock']
        /\ label = "out" => lock' = lock /\ status' = status
  BY DEF Claim, Goto
<1>4. pc'[t] = label /\ \A u \in Threads : u # t => pc'[u] = pc[u]
  BY <1>3 DEF LockInv, LockTypes
<1>5. /\ lock' \in LockWords /\ lock'.Locked = lock.Locked /\ lock'.Waiting = lock.Waiting
      /\ lock'.MultipleShared = lock.MultipleShared
      /\ lock'.top = lock.top /\ lock'.Shared = lock.Shared
      /\ label = "wake" => lock'.Waking /\ lock.Waiting /\ ~lock.Waking
      /\ label = "out" => lock'.Waking = lock.Waking
  <2>1. CASE label = "wake"
    BY <1>2, <1>3, <2>1, WakingWord DEF LockInv, LockTypes
  <2>2. CASE label = "out"
    BY <1>3, <2>2 DEF LockInv, LockTypes
  <2>. QED  BY <2>1, <2>2
<1>6. LockTypes'
  <2>1. pc' \in [Threads -> LockLabels]
    BY <1>3 DEF LockInv, LockTypes, LockLabels, Repairing
  <2>2. status' \in [Threads -> LockWords]
    BY <1>3, <1>5 DEF LockInv, LockTypes
  <2>. QED  BY <1>1, <1>5, <2>1, <2>2 DEF LockInv, LockTypes
<1>7. LockWaker'
  <2>1. Older' = Older
    BY <1>1, <1>5, ListSame DEF LockInv
  <2>2. CASE label = "wake"
    <3>1. /\ status'[t] = lock' /\ \A u \in Threads : u # t => status'[u] = status[u]
          /\ lock.top # Nil /\ ~lock.MultipleShared
      BY <1>2, <1>3, <1>5, <2>2 DEF LockInv, LockTypes, LockWord
    <3>2. \A u \in Threads : pc[u] \notin Repairing
      BY <1>5, <2>2 DEF LockInv, LockWaker
    <3>3. lock.top \in Met(Threads, Older, lock.top)
      BY <3>1, ListTypes, MetClosed DEF LockInv, BlocksOf
    <3>4. \A u \in Threads : /\ pc'[u] \in Repairing => u = t /\ pc'[u] = "wake"
                             /\ pc'[u] = "claim" => u # t /\ pc[u] = "claim"
      BY <1>4, <2>2, <3>2
    <3>5. \A u \in Threads : pc'[u] \in {"wakeWriter", "takeAll"} => pc'[u] \in Repairing
      BY DEF Repairing
    <3>. QED  BY <1>1, <1>5, <2>1, <2>2, <3>1, <3>3, <3>4, <3>5 DEF LockInv, LockWaker
  <2>3. CASE label = "out"
    BY <1>1, <1>3, <1>4, <2>1, <2>3 DEF LockInv, LockWaker, Repairing
  <2>. QED  BY <2>2, <2>3
<1>8. LockPlaces'
  <2>1. pc[t] \in {"out", "acquire", "in", "claim", "unlock"} /\ pc'[t] \notin Taking
    BY <1>1, <1>4 DEF Taking
  <2>. QED  BY <1>1, <1>4, <1>5, <2>1, OutsidePlaces DEF LockInv
<1>9. \A u \in Threads : /\ pc'[u] = "in" <=> pc[u] = "in"
                         /\ pc'[u] = "unlock" <=> pc[u] = "unlock"
  BY <1>1, <1>4
<1>10. lock'.Waking => lock.Waiting
  BY <1>5 DEF LockInv, LockWord
<1>. QED  BY <1>1, <1>5, <1>6, <1>7, <1>8, <1>9, <1>10, QuietStep

(* The steps of a holder that leaves.                                      *)
LEMMA ReleaseExclusiveStep ==
  ASSUME LockInv, NEW t \in Threads, ReleaseExclusive(t)
  PROVE  LockInv'
<1>. DEFINE label == IF lock.Waiting /\ ~lock.Waking THEN "claim" ELSE "out"
<1>1. /\ pc[t] = "in" /\ mode[t] = "exclusive"
      /\ lock' = [lock EXCEPT !.Locked = FALSE]
      /\ status' = [status EXCEPT ![t] = lock'] /\ then' = [then EXCEPT ![t] = "out"]
      /\ pc' = [pc EXCEPT ![t] = label] /\ label \in {"claim", "out"}
      /\ UNCHANGED <<back, notify, next, share, flag, mode, first, wakee, calls>>
  BY DEF ReleaseExclusive, Exclusive, Goto, blocks
<1>2. label = "claim" => lock.Waiting /\ ~lock.Waking
  OBVIOUS
<1>. HIDE DEF label
<1>3. pc'[t] = label /\ \A u \in Threads : u # t => pc'[u] = pc[u] /\ then'[u] = then[u]
  BY <1>1 DEF LockInv, LockTypes
<1>4. /\ lock' \in LockWords /\ ~lock'.Locked /\ lock'.Waiting = lock.Waiting
      /\ lock'.Waking = lock.Waking /\ lock'.MultipleShared = lock.MultipleShared
      /\ lock'.top = lock.top /\ lock'.Shared = lock.Shared
  BY <1>1, ReleasedWord DEF LockInv, LockTypes
<1>5. /\ lock.Shared = 0 /\ ~lock.MultipleShared
      /\ \A u \in Threads : pc[u] # "unlock" /\ (pc[u] = "in" => u = t)
  BY <1>1 DEF LockInv, LockHolders
<1>6. status'[t] = lock' /\ \A u \in Threads : u # t => status'[u] = status[u]
  BY <1>1 DEF LockInv, LockTypes
<1>7. LockTypes'
  <2>1. pc' \in [Threads -> LockLabels]
    BY <1>1 DEF LockInv, LockTypes, LockLabels
  <2>2. status' \in [Threads -> LockWords] /\ then' \in [Threads -> {"out", "spin"}]
    BY <1>1, <1>4 DEF LockInv, LockTypes
  <2>. QED  BY <1>1, <1>4, <2>1, <2>2 DEF LockInv, LockTypes
<1>8. LockWord'
  BY <1>4, <1>5 DEF LockInv, LockWord
<1>9. LockList' /\ Older' = Older /\ InList' = InList
  BY <1>1, <1>4, ListSame DEF LockInv
<1>10. LockWaker'
  <2>1. label = "claim" => status'[t].Waiting /\ ~status'[t].Waking /\ ~status'[t].Locked
    BY <1>2, <1>4, <1>6
  <2>2. \A u \in Threads : /\ pc'[u] = "claim" => \/ u = t /\ label = "claim"
                                                  \/ pc[u] = "claim" /\ status'[u] = status[u]
                           /\ pc'[u] \in Repairing => pc'[u] = pc[u] /\ status'[u] = status[u]
                           /\ pc[u] \in Repairing => pc'[u] = pc[u]
    BY <1>1, <1>3, <1>6 DEF Repairing
  <2>3. \A u \in Threads : pc'[u] \in {"wakeWriter", "takeAll"} => pc'[u] \in Repairing
    BY DEF Repairing
  <2>4. notify' = notify /\ first' = first /\ lock'.Waking = lock.Waking
        /\ ~lock'.MultipleShared /\ lock'.top = lock.top /\ Older' = Older
    BY <1>1, <1>4, <1>5, <1>9
  <2>. QED  BY <2>1, <2>2, <2>3, <2>4 DEF LockInv, LockWaker
<1>11. LockPlaces'
  <2>1. pc[t] \in {"out", "acquire", "in", "claim", "unlock"} /\ pc'[t] \notin Taking
    BY <1>1, <1>3 DEF Taking
  <2>. QED  BY <1>1, <1>3, <1>4, <2>1, OutsidePlaces DEF LockInv
<1>12. LockHolders'
  <2>1. \A u \in Threads : pc'[u] # "in" /\ pc'[u] # "unlock"
    BY <1>1, <1>3, <1>5
  <2>2. Sharing' = {}
    BY <2>1 DEF Sharing, Holders
  <2>3. Cardinality(Sharing)' = 0
    BY <2>2, FS_EmptySet
  <2>. QED  BY <1>4, <1>5, <2>1, <2>3 DEF LockHolders
<1>. QED  BY <1>7, <1>8, <1>9, <1>10, <1>11, <1>12 DEF LockInv

LEMMA SharingLeaves ==
  ASSUME NEW t \in Sharing, Sharing' = Sharing \ {t}
  PROVE  /\ Cardinality(Sharing) \in Nat /\ Cardinality(Sharing) # 0
         /\ Cardinality(Sharing)' \in Nat /\ Cardinality(Sharing)' + 1 = Cardinality(Sharing)
         /\ Cardinality(Sharing)' = 0 => Sharing' = {}
<1>1. IsFiniteSet(Sharing)
  BY FS_Subset, LockAssumption DEF Sharing, Holders
<1>2. IsFiniteSet(Sharing) /\ IsFiniteSet(Sharing)'
  BY <1>1, FS_Subset
<1>3. /\ Cardinality(Sharing) \in Nat
      /\ Cardinality(Sharing)' = Cardinality(Sharing) - 1
      /\ Cardinality(Sharing)' \in Nat
  BY <1>1, <1>2, FS_RemoveElement, FS_CardinalityType
<1>4. Cardinality(Sharing)' = 0 => Sharing' = {}
  BY <1>2, FS_EmptySet
<1>. QED  BY <1>3, <1>4

LEMMA LeaveSharedStep ==
  ASSUME LockInv, NEW t \in Threads, LeaveShared(t)
  PROVE  LockInv'
<1>1. /\ pc[t] = "in" /\ mode[t] = "shared" /\ ~lock.Waiting
      /\ lock' = IF lock.Shared <= 1 THEN Free ELSE [lock EXCEPT !.Shared = @ - 1]
      /\ pc' = [pc EXCEPT ![t] = "out"]
      /\ UNCHANGED <<back, notify, next, share, flag, mode, status, then, first, wakee, calls>>
  BY DEF LeaveShared, Shared, Goto, blocks, local
<1>2. pc'[t] = "out" /\ \A u \in Threads : u # t => pc'[u] = pc[u]
  BY <1>1 DEF LockInv, LockTypes
<1>3. Sharing' = Sharing \ {t} /\ t \in Sharing
  BY <1>1, <1>2 DEF Sharing, Holders
<1>4. PICK n \in Nat : /\ n = Cardinality(Sharing)' /\ n + 1 = lock.Shared
                       /\ n = 0 => Sharing' = {}
  BY <1>1, <1>3, SharingLeaves DEF LockInv, LockHolders
<1>5. ~lock.Waking /\ ~lock.MultipleShared /\ lock.top = Nil
  BY <1>1 DEF LockInv, LockWord
<1>6. /\ lock' \in LockWords /\ ~lock'.Waiting /\ ~lock'.Waking /\ ~lock'.MultipleShared
      /\ lock'.top = Nil /\ lock'.Shared = n
      /\ n # 0 => lock'.Locked = lock.Locked
  <2>1. CASE n = 0
    <3>1. lock' = Free
      BY <1>1, <1>4, <2>1
    <3>. QED  BY <2>1, <3>1, FreeWord
  <2>2. CASE n # 0
    <3>1. lock' = [lock EXCEPT !.Shared = @ - 1]
      BY <1>1, <1>4, <2>2
    <3>. QED  BY <1>1, <1>4, <1>5, <2>2, <3>1, LeftWord DEF LockInv, LockTypes
  <2>. QED  BY <2>1, <2>2
<1>7. LockTypes'
  <2>1. pc' \in [Threads -> LockLabels]
    BY <1>1 DEF LockInv, LockTypes, LockLabels
  <2>. QED  BY <1>1, <1>6, <2>1 DEF LockInv, LockTypes
<1>8. LockWord'
  BY <1>6 DEF LockWord
<1>9. LockList'
  BY <1>1, <1>5, <1>6, ListSame DEF LockInv
<1>10. LockWaker'
  <2>1. \A u \in Threads : pc[u] \notin Repairing /\ pc'[u] \notin Repairing
    BY <1>1, <1>2, <1>5 DEF LockInv, LockWaker, Repairing
  <2>. QED  BY <1>1, <1>2, <2>1 DEF LockInv, LockWaker
<1>11. LockPlaces'
  <2>1. pc[t] \in {"out", "acquire", "in", "claim", "unlock"} /\ pc'[t] \notin Taking
    BY <1>1, <1>2 DEF Taking
  <2>. QED  BY <1>1, <1>2, <1>5, <1>6, <2>1, OutsidePlaces DEF LockInv
<1>12. LockHolders'
  <2>1. \A u \in Threads : pc[u] = "in" => mode[u] = "shared"
    BY <1>1, <1>4 DEF LockInv, LockHolders, LockTypes
  <2>2. \A u \in Threads : pc'[u] # "unlock"
    BY <1>2, <1>5 DEF LockInv, LockHolders
  <2>3. \A u \in Threads : pc'[u] = "in" => mode'[u] = "shared" /\ u \in Sharing' /\ n # 0
    BY <1>1, <1>2, <1>3, <1>4, <2>1 DEF Sharing, Holders
  <2>4. n # 0 => lock'.Locked \/ \A u \in Threads : pc'[u] # "in"
    BY <1>1, <1>6 DEF LockInv, LockHolders
  <2>. QED  BY <1>4, <1>6, <2>2, <2>3, <2>4 DEF LockHolders
<1>. QED  BY <1>7, <1>8, <1>9, <1>10, <1>11, <1>12 DEF LockInv

LEMMA TheOldest ==
  ASSUME LockTypes, LockList, lock.top # Nil
  PROVE  /\ lock.top \in Threads /\ lock.top \in Met(Threads, Older, lock.top)
         /\ Oldest(lock.top) \in Threads /\ Oldest(lock.top) \in InList
         /\ \A x \in Met(Threads, Older, lock.top) : Older[x] = Nil => notify[x] = Oldest(lock.top)
         /\ \E x \in Met(Threads, Older, lock.top) : Older[x] = Nil
<1>1. lock.top \in Threads /\ lock.top \in Met(Threads, Older, lock.top)
  BY ListTypes, MetClosed DEF BlocksOf
<1>2. PICK e \in Met(Threads, Older, lock.top) :
        /\ Older[e] = Nil /\ Oldest(lock.top) = notify[e]
        /\ notify[e] \in Threads /\ notify[e] \in InList
  BY <1>1, WalkFrom
<1>3. \A x \in Met(Threads, Older, lock.top) : Older[x] = Nil => x = e
  BY <1>2, ListTypes, ListEnd DEF LockList
<1>. QED  BY <1>1, <1>2, <1>3

LEMMA DropShareStep ==
  ASSUME LockInv, NEW t \in Threads, DropShare(t)
  PROVE  LockInv'
<1>. DEFINE f == Oldest(lock.top)
            label == IF share[f] > 1 THEN "out" ELSE "unlock"
<1>1. /\ pc[t] = "in" /\ mode[t] = "shared" /\ lock.Waiting /\ lock.MultipleShared
      /\ share' = [share EXCEPT ![f] = @ - 1]
      /\ pc' = [pc EXCEPT ![t] = label] /\ label \in {"out", "unlock"}
      /\ UNCHANGED <<lock, back, notify, next, flag, mode, status, then, first, wakee, calls>>
  BY DEF DropShare, Shared, Goto, local
<1>2. lock.top # Nil
  BY <1>1 DEF LockInv, LockWord
<1>3. /\ f \in Threads
      /\ \A x \in Met(Threads, Older, lock.top) : Older[x] = Nil => notify[x] = f
      /\ \E x \in Met(Threads, Older, lock.top) : Older[x] = Nil
  BY <1>2, TheOldest DEF LockInv
<1>4. pc'[t] = label /\ \A u \in Threads : u # t => pc'[u] = pc[u]
  BY <1>1 DEF LockInv, LockTypes
<1>5. Sharing' = Sharing \ {t} /\ t \in Sharing
  BY <1>1, <1>4 DEF Sharing, Holders
<1>6. share[f] = Cardinality(Sharing)
  BY <1>1, <1>3 DEF LockInv, LockHolders
<1>7. /\ Cardinality(Sharing)' \in Nat /\ Cardinality(Sharing)' + 1 = share[f]
      /\ Cardinality(Sharing)' = 0 => Sharing' = {}
  BY <1>5, <1>6, SharingLeaves
<1>8. share'[f] = Cardinality(Sharing)' /\ share' \in [Threads -> Nat]
  BY <1>1, <1>3, <1>7 DEF LockInv, LockTypes
<1>9. label = "unlock" => Sharing' = {}
  BY <1>7
<1>. HIDE DEF label
<1>10. LockTypes'
  <2>1. pc' \in [Threads -> LockLabels]
    BY <1>1 DEF LockInv, LockTypes, LockLabels
  <2>. QED  BY <1>1, <1>8, <2>1 DEF LockInv, LockTypes
<1>11. LockWord'
  BY <1>1 DEF LockInv, LockWord
<1>12. LockList' /\ Older' = Older
  BY <1>1, ListSame DEF LockInv
<1>13. LockWaker'
  BY <1>1, <1>4, <1>12 DEF LockInv, LockWaker, Repairing
<1>14. LockPlaces'
  <2>1. pc[t] \in {"out", "acquire", "in", "claim", "unlock"} /\ pc'[t] \notin Taking
    BY <1>1, <1>4 DEF Taking
  <2>. QED  BY <1>1, <1>4, <2>1, OutsidePlaces DEF LockInv
<1>15. LockHolders'
  <2>1. \A u \in Threads : /\ pc[u] # "unlock"
                           /\ pc[u] = "in" => mode[u] # "exclusive"
    BY <1>1, <1>5 DEF LockInv, LockHolders
  <2>2. lock.Locked
    BY <1>1 DEF LockInv, LockWord
  <2>3. \A x \in Met(Threads, Older, lock.top) : Older[x] = Nil => share'[notify[x]] = Cardinality(Sharing)'
    BY <1>3, <1>8
  <2>4. \A u \in Threads : pc'[u] = "unlock" => u = t /\ Sharing' = {}
    BY <1>4, <1>9, <2>1
  <2>5. \A u \in Threads : pc'[u] = "in" => mode'[u] # "exclusive"
    BY <1>1, <1>4, <2>1
  <2>6. lock' = lock /\ notify' = notify
    BY <1>1
  <2>. QED  BY <1>1, <1>12, <2>2, <2>3, <2>4, <2>5, <2>6 DEF LockHolders
<1>. QED  BY <1>10, <1>11, <1>12, <1>13, <1>14, <1>15 DEF LockInv

LEMMA UnlockSharedStep ==
  ASSUME LockInv, NEW t \in Threads, UnlockShared(t)
  PROVE  LockInv'
<1>. DEFINE label == IF lock.Waking THEN "out" ELSE "wake"
            word == [lock EXCEPT !.MultipleShared = FALSE, !.Locked = FALSE, !.Waking = TRUE]
<1>1. /\ \/ pc[t] = "unlock"
         \/ pc[t] = "in" /\ mode[t] = "shared" /\ lock.Waiting /\ ~lock.MultipleShared
      /\ lock' = word /\ status' = [status EXCEPT ![t] = word]
      /\ then' = [then EXCEPT ![t] = "out"]
      /\ pc' = [pc EXCEPT ![t] = label] /\ label \in {"out", "wake"}
      /\ UNCHANGED <<back, notify, next, share, flag, mode, first, wakee, calls>>
  BY DEF UnlockShared, Shared, Goto, blocks
<1>2. /\ lock.Waiting
      /\ \A u \in Threads : u # t => pc[u] # "unlock" /\ pc[u] # "in"
      /\ pc[t] = "unlock" => Sharing = {}
  <2>1. CASE pc[t] = "unlock"
    <3>1. /\ lock.MultipleShared /\ Sharing = {}
          /\ \A u \in Threads : pc[u] = "unlock" => u = t
      BY <2>1 DEF LockInv, LockHolders
    <3>2. \A u \in Threads : pc[u] = "in" => FALSE
      BY <3>1 DEF LockInv, LockHolders, LockTypes, Sharing, Holders
    <3>. QED  BY <3>1, <3>2 DEF LockInv, LockWord
  <2>2. CASE pc[t] = "in" /\ lock.Waiting /\ ~lock.MultipleShared
    BY <2>2 DEF LockInv, LockHolders
  <2>. QED  BY <1>1, <2>1, <2>2
<1>3. label = "wake" => ~lock.Waking
  OBVIOUS
<1>4. /\ word \in LockWords /\ ~word.Locked /\ word.Waiting = lock.Waiting
      /\ word.Waking /\ ~word.MultipleShared /\ word.top = lock.top /\ word.Shared = lock.Shared
  BY UnlockedWord DEF LockInv, LockTypes
<1>. HIDE DEF label, word
<1>5. /\ pc'[t] = label /\ status'[t] = word
      /\ \A u \in Threads : u # t => /\ pc'[u] = pc[u] /\ then'[u] = then[u]
                                     /\ status'[u] = status[u]
  BY <1>1 DEF LockInv, LockTypes
<1>6. LockTypes'
  <2>1. pc' \in [Threads -> LockLabels]
    BY <1>1 DEF LockInv, LockTypes, LockLabels, Repairing
  <2>2. status' \in [Threads -> LockWords] /\ then' \in [Threads -> {"out", "spin"}]
    BY <1>1, <1>4 DEF LockInv, LockTypes
  <2>. QED  BY <1>1, <1>4, <2>1, <2>2 DEF LockInv, LockTypes
<1>7. LockWord'
  <2>1. lock.top # Nil /\ lock.Shared = 0
    BY <1>2 DEF LockInv, LockWord
  <2>. QED  BY <1>1, <1>2, <1>4, <2>1 DEF LockWord
<1>8. LockList' /\ Older' = Older
  BY <1>1, <1>4, ListSame DEF LockInv
<1>9. LockWaker'
  <2>1. lock.top # Nil
    BY <1>2 DEF LockInv, LockWord
  <2>2. lock.top \in Met(Threads, Older, lock.top)
    BY <2>1, TheOldest DEF LockInv
  <2>3. \A u \in Threads : /\ pc'[u] \in Repairing => \/ u = t /\ pc'[u] = "wake"
                                                      \/ u # t /\ pc[u] \in Repairing
                           /\ pc'[u] = "claim" => u # t /\ pc[u] = "claim"
    BY <1>1, <1>5 DEF Repairing
  <2>4. label = "wake" => \A u \in Threads : pc[u] \notin Repairing
    BY <1>3 DEF LockInv, LockWaker
  <2>5. \A u \in Threads : pc'[u] \in {"wakeWriter", "takeAll"} => pc'[u] \in Repairing
    BY DEF Repairing
  <2>6. notify' = notify /\ first' = first /\ lock'.Waking /\ ~lock'.MultipleShared
        /\ lock'.top = lock.top /\ Older' = Older
    BY <1>1, <1>4, <1>8
  <2>. QED  BY <1>4, <1>5, <2>2, <2>3, <2>4, <2>5, <2>6 DEF LockInv, LockWaker
<1>10. LockPlaces'
  <2>1. pc[t] \in {"out", "acquire", "in", "claim", "unlock"} /\ pc'[t] \notin Taking
    BY <1>1, <1>5 DEF Taking
  <2>2. lock'.top = lock.top
    BY <1>1, <1>4
  <2>. QED  BY <1>1, <1>5, <2>1, <2>2, OutsidePlaces DEF LockInv
<1>11. LockHolders'
  <2>1. \A u \in Threads : pc'[u] # "in" /\ pc'[u] # "unlock"
    BY <1>1, <1>2, <1>5
  <2>2. ~lock'.Locked /\ lock'.Waiting /\ ~lock'.MultipleShared
    BY <1>1, <1>2, <1>4
  <2>. QED  BY <2>1, <2>2 DEF LockHolders
<1>. QED  BY <1>6, <1>7, <1>8, <1>9, <1>10, <1>11 DEF LockInv

-----------------------------------------------------------------------------
(* The steps that change the list.                                         *)
LEMMA ChainKept ==
  ASSUME LockTypes, LockPlaces, next' \in LinksOf(Threads), NEW u \in Threads,
         pc'[u] = pc[u], first'[u] = first[u], wakee'[u] = wakee[u],
         \A w \in Taken(u) : next'[w] = next[w], pc[u] \in Taking
  PROVE  /\ Taken(u)' = Taken(u)
         /\ Met(Threads, next', first'[u]) = Met(Threads, next, first[u])
         /\ Ends(Threads, next', first'[u])
<1>1. /\ Nil \notin Threads /\ next \in LinksOf(Threads) /\ first[u] \in BlocksOf(Threads)
      /\ Ends(Threads, next, first[u])
  BY ListTypes DEF LinksOf, LockPlaces
<1>2. \A w \in Met(Threads, next, first[u]) : next'[w] = next[w]
  BY <1>1, MetClosed DEF Taken
<1>3. /\ Met(Threads, next', first[u]) = Met(Threads, next, first[u])
      /\ Ends(Threads, next', first[u])
  <2>1. PICK g : g = next'
    OBVIOUS
  <2>2. g \in LinksOf(Threads) /\ \A w \in Met(Threads, next, first[u]) : g[w] = next[w]
    BY <1>2, <2>1
  <2>3. /\ Met(Threads, g, first[u]) = Met(Threads, next, first[u])
        /\ Ends(Threads, g, first[u])
    BY <1>1, <2>2, MetKept
  <2>. QED  BY <2>1, <2>3
<1>. QED  BY <1>3 DEF Taken

(* Whoever takes blocks goes on taking the same.                           *)
LEMMA PlacesWith ==
  ASSUME LockTypes, LockPlaces, next' \in LinksOf(Threads),
         NEW t \in Threads, InList' \subseteq InList \cup {t},
         t \in InList' => Asleep(t)' /\ \A u \in Threads : t \notin Taken(u),
         \A u \in Threads : pc[u] \in Taking \/ pc'[u] \in Taking =>
           pc'[u] = pc[u] /\ first'[u] = first[u] /\ wakee'[u] = wakee[u],
         \A w \in Threads : pc[w] = "keyed" => pc'[w] = "keyed",
         \A w \in Threads : Asleep(w) => Asleep(w)',
         \A u \in Threads : \A w \in Taken(u) : next'[w] = next[w]
  PROVE  LockPlaces'
<1>1. ASSUME NEW u \in Threads
      PROVE  /\ Taken(u)' = Taken(u)
             /\ pc'[u] \in Taking =>
                  /\ pc'[u] = pc[u] /\ first'[u] = first[u] /\ wakee'[u] = wakee[u]
                  /\ Met(Threads, next', first'[u]) = Met(Threads, next, first[u])
                  /\ Ends(Threads, next', first'[u])
  <2>1. CASE pc[u] \in Taking \/ pc'[u] \in Taking
    BY <2>1, ChainKept
  <2>2. CASE ~(pc[u] \in Taking \/ pc'[u] \in Taking)
    <3>1. pc[u] # "release" /\ pc'[u] # "release"
      BY <2>2 DEF Taking
    <3>. QED  BY <2>2, <3>1 DEF Taken
  <2>. QED  BY <2>1, <2>2
<1>2. InList' \subseteq Threads /\ InList \subseteq Threads /\ \A u \in Threads : Taken(u) \subseteq Threads
  BY DEF InList, Members, Taken
<1>3. (\A w \in InList : Asleep(w))'
  BY <1>2 DEF LockPlaces
<1>4. (\A u \in Threads : \A w \in Taken(u) :
         Asleep(w) /\ w \notin InList /\ \A v \in Threads : w \in Taken(v) => v = u)'
  <2>1. ASSUME NEW u \in Threads, NEW w \in Taken(u)'
        PROVE  Asleep(w)' /\ w \notin InList' /\ \A v \in Threads : w \in Taken(v)' => v = u
    BY <1>1, <1>2, <2>1 DEF LockPlaces
  <2>. QED  BY <2>1
<1>5. (\A u \in Threads : pc[u] \in Taking => Ends(Threads, next, first[u]))'
  BY <1>1
<1>6. (\A u \in Threads : pc[u] \in {"wakeWriter", "wakeEach"} => first[u] # Nil)'
  BY <1>1 DEF LockPlaces, Taking
<1>7. (\A u \in Threads : pc[u] = "release" =>
         /\ wakee[u] \in Threads
         /\ wakee[u] \notin Met(Threads, next, first[u])
         /\ pc[wakee[u]] = "keyed")'
  BY <1>1 DEF LockPlaces, Taking
<1>. QED  BY <1>3, <1>4, <1>5, <1>6, <1>7 DEF LockPlaces

LEMMA QueueStep ==
  ASSUME LockInv, NEW t \in Threads, Queue(t)
  PROVE  LockInv'
<1>. DEFINE word == [lock EXCEPT !.Waking = TRUE, !.top = t]
            label == IF lock.Waking THEN "spin" ELSE "optimize"
<1>1. /\ pc[t] = "acquire" /\ lock.Waiting
      /\ lock' = word
      /\ back' = [back EXCEPT ![t] = lock.top]
      /\ notify' = [notify EXCEPT ![t] = Nil]
      /\ next' = [next EXCEPT ![t] = Nil]
      /\ share' = [share EXCEPT ![t] = 0]
      /\ flag' = [flag EXCEPT ![t] = {mode[t], "waiting"}]
      /\ status' = [status EXCEPT ![t] = word]
      /\ then' = [then EXCEPT ![t] = "spin"]
      /\ pc' = [pc EXCEPT ![t] = label] /\ label \in {"spin", "optimize"}
      /\ mode' = mode /\ first' = first /\ wakee' = wakee /\ calls' = calls
  BY DEF Queue, Goto
<1>2. label = "optimize" => ~lock.Waking
  OBVIOUS
<1>3. /\ word \in LockWords /\ word.Locked = lock.Locked /\ word.Waiting = lock.Waiting
      /\ word.Waking /\ word.MultipleShared = lock.MultipleShared
      /\ word.top = t /\ word.Shared = lock.Shared
  BY QueuedWord DEF LockInv
<1>. HIDE DEF word, label
<1>4. LockTypes'
  <2>1. pc' \in [Threads -> LockLabels]
    BY <1>1 DEF LockInv, LockTypes, LockLabels, Repairing
  <2>2. back' \in LockLinks /\ notify' \in LockLinks /\ next' \in LockLinks
    BY <1>1, ListTypes DEF LockInv, LockLinks, LinksOf, BlocksOf
  <2>3. /\ share' \in [Threads -> Nat]
        /\ flag' \in [Threads -> SUBSET {"exclusive", "shared", "waiting"}]
        /\ status' \in [Threads -> LockWords] /\ then' \in [Threads -> {"out", "spin"}]
    BY <1>1, <1>3 DEF LockInv, LockTypes
  <2>. QED  BY <1>1, <1>3, <2>1, <2>2, <2>3 DEF LockInv, LockTypes
<1>5. /\ pc'[t] = label /\ status'[t] = word /\ then'[t] = "spin" /\ "waiting" \in flag'[t]
      /\ back'[t] = lock.top /\ notify'[t] = Nil /\ next'[t] = Nil
      /\ \A u \in Threads : u # t =>
           /\ pc'[u] = pc[u] /\ status'[u] = status[u] /\ then'[u] = then[u] /\ flag'[u] = flag[u]
           /\ back'[u] = back[u] /\ notify'[u] = notify[u] /\ next'[u] = next[u]
           /\ share'[u] = share[u]
  BY <1>1 DEF LockInv, LockTypes, LockLinks, LinksOf
<1>6. ~Asleep(t) /\ Asleep(t)'
  BY <1>1, <1>5 DEF Asleep, Repairing, Taking
<1>7. t \notin InList /\ \A u \in Threads : t \notin Taken(u)
  BY <1>6 DEF LockInv, LockPlaces
<1>8. Older'[t] = lock.top /\ \A x \in Threads : x # t => Older'[x] = Older[x]
  BY <1>5 DEF Older
<1>9. Older' \in LinksOf(Threads) /\ next' \in LinksOf(Threads) /\ notify' \in LinksOf(Threads)
  <2>1. back' \in LinksOf(Threads) /\ next' \in LinksOf(Threads) /\ notify' \in LinksOf(Threads)
    BY <1>4 DEF LockTypes, LockLinks
  <2>. QED  BY <2>1 DEF Older, LinksOf, BlocksOf
<1>10. lock.top \in Threads /\ lock.top \in Met(Threads, Older, lock.top)
  BY <1>1, TheOldest DEF LockInv, LockWord
<1>11. /\ LockList' /\ InList' = InList \cup {t}
       /\ Met(Threads, Older', t) = {t} \cup Met(Threads, Older, lock.top)
       /\ \A x \in Met(Threads, Older', t) : Older'[x] = Nil =>
            x \in Met(Threads, Older, lock.top) /\ Older[x] = Nil /\ notify'[x] = notify[x]
  <2>1. PICK g, k, l : g = Older' /\ k = next' /\ l = notify'
    OBVIOUS
  <2>2. /\ Listed(Threads, g, k, l, t)
        /\ Members(Threads, g, k, l, t) = Members(Threads, Older, next, notify, lock.top) \cup {t}
        /\ Met(Threads, g, t) = {t} \cup Met(Threads, Older, lock.top)
        /\ \A x \in Met(Threads, g, t) : g[x] = Nil =>
             x \in Met(Threads, Older, lock.top) /\ Older[x] = Nil /\ l[x] = notify[x]
    <3>1. /\ g \in LinksOf(Threads) /\ k \in LinksOf(Threads) /\ l \in LinksOf(Threads)
          /\ g[t] = lock.top /\ k[t] = Nil
          /\ \A x \in Threads : x # t => g[x] = Older[x] /\ k[x] = next[x] /\ l[x] = notify[x]
      BY <1>5, <1>8, <1>9, <2>1
    <3>2. /\ Nil \notin Threads /\ Older \in LinksOf(Threads) /\ next \in LinksOf(Threads)
          /\ notify \in LinksOf(Threads)
          /\ Listed(Threads, Older, next, notify, lock.top)
          /\ t \notin Members(Threads, Older, next, notify, lock.top)
      BY <1>7, ListTypes DEF LockInv, LockList, InList
    <3>. QED  BY <1>10, <3>1, <3>2, ListPush
  <2>3. lock'.top = t
    BY <1>1, <1>3
  <2>. QED  BY <2>1, <2>2, <2>3 DEF LockList, InList
<1>12. LockWord'
  <2>1. lock.Shared = 0 /\ t # Nil /\ (lock.MultipleShared => lock.Locked)
    BY <1>1, LockAssumption DEF LockInv, LockWord
  <2>. QED  BY <1>1, <1>3, <2>1 DEF LockWord
<1>13. LockWaker'
  <2>1. \A u \in Threads : /\ pc'[u] \in Repairing => \/ u = t /\ pc'[u] = "optimize" /\ ~lock.Waking
                                                      \/ u # t /\ pc[u] \in Repairing
                           /\ pc'[u] = "claim" => u # t /\ pc[u] = "claim"
    BY <1>1, <1>2, <1>5 DEF Repairing
  <2>2. \A u \in Threads : u # t /\ pc[u] \in Repairing =>
          /\ lock.Waking
          /\ status'[u].top \in Met(Threads, Older', lock'.top)
          /\ lock'.MultipleShared => status'[u].Locked
          /\ pc'[u] \in {"wakeWriter", "takeAll"} => ~status'[u].Locked
          /\ pc'[u] = "takeAll" => first'[u] # Nil /\ notify'[status'[u].top] = first'[u]
    <3>. SUFFICES ASSUME NEW u \in Threads, u # t, pc[u] \in Repairing
                  PROVE  /\ lock.Waking
                         /\ status[u].top \in Met(Threads, Older', t)
                         /\ lock.MultipleShared => status[u].Locked
                         /\ pc[u] \in {"wakeWriter", "takeAll"} => ~status[u].Locked
                         /\ pc[u] = "takeAll" => first[u] # Nil /\ notify'[status[u].top] = first[u]
      BY <1>1, <1>3, <1>5
    <3>1. /\ lock.Waking /\ status[u].top \in Met(Threads, Older, lock.top)
          /\ lock.MultipleShared => status[u].Locked
          /\ pc[u] \in {"wakeWriter", "takeAll"} => ~status[u].Locked
          /\ pc[u] = "takeAll" => first[u] # Nil /\ notify[status[u].top] = first[u]
      BY DEF LockInv, LockWaker
    <3>2. status[u].top \in Threads /\ status[u].top # t
      BY <1>7, <3>1, ListTypes DEF LockInv
    <3>. QED  BY <1>5, <1>11, <3>1, <3>2
  <2>3. \A u \in Threads : pc[u] \in Repairing => lock.Waking
    BY DEF LockInv, LockWaker
  <2>4. \A u, v \in Threads : pc[u] \in Repairing /\ pc[v] \in Repairing => u = v
    BY DEF LockInv, LockWaker
  <2>5. lock'.Waking /\ lock'.top = t /\ lock'.MultipleShared = lock.MultipleShared
    BY <1>1, <1>3
  <2>6. /\ t \in Met(Threads, Older', t)
        /\ lock.MultipleShared => word.Locked
    BY <1>3, <1>11 DEF LockInv, LockWord
  <2>7. \A u \in Threads : pc'[u] = "claim" =>
          status'[u].Waiting /\ ~status'[u].Waking /\ ~status'[u].Locked
    BY <1>5, <2>1 DEF LockInv, LockWaker
  <2>8. \A u \in Threads : pc'[u] \in Repairing =>
          /\ lock'.Waking
          /\ \A v \in Threads : pc'[v] \in Repairing => v = u
          /\ status'[u].top \in Met(Threads, Older', lock'.top)
          /\ lock'.MultipleShared => status'[u].Locked
          /\ pc'[u] \in {"wakeWriter", "takeAll"} => ~status'[u].Locked
          /\ pc'[u] = "takeAll" => first'[u] # Nil /\ notify'[status'[u].top] = first'[u]
    <3>. SUFFICES ASSUME NEW u \in Threads, pc'[u] \in Repairing
                  PROVE  /\ \A v \in Threads : pc'[v] \in Repairing => v = u
                         /\ status'[u].top \in Met(Threads, Older', lock'.top)
                         /\ lock'.MultipleShared => status'[u].Locked
                         /\ pc'[u] \in {"wakeWriter", "takeAll"} => ~status'[u].Locked
                         /\ pc'[u] = "takeAll" => first'[u] # Nil /\ notify'[status'[u].top] = first'[u]
      BY <2>5
    <3>1. CASE u = t
      BY <1>3, <1>5, <2>1, <2>3, <2>5, <2>6, <3>1
    <3>2. CASE u # t
      BY <2>1, <2>2, <2>3, <2>4, <3>2
    <3>. QED  BY <3>1, <3>2
  <2>. QED  BY <2>7, <2>8 DEF LockWaker
<1>14. LockPlaces'
  <2>1. \A w \in Threads : Asleep(w) => Asleep(w)'
    BY <1>5, <1>6 DEF Asleep
  <2>2. /\ \A u \in Threads : pc[u] \in Taking \/ pc'[u] \in Taking =>
             pc'[u] = pc[u] /\ first'[u] = first[u] /\ wakee'[u] = wakee[u]
        /\ \A w \in Threads : pc[w] = "keyed" => pc'[w] = "keyed"
    BY <1>1, <1>5 DEF Taking
  <2>3. \A u \in Threads : \A w \in Taken(u) : next'[w] = next[w]
    BY <1>5, <1>7 DEF Taken
  <2>. QED  BY <1>6, <1>7, <1>9, <1>11, <2>1, <2>2, <2>3, PlacesWith DEF LockInv
<1>15. LockHolders'
  <2>1. \A u \in Threads : /\ pc'[u] = "in" <=> pc[u] = "in"
                           /\ pc[u] = "in" => mode'[u] = mode[u]
                           /\ pc'[u] = "unlock" <=> pc[u] = "unlock"
    BY <1>1, <1>5
  <2>2. lock.MultipleShared => \A x \in Met(Threads, Older', lock'.top) :
            Older'[x] = Nil => share'[notify'[x]] = Cardinality(Sharing)
    <3>. SUFFICES ASSUME lock.MultipleShared, NEW x \in Met(Threads, Older', t), Older'[x] = Nil
                  PROVE  share'[notify'[x]] = Cardinality(Sharing)
      BY <1>1, <1>3
    <3>1. x \in Met(Threads, Older, lock.top) /\ Older[x] = Nil /\ notify'[x] = notify[x]
      BY <1>11
    <3>2. share[notify[x]] = Cardinality(Sharing)
      BY <3>1 DEF LockInv, LockHolders
    <3>3. notify[x] \in Threads /\ notify[x] # t
      BY <1>1, <1>7, <3>1, TheOldest DEF LockInv, LockWord
    <3>. QED  BY <1>5, <3>1, <3>2, <3>3
  <2>3. lock'.Waiting = lock.Waiting /\ lock'.Shared = lock.Shared
        /\ lock'.MultipleShared = lock.MultipleShared /\ lock'.Locked = lock.Locked
    BY <1>1, <1>3
  <2>. QED  BY <2>1, <2>2, <2>3, HoldersKept DEF LockInv
<1>. QED  BY <1>4, <1>11, <1>12, <1>13, <1>14, <1>15 DEF LockInv

LEMMA QueueFirstStep ==
  ASSUME LockInv, NEW t \in Threads, QueueFirst(t)
  PROVE  LockInv'
<1>1. /\ pc[t] = "acquire" /\ ~Grants(mode[t]) /\ ~lock.Waiting
      /\ notify' = [notify EXCEPT ![t] = t]
      /\ next' = [next EXCEPT ![t] = Nil]
      /\ share' = [share EXCEPT ![t] = lock.Shared]
      /\ flag' = [flag EXCEPT ![t] = {mode[t], "waiting"}]
      /\ pc' = [pc EXCEPT ![t] = "spin"]
      /\ back' = back /\ mode' = mode /\ status' = status /\ then' = then
      /\ first' = first /\ wakee' = wakee /\ calls' = calls
  BY DEF QueueFirst, Goto, local
<1>2. /\ lock.top = Nil /\ ~lock.Waking /\ ~lock.MultipleShared /\ lock.Locked
      /\ lock.Shared \in Nat /\ t # Nil
  BY <1>1, WordParts, LockAssumption DEF LockInv, LockTypes, LockWord, Grants
<1>3. /\ lock' \in LockWords /\ lock'.Locked /\ lock'.Waiting /\ ~lock'.Waking
      /\ (lock'.MultipleShared <=> lock.Shared > 1)
      /\ lock'.top = t /\ lock'.Shared = 0
  <2>1. CASE lock.Shared > 1
    <3>1. (lock.Shared > 1) = TRUE
      BY <2>1
    <3>2. lock' = FirstOf(lock, t, TRUE)
      BY <3>1, Zenon DEF QueueFirst, FirstOf
    <3>. QED  BY <1>2, <2>1, <3>2, FirstOfParts DEF LockInv, LockTypes
  <2>2. CASE ~(lock.Shared > 1)
    <3>1. (lock.Shared > 1) = FALSE
      BY <2>2
    <3>2. lock' = FirstOf(lock, t, FALSE)
      BY <3>1, Zenon DEF QueueFirst, FirstOf
    <3>. QED  BY <1>2, <2>2, <3>2, FirstOfParts DEF LockInv, LockTypes
  <2>. QED  BY <2>1, <2>2
<1>4. LockTypes'
  <2>1. pc' \in [Threads -> LockLabels]
    BY <1>1 DEF LockInv, LockTypes, LockLabels
  <2>2. notify' \in LockLinks /\ next' \in LockLinks
    BY <1>1, ListTypes DEF LockInv, LockLinks, LinksOf, BlocksOf
  <2>3. /\ share' \in [Threads -> Nat]
        /\ flag' \in [Threads -> SUBSET {"exclusive", "shared", "waiting"}]
    BY <1>1, <1>2 DEF LockInv, LockTypes
  <2>. QED  BY <1>1, <1>3, <2>1, <2>2, <2>3 DEF LockInv, LockTypes
<1>5. /\ pc'[t] = "spin" /\ "waiting" \in flag'[t]
      /\ notify'[t] = t /\ next'[t] = Nil /\ share'[t] = lock.Shared
      /\ \A u \in Threads : u # t =>
           /\ pc'[u] = pc[u] /\ flag'[u] = flag[u] /\ next'[u] = next[u]
  BY <1>1 DEF LockInv, LockTypes, LockLinks, LinksOf
<1>6. ~Asleep(t) /\ Asleep(t)'
  BY <1>1, <1>5 DEF Asleep, Repairing, Taking
<1>7. \A u \in Threads : t \notin Taken(u)
  BY <1>6 DEF LockInv, LockPlaces
<1>8. Older'[t] = Nil
  BY <1>2, <1>5 DEF Older
<1>9. Older' \in LinksOf(Threads) /\ next' \in LinksOf(Threads) /\ notify' \in LinksOf(Threads)
  <2>1. back' \in LinksOf(Threads) /\ next' \in LinksOf(Threads) /\ notify' \in LinksOf(Threads)
    BY <1>4 DEF LockTypes, LockLinks
  <2>. QED  BY <2>1 DEF Older, LinksOf, BlocksOf
<1>10. /\ LockList' /\ InList' = {t} /\ Met(Threads, Older', t) = {t}
  <2>1. PICK g, k, l : g = Older' /\ k = next' /\ l = notify'
    OBVIOUS
  <2>2. Listed(Threads, g, k, l, t) /\ Members(Threads, g, k, l, t) = {t} /\ Met(Threads, g, t) = {t}
    <3>1. /\ g \in LinksOf(Threads) /\ k \in LinksOf(Threads) /\ l \in LinksOf(Threads)
          /\ g[t] = Nil /\ k[t] = Nil /\ l[t] = t /\ Nil \notin Threads
      BY <1>5, <1>8, <1>9, <2>1, LockAssumption
    <3>. QED  BY <3>1, ListFirst
  <2>. QED  BY <1>3, <2>1, <2>2 DEF LockList, InList
<1>11. LockWord'
  BY <1>2, <1>3 DEF LockWord
<1>12. LockWaker'
  <2>1. \A u \in Threads : /\ pc[u] \notin Repairing /\ pc'[u] \notin Repairing
                           /\ pc'[u] = "claim" => pc[u] = "claim"
    BY <1>1, <1>2, <1>5 DEF LockInv, LockWaker, Repairing
  <2>. QED  BY <1>1, <2>1 DEF LockInv, LockWaker
<1>13. LockPlaces'
  <2>1. \A w \in Threads : Asleep(w) => Asleep(w)'
    BY <1>1, <1>5, <1>6 DEF Asleep
  <2>2. /\ \A u \in Threads : pc[u] \in Taking \/ pc'[u] \in Taking =>
             pc'[u] = pc[u] /\ first'[u] = first[u] /\ wakee'[u] = wakee[u]
        /\ \A w \in Threads : pc[w] = "keyed" => pc'[w] = "keyed"
    BY <1>1, <1>5 DEF Taking
  <2>3. \A u \in Threads : \A w \in Taken(u) : next'[w] = next[w]
    BY <1>5, <1>7 DEF Taken
  <2>. QED  BY <1>6, <1>7, <1>9, <1>10, <2>1, <2>2, <2>3, PlacesWith DEF LockInv
<1>14. LockHolders'
  <2>1. \A u \in Threads : /\ pc'[u] = "in" <=> pc[u] = "in"
                           /\ pc[u] # "unlock" /\ pc'[u] # "unlock"
    BY <1>1, <1>2, <1>5 DEF LockInv, LockHolders
  <2>2. Sharing' = Sharing /\ Cardinality(Sharing) = lock.Shared
    BY <1>1, <2>1 DEF Sharing, Holders, LockInv, LockHolders
  <2>3. IsFiniteSet(Sharing)
    BY FS_Subset, LockAssumption DEF Sharing, Holders
  <2>4. ~lock'.MultipleShared => \A u, v \in Threads : pc'[u] = "in" /\ pc'[v] = "in" => u = v
    <3>. SUFFICES ASSUME ~(lock.Shared > 1), NEW u \in Threads, NEW v \in Threads,
                         pc[u] = "in", pc[v] = "in"
                  PROVE  u = v
      BY <1>3, <2>1
    <3>1. CASE mode[u] = "exclusive" \/ mode[v] = "exclusive"
      BY <3>1 DEF LockInv, LockHolders
    <3>2. CASE ~(mode[u] = "exclusive" \/ mode[v] = "exclusive")
      <4>1. u \in Sharing /\ v \in Sharing
        BY <3>2 DEF LockInv, LockTypes, Sharing, Holders
      <4>2. lock.Shared = 0 \/ lock.Shared = 1
        BY <1>2
      <4>. QED  BY <2>2, <2>3, <4>1, <4>2, FS_EmptySet, FS_Singleton
    <3>. QED  BY <3>1, <3>2
  <2>5. \A u \in Threads : pc'[u] = "in" /\ mode'[u] = "exclusive" =>
          ~lock'.MultipleShared /\ \A v \in Threads : pc'[v] = "in" => v = u
    <3>. SUFFICES ASSUME NEW u \in Threads, pc[u] = "in", mode[u] = "exclusive"
                  PROVE  lock.Shared = 0 /\ \A v \in Threads : pc[v] = "in" => v = u
      BY <1>1, <1>3, <2>1
    <3>. QED  BY DEF LockInv, LockHolders
  <2>6. \A x \in Met(Threads, Older', lock'.top) : share'[notify'[x]] = Cardinality(Sharing)'
    BY <1>3, <1>5, <1>10, <2>2
  <2>. QED  BY <1>3, <2>1, <2>4, <2>5, <2>6 DEF LockHolders
<1>. QED  BY <1>4, <1>10, <1>11, <1>12, <1>13, <1>14 DEF LockInv

(* The walk of an optimiser or a waker.                                    *)
LEMMA Linking ==
  ASSUME LockTypes, LockList, NEW b \in Met(Threads, Older, lock.top),
         NEW g \in LinksOf(Threads), g[b] = Nil, \A x \in Threads : x # b => g[x] = Older[x],
         NEW l \in LinksOf(Threads), l[b] = Oldest(b),
         \A x \in Threads : x # b => l[x] = notify[x]
  PROVE  /\ Linked(b) \in LinksOf(Threads)
         /\ Listed(Threads, g, Linked(b), l, lock.top)
         /\ Members(Threads, g, Linked(b), l, lock.top) = InList
         /\ b \in Met(Threads, g, lock.top) /\ Met(Threads, g, b) = {b}
         /\ b \in Threads /\ lock.top \in Threads
         /\ Oldest(b) \in Threads /\ Oldest(b) \in InList /\ Oldest(b) = Oldest(lock.top)
         /\ \A x \in Met(Threads, g, lock.top) : g[x] = Nil => x = b
         /\ \A x \in Threads \ InList : Linked(b)[x] = next[x]
<1>1. b \in Threads /\ lock.top \in Threads /\ Oldest(b) \in Threads
  BY WalkFrom
<1>3. /\ Linked(b) \in LinksOf(Threads)
      /\ Listed(Threads, g, Linked(b), l, lock.top)
      /\ Members(Threads, g, Linked(b), l, lock.top) = InList
      /\ b \in Met(Threads, g, lock.top) /\ Met(Threads, g, b) = {b}
      /\ Oldest(b) = Oldest(lock.top) /\ Oldest(b) \in InList
      /\ \A x \in Threads \ InList : Linked(b)[x] = next[x]
  <2>1. \A x \in Threads : x # b => g[x] = Older[x] /\ l[x] = notify[x]
    OBVIOUS
  <2>. QED  BY <2>1, LinkStep
<1>4. \A x \in Met(Threads, g, lock.top) : g[x] = Nil => x = b
  <2>1. lock.top \in BlocksOf(Threads) /\ Nil \notin Threads
    BY ListTypes
  <2>. QED  BY <1>3, <2>1, MetOnce DEF Listed
<1>. QED  BY <1>1, <1>3, <1>4

LEMMA OlderCut ==
  ASSUME LockTypes', LockTypes, NEW b \in Threads, back' = back,
         notify'[b] # Nil, \A x \in Threads : x # b => notify'[x] = notify[x]
  PROVE  /\ Older' \in LinksOf(Threads) /\ Older'[b] = Nil
         /\ \A x \in Threads : x # b => Older'[x] = Older[x]
<1>1. back' \in LinksOf(Threads) /\ notify' \in LinksOf(Threads)
  BY DEF LockTypes, LockLinks
<1>. QED  BY <1>1 DEF Older, LinksOf, BlocksOf

LEMMA LinkWaker ==
  ASSUME LockWaker, NEW t \in Threads, pc[t] \in Repairing, NEW label \in Repairing,
         pc'[t] = label, \A u \in Threads : u # t => pc'[u] = pc[u],
         lock' = lock, status' = status, status[t].top \in Met(Threads, Older', lock.top),
         label \in {"wakeWriter", "takeAll"} => ~status[t].Locked,
         label = "takeAll" => first'[t] # Nil /\ notify'[status[t].top] = first'[t]
  PROVE  LockWaker'
<1>1. \A u \in Threads : /\ pc'[u] \in Repairing => u = t
                         /\ pc'[u] = "claim" => u # t /\ pc[u] = "claim"
  BY DEF LockWaker, Repairing
<1>2. lock.Waking /\ (lock.MultipleShared => status[t].Locked)
  BY DEF LockWaker
<1>. QED  BY <1>1, <1>2 DEF LockWaker

LEMMA LinkHolders ==
  ASSUME LockInv, lock' = lock, mode' = mode, share' = share,
         \A u \in Threads : /\ pc'[u] = "in" <=> pc[u] = "in"
                            /\ pc'[u] = "unlock" <=> pc[u] = "unlock",
         lock.MultipleShared => \A x \in Met(Threads, Older', lock.top) :
           Older'[x] = Nil => notify'[x] = Oldest(lock.top)
  PROVE  LockHolders'
<1>1. lock.MultipleShared => share[Oldest(lock.top)] = Cardinality(Sharing)
  <2>. SUFFICES ASSUME lock.MultipleShared PROVE share[Oldest(lock.top)] = Cardinality(Sharing)
    OBVIOUS
  <2>1. lock.top # Nil
    BY DEF LockInv, LockWord
  <2>. QED  BY <2>1, TheOldest DEF LockInv, LockHolders
<1>2. lock.MultipleShared => \A x \in Met(Threads, Older', lock'.top) :
            Older'[x] = Nil => share'[notify'[x]] = Cardinality(Sharing)
  BY <1>1
<1>3. \A u \in Threads : /\ pc'[u] = "in" <=> pc[u] = "in"
                         /\ pc[u] = "in" => mode'[u] = mode[u]
                         /\ pc'[u] = "unlock" <=> pc[u] = "unlock"
  OBVIOUS
<1>. QED  BY <1>2, <1>3, HoldersKept DEF LockInv

(* An optimiser or a waker that walks, and takes nothing from the list.    *)
LEMMA LinkedStep ==
  ASSUME LockInv, NEW t \in Threads, pc[t] \in {"optimize", "wake"},
         NEW b, b = status[t].top, NEW label \in {"optimizeCas", "takeAll"},
         next' = Linked(b), notify' = [notify EXCEPT ![b] = Oldest(b)],
         pc' = [pc EXCEPT ![t] = label], first' \in LockLinks,
         label = "takeAll" => ~status[t].Locked /\ first'[t] = Oldest(b),
         \A u \in Threads : u # t => first'[u] = first[u],
         UNCHANGED <<lock, back, share, flag, mode, status, then, wakee, calls>>
  PROVE  LockInv'
<1>2. b \in Met(Threads, Older, lock.top)
  BY DEF LockInv, LockWaker, Repairing
<1>3. b \in Threads /\ Oldest(b) \in Threads /\ Oldest(b) # Nil /\ Linked(b) \in LockLinks
  BY <1>2, WalkFrom, LockAssumption DEF LockInv
<1>4. /\ pc'[t] = label /\ \A u \in Threads : u # t => pc'[u] = pc[u]
      /\ notify'[b] = Oldest(b) /\ \A x \in Threads : x # b => notify'[x] = notify[x]
  BY <1>3 DEF LockInv, LockTypes, LockLinks, LinksOf
<1>5. LockTypes'
  <2>1. pc' \in [Threads -> LockLabels]
    BY DEF LockInv, LockTypes, LockLabels, Repairing
  <2>2. notify' \in LockLinks /\ next' \in LockLinks
    BY <1>3, ListTypes DEF LockInv, LockLinks, LinksOf, BlocksOf
  <2>. QED  BY <2>1, <2>2 DEF LockInv, LockTypes
<1>6. /\ Older' \in LinksOf(Threads) /\ Older'[b] = Nil
      /\ \A x \in Threads : x # b => Older'[x] = Older[x]
  <2>. QED  BY <1>3, <1>4, <1>5, OlderCut DEF LockInv
<1>7. /\ Listed(Threads, Older', next', notify', lock.top)
      /\ Members(Threads, Older', next', notify', lock.top) = InList
      /\ b \in Met(Threads, Older', lock.top)
      /\ \A x \in Met(Threads, Older', lock.top) : Older'[x] = Nil => x = b
      /\ \A x \in Threads \ InList : next'[x] = next[x]
      /\ Oldest(b) = Oldest(lock.top)
  <2>1. notify' \in LinksOf(Threads) /\ next' = Linked(b)
    BY <1>5 DEF LockTypes, LockLinks
  <2>2. PICK g, l : g = Older' /\ l = notify'
    OBVIOUS
  <2>3. /\ Listed(Threads, g, Linked(b), l, lock.top)
        /\ Members(Threads, g, Linked(b), l, lock.top) = InList
        /\ b \in Met(Threads, g, lock.top)
        /\ \A x \in Met(Threads, g, lock.top) : g[x] = Nil => x = b
        /\ \A x \in Threads \ InList : Linked(b)[x] = next[x]
        /\ Oldest(b) = Oldest(lock.top)
    <3>1. g \in LinksOf(Threads) /\ g[b] = Nil /\ \A x \in Threads : x # b => g[x] = Older[x]
      BY <1>6, <2>2
    <3>2. /\ l \in LinksOf(Threads) /\ l[b] = Oldest(b)
          /\ \A x \in Threads : x # b => l[x] = notify[x]
      BY <1>4, <2>1, <2>2
    <3>. QED  BY <1>2, <3>1, <3>2, Linking DEF LockInv
  <2>. QED  BY <2>1, <2>2, <2>3
<1>8. LockList' /\ InList' = InList
  BY <1>7 DEF LockList, InList
<1>9. LockWord'
  BY DEF LockInv, LockWord
<1>10. LockWaker'
  <2>1. pc[t] \in Repairing /\ label \in Repairing
    BY DEF Repairing
  <2>2. /\ label \in {"wakeWriter", "takeAll"} => ~status[t].Locked
        /\ label = "takeAll" => first'[t] # Nil /\ notify'[status[t].top] = first'[t]
    BY <1>3, <1>4
  <2>3. status[t].top \in Met(Threads, Older', lock.top) /\ LockWaker
    BY <1>7 DEF LockInv
  <2>. QED  BY <1>4, <2>1, <2>2, <2>3, LinkWaker
<1>11. LockPlaces'
  <2>1. \A w \in Threads : Asleep(w) => Asleep(w)'
    BY <1>4 DEF Asleep, Repairing
  <2>2. \A u \in Threads : \A w \in Taken(u) : w \in Threads \ InList
    BY DEF LockInv, LockPlaces, Taken
  <2>3. /\ \A u \in Threads : pc[u] \in Taking \/ pc'[u] \in Taking =>
             pc'[u] = pc[u] /\ first'[u] = first[u] /\ wakee'[u] = wakee[u]
        /\ \A w \in Threads : pc[w] = "keyed" => pc'[w] = "keyed"
    BY <1>4 DEF Taking
  <2>4. t \in InList' => Asleep(t)' /\ \A u \in Threads : t \notin Taken(u)
    BY <1>8, <2>1, <2>2 DEF LockInv, LockPlaces
  <2>5. \A u \in Threads : \A w \in Taken(u) : next'[w] = next[w]
    BY <1>7, <2>2
  <2>6. next' \in LinksOf(Threads) /\ InList' \subseteq InList \cup {t}
    BY <1>5, <1>8 DEF LockTypes, LockLinks
  <2>. QED  BY <2>1, <2>3, <2>4, <2>5, <2>6, PlacesWith DEF LockInv
<1>12. LockHolders'
  <2>1. \A u \in Threads : /\ pc'[u] = "in" <=> pc[u] = "in"
                           /\ pc'[u] = "unlock" <=> pc[u] = "unlock"
    BY <1>4
  <2>2. \A x \in Met(Threads, Older', lock.top) :
          Older'[x] = Nil => notify'[x] = Oldest(lock.top)
    BY <1>4, <1>7
  <2>. QED  BY <2>1, <2>2, LinkHolders
<1>. QED  BY <1>5, <1>8, <1>9, <1>10, <1>11, <1>12 DEF LockInv

LEMMA OptimizeStep ==
  ASSUME LockInv, NEW t \in Threads, Optimize(t)
  PROVE  LockInv'
<1>. DEFINE b == status[t].top
<1>1. /\ pc[t] = "optimize"
      /\ UNCHANGED <<lock, back, share, flag, mode, status, then, first, wakee, calls>>
  BY DEF Optimize, local
<1>2. CASE status[t].Locked
  <2>1. /\ next' = Linked(b) /\ notify' = [notify EXCEPT ![b] = Oldest(b)]
        /\ pc' = [pc EXCEPT ![t] = "optimizeCas"]
    BY <1>2 DEF Optimize, Goto
  <2>2. first' \in LockLinks
    BY <1>1 DEF LockInv, LockTypes
  <2>. QED  BY <1>1, <2>1, <2>2, LinkedStep
<1>3. CASE ~status[t].Locked
  <2>1. pc' = [pc EXCEPT ![t] = "wake"] /\ next' = next /\ notify' = notify
    BY <1>3 DEF Optimize, Goto
  <2>2. pc'[t] = "wake" /\ \A u \in Threads : u # t => pc'[u] = pc[u]
    BY <2>1 DEF LockInv, LockTypes
  <2>3. LockTypes'
    <3>1. pc' \in [Threads -> LockLabels]
      BY <2>1 DEF LockInv, LockTypes, LockLabels, Repairing
    <3>. QED  BY <1>1, <2>1, <3>1 DEF LockInv, LockTypes
  <2>4. LockWaker'
    <3>1. Older' = Older
      BY <1>1, <2>1, ListSame DEF LockInv
    <3>. QED  BY <1>1, <2>1, <2>2, <3>1 DEF LockInv, LockWaker, Repairing
  <2>5. LockPlaces'
    <3>1. \A w \in Threads : Asleep(w) => Asleep(w)'
      BY <1>1, <2>2 DEF Asleep, Repairing
    <3>2. /\ \A u \in Threads : pc'[u] \in Taking => pc[u] \in Taking
          /\ \A u \in Threads : pc'[u] \in {"wakeWriter", "wakeEach"} => first[u] # Nil
          /\ \A u \in Threads : pc'[u] = "release" => pc[u] = "release" /\ pc'[wakee[u]] = "keyed"
      BY <1>1, <2>2 DEF Taking, LockInv, LockPlaces
    <3>. QED  BY <1>1, <2>1, <3>1, <3>2, PlacesSame DEF LockInv
  <2>6. \A u \in Threads : /\ pc'[u] = "in" <=> pc[u] = "in"
                           /\ pc'[u] = "unlock" <=> pc[u] = "unlock"
    BY <1>1, <2>2
  <2>7. lock.Waking => lock.Waiting
    BY DEF LockInv, LockWord
  <2>. QED  BY <1>1, <2>1, <2>3, <2>4, <2>5, <2>6, <2>7, QuietStep
<1>. QED  BY <1>2, <1>3

LEMMA LinkAllStep ==
  ASSUME LockInv, NEW t \in Threads, LinkAll(t)
  PROVE  LockInv'
<1>. DEFINE b == status[t].top
<1>1. /\ pc[t] = "wake" /\ ~status[t].Locked
      /\ next' = Linked(b) /\ notify' = [notify EXCEPT ![b] = Oldest(b)]
      /\ first' = [first EXCEPT ![t] = Oldest(b)]
      /\ pc' = [pc EXCEPT ![t] = "takeAll"]
      /\ UNCHANGED <<lock, back, share, flag, mode, status, then, wakee, calls>>
  BY DEF LinkAll, Goto
<1>2. Oldest(b) \in Threads
  BY <1>1, WalkFrom DEF LockInv, LockWaker, Repairing
<1>3. first' \in LockLinks /\ first'[t] = Oldest(b) /\ \A u \in Threads : u # t => first'[u] = first[u]
  BY <1>1, <1>2, ListTypes DEF LockInv, LockLinks, LinksOf, BlocksOf
<1>. QED  BY <1>1, <1>3, LinkedStep

(* Whoever starts to take blocks takes blocks of the list.                 *)
LEMMA PlacesTaken ==
  ASSUME LockTypes, LockPlaces, next' \in LinksOf(Threads), NEW t \in Threads,
         pc[t] \notin Taking, pc'[t] \in {"wakeWriter", "wakeEach"}, first'[t] # Nil,
         Ends(Threads, next', first'[t]), Met(Threads, next', first'[t]) \subseteq InList,
         InList' \subseteq InList, InList' \cap Met(Threads, next', first'[t]) = {},
         \A u \in Threads : u # t => pc'[u] = pc[u] /\ first'[u] = first[u] /\ wakee'[u] = wakee[u],
         pc[t] # "keyed",
         \A w \in Threads : Asleep(w) => Asleep(w)',
         \A u \in Threads : \A w \in Taken(u) : next'[w] = next[w]
  PROVE  LockPlaces'
<1>1. ASSUME NEW u \in Threads, u # t
      PROVE  /\ Taken(u)' = Taken(u)
             /\ pc'[u] \in Taking =>
                  /\ pc'[u] = pc[u] /\ first'[u] = first[u] /\ wakee'[u] = wakee[u]
                  /\ Met(Threads, next', first'[u]) = Met(Threads, next, first[u])
                  /\ Ends(Threads, next', first'[u])
  <2>1. CASE pc[u] \in Taking
    BY <1>1, <2>1, ChainKept
  <2>2. CASE pc[u] \notin Taking
    <3>1. pc[u] # "release" /\ pc'[u] = pc[u]
      BY <1>1, <2>2 DEF Taking
    <3>. QED  BY <2>2, <3>1 DEF Taken
  <2>. QED  BY <2>1, <2>2
<1>2. Taken(t)' \subseteq Met(Threads, next', first'[t]) /\ Taken(t) = {}
  <2>1. pc'[t] # "release" /\ pc[t] # "release"
    BY DEF Taking
  <2>. QED  BY <2>1 DEF Taken
<1>3. InList \subseteq Threads /\ \A u \in Threads : Taken(u) \subseteq Threads
  BY DEF InList, Members, Taken
<1>4. (\A w \in InList : Asleep(w))'
  BY <1>3 DEF LockPlaces
<1>5. (\A u \in Threads : \A w \in Taken(u) :
         Asleep(w) /\ w \notin InList /\ \A v \in Threads : w \in Taken(v) => v = u)'
  <2>1. ASSUME NEW u \in Threads, u # t, NEW w \in Taken(u)'
        PROVE  Asleep(w)' /\ w \notin InList' /\ \A v \in Threads : w \in Taken(v)' => v = u
    <3>1. w \in Taken(u) /\ w \in Threads /\ w \notin InList
      BY <1>1, <1>3, <2>1 DEF LockPlaces
    <3>. QED  BY <1>1, <1>2, <2>1, <3>1 DEF LockPlaces
  <2>2. ASSUME NEW w \in Taken(t)'
        PROVE  Asleep(w)' /\ w \notin InList' /\ \A v \in Threads : w \in Taken(v)' => v = t
    <3>1. w \in InList /\ w \in Threads /\ w \notin InList'
      BY <1>2, <1>3, <2>2
    <3>. QED  BY <1>1, <3>1 DEF LockPlaces
  <2>. QED  BY <2>1, <2>2
<1>6. (\A u \in Threads : pc[u] \in Taking => Ends(Threads, next, first[u]))'
  BY <1>1
<1>7. (\A u \in Threads : pc[u] \in {"wakeWriter", "wakeEach"} => first[u] # Nil)'
  BY <1>1 DEF LockPlaces, Taking
<1>8. (\A u \in Threads : pc[u] = "release" =>
         /\ wakee[u] \in Threads
         /\ wakee[u] \notin Met(Threads, next, first[u])
         /\ pc[wakee[u]] = "keyed")'
  <2>. SUFFICES ASSUME NEW u \in Threads, pc'[u] = "release"
                PROVE  /\ wakee'[u] \in Threads
                       /\ wakee'[u] \notin Met(Threads, next', first'[u])
                       /\ pc'[wakee'[u]] = "keyed"
    OBVIOUS
  <2>1. u # t /\ pc[u] = "release" /\ pc'[u] \in Taking
    BY DEF Taking
  <2>2. wakee[u] \in Threads /\ wakee[u] \notin Met(Threads, next, first[u]) /\ pc[wakee[u]] = "keyed"
    BY <2>1 DEF LockPlaces
  <2>. QED  BY <1>1, <2>1, <2>2
<1>. QED  BY <1>4, <1>5, <1>6, <1>7, <1>8 DEF LockPlaces

LEMMA TakeAllStep ==
  ASSUME LockInv, NEW t \in Threads, TakeAll(t)
  PROVE  LockInv'
<1>1. /\ pc[t] = "takeAll" /\ Exchange(t, Free, "wakeEach", "wake")
      /\ UNCHANGED <<back, notify, next, share, flag, mode, then, first, wakee, calls>>
  BY DEF TakeAll, blocks
<1>2. CASE lock # status[t]
  BY <1>1, <1>2, LookAgain DEF Exchange, Goto
<1>3. CASE lock = status[t]
  <2>1. lock' = Free /\ pc' = [pc EXCEPT ![t] = "wakeEach"] /\ status' = status
    BY <1>1, <1>3 DEF Exchange, Goto
  <2>2. pc'[t] = "wakeEach" /\ \A u \in Threads : u # t => pc'[u] = pc[u]
    BY <2>1 DEF LockInv, LockTypes
  <2>3. /\ lock' \in LockWords /\ ~lock'.Locked /\ ~lock'.Waiting /\ ~lock'.Waking
        /\ ~lock'.MultipleShared /\ lock'.top = Nil /\ lock'.Shared = 0
    BY <2>1, FreeWord
  <2>4. /\ lock.top \in Met(Threads, Older, lock.top) /\ ~lock.Locked
        /\ first[t] # Nil /\ notify[lock.top] = first[t]
        /\ \A u \in Threads : pc[u] \in Repairing => u = t
    BY <1>1, <1>3 DEF LockInv, LockWaker, Repairing
  <2>5. lock.top \in Threads /\ Older[lock.top] = Nil
    BY <2>4, ListTypes DEF LockInv, Older
  <2>6. /\ InList = Met(Threads, Older, lock.top) \cup Met(Threads, next, first[t])
        /\ Ends(Threads, next, first[t])
    BY <2>4, <2>5, ListTypes, ListEnd DEF LockInv, LockList, InList
  <2>7. LockTypes'
    <3>1. pc' \in [Threads -> LockLabels]
      BY <2>1 DEF LockInv, LockTypes, LockLabels, Taking
    <3>. QED  BY <1>1, <2>1, <2>3, <3>1 DEF LockInv, LockTypes
  <2>8. LockWord'
    BY <2>3 DEF LockWord
  <2>9. LockList' /\ InList' = {}
    <3>1. Older' = Older /\ next' = next /\ notify' = notify
      BY <1>1 DEF Older
    <3>2. Listed(Threads, Older, next, notify, Nil) /\ Members(Threads, Older, next, notify, Nil) = {}
      BY ListTypes, NoList DEF LockInv
    <3>. QED  BY <2>3, <3>1, <3>2 DEF LockList, InList
  <2>10. LockWaker'
    <3>1. \A u \in Threads : pc'[u] \notin Repairing /\ (pc'[u] = "claim" => pc[u] = "claim")
      BY <2>2, <2>4 DEF Repairing
    <3>. QED  BY <2>1, <3>1 DEF LockInv, LockWaker
  <2>11. LockPlaces'
    <3>1. \A w \in Threads : Asleep(w) => Asleep(w)'
      BY <1>1, <2>2 DEF Asleep, Repairing, Taking
    <3>2. pc[t] \notin Taking /\ pc[t] # "keyed"
      BY <1>1 DEF Taking
    <3>3. next' \in LinksOf(Threads)
      BY <1>1, ListTypes DEF LockInv
    <3>4. /\ Ends(Threads, next', first'[t]) /\ Met(Threads, next', first'[t]) \subseteq InList
          /\ InList' \subseteq InList /\ InList' \cap Met(Threads, next', first'[t]) = {}
          /\ first'[t] # Nil
      BY <1>1, <2>4, <2>6, <2>9
    <3>5. /\ \A u \in Threads : \A w \in Taken(u) : next'[w] = next[w]
          /\ pc'[t] \in {"wakeWriter", "wakeEach"}
          /\ \A u \in Threads : u # t =>
               pc'[u] = pc[u] /\ first'[u] = first[u] /\ wakee'[u] = wakee[u]
      BY <1>1, <2>2
    <3>. QED  BY <3>1, <3>2, <3>3, <3>4, <3>5, PlacesTaken DEF LockInv
  <2>12. LockHolders'
    <3>1. \A u \in Threads : pc'[u] # "in" /\ pc'[u] # "unlock"
      BY <2>2, <2>4 DEF LockInv, LockHolders
    <3>2. Cardinality(Sharing)' = 0
      BY <3>1, FS_EmptySet DEF Sharing, Holders
    <3>. QED  BY <2>3, <3>1, <3>2 DEF LockHolders
  <2>. QED  BY <2>7, <2>8, <2>9, <2>10, <2>11, <2>12 DEF LockInv
<1>. QED  BY <1>2, <1>3

LEMMA WakeEachStep ==
  ASSUME LockInv, NEW t \in Threads, WakeEach(t)
  PROVE  LockInv'
<1>0. PICK b : b = first[t]
  OBVIOUS
<1>. DEFINE label == IF "waiting" \in flag[b] THEN After(t, b) ELSE "release"
<1>1. /\ pc[t] = "wakeEach"
      /\ first' = [first EXCEPT ![t] = next[b]]
      /\ wakee' = [wakee EXCEPT ![t] = b]
      /\ flag' = [flag EXCEPT ![b] = @ \ {"waiting"}]
      /\ pc' = [pc EXCEPT ![t] = label]
      /\ UNCHANGED <<lock, back, notify, next, share, mode, status, then, calls>>
  BY <1>0 DEF WakeEach, Goto
<1>2. /\ b \in Threads /\ next[b] \in BlocksOf(Threads) /\ Ends(Threads, next, b)
      /\ Met(Threads, next, b) = {b} \cup Met(Threads, next, next[b])
      /\ b \notin Met(Threads, next, next[b]) /\ Ends(Threads, next, next[b])
  <2>1. /\ Ends(Threads, next, b) /\ b # Nil
        /\ next \in LinksOf(Threads) /\ Nil \notin Threads
    BY <1>0, <1>1, ListTypes DEF LockInv, LockPlaces, Taking
  <2>2. b \in Threads /\ b \in BlocksOf(Threads) /\ next[b] \in BlocksOf(Threads)
    BY <1>0, <2>1, ListTypes DEF LockInv, LinksOf, BlocksOf
  <2>3. b \in Met(Threads, next, b)
    BY <2>1, <2>2, MetClosed
  <2>4. next[b] \in Met(Threads, next, b) \cup {Nil}
    BY <2>1, <2>2, <2>3, MetClosed
  <2>5. b \notin Met(Threads, next, next[b])
    BY <2>1, <2>2, <2>3, MetEnds
  <2>6. Ends(Threads, next, next[b])
    <3>1. CASE next[b] = Nil
      BY <3>1 DEF Ends
    <3>2. CASE next[b] \in Met(Threads, next, b)
      BY <2>1, <2>2, <3>2, MetEnds
    <3>. QED  BY <2>4, <3>1, <3>2
  <2>. QED  BY <2>1, <2>2, <2>5, <2>6, MetStep
<1>3. /\ label \in {"out", "spin", "wakeEach", "release"}
      /\ label = "wakeEach" => next[b] # Nil
      /\ label = "release" <=> "waiting" \notin flag[b]
  BY DEF LockInv, LockTypes, After
<1>. HIDE DEF label
<1>4. /\ pc'[t] = label /\ first'[t] = next[b] /\ wakee'[t] = b /\ flag'[b] = flag[b] \ {"waiting"}
      /\ \A u \in Threads : u # t => pc'[u] = pc[u] /\ first'[u] = first[u] /\ wakee'[u] = wakee[u]
      /\ \A w \in Threads : w # b => flag'[w] = flag[w]
  BY <1>1, <1>2 DEF LockInv, LockTypes, LockLinks, LinksOf
<1>5. LockTypes'
  <2>1. pc' \in [Threads -> LockLabels]
    BY <1>1, <1>3 DEF LockInv, LockTypes, LockLabels, Taking
  <2>2. first' \in LockLinks /\ wakee' \in LockLinks
    BY <1>1, <1>2, ListTypes DEF LockInv, LockLinks, LinksOf, BlocksOf
  <2>3. flag' \in [Threads -> SUBSET {"exclusive", "shared", "waiting"}]
    BY <1>1, <1>2 DEF LockInv, LockTypes
  <2>. QED  BY <1>1, <2>1, <2>2, <2>3 DEF LockInv, LockTypes
<1>6. LockWaker'
  <2>1. Older' = Older
    BY <1>1, ListSame DEF LockInv
  <2>2. \A u \in Threads : /\ pc'[u] \in Repairing => pc'[u] = pc[u] /\ u # t
                           /\ pc[u] \in Repairing => pc'[u] = pc[u]
                           /\ pc'[u] = "claim" => pc[u] = "claim"
    BY <1>1, <1>3, <1>4 DEF Repairing
  <2>3. \A u \in Threads : u # t => first'[u] = first[u]
    BY <1>4
  <2>4. \A u \in Threads : pc'[u] \in {"wakeWriter", "takeAll"} => pc'[u] \in Repairing
    BY DEF Repairing
  <2>5. lock' = lock /\ notify' = notify /\ status' = status
    BY <1>1
  <2>. QED  BY <2>1, <2>2, <2>3, <2>4, <2>5 DEF LockInv, LockWaker
<1>7. /\ b \in Taken(t) /\ Asleep(b) /\ b \notin InList
      /\ \A u \in Threads : b \in Taken(u) => u = t
  <2>1. b \in Taken(t)
    BY <1>0, <1>1, <1>2 DEF Taken, Taking
  <2>. QED  BY <2>1 DEF LockInv, LockPlaces
<1>8. label = "release" => b # t /\ pc[b] = "keyed"
  BY <1>1, <1>3, <1>7 DEF Asleep
<1>9. \A w \in Threads : w # b /\ Asleep(w) => Asleep(w)'
  <2>1. then[t] = "spin" => label \in {"spin", "wakeEach", "release"}
    BY DEF label, After
  <2>. QED  BY <1>1, <1>4, <2>1 DEF Asleep, Repairing, Taking
<1>10. label = "release" => Asleep(b)'
  <2>. SUFFICES ASSUME label = "release" PROVE Asleep(b)'
    OBVIOUS
  <2>1. pc'[b] = "keyed" /\ "waiting" \notin flag'[b]
    BY <1>2, <1>4, <1>8
  <2>. QED  BY <2>1 DEF Asleep
<1>11. Taken(t)' \subseteq Met(Threads, next, next[b]) \cup (IF label = "release" THEN {b} ELSE {})
  BY <1>1, <1>4 DEF Taken
<1>12. Met(Threads, next, next[b]) \subseteq Taken(t)
  <2>1. Met(Threads, next, next[b]) \subseteq Threads
    BY DEF Met
  <2>. QED  BY <1>0, <1>1, <1>2, <2>1 DEF Taken, Taking
<1>13. Taken(t)' \subseteq Taken(t) /\ (b \in Taken(t)' => label = "release")
  BY <1>2, <1>7, <1>11, <1>12
<1>14. \A u \in Threads : u # t => Taken(u)' = Taken(u)
  BY <1>1, <1>4 DEF Taken
<1>15. LockPlaces'
  <2>1. InList' = InList
    BY <1>1, ListSame DEF LockInv
  <2>2. InList \subseteq Threads /\ \A u \in Threads : Taken(u) \subseteq Threads
    BY DEF InList, Members, Taken
  <2>3. (\A w \in InList : Asleep(w))'
    BY <1>7, <1>9, <2>1, <2>2 DEF LockInv, LockPlaces
  <2>4. (\A u \in Threads : \A w \in Taken(u) :
           Asleep(w) /\ w \notin InList /\ \A v \in Threads : w \in Taken(v) => v = u)'
    <3>1. ASSUME NEW u \in Threads, NEW w \in Taken(u)'
          PROVE  Asleep(w)' /\ w \notin InList' /\ \A v \in Threads : w \in Taken(v)' => v = u
      <4>1. w \in Taken(u) /\ w \in Threads
        BY <1>13, <1>14, <2>2, <3>1
      <4>2. \A v \in Threads : w \in Taken(v)' => v = u
        BY <1>13, <1>14, <4>1 DEF LockInv, LockPlaces
      <4>3. Asleep(w) /\ w \notin InList'
        BY <2>1, <4>1 DEF LockInv, LockPlaces
      <4>4. w = b => label = "release"
        BY <1>7, <1>13, <3>1, <4>1
      <4>5. Asleep(w)'
        <5>1. CASE w = b
          BY <1>10, <4>4, <5>1
        <5>2. CASE w # b
          BY <1>9, <4>1, <4>3, <5>2
        <5>. QED  BY <5>1, <5>2
      <4>. QED  BY <4>2, <4>3, <4>5
    <3>. QED  BY <3>1
  <2>5. (\A u \in Threads : pc[u] \in Taking => Ends(Threads, next, first[u]))'
    BY <1>1, <1>2, <1>4 DEF LockInv, LockPlaces
  <2>6. (\A u \in Threads : pc[u] \in {"wakeWriter", "wakeEach"} => first[u] # Nil)'
    BY <1>3, <1>4 DEF LockInv, LockPlaces
  <2>7. (\A u \in Threads : pc[u] = "release" =>
           /\ wakee[u] \in Threads
           /\ wakee[u] \notin Met(Threads, next, first[u])
           /\ pc[wakee[u]] = "keyed")'
    <3>. SUFFICES ASSUME NEW u \in Threads, pc'[u] = "release"
                  PROVE  /\ wakee'[u] \in Threads
                         /\ wakee'[u] \notin Met(Threads, next, first'[u])
                         /\ pc'[wakee'[u]] = "keyed"
      BY <1>1
    <3>1. CASE u = t
      BY <1>2, <1>4, <1>8, <3>1
    <3>2. CASE u # t
      <4>1. /\ wakee[u] \in Threads /\ wakee[u] \notin Met(Threads, next, first[u])
            /\ pc[wakee[u]] = "keyed" /\ wakee[u] # t
        BY <1>1, <1>4, <3>2 DEF LockInv, LockPlaces
      <4>. QED  BY <1>4, <3>2, <4>1
    <3>. QED  BY <3>1, <3>2
  <2>. QED  BY <2>3, <2>4, <2>5, <2>6, <2>7 DEF LockPlaces
<1>16. \A u \in Threads : /\ pc'[u] = "in" <=> pc[u] = "in"
                          /\ pc'[u] = "unlock" <=> pc[u] = "unlock"
  BY <1>1, <1>3, <1>4
<1>17. lock.Waking => lock.Waiting
  BY DEF LockInv, LockWord
<1>. QED  BY <1>1, <1>5, <1>6, <1>15, <1>16, <1>17, QuietStep

LEMMA UnlinkWriterStep ==
  ASSUME LockInv, NEW t \in Threads, UnlinkWriter(t)
  PROVE  LockInv'
<1>0. PICK b, f, n : b = status[t].top /\ f = Oldest(b) /\ n = Linked(b)
  OBVIOUS
<1>1. /\ pc[t] = "wake" /\ ~status[t].Locked /\ n[f] # Nil
      /\ next' = [n EXCEPT ![f] = Nil]
      /\ notify' = [notify EXCEPT ![b] = n[f]]
      /\ first' = [first EXCEPT ![t] = f]
      /\ pc' = [pc EXCEPT ![t] = "wakeWriter"]
      /\ UNCHANGED <<lock, back, share, flag, mode, status, then, wakee, calls>>
  BY <1>0 DEF UnlinkWriter, Goto
<1>2. b \in Met(Threads, Older, lock.top) /\ (lock.MultipleShared => status[t].Locked)
  BY <1>0, <1>1 DEF LockInv, LockWaker, Repairing
<1>3. b \in Threads /\ f \in Threads /\ n \in LinksOf(Threads) /\ n[f] \in Threads
  <2>1. b \in Threads /\ f \in Threads /\ n \in LinksOf(Threads)
    BY <1>0, <1>2, WalkFrom DEF LockInv, LockLinks
  <2>. QED  BY <1>1, <2>1 DEF LinksOf, BlocksOf
<1>4. /\ pc'[t] = "wakeWriter" /\ first'[t] = f /\ notify'[b] = n[f] /\ next'[f] = Nil
      /\ \A u \in Threads : u # t => pc'[u] = pc[u] /\ first'[u] = first[u] /\ wakee'[u] = wakee[u]
      /\ \A x \in Threads : (x # b => notify'[x] = notify[x]) /\ (x # f => next'[x] = n[x])
  BY <1>1, <1>3 DEF LockInv, LockTypes, LockLinks, LinksOf
<1>5. LockTypes'
  <2>1. pc' \in [Threads -> LockLabels]
    BY <1>1 DEF LockInv, LockTypes, LockLabels, Taking
  <2>2. notify' \in LockLinks /\ next' \in LockLinks /\ first' \in LockLinks
    BY <1>1, <1>3, ListTypes DEF LockInv, LockLinks, LinksOf, BlocksOf
  <2>. QED  BY <1>1, <2>1, <2>2 DEF LockInv, LockTypes
<1>6. /\ Older' \in LinksOf(Threads) /\ Older'[b] = Nil
      /\ \A x \in Threads : x # b => Older'[x] = Older[x]
  <2>1. notify'[b] # Nil /\ back' = back
    BY <1>1, <1>3, <1>4, LockAssumption
  <2>. QED  BY <1>3, <1>4, <1>5, <2>1, OlderCut DEF LockInv
<1>7. PICK g, k, l : g = Older' /\ k = next' /\ l = notify'
  OBVIOUS
<1>8. /\ g \in LinksOf(Threads) /\ g[b] = Nil /\ \A x \in Threads : x # b => g[x] = Older[x]
      /\ k \in LinksOf(Threads) /\ k[f] = Nil /\ \A x \in Threads : x # f => k[x] = n[x]
      /\ l \in LinksOf(Threads) /\ l[b] = n[f] /\ \A x \in Threads : x # b => l[x] = notify[x]
  BY <1>4, <1>5, <1>6, <1>7 DEF LockTypes, LockLinks
<1>9. PICK m \in LinksOf(Threads) : m[b] = f /\ \A x \in Threads : x # b => m[x] = notify[x]
  <2>1. [notify EXCEPT ![b] = f] \in LinksOf(Threads)
    BY <1>3, ListTypes DEF LockInv, LinksOf, BlocksOf
  <2>. QED  BY <1>3, <2>1, ListTypes DEF LockInv, LinksOf
<1>10. /\ Listed(Threads, g, n, m, lock.top) /\ Members(Threads, g, n, m, lock.top) = InList
       /\ b \in Met(Threads, g, lock.top) /\ lock.top \in Threads
       /\ f \in InList /\ f = Oldest(lock.top)
       /\ \A x \in Threads \ InList : n[x] = next[x]
  BY <1>0, <1>2, <1>8, <1>9, Linking DEF LockInv
<1>11. /\ Listed(Threads, g, k, l, lock.top)
       /\ Members(Threads, g, k, l, lock.top) = InList \ {f}
       /\ Met(Threads, k, f) = {f} /\ Ends(Threads, k, f)
  <2>1. Nil \notin Threads /\ Unlinked(Threads, b, f, n, m, k, l)
    BY <1>1, <1>8, <1>9, ListTypes DEF LockInv, Unlinked
  <2>2. /\ Listed(Threads, g, k, l, lock.top)
        /\ Members(Threads, g, k, l, lock.top) = Members(Threads, g, n, m, lock.top) \ {f}
        /\ Met(Threads, k, f) = {f} /\ Ends(Threads, k, f)
    <3>1. PICK c : c = lock.top
      OBVIOUS
    <3>2. /\ g \in LinksOf(Threads) /\ n \in LinksOf(Threads) /\ m \in LinksOf(Threads)
          /\ k \in LinksOf(Threads) /\ l \in LinksOf(Threads)
          /\ c \in Threads /\ b \in Met(Threads, g, c) /\ g[b] = Nil /\ f \in Threads
          /\ Listed(Threads, g, n, m, c)
      BY <1>3, <1>8, <1>9, <1>10, <3>1
    <3>3. /\ Listed(Threads, g, k, l, c)
          /\ Members(Threads, g, k, l, c) = Members(Threads, g, n, m, c) \ {f}
          /\ Met(Threads, k, f) = {f} /\ Ends(Threads, k, f)
      BY <2>1, <3>2, ListUnlink
    <3>. QED  BY <3>1, <3>3
  <2>. QED  BY <1>10, <2>2
<1>12. LockList' /\ InList' = InList \ {f}
  BY <1>1, <1>7, <1>11 DEF LockList, InList
<1>13. LockWord'
  BY <1>1 DEF LockInv, LockWord
<1>14. LockWaker'
  <2>1. pc[t] \in Repairing /\ "wakeWriter" \in Repairing
    BY <1>1 DEF Repairing
  <2>2. status[t].top \in Met(Threads, Older', lock.top)
    BY <1>0, <1>7, <1>10
  <2>. QED  BY <1>1, <1>4, <2>1, <2>2, LinkWaker DEF LockInv
<1>15. LockPlaces'
  <2>1. \A w \in Threads : Asleep(w) => Asleep(w)'
    BY <1>1, <1>4 DEF Asleep, Repairing
  <2>2. \A u \in Threads : \A w \in Taken(u) : w \in Threads \ InList
    BY DEF LockInv, LockPlaces, Taken
  <2>3. \A u \in Threads : \A w \in Taken(u) : next'[w] = next[w]
    BY <1>4, <1>10, <2>2
  <2>4. pc[t] \notin Taking /\ pc[t] # "keyed" /\ next' \in LinksOf(Threads)
    BY <1>1, <1>7, <1>8 DEF Taking
  <2>5. /\ first'[t] # Nil /\ Ends(Threads, next', first'[t])
        /\ Met(Threads, next', first'[t]) \subseteq InList
        /\ InList' \subseteq InList /\ InList' \cap Met(Threads, next', first'[t]) = {}
    BY <1>3, <1>4, <1>7, <1>10, <1>11, <1>12, LockAssumption
  <2>6. /\ pc'[t] \in {"wakeWriter", "wakeEach"}
        /\ \A u \in Threads : u # t => pc'[u] = pc[u] /\ first'[u] = first[u] /\ wakee'[u] = wakee[u]
    BY <1>4
  <2>. QED  BY <2>1, <2>3, <2>4, <2>5, <2>6, PlacesTaken DEF LockInv
<1>16. LockHolders'
  <2>1. \A u \in Threads : /\ pc'[u] = "in" <=> pc[u] = "in"
                           /\ pc'[u] = "unlock" <=> pc[u] = "unlock"
    BY <1>1, <1>4
  <2>. QED  BY <1>1, <1>2, <2>1, LinkHolders
<1>. QED  BY <1>5, <1>12, <1>13, <1>14, <1>15, <1>16 DEF LockInv

-----------------------------------------------------------------------------
(* The invariant holds in every state.                                     *)
LEMMA LockInit ==
  ASSUME Init
  PROVE  LockInv
<1>1. /\ lock = Free /\ back = [t \in Threads |-> Nil] /\ notify = [t \in Threads |-> Nil]
      /\ next = [t \in Threads |-> Nil] /\ share = [t \in Threads |-> 0]
      /\ flag = [t \in Threads |-> {}] /\ pc = [t \in Threads |-> "out"]
      /\ mode = [t \in Threads |-> "exclusive"] /\ status = [t \in Threads |-> Free]
      /\ then = [t \in Threads |-> "out"] /\ first = [t \in Threads |-> Nil]
      /\ wakee = [t \in Threads |-> Nil] /\ calls = [t \in Threads |-> Calls[t]]
  BY DEF Init, Exclusive
<1>2. LockTypes
  <2>1. Free \in LockWords
    BY FreeWord
  <2>2. calls \in [Threads -> Nat]
    BY <1>1, LockAssumption
  <2>3. [t \in Threads |-> Nil] \in LockLinks
    BY DEF LockLinks, LinksOf, BlocksOf
  <2>4. pc \in [Threads -> LockLabels]
    BY <1>1 DEF LockLabels
  <2>. HIDE DEF LockLinks, LockWords
  <2>. QED  BY <1>1, <2>1, <2>2, <2>3, <2>4 DEF LockTypes
<1>3. LockWord
  BY <1>1, FreeWord DEF LockWord
<1>4. \A t \in Threads : pc[t] = "out"
  BY <1>1
<1>5. LockWaker
  BY <1>4 DEF LockWaker, Repairing
<1>6. LockList /\ InList = {}
  <2>1. lock.top = Nil
    BY <1>1, FreeWord
  <2>. QED  BY <1>2, <2>1, ListTypes, NoList DEF LockList, InList
<1>7. LockPlaces
  <2>1. \A t \in Threads : Taken(t) = {}
    BY <1>4 DEF Taken, Taking
  <2>. QED  BY <1>4, <1>6, <2>1 DEF LockPlaces, Taking
<1>8. LockHolders
  <2>1. Cardinality(Sharing) = 0
    BY <1>4, FS_EmptySet DEF Sharing, Holders
  <2>. QED  BY <1>1, <1>4, <2>1, FreeWord DEF LockHolders
<1>. QED  BY <1>2, <1>3, <1>5, <1>6, <1>7, <1>8 DEF LockInv

LEMMA LockStutter ==
  ASSUME LockInv, UNCHANGED vars
  PROVE  LockInv'
<1>1. UNCHANGED <<lock, back, notify, next, share, flag, pc, mode, status, then, first, wakee, calls>>
  BY DEF vars, blocks, local
<1>2. Older' = Older /\ LockList' /\ InList' = InList
  BY <1>1, ListSame DEF LockInv
<1>3. LockTypes' /\ LockWord'
  BY <1>1 DEF LockInv, LockTypes, LockWord
<1>4. LockWaker'
  BY <1>1, <1>2 DEF LockInv, LockWaker
<1>5. LockPlaces'
  BY <1>1, <1>2 DEF LockInv, LockPlaces, Taken, Asleep
<1>6. LockHolders'
  BY <1>1, <1>2 DEF LockInv, LockHolders, Sharing, Holders
<1>. QED  BY <1>2, <1>3, <1>4, <1>5, <1>6 DEF LockInv

LEMMA LockStep ==
  ASSUME LockInv, [Next]_vars
  PROVE  LockInv'
<1>1. CASE UNCHANGED vars
  BY <1>1, LockStutter
<1>2. ASSUME NEW t \in Threads, Start(t) \/ TryAcquire(t) \/ Step(t)
      PROVE  LockInv'
  <2>1. CASE Start(t)
    BY <2>1, StartStep
  <2>2. CASE TryAcquire(t)
    BY <2>2, TryAcquireStep
  <2>3. CASE Acquire(t)
    BY <2>3, AcquireStep
  <2>4. CASE Queue(t)
    BY <2>4, QueueStep
  <2>5. CASE QueueFirst(t)
    BY <2>5, QueueFirstStep
  <2>6. CASE FallAsleep(t)
    BY <2>6, FallAsleepStep
  <2>7. CASE Optimize(t)
    BY <2>7, OptimizeStep
  <2>8. CASE OptimizeDone(t)
    BY <2>8, OptimizeDoneStep
  <2>9. CASE UnlinkWriter(t)
    BY <2>9, UnlinkWriterStep
  <2>10. CASE WakeWriter(t)
    BY <2>10, WakeWriterStep
  <2>11. CASE LinkAll(t)
    BY <2>11, LinkAllStep
  <2>12. CASE TakeAll(t)
    BY <2>12, TakeAllStep
  <2>13. CASE StopWaking(t)
    BY <2>13, StopWakingStep
  <2>14. CASE WakeEach(t)
    BY <2>14, WakeEachStep
  <2>15. CASE ReleaseEvent(t)
    BY <2>15, ReleaseEventStep
  <2>16. CASE ReleaseExclusive(t)
    BY <2>16, ReleaseExclusiveStep
  <2>17. CASE Claim(t)
    BY <2>17, ClaimStep
  <2>18. CASE LeaveShared(t)
    BY <2>18, LeaveSharedStep
  <2>19. CASE DropShare(t)
    BY <2>19, DropShareStep
  <2>20. CASE UnlockShared(t)
    BY <2>20, UnlockSharedStep
  <2>. QED
    BY <1>2, <2>1, <2>2, <2>3, <2>4, <2>5, <2>6, <2>7, <2>8, <2>9, <2>10, <2>11, <2>12, <2>13,
       <2>14, <2>15, <2>16, <2>17, <2>18, <2>19, <2>20 DEF Step
<1>. QED  BY <1>1, <1>2 DEF Next

(* For every set of threads the list of blocks is well formed, one thread  *)
(* repairs it, every sleeper has one place and the readers are counted.    *)
THEOREM LockInvariance == Spec => []LockInv
<1>1. Init => LockInv
  BY LockInit
<1>2. LockInv /\ [Next]_vars => LockInv'
  BY LockStep
<1>. QED  BY <1>1, <1>2, PTL DEF Spec

-----------------------------------------------------------------------------
(* What it says of the walks.                                              *)
LEMMA LockWalksWait ==
  ASSUME LockInv
  PROVE  BlocksWait
<1>1. \A w \in Threads : Asleep(w) => Waits(w)
  BY DEF Asleep, Waits, Repairing, Taking
<1>2. ASSUME lock.Waiting, NEW b \in Walk(lock.top) \cup Reach(next, Oldest(lock.top))
      PROVE  Waits(b)
  <2>1. lock.top # Nil
    BY <1>2 DEF LockInv, LockWord
  <2>2. PICK e \in Met(Threads, Older, lock.top) : Older[e] = Nil /\ notify[e] = Oldest(lock.top)
    BY <2>1, TheOldest DEF LockInv
  <2>3. InList = Met(Threads, Older, lock.top) \cup Met(Threads, next, Oldest(lock.top))
    BY <2>2, ListTypes, ListEnd DEF LockInv, LockList, InList
  <2>4. Walk(lock.top) = Met(Threads, Older, lock.top)
        /\ Reach(next, Oldest(lock.top)) = Met(Threads, next, Oldest(lock.top))
    BY WalkIs DEF Reach, Met
  <2>5. b \in InList /\ b \in Threads
    BY <1>2, <2>3, <2>4, ListTypes DEF LockInv
  <2>. QED  BY <1>1, <2>5 DEF LockInv, LockPlaces
<1>3. ASSUME NEW t \in Threads, pc[t] \in {"wakeEach", "release"}, NEW b \in Reach(next, first[t])
      PROVE  Waits(b)
  <2>1. Reach(next, first[t]) = Met(Threads, next, first[t])
    BY DEF Reach, Met
  <2>2. b \in Threads
    BY <1>3 DEF Reach
  <2>3. b \in Taken(t)
    BY <1>3, <2>1, <2>2 DEF Taken, Taking
  <2>. QED  BY <1>1, <2>2, <2>3 DEF LockInv, LockPlaces
<1>4. \A t \in Threads : pc[t] = "release" => pc[wakee[t]] = "keyed"
  BY DEF LockInv, LockPlaces
<1>. QED  BY <1>2, <1>3, <1>4 DEF BlocksWait

(* No walk along the list, no chain a waker follows and no event a waker   *)
(* releases leads to a block whose thread has gone on.                     *)
THEOREM LockWalksAreSafe == Spec => []BlocksWait
<1>1. LockInv => BlocksWait
  BY LockWalksWait
<1>2. Spec => []LockInv
  BY LockInvariance
<1>. QED  BY <1>1, <1>2, PTL

-----------------------------------------------------------------------------
(* The steps of the lock are steps of the promise.                         *)
HoldersSame == Holders("exclusive")' = Holders("exclusive") /\ Holders("shared")' = Holders("shared")

LEMMA SameHolders ==
  ASSUME \A u \in Threads : /\ pc'[u] = "in" <=> pc[u] = "in"
                            /\ pc[u] = "in" => mode'[u] = mode[u]
  PROVE  HoldersSame
BY DEF HoldersSame, Holders

LEMMA GrantPromised ==
  ASSUME LockInv, NEW t \in Threads, NEW m \in {"exclusive", "shared"}, Grants(m), pc[t] # "in",
         pc'[t] = "in", mode'[t] = m,
         \A u \in Threads : u # t => pc'[u] = pc[u] /\ mode'[u] = mode[u]
  PROVE  Promise!AcquireExclusive(t) \/ Promise!AcquireShared(t)
<1>1. ~lock.Locked => Holders("exclusive") = {} /\ Holders("shared") = {}
  BY DEF LockInv, LockHolders, Holders
<1>2. CASE m = "exclusive"
  <2>1. ~lock.Locked
    BY <1>2 DEF Grants, Exclusive
  <2>2. Holders("exclusive")' = {t} /\ Holders("shared")' = Holders("shared")
    BY <1>1, <1>2, <2>1 DEF Holders
  <2>. QED  BY <1>1, <2>1, <2>2 DEF Promise!AcquireExclusive, Exclusive, Shared
<1>3. CASE m = "shared"
  <2>1. lock.Locked => ~lock.Waiting /\ lock.Shared # 0
    BY <1>3 DEF Grants, Exclusive
  <2>2. Holders("exclusive") = {}
    BY <1>1, <2>1 DEF LockInv, LockHolders, Holders
  <2>3. /\ t \notin Holders("shared") /\ Holders("shared")' = Holders("shared") \cup {t}
        /\ Holders("exclusive")' = Holders("exclusive")
    BY <1>3 DEF Holders
  <2>. QED  BY <2>2, <2>3 DEF Promise!AcquireShared, Exclusive, Shared
<1>. QED  BY <1>2, <1>3

LEMMA LeavePromised ==
  ASSUME LockInv, NEW t \in Threads, pc[t] = "in", pc'[t] # "in", mode' = mode,
         \A u \in Threads : u # t => pc'[u] = pc[u]
  PROVE  Promise!ReleaseExclusive(t) \/ Promise!ReleaseShared(t)
<1>1. CASE mode[t] = "exclusive"
  <2>1. /\ t \in Holders("exclusive") /\ Holders("exclusive")' = Holders("exclusive") \ {t}
        /\ Holders("shared")' = Holders("shared")
    BY <1>1 DEF Holders
  <2>. QED  BY <2>1 DEF Promise!ReleaseExclusive, Exclusive, Shared
<1>2. CASE mode[t] = "shared"
  <2>1. /\ t \in Holders("shared") /\ Holders("shared")' = Holders("shared") \ {t}
        /\ Holders("exclusive")' = Holders("exclusive")
    BY <1>2 DEF Holders
  <2>. QED  BY <2>1 DEF Promise!ReleaseShared, Exclusive, Shared
<1>. QED  BY <1>1, <1>2 DEF LockInv, LockTypes

LEMMA LockPromised ==
  ASSUME LockInv, [Next]_vars
  PROVE  Promise!Next \/ HoldersSame
<1>. USE DEF Goto
<1>1. CASE UNCHANGED vars
  BY <1>1 DEF vars, local, HoldersSame, Holders
<1>2. ASSUME NEW t \in Threads, Start(t) \/ TryAcquire(t) \/ Step(t)
      PROVE  Promise!Next \/ HoldersSame
  <2>0. pc \in [Threads -> LockLabels] /\ mode \in [Threads -> {"exclusive", "shared"}]
        /\ then \in [Threads -> {"out", "spin"}]
    BY DEF LockInv, LockTypes
  <2>1. CASE Start(t)
    BY <2>0, <2>1, SameHolders DEF Start
  <2>2. CASE TryAcquire(t)
    <3>1. PICK m \in Modes[t] :
            /\ pc[t] = "out" /\ mode' = [mode EXCEPT ![t] = m]
            /\ pc' = [pc EXCEPT ![t] = IF Grants(m) THEN "in" ELSE "out"]
      BY <2>2 DEF TryAcquire
    <3>2. CASE Grants(m)
      <4>1. /\ m \in {"exclusive", "shared"} /\ pc'[t] = "in" /\ mode'[t] = m /\ pc[t] # "in"
            /\ \A u \in Threads : u # t => pc'[u] = pc[u] /\ mode'[u] = mode[u]
        BY <2>0, <3>1, <3>2, LockAssumption
      <4>. QED  BY <3>2, <4>1, GrantPromised DEF Promise!Next
    <3>3. CASE ~Grants(m)
      BY <2>0, <3>1, <3>3, SameHolders
    <3>. QED  BY <3>2, <3>3
  <2>3. CASE Acquire(t)
    <3>1. /\ mode[t] \in {"exclusive", "shared"} /\ Grants(mode[t])
          /\ pc'[t] = "in" /\ mode' = mode /\ pc[t] # "in"
          /\ \A u \in Threads : u # t => pc'[u] = pc[u] /\ mode'[u] = mode[u]
      BY <2>0, <2>3 DEF Acquire, local
    <3>. QED  BY <3>1, GrantPromised DEF Promise!Next
  <2>4. CASE Queue(t)
    <3>1. pc[t] = "acquire" /\ mode' = mode
          /\ pc' = [pc EXCEPT ![t] = IF lock.Waking THEN "spin" ELSE "optimize"]
      BY <2>4 DEF Queue
    <3>. QED  BY <2>0, <3>1, SameHolders
  <2>5. CASE QueueFirst(t)
    <3>1. pc[t] = "acquire" /\ mode' = mode /\ pc' = [pc EXCEPT ![t] = "spin"]
      BY <2>5 DEF QueueFirst, local
    <3>. QED  BY <2>0, <3>1, SameHolders
  <2>6. CASE FallAsleep(t)
    <3>1. pc[t] = "spin" /\ mode' = mode
          /\ pc' = [pc EXCEPT ![t] = IF "waiting" \in flag[t] THEN "keyed" ELSE "acquire"]
      BY <2>6 DEF FallAsleep, local
    <3>. QED  BY <2>0, <3>1, SameHolders
  <2>7. CASE Optimize(t)
    <3>1. PICK label \in {"optimizeCas", "wake"} :
            pc[t] = "optimize" /\ mode' = mode /\ pc' = [pc EXCEPT ![t] = label]
      BY <2>7 DEF Optimize, local
    <3>. QED  BY <2>0, <3>1, SameHolders
  <2>8. CASE OptimizeDone(t)
    <3>1. PICK label \in {then[t], "optimize"} :
            pc[t] = "optimizeCas" /\ mode' = mode /\ pc' = [pc EXCEPT ![t] = label]
      BY <2>8 DEF OptimizeDone, Exchange
    <3>. QED  BY <2>0, <3>1, SameHolders
  <2>9. CASE UnlinkWriter(t)
    <3>1. pc[t] = "wake" /\ mode' = mode /\ pc' = [pc EXCEPT ![t] = "wakeWriter"]
      BY <2>9 DEF UnlinkWriter
    <3>. QED  BY <2>0, <3>1, SameHolders
  <2>10. CASE WakeWriter(t)
    <3>1. pc[t] = "wakeWriter" /\ mode' = mode /\ pc' = [pc EXCEPT ![t] = "wakeEach"]
      BY <2>10 DEF WakeWriter, local
    <3>. QED  BY <2>0, <3>1, SameHolders
  <2>11. CASE LinkAll(t)
    <3>1. pc[t] = "wake" /\ mode' = mode /\ pc' = [pc EXCEPT ![t] = "takeAll"]
      BY <2>11 DEF LinkAll
    <3>. QED  BY <2>0, <3>1, SameHolders
  <2>12. CASE TakeAll(t)
    <3>1. PICK label \in {"wakeEach", "wake"} :
            pc[t] = "takeAll" /\ mode' = mode /\ pc' = [pc EXCEPT ![t] = label]
      BY <2>12 DEF TakeAll, Exchange
    <3>. QED  BY <2>0, <3>1, SameHolders
  <2>13. CASE StopWaking(t)
    <3>1. PICK label \in {then[t], "wake"} :
            pc[t] = "wake" /\ mode' = mode /\ pc' = [pc EXCEPT ![t] = label]
      BY <2>13 DEF StopWaking, Exchange
    <3>. QED  BY <2>0, <3>1, SameHolders
  <2>14. CASE WakeEach(t)
    <3>1. PICK label \in {then[t], "wakeEach", "release"} :
            pc[t] = "wakeEach" /\ mode' = mode /\ pc' = [pc EXCEPT ![t] = label]
      BY <2>14 DEF WakeEach, After
    <3>. QED  BY <2>0, <3>1, SameHolders
  <2>15. CASE ReleaseEvent(t)
    <3>1. PICK label \in {then[t], "wakeEach"} :
            /\ pc[t] = "release" /\ mode' = mode /\ pc[wakee[t]] = "keyed"
            /\ pc' = [pc EXCEPT ![t] = label, ![wakee[t]] = "acquire"]
      BY <2>15 DEF ReleaseEvent, Meet, local
    <3>2. wakee[t] \in Threads
      BY <3>1 DEF LockInv, LockPlaces
    <3>. QED  BY <2>0, <3>1, <3>2, SameHolders
  <2>16. CASE ReleaseExclusive(t)
    <3>1. PICK label \in {"claim", "out"} :
            pc[t] = "in" /\ mode' = mode /\ pc' = [pc EXCEPT ![t] = label]
      BY <2>16 DEF ReleaseExclusive
    <3>. QED  BY <2>0, <3>1, LeavePromised DEF Promise!Next
  <2>17. CASE Claim(t)
    <3>1. PICK label \in {"wake", "out"} :
            pc[t] = "claim" /\ mode' = mode /\ pc' = [pc EXCEPT ![t] = label]
      BY <2>17 DEF Claim
    <3>. QED  BY <2>0, <3>1, SameHolders
  <2>18. CASE LeaveShared(t)
    <3>1. pc[t] = "in" /\ mode' = mode /\ pc' = [pc EXCEPT ![t] = "out"]
      BY <2>18 DEF LeaveShared, local
    <3>. QED  BY <2>0, <3>1, LeavePromised DEF Promise!Next
  <2>19. CASE DropShare(t)
    <3>1. PICK label \in {"unlock", "out"} :
            pc[t] = "in" /\ mode' = mode /\ pc' = [pc EXCEPT ![t] = label]
      BY <2>19 DEF DropShare, local
    <3>. QED  BY <2>0, <3>1, LeavePromised DEF Promise!Next
  <2>20. CASE UnlockShared(t)
    <3>1. PICK label \in {"wake", "out"} :
            pc[t] \in {"in", "unlock"} /\ mode' = mode /\ pc' = [pc EXCEPT ![t] = label]
      BY <2>20 DEF UnlockShared
    <3>2. CASE pc[t] = "in"
      BY <2>0, <3>1, <3>2, LeavePromised DEF Promise!Next
    <3>3. CASE pc[t] = "unlock"
      BY <2>0, <3>1, <3>3, SameHolders
    <3>. QED  BY <3>1, <3>2, <3>3
  <2>. QED
    BY <1>2, <2>1, <2>2, <2>3, <2>4, <2>5, <2>6, <2>7, <2>8, <2>9, <2>10, <2>11, <2>12, <2>13,
       <2>14, <2>15, <2>16, <2>17, <2>18, <2>19, <2>20 DEF Step
<1>. QED  BY <1>1, <1>2 DEF Next

(* Every step of AcquireSRWLock*, TryAcquireSRWLock* and ReleaseSRWLock*   *)
(* is a step of the abstract reader/writer lock or invisible to it.        *)
THEOREM LockRefines == Spec => ImplementsRWLock
<1>1. Init => Promise!Init
  BY DEF Init, Promise!Init, Holders
<1>2. LockInv /\ [Next]_vars => [Promise!Next]_<<Holders(Exclusive), Holders(Shared)>>
  BY LockPromised DEF HoldersSame, Exclusive, Shared
<1>3. Spec => []LockInv
  BY LockInvariance
<1>. QED  BY <1>1, <1>2, <1>3, PTL DEF Spec, ImplementsRWLock, Promise!Spec

-----------------------------------------------------------------------------
(* One-time initialisation.                                                *)

(* While an asynchronous caller is initialising, the word says "shared" or *)
(* one of them has been first; a context is published with "done" only.    *)
SharedPending ==
  \A t \in Initializers \cap Asynchronous : oPc[t] = "pending" => oOnce.state \in {"shared", "done"}

OnceInv == O!TypeOK /\ O!InitRunsAlone /\ SharedPending /\ O!ContextAgreed

LEMMA OnceInit == O!Init => OnceInv
BY DEF O!Init, O!Fresh, O!States, O!Labels, OnceInv, O!TypeOK, O!InitRunsAlone, SharedPending,
       O!ContextAgreed

LEMMA OnceStep == OnceInv /\ [O!Next]_(O!vars) => OnceInv'
<1> SUFFICES ASSUME OnceInv, [O!Next]_(O!vars) PROVE OnceInv'
  OBVIOUS
<1> USE InitializerAssumption DEF OnceInv, O!TypeOK, O!InitRunsAlone, SharedPending, O!ContextAgreed,
        O!States, O!Labels, O!Goto
<1>1. ASSUME NEW t \in Initializers, O!Begin(t) PROVE OnceInv'
  BY <1>1 DEF O!Begin
<1>2. ASSUME NEW t \in Initializers, O!Join(t) PROVE OnceInv'
  BY <1>2 DEF O!Join
<1>3. ASSUME NEW t \in Initializers, O!Succeed(t) PROVE OnceInv'
  BY <1>3 DEF O!Succeed
<1>4. ASSUME NEW t \in Initializers, O!Refuse(t) PROVE OnceInv'
  BY <1>4 DEF O!Refuse
<1>5. ASSUME NEW t \in Initializers, O!Wait(t) PROVE OnceInv'
  BY <1>5 DEF O!Wait
<1>6. ASSUME NEW t \in Initializers, O!Complete(t) PROVE OnceInv'
  BY <1>6 DEF O!Complete, O!Publish, O!Done
<1>7. ASSUME NEW t \in Initializers, O!Fail(t) PROVE OnceInv'
  BY <1>7 DEF O!Fail, O!Publish, O!Fresh
<1>8. ASSUME NEW t \in Initializers, O!CompleteShared(t) PROVE OnceInv'
  BY <1>8 DEF O!CompleteShared, O!Done
<1>9. ASSUME NEW t \in Initializers, O!WakeNext(t) PROVE OnceInv'
  BY <1>9 DEF O!WakeNext
<1>10. ASSUME NEW t \in Initializers, O!WakeDone(t) PROVE OnceInv'
  BY <1>10 DEF O!WakeDone
<1>11. CASE UNCHANGED O!vars
  BY <1>11 DEF O!vars
<1>12. QED
  BY <1>1, <1>2, <1>3, <1>4, <1>5, <1>6, <1>7, <1>8, <1>9, <1>10, <1>11 DEF O!Next, O!Step

(* The invariant of one-time initialisation.                               *)
THEOREM OnceInvariance == O!Spec => []OnceInv
BY OnceInit, OnceStep, PTL DEF O!Spec

(* The types.                                                              *)
THEOREM OnceTypeCorrect == O!Spec => []O!TypeOK
BY OnceInvariance, PTL DEF OnceInv

(* For any number of callers, InitFn never runs twice at once for callers  *)
(* that asked to be alone.                                                 *)
THEOREM InitIsAlone == O!Spec => []InitRunsAlone
BY OnceInvariance, PTL DEF OnceInv, InitRunsAlone

(* For any number of callers, one context is published and all of them     *)
(* get that one.                                                           *)
THEOREM ContextIsAgreed == O!Spec => []ContextAgreed
BY OnceInvariance, PTL DEF OnceInv, ContextAgreed

-----------------------------------------------------------------------------
(* The list of a condition variable.  The links f lead from the newest     *)
(* block, b, through all older ones; g is the same walk stopped at the     *)
(* first block whose m is set, which is the oldest of the list; k leads    *)
(* from an older block to the next newer one once a walk has passed.       *)
Stopped(T, f, m, g) == \A x \in T : g[x] = IF m[x] # Nil THEN Nil ELSE f[x]

(* From s on each block knows the next newer one.                          *)
Mended(T, f, k, s) == \A y \in Met(T, f, s) : f[y] # Nil => k[f[y]] = y

(* The walk finds the oldest block, and no k leads out of the list.        *)
Knows(T, f, k, m, g, b) ==
  /\ \A x \in Met(T, g, b) : g[x] = Nil =>
       m[x] \in Met(T, f, x) /\ f[m[x]] = Nil /\ Mended(T, f, k, x)
  /\ \A y \in Met(T, f, b) : k[y] # Nil => k[y] \in Met(T, f, b) /\ f[k[y]] = y

(* The walk passes s, and no walk has passed a newer block.                *)
Passes(T, f, k, g, b, s) ==
  s \in Met(T, g, b) /\ \A y \in Met(T, f, b) : y \notin Met(T, f, s) => k[y] = Nil

LEMMA StoppedIn ==
  ASSUME NEW T, Nil \notin T, NEW f \in LinksOf(T), NEW g \in LinksOf(T), NEW b \in BlocksOf(T),
         NEW m, Stopped(T, f, m, g), Ends(T, f, b)
  PROVE  /\ Met(T, g, b) \subseteq Met(T, f, b) /\ Ends(T, g, b)
         /\ \A s \in Met(T, g, b) :
              /\ s \in T /\ s \in BlocksOf(T) /\ s \in Met(T, f, b) /\ s \in Met(T, f, s)
              /\ Met(T, f, s) \subseteq Met(T, f, b) /\ Met(T, g, s) \subseteq Met(T, f, s)
              /\ Ends(T, f, s) /\ Ends(T, g, s)
<1>1. Met(T, f, b) \subseteq T
  BY MetClosed
<1>2. Met(T, g, b) \subseteq Met(T, f, b) /\ Ends(T, g, b)
  <2>1. \A x \in Met(T, f, b) : g[x] = f[x] \/ g[x] = Nil
    BY <1>1 DEF Stopped
  <2>. QED  BY <2>1, MetShort
<1>3. ASSUME NEW s \in Met(T, g, b)
      PROVE  /\ s \in T /\ s \in BlocksOf(T) /\ s \in Met(T, f, b) /\ s \in Met(T, f, s)
             /\ Met(T, f, s) \subseteq Met(T, f, b) /\ Met(T, g, s) \subseteq Met(T, f, s)
             /\ Ends(T, f, s) /\ Ends(T, g, s)
  <2>1. s \in Met(T, f, b)
    BY <1>2
  <2>2. s \in T /\ s \in BlocksOf(T) /\ Met(T, f, s) \subseteq Met(T, f, b) /\ s \in Met(T, f, s)
    BY <2>1, MetSub DEF BlocksOf
  <2>3. Ends(T, f, s)
    BY <2>1, MetEnds
  <2>4. \A x \in Met(T, f, s) : g[x] = f[x] \/ g[x] = Nil
    BY <1>1, <2>2 DEF Stopped
  <2>5. Met(T, g, s) \subseteq Met(T, f, s) /\ Ends(T, g, s)
    BY <2>2, <2>3, <2>4, MetShort
  <2>. QED  BY <2>1, <2>2, <2>3, <2>5
<1>. QED  BY <1>2, <1>3

(* A list that s ends knows, once all from s on are mended.                *)
LEMMA KnowsFrom ==
  ASSUME NEW T, Nil \notin T, NEW f \in LinksOf(T), NEW g \in LinksOf(T), NEW b \in BlocksOf(T),
         NEW k \in LinksOf(T), NEW m, Stopped(T, f, m, g), Ends(T, f, b),
         NEW s, Passes(T, f, k, g, b, s), g[s] = Nil, m[s] \in Met(T, f, s), f[m[s]] = Nil,
         k[s] = Nil, Mended(T, f, k, s)
  PROVE  Knows(T, f, k, m, g, b)
<1>1. /\ s \in Met(T, g, b) /\ s \in BlocksOf(T) /\ Ends(T, g, b)
      /\ Met(T, f, s) \subseteq Met(T, f, b) /\ \A y \in Met(T, f, b) : y \notin Met(T, f, s) => k[y] = Nil
  BY StoppedIn DEF Passes
<1>2. \A x \in Met(T, g, b) : g[x] = Nil => x = s
  BY <1>1, MetOnce
<1>3. ASSUME NEW y \in Met(T, f, b), k[y] # Nil PROVE k[y] \in Met(T, f, b) /\ f[k[y]] = y
  <2>1. y \in Met(T, f, s) /\ y # s
    BY <1>1, <1>3
  <2>2. PICK x \in Met(T, f, s) : f[x] = y
    BY <1>1, <2>1, MetBefore
  <2>3. y # Nil
    BY <1>3, MetClosed
  <2>4. k[y] = x
    BY <2>2, <2>3 DEF Mended
  <2>. QED  BY <1>1, <2>2, <2>4
<1>. QED  BY <1>2, <1>3 DEF Knows

(* A walk from s teaches k; then s may remember the oldest block.          *)
LEMMA WalkTaught ==
  ASSUME NEW T, Nil \notin T, NEW f \in LinksOf(T), NEW g \in LinksOf(T), NEW b \in BlocksOf(T),
         NEW k \in LinksOf(T), NEW m \in LinksOf(T), Stopped(T, f, m, g), Ends(T, f, b),
         Knows(T, f, k, m, g, b), NEW s, Passes(T, f, k, g, b, s), k[s] = Nil,
         NEW l, l = Learned(T, g, k, s)
  PROVE  /\ l \in LinksOf(T) /\ l[s] = Nil /\ s \in T
         /\ Passes(T, f, l, g, b, s) /\ Mended(T, f, l, s) /\ Knows(T, f, l, m, g, b)
         /\ \E e \in Met(T, g, s) :
              /\ g[e] = Nil /\ m[e] \in T /\ m[e] \in Met(T, f, s) /\ f[m[e]] = Nil
              /\ \A h, n \in LinksOf(T) :
                   (n[s] = m[e] /\ (\A x \in T : x # s => n[x] = m[x]) /\ Stopped(T, f, n, h))
                     => Passes(T, f, l, h, b, s) /\ Knows(T, f, l, n, h, b)
<1>1. /\ s \in Met(T, g, b) /\ s \in T /\ s \in BlocksOf(T) /\ s \in Met(T, f, s)
      /\ Met(T, g, b) \subseteq Met(T, f, b) /\ Met(T, f, s) \subseteq Met(T, f, b)
      /\ Met(T, g, s) \subseteq Met(T, f, s) /\ s \in Met(T, f, b)
      /\ Ends(T, f, s) /\ Ends(T, g, s) /\ Ends(T, g, b)
      /\ \A y \in Met(T, f, b) : y \notin Met(T, f, s) => k[y] = Nil
  BY StoppedIn DEF Passes
<1>2. Met(T, f, b) \subseteq T
  BY MetClosed
<1>3. /\ l \in LinksOf(T)
      /\ \A x \in Met(T, g, s) : g[x] # Nil => l[g[x]] = x
      /\ \A w \in T : (\A x \in Met(T, g, s) : g[x] # w) => l[w] = k[w]
  <2>1. /\ Learned(T, g, k, s) \in LinksOf(T)
        /\ \A x \in Met(T, g, s) : g[x] # Nil => Learned(T, g, k, s)[g[x]] = x
        /\ \A w \in T : (\A x \in Met(T, g, s) : g[x] # w) => Learned(T, g, k, s)[w] = k[w]
    BY <1>1, LinkedIs
  <2>. QED  BY <2>1
<1>4. \A x \in Met(T, g, s) : g[x] # s
  <2>1. s \in Met(T, g, s)
    BY <1>1, MetClosed
  <2>. QED  BY <1>1, MetEnds
<1>5. l[s] = Nil
  BY <1>1, <1>3, <1>4
(* A block that has learned its newer neighbour is older than it.          *)
<1>6. ASSUME NEW y \in T PROVE l[y] = k[y] \/ (l[y] \in Met(T, g, s) /\ f[l[y]] = y /\ y \in Met(T, f, s))
  <2>1. CASE \A x \in Met(T, g, s) : g[x] # y
    BY <1>3, <2>1
  <2>2. ASSUME NEW x \in Met(T, g, s), g[x] = y PROVE l[y] = x /\ f[x] = y /\ y \in Met(T, f, s)
    <3>1. y # Nil /\ x \in T
      BY <1>1, <1>2
    <3>2. f[x] = y
      BY <2>2, <3>1 DEF Stopped
    <3>3. f[x] \in Met(T, f, s) \cup {Nil}
      BY <1>1, MetClosed
    <3>. QED  BY <1>3, <2>2, <3>1, <3>2, <3>3
  <2>. QED  BY <2>1, <2>2
<1>7. Passes(T, f, l, g, b, s)
  BY <1>1, <1>2, <1>6 DEF Passes
<1>8. PICK e \in Met(T, g, s) : g[e] = Nil
  <2>1. s # Nil
    BY <1>1
  <2>. QED  BY <1>1, <2>1 DEF Ends
<1>9. e \in Met(T, g, b) /\ e \in Met(T, f, s) /\ e \in Met(T, f, b) /\ e \in BlocksOf(T)
  BY <1>1, <1>8, MetSub DEF BlocksOf
<1>10. m[e] \in Met(T, f, e) /\ f[m[e]] = Nil /\ Mended(T, f, k, e)
  BY <1>8, <1>9 DEF Knows
<1>11. Met(T, f, e) \subseteq Met(T, f, s)
  BY <1>1, <1>9, MetSub
<1>12. Mended(T, f, l, s)
  <2>1. s \in Met(T, g, s) /\ \A x \in Met(T, g, s) : g[x] \in Met(T, g, s) \cup {Nil}
    BY <1>1, MetClosed
  <2>2. \A y \in Met(T, f, s) : y \in Met(T, g, s) \/ y \in Met(T, f, e)
    <3>. DEFINE S == Met(T, g, s) \cup Met(T, f, e)
    <3>1. S \in SUBSET T /\ s \in S \cup {Nil}
      BY <1>1, <1>2, <1>11, <2>1
    <3>2. ASSUME NEW x \in S PROVE f[x] \in S \cup {Nil}
      <4>1. \A u \in Met(T, f, e) : f[u] \in Met(T, f, e) \cup {Nil}
        BY <1>9, MetClosed
      <4>2. e \in Met(T, f, e)
        BY <1>9, MetSub
      <4>3. CASE x \in Met(T, f, e)
        BY <4>1, <4>3
      <4>4. CASE x \in Met(T, g, s) /\ g[x] # Nil
        <5>1. f[x] = g[x]
          BY <1>1, <1>2, <4>4 DEF Stopped
        <5>. QED  BY <2>1, <4>4, <5>1
      <4>5. CASE x \in Met(T, g, s) /\ g[x] = Nil
        <5>1. x = e
          BY <1>1, <1>8, <4>5, MetOnce
        <5>. QED  BY <4>1, <4>2, <5>1
      <4>. QED  BY <4>3, <4>4, <4>5
    <3>3. Met(T, f, s) \subseteq S
      <4>. HIDE DEF S
      <4>. QED  BY <3>1, <3>2, MetLeast
    <3>. QED  BY <3>3
  <2>3. ASSUME NEW y \in Met(T, f, s), f[y] # Nil PROVE l[f[y]] = y
    <3>1. f[y] \in T /\ y \in Met(T, f, b) /\ f[y] \in Met(T, f, s)
      <4>1. f[y] \in Met(T, f, s) \cup {Nil}
        BY <1>1, MetClosed
      <4>. QED  BY <1>1, <1>2, <2>3, <4>1
    <3>2. CASE l[f[y]] # k[f[y]]
      <4>1. l[f[y]] \in Met(T, f, b) /\ f[l[f[y]]] = f[y]
        BY <1>1, <1>6, <3>1, <3>2
      <4>. QED  BY <3>1, <4>1, MetOnce
    <3>3. CASE l[f[y]] = k[f[y]] /\ y \in Met(T, f, e)
      <4>1. k[f[y]] = y
        BY <1>10, <2>3, <3>3 DEF Mended
      <4>. QED  BY <3>3, <4>1
    <3>4. CASE y \in Met(T, g, s) /\ y \notin Met(T, f, e)
      <4>1. y # e
        BY <1>9, <3>4, MetSub
      <4>2. g[y] # Nil
        BY <1>1, <1>8, <3>4, <4>1, MetOnce
      <4>3. g[y] = f[y]
        BY <1>1, <1>2, <3>4, <4>2 DEF Stopped
      <4>. QED  BY <1>3, <3>4, <4>2, <4>3
    <3>. QED  BY <2>2, <3>2, <3>3, <3>4
  <2>. QED  BY <2>3 DEF Mended
<1>13. Knows(T, f, l, m, g, b)
  <2>1. ASSUME NEW x \in Met(T, g, b), g[x] = Nil
        PROVE  m[x] \in Met(T, f, x) /\ f[m[x]] = Nil /\ Mended(T, f, l, x)
    <3>1. x = e
      BY <1>1, <1>8, <1>9, <2>1, MetOnce
    <3>2. Mended(T, f, l, e)
      BY <1>11, <1>12 DEF Mended
    <3>. QED  BY <1>10, <3>1, <3>2
  <2>2. ASSUME NEW y \in Met(T, f, b), l[y] # Nil PROVE l[y] \in Met(T, f, b) /\ f[l[y]] = y
    <3>1. y \in T /\ (k[y] # Nil => k[y] \in Met(T, f, b) /\ f[k[y]] = y)
      BY <1>2 DEF Knows
    <3>. QED  BY <1>1, <1>6, <2>2, <3>1
  <2>. QED  BY <2>1, <2>2 DEF Knows
<1>14. m[e] \in T /\ m[e] \in Met(T, f, s) /\ f[m[e]] = Nil
  BY <1>1, <1>2, <1>10, <1>11
<1>15. ASSUME NEW h \in LinksOf(T), NEW n \in LinksOf(T),
              n[s] = m[e], \A x \in T : x # s => n[x] = m[x], Stopped(T, f, n, h)
       PROVE  Passes(T, f, l, h, b, s) /\ Knows(T, f, l, n, h, b)
  <2>1. h[s] = Nil
    BY <1>1, <1>14, <1>15 DEF Stopped
  <2>2. \A x \in Met(T, g, b) : x \notin Met(T, g, s) => h[x] = g[x]
    <3>1. s \in Met(T, g, s) /\ Met(T, g, b) \subseteq T
      BY <1>1, MetClosed
    <3>. QED  BY <1>15, <3>1 DEF Stopped
  <2>3. s \in Met(T, h, b)
    BY <1>1, <2>2, MetSplit
  <2>4. Passes(T, f, l, h, b, s)
    BY <1>7, <2>3 DEF Passes
  <2>5. Knows(T, f, l, n, h, b)
    BY <1>3, <1>5, <1>12, <1>14, <1>15, <2>1, <2>4, KnowsFrom
  <2>. QED  BY <2>4, <2>5
<1>. QED  BY <1>1, <1>3, <1>5, <1>7, <1>8, <1>12, <1>13, <1>14, <1>15

(* A new block in front of the list.                                       *)
LEMMA PushedList ==
  ASSUME NEW T, Nil \notin T, NEW f \in LinksOf(T), NEW g \in LinksOf(T), NEW b \in BlocksOf(T),
         NEW k \in LinksOf(T), NEW m, Stopped(T, f, m, g), Ends(T, f, b),
         NEW w \in T, w \notin Met(T, f, b),
         NEW h \in LinksOf(T), NEW i \in LinksOf(T), NEW l \in LinksOf(T), NEW n,
         Stopped(T, h, n, i), h[w] = b, l[w] = Nil, n[w] = IF b = Nil THEN w ELSE Nil,
         \A x \in T : x # w => h[x] = f[x] /\ l[x] = k[x] /\ n[x] = m[x]
  PROVE  /\ Met(T, h, w) = {w} \cup Met(T, f, b) /\ Ends(T, h, w)
         /\ \A x \in BlocksOf(T) :
              w \notin Met(T, f, x) => Met(T, h, x) = Met(T, f, x) /\ (Ends(T, f, x) => Ends(T, h, x))
         /\ Knows(T, f, k, m, g, b) => Knows(T, h, l, n, i, w)
         /\ b = Nil => Knows(T, h, l, n, i, w)
         /\ b # Nil => Passes(T, h, l, i, w, w)
         /\ \A s : Passes(T, f, k, g, b, s) =>
              /\ Passes(T, h, l, i, w, s) /\ s \in T /\ s # w /\ Met(T, h, s) = Met(T, f, s)
              /\ Mended(T, f, k, s) => Mended(T, h, l, s)
<1>1. /\ h[w] = b /\ l[w] = Nil /\ n[w] = IF b = Nil THEN w ELSE Nil
      /\ \A x \in T : x # w => h[x] = f[x] /\ l[x] = k[x] /\ n[x] = m[x]
  OBVIOUS
<1>2. Met(T, f, b) \subseteq T /\ Met(T, g, b) \subseteq Met(T, f, b) /\ w # Nil /\ w \in BlocksOf(T)
  BY MetClosed, StoppedIn DEF BlocksOf
<1>3. Met(T, h, w) = {w} \cup Met(T, f, b) /\ Ends(T, h, w)
  BY <1>1, MetPush
<1>4. ASSUME NEW x \in BlocksOf(T), w \notin Met(T, f, x)
      PROVE  Met(T, h, x) = Met(T, f, x) /\ (Ends(T, f, x) => Ends(T, h, x))
  <2>1. \A u \in Met(T, f, x) : h[u] = f[u]
    BY <1>1, <1>4, MetClosed
  <2>. QED  BY <2>1, MetKept
<1>5. \A x \in T : x # w => i[x] = g[x]
  BY <1>1 DEF Stopped
<1>6. ASSUME b # Nil PROVE i[w] = b /\ Met(T, i, w) = {w} \cup Met(T, g, b)
  <2>1. i[w] = b
    BY <1>1, <1>6 DEF Stopped
  <2>2. w \notin Met(T, g, b)
    BY <1>2
  <2>. QED  BY <1>5, <2>1, <2>2, MetPush
<1>7. ASSUME NEW s, Passes(T, f, k, g, b, s)
      PROVE  /\ Passes(T, h, l, i, w, s) /\ s \in T /\ s # w /\ Met(T, h, s) = Met(T, f, s)
             /\ Mended(T, f, k, s) => Mended(T, h, l, s)
  <2>1. /\ s \in Met(T, g, b) /\ \A y \in Met(T, f, b) : y \notin Met(T, f, s) => k[y] = Nil
        /\ s \in BlocksOf(T) /\ s \in T /\ Met(T, f, s) \subseteq Met(T, f, b) /\ s # w
    BY <1>2, <1>7, StoppedIn DEF Passes
  <2>2. Met(T, h, s) = Met(T, f, s)
    BY <1>4, <2>1
  <2>3. b # Nil
    BY <2>1, MetStep
  <2>4. Passes(T, h, l, i, w, s)
    BY <1>1, <1>2, <1>3, <1>6, <2>1, <2>2, <2>3 DEF Passes
  <2>5. ASSUME Mended(T, f, k, s), NEW y \in Met(T, h, s), h[y] # Nil PROVE l[h[y]] = y
    <3>1. y \in Met(T, f, s) /\ y \in T /\ y # w /\ h[y] = f[y]
      BY <1>1, <1>2, <2>1, <2>2, <2>5
    <3>2. f[y] \in Met(T, f, s)
      BY <2>1, <2>5, <3>1, MetClosed
    <3>3. k[f[y]] = y /\ f[y] # w /\ f[y] \in T
      BY <1>2, <2>1, <2>5, <3>1, <3>2 DEF Mended
    <3>. QED  BY <1>1, <3>1, <3>3
  <2>. QED  BY <2>1, <2>2, <2>4, <2>5 DEF Mended
<1>8. ASSUME b # Nil, Knows(T, f, k, m, g, b) PROVE Knows(T, h, l, n, i, w)
  <2>1. ASSUME NEW x \in Met(T, i, w), i[x] = Nil
        PROVE  n[x] \in Met(T, h, x) /\ h[n[x]] = Nil /\ Mended(T, h, l, x)
    <3>1. x \in Met(T, g, b) /\ x # w
      BY <1>2, <1>6, <1>8, <2>1
    <3>2. /\ x \in T /\ x \in BlocksOf(T) /\ Met(T, f, x) \subseteq Met(T, f, b) /\ g[x] = Nil
          /\ n[x] = m[x]
      BY <1>1, <1>5, <2>1, <3>1, StoppedIn
    <3>3. m[x] \in Met(T, f, x) /\ f[m[x]] = Nil /\ Mended(T, f, k, x)
      BY <1>8, <3>1, <3>2 DEF Knows
    <3>4. Met(T, h, x) = Met(T, f, x)
      BY <1>4, <3>2
    <3>5. h[m[x]] = Nil
      BY <1>1, <1>2, <3>2, <3>3
    <3>6. ASSUME NEW y \in Met(T, h, x), h[y] # Nil PROVE l[h[y]] = y
      <4>1. y \in Met(T, f, x) /\ y \in T /\ y # w /\ h[y] = f[y]
        BY <1>1, <1>2, <3>2, <3>4, <3>6
      <4>2. f[y] \in Met(T, f, x)
        BY <3>2, <3>6, <4>1, MetClosed
      <4>3. k[f[y]] = y /\ f[y] # w /\ f[y] \in T
        BY <1>2, <3>2, <3>3, <3>6, <4>1, <4>2 DEF Mended
      <4>. QED  BY <1>1, <4>1, <4>3
    <3>. QED  BY <3>2, <3>3, <3>4, <3>5, <3>6 DEF Mended
  <2>2. ASSUME NEW y \in Met(T, h, w), l[y] # Nil PROVE l[y] \in Met(T, h, w) /\ h[l[y]] = y
    <3>1. y \in Met(T, f, b) /\ y # w /\ k[y] = l[y]
      BY <1>1, <1>2, <1>3, <2>2
    <3>2. k[y] \in Met(T, f, b) /\ f[k[y]] = y
      BY <1>8, <2>2, <3>1 DEF Knows
    <3>. QED  BY <1>1, <1>2, <1>3, <3>1, <3>2
  <2>. QED  BY <2>1, <2>2 DEF Knows
<1>9. ASSUME b = Nil PROVE Knows(T, h, l, n, i, w)
  <2>1. Met(T, h, w) = {w} /\ Met(T, i, w) \subseteq Met(T, h, w)
    BY <1>2, <1>3, <1>9, MetStep, StoppedIn
  <2>2. n[w] = w /\ h[w] = Nil /\ l[w] = Nil
    BY <1>1, <1>9
  <2>. QED  BY <2>1, <2>2 DEF Knows, Mended
<1>10. ASSUME b # Nil PROVE Passes(T, h, l, i, w, w)
  <2>1. w \in Met(T, i, w)
    BY <1>6, <1>10
  <2>. QED  BY <2>1 DEF Passes
<1>. QED  BY <1>3, <1>4, <1>7, <1>8, <1>9, <1>10

(* The oldest block, o, leaves a list with others; s remembers the next.   *)
LEMMA OldestTaken ==
  ASSUME NEW T, Nil \notin T, NEW f \in LinksOf(T), NEW g \in LinksOf(T), NEW b \in BlocksOf(T),
         NEW k \in LinksOf(T), NEW m, Stopped(T, f, m, g), Ends(T, f, b),
         Knows(T, f, k, m, g, b), NEW s, Passes(T, f, k, g, b, s), k[s] = Nil,
         NEW o, o \in Met(T, f, s), f[o] = Nil, Mended(T, f, k, s), k[o] # Nil,
         NEW h \in LinksOf(T), NEW i \in LinksOf(T), NEW n, Stopped(T, h, n, i),
         h[k[o]] = Nil, \A x \in Met(T, f, b) : x # k[o] => h[x] = f[x],
         n[s] = k[o], \A x \in T : x # s => n[x] = m[x]
  PROVE  /\ o \in Met(T, f, b) /\ k[o] \in Met(T, f, b) /\ k[o] # o
         /\ Met(T, h, b) = Met(T, f, b) \ {o} /\ Ends(T, h, b)
         /\ k[o] \in Met(T, h, s) /\ Mended(T, h, k, s)
         /\ Passes(T, h, k, i, b, s) /\ Knows(T, h, k, n, i, b)
<1>1. /\ h[k[o]] = Nil /\ (\A x \in Met(T, f, b) : x # k[o] => h[x] = f[x])
      /\ n[s] = k[o] /\ \A x \in T : x # s => n[x] = m[x]
  OBVIOUS
<1>2. /\ s \in Met(T, g, b) /\ s \in T /\ s \in BlocksOf(T) /\ s \in Met(T, f, s)
      /\ s \in Met(T, f, b) /\ Met(T, f, s) \subseteq Met(T, f, b) /\ Ends(T, f, s)
      /\ Met(T, g, b) \subseteq Met(T, f, b) /\ Ends(T, g, b)
      /\ \A y \in Met(T, f, b) : y \notin Met(T, f, s) => k[y] = Nil
  BY StoppedIn DEF Passes
<1>3. Met(T, f, b) \subseteq T
  BY MetClosed
<1>4. o \in Met(T, f, b) /\ o \in T /\ o # Nil /\ o # s
  BY <1>2, <1>3
<1>5. k[o] \in Met(T, f, b) /\ f[k[o]] = o /\ k[o] \in T
  BY <1>3, <1>4 DEF Knows
<1>6. k[o] \in Met(T, f, s)
  <2>1. PICK x \in Met(T, f, s) : f[x] = o
    BY <1>2, <1>4, MetBefore
  <2>2. x = k[o]
    BY <1>4, <2>1 DEF Mended
  <2>. QED  BY <2>1, <2>2
<1>7. k[o] # o
  BY <1>4, <1>5
(* On the list h is f without o.                                           *)
<1>8. ASSUME NEW c \in Met(T, f, b), c # o
      PROVE  Met(T, h, c) = Met(T, f, c) \ {o} /\ Ends(T, h, c)
  <2>. DEFINE q == [f EXCEPT ![k[o]] = Nil]
  <2>1. q \in LinksOf(T) /\ q[k[o]] = f[o] /\ \A x \in T : x # k[o] => q[x] = f[x]
    BY <1>5 DEF LinksOf, BlocksOf
  <2>. HIDE DEF q
  <2>2. Met(T, q, c) = Met(T, f, c) \ {o} /\ Ends(T, q, c)
    BY <1>4, <1>5, <1>8, <2>1, MetUnlink
  <2>3. Met(T, f, c) \subseteq Met(T, f, b) /\ c \in BlocksOf(T)
    BY <1>3, <1>8, MetSub DEF BlocksOf
  <2>4. \A x \in Met(T, f, b) : h[x] = q[x]
    BY <1>1, <1>3, <2>1
  <2>5. \A x \in Met(T, q, c) : h[x] = q[x]
    BY <2>2, <2>3, <2>4
  <2>6. Met(T, h, c) = Met(T, q, c) /\ Ends(T, h, c)
    BY <2>1, <2>2, <2>3, <2>5, MetKept
  <2>. QED  BY <2>2, <2>6
<1>9. b # o /\ b \in Met(T, f, b)
  <2>1. b # Nil
    BY <1>2, MetStep
  <2>2. b \in Met(T, f, b)
    BY <2>1, MetClosed
  <2>3. f[k[o]] # b
    BY <1>5, MetEnds
  <2>. QED  BY <1>5, <2>2, <2>3
<1>10. Met(T, h, b) = Met(T, f, b) \ {o} /\ Ends(T, h, b)
  BY <1>8, <1>9
<1>11. Met(T, h, s) = Met(T, f, s) \ {o} /\ k[o] \in Met(T, h, s)
  BY <1>2, <1>4, <1>6, <1>7, <1>8
<1>12. Mended(T, h, k, s)
  <2>1. ASSUME NEW y \in Met(T, h, s), h[y] # Nil PROVE k[h[y]] = y
    <3>1. y \in Met(T, f, s) /\ h[y] = f[y]
      BY <1>1, <1>2, <1>11, <2>1
    <3>. QED  BY <2>1, <3>1 DEF Mended
  <2>. QED  BY <2>1 DEF Mended
<1>13. i[s] = Nil
  BY <1>1, <1>2 DEF Stopped
<1>14. s \in Met(T, i, b)
  <2>1. ASSUME NEW x \in Met(T, g, b), x \notin Met(T, g, s) PROVE i[x] = g[x]
    <3>1. x \in Met(T, f, b) /\ x \in T /\ x # s
      <4>1. s \in Met(T, g, s)
        BY <1>2, MetClosed
      <4>. QED  BY <1>2, <1>3, <2>1, <4>1
    <3>2. x # k[o]
      <4>. SUFFICES ASSUME x = k[o] PROVE FALSE
        OBVIOUS
      <4>1. s \in Met(T, g, x)
        BY <1>2, <2>1, MetOrder
      <4>2. x \in BlocksOf(T) /\ Met(T, g, x) \subseteq Met(T, f, x)
        BY <2>1, StoppedIn
      <4>3. s = x
        BY <1>2, <1>6, <3>1, <4>1, <4>2, MetAnti
      <4>. QED  BY <3>1, <4>3
    <3>3. h[x] = f[x] /\ n[x] = m[x]
      BY <1>1, <3>1, <3>2
    <3>. QED  BY <3>1, <3>3 DEF Stopped
  <2>. QED  BY <1>2, <2>1, MetSplit
<1>15. Passes(T, h, k, i, b, s)
  <2>1. ASSUME NEW y \in Met(T, h, b), y \notin Met(T, h, s) PROVE k[y] = Nil
    BY <1>2, <1>10, <1>11, <2>1
  <2>. QED  BY <1>14, <2>1 DEF Passes
<1>16. Knows(T, h, k, n, i, b)
  <2>1. n[s] \in Met(T, h, s) /\ h[n[s]] = Nil
    BY <1>1, <1>11
  <2>. QED  BY <1>10, <1>12, <1>13, <1>15, <2>1, KnowsFrom
<1>. QED  BY <1>4, <1>5, <1>7, <1>10, <1>11, <1>12, <1>15, <1>16

(* The last block of a list is the one the walk starts from.               *)
LEMMA LastAlone ==
  ASSUME NEW T, Nil \notin T, NEW f \in LinksOf(T), NEW s \in BlocksOf(T), NEW k,
         NEW o \in Met(T, f, s), f[o] = Nil, k[o] = Nil, Mended(T, f, k, s)
  PROVE  o = s /\ Met(T, f, s) = {s}
<1>1. o \in T /\ Met(T, f, s) \subseteq T
  BY MetClosed
<1>2. o = s
  <2>. SUFFICES ASSUME o # s PROVE FALSE
    OBVIOUS
  <2>1. PICK x \in Met(T, f, s) : f[x] = o
    BY MetBefore
  <2>2. k[o] = x /\ x \in T
    BY <1>1, <2>1 DEF Mended
  <2>. QED  BY <2>2
<1>. QED  BY <1>1, <1>2, MetStep

(* A list some block of which is left out still ends.                      *)
LEMMA SkipEnds ==
  ASSUME NEW T, Nil \notin T, NEW f \in LinksOf(T), NEW b \in BlocksOf(T), Ends(T, f, b),
         NEW w \in T, b # w, NEW h \in LinksOf(T),
         \A x \in T : h[x] = IF x \in Met(T, f, b) /\ f[x] = w THEN f[w] ELSE f[x]
  PROVE  Ends(T, h, b)
<1>1. CASE \A x \in Met(T, f, b) : f[x] # w
  <2>1. \A x \in Met(T, f, b) : h[x] = f[x]
    BY <1>1, MetClosed
  <2>. QED  BY <2>1, MetKept
<1>2. ASSUME NEW x \in Met(T, f, b), f[x] = w PROVE Ends(T, h, b)
  <2>1. x \in T /\ b \in Met(T, f, b)
    BY MetClosed, MetStep
  <2>2. \A u \in Met(T, f, b) : f[u] = w => u = x
    BY <1>2, MetOnce
  <2>3. h[x] = f[w] /\ \A u \in T : u # x => h[u] = f[u]
    BY <1>2, <2>1, <2>2
  <2>. QED  BY <1>2, <2>1, <2>3, MetUnlink
<1>. QED  BY <1>1, <1>2

(* A block, w, behind s is left out, and the walk from s teaches l.        *)
LEMMA Skipped ==
  ASSUME NEW T, Nil \notin T, NEW f \in LinksOf(T), NEW g \in LinksOf(T), NEW b \in BlocksOf(T),
         NEW k \in LinksOf(T), NEW m, Stopped(T, f, m, g), Ends(T, f, b),
         NEW s, Passes(T, f, k, g, b, s), NEW w \in T, w # s,
         NEW h \in LinksOf(T), NEW i \in LinksOf(T), NEW l \in LinksOf(T), NEW n, NEW o,
         Stopped(T, h, n, i),
         \A x \in T : h[x] = IF x \in Met(T, f, s) /\ f[x] = w THEN f[w] ELSE f[x],
         l[s] = Nil, \A x \in T : x # s => l[x] = Learned(T, h, k, s)[x],
         n[s] = (CHOOSE x \in Met(T, h, s) : h[x] = Nil), \A x \in T : x # s => n[x] = m[x]
  PROVE  /\ w \in Met(T, f, s) => Met(T, h, b) = Met(T, f, b) \ {w}
         /\ w \notin Met(T, f, s) => Met(T, h, b) = Met(T, f, b)
         /\ Ends(T, h, b) /\ \A x \in T : x \notin Met(T, f, b) => h[x] = f[x]
         /\ Passes(T, h, l, i, b, s) /\ Knows(T, h, l, n, i, b)
<1>1. /\ l[s] = Nil /\ (\A x \in T : x # s => l[x] = Learned(T, h, k, s)[x])
      /\ n[s] = (CHOOSE x \in Met(T, h, s) : h[x] = Nil) /\ \A x \in T : x # s => n[x] = m[x]
  OBVIOUS
<1>2. /\ s \in Met(T, g, b) /\ s \in T /\ s \in BlocksOf(T) /\ s \in Met(T, f, s)
      /\ s \in Met(T, f, b) /\ Met(T, f, s) \subseteq Met(T, f, b) /\ Ends(T, f, s)
      /\ Met(T, g, b) \subseteq Met(T, f, b) /\ Ends(T, g, b)
      /\ \A y \in Met(T, f, b) : y \notin Met(T, f, s) => k[y] = Nil
  BY StoppedIn DEF Passes
<1>3. Met(T, f, b) \subseteq T
  BY MetClosed
<1>4. \A x \in T : h[x] = IF x \in Met(T, f, s) /\ f[x] = w THEN f[w] ELSE f[x]
  OBVIOUS
<1>5. b \in Met(T, f, b)
  <2>1. b # Nil
    BY <1>2, MetStep
  <2>. QED  BY <2>1, MetClosed
<1>6. ASSUME w \in Met(T, f, s)
      PROVE  w # b /\ \A c \in Met(T, f, b) : c # w => Met(T, h, c) = Met(T, f, c) \ {w} /\ Ends(T, h, c)
  <2>1. PICK x \in Met(T, f, s) : f[x] = w
    BY <1>2, <1>6, MetBefore
  <2>2. x \in Met(T, f, b) /\ x \in T
    BY <1>2, <1>3, <2>1
  <2>3. \A u \in Met(T, f, s) : f[u] = w => u = x
    BY <1>2, <2>1, MetOnce
  <2>4. h[x] = f[w] /\ \A u \in T : u # x => h[u] = f[u]
    BY <1>4, <2>1, <2>2, <2>3
  <2>. QED  BY <2>1, <2>2, <2>4, MetUnlink
<1>7. ASSUME w \notin Met(T, f, s)
      PROVE  \A c \in Met(T, f, b) : Met(T, h, c) = Met(T, f, c) /\ Ends(T, h, c)
  <2>1. \A x \in Met(T, f, s) : f[x] # w
    BY <1>2, <1>7, MetClosed
  <2>2. \A x \in T : h[x] = f[x]
    BY <1>4, <2>1
  <2>3. ASSUME NEW c \in Met(T, f, b) PROVE Met(T, h, c) = Met(T, f, c) /\ Ends(T, h, c)
    <3>1. c \in BlocksOf(T) /\ Ends(T, f, c) /\ Met(T, f, c) \subseteq T
      BY <1>3, MetEnds, MetSub DEF BlocksOf
    <3>. QED  BY <2>2, <3>1, MetKept
  <2>. QED  BY <2>3
<1>8. /\ w \in Met(T, f, s) => Met(T, h, b) = Met(T, f, b) \ {w}
      /\ w \notin Met(T, f, s) => Met(T, h, b) = Met(T, f, b)
      /\ Ends(T, h, b)
  BY <1>5, <1>6, <1>7
<1>9. /\ w \in Met(T, f, s) => Met(T, h, s) = Met(T, f, s) \ {w}
      /\ w \notin Met(T, f, s) => Met(T, h, s) = Met(T, f, s)
      /\ Ends(T, h, s) /\ s \in Met(T, h, s)
  BY <1>2, <1>6, <1>7
<1>10. \A x \in T : x \notin Met(T, f, b) => h[x] = f[x]
  BY <1>2, <1>4
<1>11. PICK e \in Met(T, h, s) : h[e] = Nil
  BY <1>2, <1>9 DEF Ends
<1>12. n[s] = e
  BY <1>1, <1>2, <1>9, <1>11, OldestIs
<1>13. e # Nil /\ e \in T
  BY <1>2, <1>11, MetClosed
<1>14. i[s] = Nil
  BY <1>2, <1>12, <1>13 DEF Stopped
<1>15. s \in Met(T, i, b)
  <2>1. ASSUME NEW x \in Met(T, g, b), x \notin Met(T, g, s) PROVE i[x] = g[x]
    <3>1. x \in Met(T, f, b) /\ x \in T /\ x # s
      <4>1. s \in Met(T, g, s)
        BY <1>2, MetClosed
      <4>. QED  BY <1>2, <1>3, <2>1, <4>1
    <3>2. x \notin Met(T, f, s)
      <4>. SUFFICES ASSUME x \in Met(T, f, s) PROVE FALSE
        OBVIOUS
      <4>1. s \in Met(T, g, x)
        BY <1>2, <2>1, MetOrder
      <4>2. Met(T, g, x) \subseteq Met(T, f, x)
        BY <2>1, StoppedIn
      <4>3. s = x
        BY <1>2, <4>1, <4>2, MetAnti
      <4>. QED  BY <3>1, <4>3
    <3>3. h[x] = f[x] /\ n[x] = m[x]
      BY <1>1, <1>4, <3>1, <3>2
    <3>. QED  BY <3>1, <3>3 DEF Stopped
  <2>. QED  BY <1>2, <2>1, MetSplit
<1>16. /\ \A x \in Met(T, h, s) : h[x] # Nil => Learned(T, h, k, s)[h[x]] = x
       /\ \A u \in T : (\A x \in Met(T, h, s) : h[x] # u) => Learned(T, h, k, s)[u] = k[u]
  BY <1>2, <1>9, LinkedIs
<1>17. Passes(T, h, l, i, b, s)
  <2>1. ASSUME NEW y \in Met(T, h, b), y \notin Met(T, h, s) PROVE l[y] = Nil
    <3>1. y \in Met(T, f, b) /\ y \notin Met(T, f, s) /\ y \in T /\ y # s
      BY <1>2, <1>3, <1>8, <1>9, <2>1
    <3>2. \A x \in Met(T, h, s) : h[x] # y
      BY <1>2, <2>1, <3>1, MetClosed
    <3>. QED  BY <1>1, <1>2, <1>16, <3>1, <3>2
  <2>. QED  BY <1>15, <2>1 DEF Passes
<1>18. Mended(T, h, l, s)
  <2>1. ASSUME NEW y \in Met(T, h, s), h[y] # Nil PROVE l[h[y]] = y
    <3>1. h[y] # s
      BY <1>2, <1>9, <2>1, MetEnds
    <3>2. h[y] \in T
      <4>1. h[y] \in Met(T, h, s) \cup {Nil} /\ Met(T, h, s) \subseteq T
        BY <1>2, MetClosed
      <4>. QED  BY <2>1, <4>1
    <3>. QED  BY <1>1, <1>16, <2>1, <3>1, <3>2
  <2>. QED  BY <2>1 DEF Mended
<1>19. Knows(T, h, l, n, i, b)
  BY <1>1, <1>8, <1>11, <1>12, <1>14, <1>17, <1>18, KnowsFrom
<1>. QED  BY <1>8, <1>10, <1>17, <1>19

(* The list from c goes behind the list from a, or takes its place.        *)
Behind(T, f, a, c, g, d) ==
  IF a = Nil
  THEN d = c /\ \A x \in T : g[x] = f[x]
  ELSE d = a /\ \E e \in Met(T, f, a) :
                 f[e] = Nil /\ g[e] = c /\ \A x \in T : x # e => g[x] = f[x]

LEMMA Joined ==
  ASSUME NEW T, Nil \notin T, NEW f \in LinksOf(T), NEW a \in BlocksOf(T), Ends(T, f, a),
         NEW c \in BlocksOf(T), Ends(T, f, c), Met(T, f, a) \cap Met(T, f, c) = {},
         NEW g \in LinksOf(T), NEW d, Behind(T, f, a, c, g, d)
  PROVE  /\ d \in BlocksOf(T)
         /\ Met(T, g, d) = Met(T, f, a) \cup Met(T, f, c) /\ Ends(T, g, d)
         /\ \A x \in T : x \notin Met(T, f, a) => g[x] = f[x]
         /\ \A h \in BlocksOf(T) : Met(T, f, h) \cap Met(T, f, a) = {} =>
              Met(T, g, h) = Met(T, f, h) /\ (Ends(T, f, h) => Ends(T, g, h))
<1>1. CASE a = Nil
  <2>1. d = c /\ \A x \in T : g[x] = f[x]
    BY <1>1 DEF Behind
  <2>2. Met(T, f, a) = {}
    BY <1>1, MetStep
  <2>3. \A h \in BlocksOf(T) : Met(T, g, h) = Met(T, f, h) /\ (Ends(T, f, h) => Ends(T, g, h))
    <3>1. \A h \in BlocksOf(T) : \A x \in Met(T, f, h) : g[x] = f[x]
      BY <2>1, MetClosed
    <3>. QED  BY <3>1, MetKept
  <2>. QED  BY <2>1, <2>2, <2>3
<1>2. CASE a # Nil
  <2>1. PICK e \in Met(T, f, a) : d = a /\ f[e] = Nil /\ g[e] = c /\ \A x \in T : x # e => g[x] = f[x]
    BY <1>2 DEF Behind
  <2>2. a \in T
    BY <1>2 DEF BlocksOf
  <2>3. /\ Met(T, g, a) = Met(T, f, a) \cup Met(T, f, c) /\ Ends(T, g, a)
        /\ \A h \in BlocksOf(T) :
             e \notin Met(T, f, h) => Met(T, g, h) = Met(T, f, h) /\ (Ends(T, f, h) => Ends(T, g, h))
    BY <2>1, <2>2, MetJoin
  <2>. QED  BY <2>1, <2>3
<1>. QED  BY <1>1, <1>2

-----------------------------------------------------------------------------
(* The condition variable.                                                 *)

CvWords == [top : BlocksOf(Waiters), busy : BOOLEAN, wakes : 0..7]

(* The labels of a thread that optimises the list, takes blocks from it, or*)
(* has its busy bit, and those at which a thread owns blocks it has taken. *)
Optimizing == {"unlockOptimize", "optimize", "optimizeCas"}
Gathering == {"wake", "take", "wakeCas"}
Holding == Optimizing \cup Gathering \cup {"remove"}
Emptying == Gathering \cup {"signal", "release"}
CvLabels == {"start", "in", "unlock", "spin", "keyed", "keyedAgain", "expired", "relock",
             "returned", "out"} \cup Holding \cup Emptying

CvTypes ==
  /\ cWord \in CvWords
  /\ cBack \in LinksOf(Waiters) /\ cNotify \in LinksOf(Waiters) /\ cNext \in LinksOf(Waiters)
  /\ cFlag \in [Waiters -> BOOLEAN]
  /\ cPc \in [C!Callers -> CvLabels]
  /\ cStatus \in [C!Callers -> CvWords] /\ cNew \in [C!Callers -> CvWords]
  /\ cWanted \in [C!Callers -> Nat] /\ cCount \in [C!Callers -> Nat]
  /\ cOldest \in [C!Callers -> BlocksOf(Waiters)]
  /\ cFirst \in [C!Callers -> BlocksOf(Waiters)]
  /\ cWakee \in [C!Callers -> BlocksOf(Waiters)]
  /\ cGone \in [C!Callers -> BOOLEAN]
  /\ cExpired \subseteq cTimed /\ cOwed \in Nat

(* The busy bit and the count beside it are set for a list only.           *)
CvWord ==
  /\ cWord.top = Nil => ~cWord.busy
  /\ ~cWord.busy => cWord.wakes = 0

InChain == Met(Waiters, cBack, cWord.top)

(* One thread at a time has the busy bit; the block it has read from the   *)
(* word is in the list, and nobody has walked past a newer one.            *)
CvHolder ==
  \A h \in C!Callers : cPc[h] \in Holding =>
    /\ cWord.busy
    /\ \A u \in C!Callers : cPc[u] \in Holding => u = h
    /\ Passes(Waiters, cBack, cNext, C!Older, cWord.top, cStatus[h].top)
    /\ cPc[h] # "remove" => cNext[cStatus[h].top] = Nil
    /\ cPc[h] = "remove" /\ cBack[h] # Nil => cNew[h].busy
    /\ cPc[h] = "take" =>
          /\ cOldest[h] \in Met(Waiters, cBack, cStatus[h].top) /\ cBack[cOldest[h]] = Nil
          /\ Mended(Waiters, cBack, cNext, cStatus[h].top)

(* The list; while its own block may have been taken from it by a waiter   *)
(* whose timeout has passed, it need not know its oldest block.            *)
CvKnown == Knows(Waiters, cBack, cNext, cNotify, C!Older, cWord.top)
CvList ==
  /\ Ends(Waiters, cBack, cWord.top)
  /\ cWord.top # Nil /\ ~cWord.busy => cNext[cWord.top] = Nil
  /\ (\A h \in C!Callers : cPc[h] # "remove") => CvKnown

(* The blocks t has taken and whose events it has not released.            *)
Gathered(t) ==
  {w \in Waiters : \/ w \in Met(Waiters, cBack, cFirst[t])
                   \/ cPc[t] = "release" /\ w = cWakee[t]}

(* The owner of w has not gone on: its flag is set and it will look at it, *)
(* or it has reset the flag and sleeps or waits for its turn.              *)
Sleeps(w) ==
  \/ /\ cFlag[w] /\ w \notin cExpired
     /\ cPc[w] \in Optimizing \cup Emptying \cup {"unlock", "spin"}
  \/ /\ ~cFlag[w]
     /\ \/ cPc[w] \in {"keyed", "expired", "keyedAgain"}
        \/ cPc[w] \in Emptying \cup {"remove"} /\ w \in cExpired /\ ~cGone[w]

(* Each block of a sleeper is in the list or with one thread.              *)
Placed ==
  /\ \A w \in InChain : Sleeps(w)
  /\ \A t \in C!Callers : \A w \in Gathered(t) :
       Sleeps(w) /\ w \notin InChain /\ \A u \in C!Callers : w \in Gathered(u) => u = t

(* The blocks a thread has taken come to an end.                           *)
Collected ==
  \A t \in C!Callers :
    /\ Ends(Waiters, cBack, cFirst[t])
    /\ cPc[t] \notin Emptying => cFirst[t] = Nil
    /\ cPc[t] = "release" => cWakee[t] \in Waiters /\ cWakee[t] \notin Met(Waiters, cBack, cFirst[t])

(* A timeout passes while its waiter sleeps.                               *)
Clocks ==
  /\ \A w \in Waiters : cPc[w] \in {"start", "in"} => w \notin cExpired
  /\ \A w \in Waiters : cPc[w] \in {"expired", "remove"} => w \in cExpired

CvPlaces == Placed /\ Collected /\ Clocks

(* Without timeouts: what is owed is in the word, or is what the holder of *)
(* the list still has to take.                                             *)
OwedAt(h) ==
  /\ cPc[h] \in Optimizing => cStatus[h].wakes = 0 /\ (cWord.wakes = 7 \/ cOwed <= cWord.wakes)
  /\ cPc[h] \in Gathering =>
        cStatus[h].wakes <= cWord.wakes /\ (cWord.wakes = 7 \/ cOwed + cCount[h] <= cWanted[h] + cWord.wakes)
  /\ cPc[h] \in {"take", "wakeCas"} => cStatus[h].wakes # 7
  /\ cPc[h] = "take" => cCount[h] < cWanted[h] + cStatus[h].wakes
  /\ cPc[h] = "wakeCas" => cWanted[h] + cStatus[h].wakes <= cCount[h]

CvOwed == cTimed = {} => (~cWord.busy => cOwed = 0) /\ \A h \in C!Callers : OwedAt(h)

(* The inductive invariant.                                                *)
CvInv == CvTypes /\ CvWord /\ CvHolder /\ CvList /\ CvPlaces /\ CvOwed

(* ConditionVariable instantiates FiniteSets.                              *)
LEMMA CardinalityIs == \A S : C!Cardinality(S) = Cardinality(S)
<1>. SUFFICES ASSUME NEW S PROVE C!Cardinality(S) = Cardinality(S)
  OBVIOUS
<1>. QED  BY DEF C!Cardinality, Cardinality

LEMMA ReachIs == \A f, b : C!Reach(f, b) = Met(Waiters, f, b)
BY DEF C!Reach, Met

LEMMA StopTypes ==
  ASSUME NEW f \in LinksOf(Waiters), NEW m \in LinksOf(Waiters), NEW g,
         g = [x \in Waiters |-> IF m[x] # Nil THEN Nil ELSE f[x]]
  PROVE  g \in LinksOf(Waiters) /\ Stopped(Waiters, f, m, g)
<1>1. \A x \in Waiters : f[x] \in BlocksOf(Waiters) /\ Nil \in BlocksOf(Waiters)
  BY DEF LinksOf, BlocksOf
<1>. QED  BY <1>1 DEF LinksOf, Stopped

LEMMA CvListTypes ==
  ASSUME CvTypes
  PROVE  /\ Nil \notin Waiters
         /\ cBack \in LinksOf(Waiters) /\ cNext \in LinksOf(Waiters) /\ cNotify \in LinksOf(Waiters)
         /\ C!Older \in LinksOf(Waiters) /\ Stopped(Waiters, cBack, cNotify, C!Older)
         /\ cWord.top \in BlocksOf(Waiters)
         /\ \A t \in C!Callers : cStatus[t].top \in BlocksOf(Waiters) /\ cFirst[t] \in BlocksOf(Waiters)
         /\ InChain \subseteq Waiters
         /\ \A w \in Waiters : w \in C!Callers
<1>1. /\ Nil \notin Waiters
      /\ cBack \in LinksOf(Waiters) /\ cNext \in LinksOf(Waiters) /\ cNotify \in LinksOf(Waiters)
      /\ cWord.top \in BlocksOf(Waiters)
  BY ConditionAssumption DEF CvTypes, CvWords
<1>2. \A t \in C!Callers : cStatus[t].top \in BlocksOf(Waiters) /\ cFirst[t] \in BlocksOf(Waiters)
  BY DEF CvTypes, CvWords
<1>3. C!Older \in LinksOf(Waiters) /\ Stopped(Waiters, cBack, cNotify, C!Older)
  BY <1>1, StopTypes DEF C!Older
<1>4. InChain \subseteq Waiters
  BY <1>1, MetClosed DEF InChain
<1>. QED  BY <1>1, <1>2, <1>3, <1>4 DEF C!Callers

(* The types.                                                              *)
LEMMA LinkedTypes ==
  ASSUME NEW f \in LinksOf(Waiters), NEW n \in LinksOf(Waiters), NEW b \in BlocksOf(Waiters)
  PROVE  Learned(Waiters, f, n, b) \in LinksOf(Waiters)
<1>1. ASSUME NEW w \in Waiters PROVE Learned(Waiters, f, n, b)[w] \in BlocksOf(Waiters)
  <2>1. CASE \E x \in Met(Waiters, f, b) : f[x] = w
    <3>1. Learned(Waiters, f, n, b)[w] \in Met(Waiters, f, b)
      BY <2>1 DEF Learned
    <3>. QED  BY <3>1, ConditionAssumption, MetClosed DEF BlocksOf
  <2>2. CASE ~ \E x \in Met(Waiters, f, b) : f[x] = w
    <3>1. Learned(Waiters, f, n, b)[w] = n[w]
      BY <2>2 DEF Learned
    <3>. QED  BY <3>1 DEF LinksOf
  <2>. QED  BY <2>1, <2>2
<1>. QED  BY <1>1 DEF LinksOf, Learned

LEMMA CvLinkedIs == \A f, b : C!Linked(f, b) = Learned(Waiters, f, cNext, b)
BY ReachIs DEF C!Linked, Learned

LEMMA LinkOne ==
  ASSUME NEW f \in LinksOf(Waiters), NEW w, NEW b \in BlocksOf(Waiters)
  PROVE  [f EXCEPT ![w] = b] \in LinksOf(Waiters)
BY DEF LinksOf

LEMMA EndIs ==
  ASSUME NEW f \in LinksOf(Waiters), NEW b \in BlocksOf(Waiters), Ends(Waiters, f, b), b # Nil
  PROVE  /\ C!End(f, b) \in Met(Waiters, f, b) /\ f[C!End(f, b)] = Nil /\ C!End(f, b) \in Waiters
         /\ \A e \in Met(Waiters, f, b) : f[e] = Nil => e = C!End(f, b)
<1>1. C!End(f, b) = CHOOSE x \in Met(Waiters, f, b) : f[x] = Nil
  BY ReachIs DEF C!End
<1>2. C!End(f, b) \in Met(Waiters, f, b) /\ f[C!End(f, b)] = Nil
  BY <1>1 DEF Ends
<1>3. \A e \in Met(Waiters, f, b) : f[e] = Nil => e = C!End(f, b)
  BY <1>2, ConditionAssumption, MetOnce
<1>. QED  BY <1>2, <1>3, ConditionAssumption, MetClosed

(* What the holder of the list knows of the block it starts from.          *)
LEMMA HolderBlock ==
  ASSUME CvInv, NEW h \in C!Callers, cPc[h] \in Holding
  PROVE  /\ cWord.busy /\ cWord.top # Nil /\ cWord.top \in Waiters
         /\ Passes(Waiters, cBack, cNext, C!Older, cWord.top, cStatus[h].top)
         /\ cStatus[h].top \in Met(Waiters, C!Older, cWord.top)
         /\ cStatus[h].top \in Waiters /\ cStatus[h].top \in InChain
         /\ Met(Waiters, cBack, cStatus[h].top) \subseteq InChain
         /\ Ends(Waiters, cBack, cWord.top) /\ Ends(Waiters, C!Older, cWord.top)
         /\ Ends(Waiters, cBack, cStatus[h].top) /\ Ends(Waiters, C!Older, cStatus[h].top)
<1>1. /\ cWord.busy /\ Passes(Waiters, cBack, cNext, C!Older, cWord.top, cStatus[h].top)
      /\ cStatus[h].top \in Met(Waiters, C!Older, cWord.top)
  BY DEF CvInv, CvHolder, Passes
<1>2. cWord.top # Nil /\ cWord.top \in Waiters
  BY <1>1, CvListTypes DEF CvInv, CvWord, BlocksOf
<1>3. Ends(Waiters, cBack, cWord.top)
  BY DEF CvInv, CvList
<1>4. CvTypes
  BY DEF CvInv
<1>. QED  BY <1>1, <1>2, <1>3, <1>4, CvListTypes, StoppedIn DEF InChain

LEMMA OldestType ==
  ASSUME CvInv, NEW h \in C!Callers, cPc[h] \in Holding
  PROVE  /\ C!Oldest(cStatus[h].top) \in BlocksOf(Waiters)
         /\ C!Linked(C!Older, cStatus[h].top) \in LinksOf(Waiters)
<1>1. CvTypes /\ C!Older \in LinksOf(Waiters) /\ cNext \in LinksOf(Waiters) /\ cNotify \in LinksOf(Waiters)
      /\ cStatus[h].top \in BlocksOf(Waiters)
  BY CvListTypes DEF CvInv
<1>2. C!End(C!Older, cStatus[h].top) \in Waiters
  BY <1>1, HolderBlock, EndIs, ConditionAssumption
<1>3. C!Oldest(cStatus[h].top) \in BlocksOf(Waiters)
  BY <1>1, <1>2 DEF C!Oldest, LinksOf
<1>4. C!Linked(C!Older, cStatus[h].top) \in LinksOf(Waiters)
  BY <1>1, CvLinkedIs, LinkedTypes
<1>. QED  BY <1>3, <1>4

LEMMA ExchangeTypes ==
  ASSUME CvTypes, NEW t \in C!Callers, NEW word \in CvWords, NEW yes \in CvLabels, NEW no \in CvLabels,
         C!Exchange(t, word, yes, no)
  PROVE  cWord' \in CvWords /\ cStatus' \in [C!Callers -> CvWords] /\ cPc' \in [C!Callers -> CvLabels]
BY DEF CvTypes, C!Exchange, C!Goto

LEMMA CvWordTypes ==
  /\ C!Empty \in CvWords
  /\ \A word \in CvWords : \A b \in BlocksOf(Waiters) :
       /\ [word EXCEPT !.top = b] \in CvWords
       /\ [word EXCEPT !.busy = TRUE] \in CvWords
       /\ [word EXCEPT !.wakes = C!All] \in CvWords
       /\ word.wakes # C!All => [word EXCEPT !.wakes = @ + 1] \in CvWords
<1>1. C!Empty \in CvWords
  BY DEF C!Empty, CvWords, BlocksOf
<1>2. ASSUME NEW word \in CvWords, NEW b \in BlocksOf(Waiters) PROVE [word EXCEPT !.top = b] \in CvWords
  BY <1>2 DEF CvWords
<1>3. ASSUME NEW word \in CvWords PROVE [word EXCEPT !.busy = TRUE] \in CvWords
  BY <1>3 DEF CvWords
<1>4. ASSUME NEW word \in CvWords PROVE [word EXCEPT !.wakes = C!All] \in CvWords
  BY <1>4 DEF CvWords, C!All
<1>5. ASSUME NEW word \in CvWords, word.wakes # C!All PROVE [word EXCEPT !.wakes = @ + 1] \in CvWords
  <2>1. word.wakes \in 0..7 /\ word.wakes # 7
    BY <1>5 DEF CvWords, C!All
  <2>2. word.wakes + 1 \in 0..7
    BY <2>1
  <2>. QED  BY <1>5, <2>2 DEF CvWords
<1>. QED  BY <1>1, <1>2, <1>3, <1>4, <1>5

LEMMA AppendedTypes ==
  ASSUME CvTypes, NEW t \in C!Callers, NEW b \in BlocksOf(Waiters), NEW k \in LinksOf(Waiters)
  PROVE  C!Appended(t, b, k) \in LinksOf(Waiters)
BY LinkOne DEF C!Appended

LEMMA CvTypesStep ==
  ASSUME CvInv, NEW t \in C!Callers, C!Call(t) \/ C!Step(t)
  PROVE  CvTypes'
<1>0. /\ CvTypes
      /\ C!Older \in LinksOf(Waiters) /\ cStatus[t].top \in BlocksOf(Waiters)
      /\ cWord.top \in BlocksOf(Waiters) /\ Nil \in BlocksOf(Waiters)
      /\ \A w \in Waiters : w \in BlocksOf(Waiters)
  BY CvListTypes DEF CvInv, BlocksOf
<1>. USE DEF CvTypes, C!Goto, C!links, C!local, C!history
<1>1. CASE t \in Waiters /\ C!Lock(t)
  BY <1>0, <1>1 DEF C!Lock, CvLabels
<1>2. CASE t \in Waiters /\ C!Push(t)
  <2>1. cWord' = [[cWord EXCEPT !.top = t] EXCEPT !.busy = cWord.busy \/ cWord.top # Nil]
    BY <1>2 DEF C!Push
  <2>2. cWord' \in CvWords
    <3>1. [cWord EXCEPT !.top = t] \in CvWords
      BY <1>0, <1>2, CvWordTypes
    <3>2. cWord' = [cWord EXCEPT !.top = t] \/ cWord' = [[cWord EXCEPT !.top = t] EXCEPT !.busy = TRUE]
      BY <1>0, <2>1, <3>1 DEF CvWords
    <3>3. \E word \in CvWords : cWord' = word \/ cWord' = [word EXCEPT !.busy = TRUE]
      BY <3>1, <3>2
    <3>. QED  BY <1>0, <3>3, CvWordTypes
  <2>3. cBack' \in LinksOf(Waiters) /\ cNext' \in LinksOf(Waiters) /\ cNotify' \in LinksOf(Waiters)
    BY <1>0, <1>2, LinkOne DEF C!Push
  <2>4. cStatus' \in [C!Callers -> CvWords]
    BY <1>0, <1>2, <2>2 DEF C!Push
  <2>5. cFlag' \in [Waiters -> BOOLEAN]
    BY <1>0, <1>2 DEF C!Push
  <2>6. cPc' \in [C!Callers -> CvLabels]
    BY <1>0, <1>2 DEF C!Push, CvLabels, Holding, Optimizing
  <2>. QED  BY <1>0, <1>2, <2>2, <2>3, <2>4, <2>5, <2>6 DEF C!Push
<1>3. CASE t \in Waiters /\ C!Unlock(t)
  BY <1>0, <1>3 DEF C!Unlock, CvLabels, Holding, Optimizing
<1>4. CASE t \in Waiters /\ C!FallAsleep(t)
  BY <1>0, <1>4 DEF C!FallAsleep, CvLabels
<1>5. CASE t \in Waiters /\ C!Timeout(t)
  BY <1>0, <1>5 DEF C!Timeout, CvLabels
<1>6. CASE t \in Waiters /\ C!Relock(t)
  BY <1>0, <1>6 DEF C!Relock, CvLabels
<1>7. CASE t \in Waiters /\ C!Leave(t)
  BY <1>0, <1>7 DEF C!Leave, CvLabels
<1>8. CASE t \in Waiters /\ C!Optimize(t)
  <2>1. cPc[t] \in Holding
    BY <1>8 DEF C!Optimize, Holding, Optimizing
  <2>2. cNext' \in LinksOf(Waiters) /\ cNotify' \in LinksOf(Waiters)
    BY <1>0, <1>8, <2>1, OldestType, LinkOne DEF C!Optimize
  <2>. QED  BY <1>0, <1>8, <2>2 DEF C!Optimize, CvLabels, Holding, Optimizing
<1>9. CASE t \in Waiters /\ C!OptimizeDone(t)
  <2>1. [C!Empty EXCEPT !.top = cStatus[t].top] \in CvWords
    BY <1>0, CvWordTypes
  <2>2. "spin" \in CvLabels /\ (IF cWord.wakes > 0 THEN "wake" ELSE "optimize") \in CvLabels
    BY DEF CvLabels, Holding, Optimizing, Gathering
  <2>3. cWord' \in CvWords /\ cStatus' \in [C!Callers -> CvWords] /\ cPc' \in [C!Callers -> CvLabels]
    BY <1>0, <1>9, <2>1, <2>2, ExchangeTypes DEF C!OptimizeDone
  <2>. QED  BY <1>0, <1>9, <2>3 DEF C!OptimizeDone
<1>10. CASE C!WakeAllAsked(t)
  <2>1. cBack' \in LinksOf(Waiters)
    BY <1>0, <1>10, AppendedTypes DEF C!WakeAllAsked
  <2>2. cFirst' \in [C!Callers -> BlocksOf(Waiters)]
    BY <1>0, <1>10 DEF C!WakeAllAsked, C!Take
  <2>. QED  BY <1>0, <1>10, <2>1, <2>2, CvWordTypes DEF C!WakeAllAsked, CvLabels, Emptying
<1>11. CASE C!FindOldest(t)
  <2>1. cPc[t] \in Holding
    BY <1>11 DEF C!FindOldest, Holding, Gathering
  <2>2. cNext' \in LinksOf(Waiters) /\ cOldest' \in [C!Callers -> BlocksOf(Waiters)]
    BY <1>0, <1>11, <2>1, OldestType DEF C!FindOldest
  <2>. QED  BY <1>0, <1>11, <2>2 DEF C!FindOldest, CvLabels, Holding, Gathering
<1>12. CASE C!TakeOldest(t)
  <2>1. cOldest[t] \in BlocksOf(Waiters) /\ cNext[cOldest[t]] \in BlocksOf(Waiters)
    <3>1. cPc[t] \in Holding
      BY <1>12 DEF C!TakeOldest, Holding, Gathering
    <3>2. cOldest[t] \in Waiters
      BY <1>0, <1>12, <3>1, CvListTypes, MetClosed DEF C!TakeOldest, CvInv, CvHolder
    <3>. QED  BY <1>0, <3>2 DEF LinksOf
  <2>2. cBack' \in LinksOf(Waiters)
    <3>1. [cBack EXCEPT ![cOldest[t]] = Nil, ![cNext[cOldest[t]]] = Nil] \in LinksOf(Waiters)
      BY <1>0, LinkOne
    <3>. QED  BY <1>0, <1>12, <2>1, <3>1, AppendedTypes DEF C!TakeOldest
  <2>3. cNotify' \in LinksOf(Waiters)
    BY <1>0, <1>12, <2>1, LinkOne DEF C!TakeOldest
  <2>4. cFirst' \in [C!Callers -> BlocksOf(Waiters)] /\ cOldest' \in [C!Callers -> BlocksOf(Waiters)]
    BY <1>0, <1>12, <2>1 DEF C!TakeOldest, C!Take
  <2>5. cCount' \in [C!Callers -> Nat]
    BY <1>0, <1>12 DEF C!TakeOldest
  <2>6. cOwed' \in Nat
    BY <1>0, <1>12 DEF C!TakeOldest, C!OwedAfter
  <2>7. cPc' \in [C!Callers -> CvLabels]
    <3>1. \E label \in {"take", "wakeCas"} : cPc' = [cPc EXCEPT ![t] = label]
      BY <1>12 DEF C!TakeOldest
    <3>. QED  BY <1>0, <3>1 DEF CvLabels, Holding, Gathering
  <2>8. UNCHANGED <<cWord, cNext, cFlag, cStatus, cNew, cWanted, cWakee, cGone, cTimed, cExpired>>
    BY <1>12 DEF C!TakeOldest
  <2>. QED  BY <1>0, <2>2, <2>3, <2>4, <2>5, <2>6, <2>7, <2>8
<1>13. CASE C!GiveListBack(t)
  <2>1. [C!Empty EXCEPT !.top = cStatus[t].top] \in CvWords
    BY <1>0, CvWordTypes
  <2>2. "signal" \in CvLabels /\ "wake" \in CvLabels
    BY DEF CvLabels, Emptying, Gathering
  <2>3. cWord' \in CvWords /\ cStatus' \in [C!Callers -> CvWords] /\ cPc' \in [C!Callers -> CvLabels]
    BY <1>0, <1>13, <2>1, <2>2, ExchangeTypes DEF C!GiveListBack
  <2>. QED  BY <1>0, <1>13, <2>3 DEF C!GiveListBack
<1>14. CASE C!TakeLast(t)
  <2>1. "signal" \in CvLabels /\ "wake" \in CvLabels
    BY DEF CvLabels, Emptying, Gathering
  <2>2. cWord' \in CvWords /\ cStatus' \in [C!Callers -> CvWords] /\ cPc' \in [C!Callers -> CvLabels]
    BY <1>0, <1>14, <2>1, CvWordTypes, ExchangeTypes DEF C!TakeLast
  <2>3. cBack' \in LinksOf(Waiters)
    <3>1. [cBack EXCEPT ![cOldest[t]] = Nil] \in LinksOf(Waiters) /\ cOldest[t] \in BlocksOf(Waiters)
      BY <1>0, LinkOne
    <3>. QED  BY <1>0, <1>14, <3>1, AppendedTypes DEF C!TakeLast
  <2>4. cFirst' \in [C!Callers -> BlocksOf(Waiters)]
    BY <1>0, <1>14 DEF C!TakeLast, C!Take
  <2>5. cOwed' \in Nat
    BY <1>0, <1>14 DEF C!TakeLast, C!OwedAfter
  <2>. QED  BY <1>0, <1>14, <2>2, <2>3, <2>4, <2>5 DEF C!TakeLast
<1>15. CASE C!Signal(t)
  <2>1. cFirst[t] \in Waiters
    BY <1>0, <1>15 DEF C!Signal, BlocksOf
  <2>2. cBack[cFirst[t]] \in BlocksOf(Waiters)
    BY <1>0, <2>1 DEF LinksOf
  <2>. QED  BY <1>0, <1>15, <2>1, <2>2 DEF C!Signal, CvLabels, Emptying
<1>16. CASE C!Finish(t)
  <2>1. C!After(t) \in CvLabels
    BY DEF C!After, CvLabels
  <2>. QED  BY <1>0, <1>16, <2>1 DEF C!Finish
<1>17. CASE C!ReleaseEvent(t)
  BY <1>0, <1>17 DEF C!ReleaseEvent, CvLabels, Emptying
<1>18. CASE t \in Waiters /\ C!LeaveList(t)
  <2>1. cWord' \in CvWords
    BY <1>0, <1>18, CvWordTypes DEF C!LeaveList
  <2>2. cStatus' \in [C!Callers -> CvWords] /\ cNew' \in [C!Callers -> CvWords]
    BY <1>0, <1>18, <2>1 DEF C!LeaveList
  <2>3. cPc' \in [C!Callers -> CvLabels]
    BY <1>0, <1>18 DEF C!LeaveList, CvLabels, Holding
  <2>. QED  BY <1>0, <1>18, <2>1, <2>2, <2>3 DEF C!LeaveList
<1>19. CASE t \in Waiters /\ C!RemoveTop(t)
  <2>. DEFINE word == IF cBack[t] = Nil THEN C!Empty ELSE [cNew[t] EXCEPT !.top = cBack[t]]
  <2>1. word \in CvWords
    <3>1. cBack[t] \in BlocksOf(Waiters) /\ cNew[t] \in CvWords
      BY <1>0, <1>19 DEF LinksOf
    <3>. QED  BY <3>1, CvWordTypes
  <2>2. /\ cNew' = [cNew EXCEPT ![t] = word]
        /\ \/ /\ cWord' = word /\ cStatus' = [cStatus EXCEPT ![t] = word] /\ cGone' = [cGone EXCEPT ![t] = TRUE]
              /\ \E label \in {"relock", "remove"} : cPc' = [cPc EXCEPT ![t] = label]
           \/ cStatus' = [cStatus EXCEPT ![t] = cWord] /\ UNCHANGED <<cWord, cGone, cPc>>
        /\ cOwed' = C!OwedAfter(cWord', 0)
        /\ UNCHANGED <<C!links, cFlag, cWanted, cOldest, cFirst, cWakee, cCount, cTimed, cExpired>>
    BY <1>19 DEF C!RemoveTop
  <2>. HIDE DEF word
  <2>3. cWord' \in CvWords /\ cStatus' \in [C!Callers -> CvWords] /\ cGone' \in [C!Callers -> BOOLEAN]
    BY <1>0, <2>1, <2>2
  <2>4. cPc' \in [C!Callers -> CvLabels]
    BY <1>0, <2>2 DEF CvLabels, Holding
  <2>5. cOwed' \in Nat
    BY <1>0, <2>2 DEF C!OwedAfter
  <2>. QED  BY <1>0, <2>1, <2>2, <2>3, <2>4, <2>5
<1>20. CASE t \in Waiters /\ C!RemoveInside(t)
  <2>. DEFINE b == cStatus[t].top
              kept == [x \in Waiters |-> IF x \in C!Chain(b) /\ cBack[x] = t THEN cBack[t] ELSE cBack[x]]
  <2>1. kept \in LinksOf(Waiters)
    BY <1>0, <1>20 DEF LinksOf
  <2>2. cPc[t] \in Holding
    BY <1>20 DEF C!RemoveInside, Holding
  <2>3. b \in BlocksOf(Waiters) /\ b # Nil /\ b \in Waiters
    BY <1>0, <2>2, HolderBlock, ConditionAssumption
  <2>4. /\ cBack' = kept /\ cNext' = [C!Linked(kept, b) EXCEPT ![b] = Nil]
        /\ cNotify' = [cNotify EXCEPT ![b] = C!End(kept, b)]
        /\ cGone' = [cGone EXCEPT ![t] = cGone[t] \/ t \in C!Chain(b)]
        /\ cWanted' = [cWanted EXCEPT ![t] = 0] /\ cCount' = [cCount EXCEPT ![t] = 0]
        /\ cPc' = [cPc EXCEPT ![t] = "wake"]
        /\ UNCHANGED <<cWord, cFlag, cStatus, cNew, cOldest, cFirst, cWakee, C!history>>
    BY <1>20 DEF C!RemoveInside
  <2>5. C!End(kept, b) \in Waiters
    <3>1. /\ Stopped(Waiters, cBack, cNotify, C!Older) /\ Ends(Waiters, cBack, b)
      BY <1>0, <2>2, HolderBlock, CvListTypes
    <3>2. C!Chain(b) = Met(Waiters, cBack, b)
      BY ReachIs DEF C!Chain
    <3>3. \A x \in Waiters : kept[x] = IF x \in Met(Waiters, cBack, b) /\ cBack[x] = t THEN cBack[t] ELSE cBack[x]
      BY <3>2
    <3>. HIDE DEF kept, b
    <3>4. Ends(Waiters, kept, b)
      <4>1. t \in Waiters /\ b # t
        BY <1>20 DEF C!RemoveInside, b
      <4>. QED  BY <1>0, <2>1, <2>3, <3>1, <3>3, <4>1, SkipEnds, ConditionAssumption
    <3>. QED  BY <2>1, <2>3, <3>4, EndIs
  <2>6. cNext' \in LinksOf(Waiters) /\ cNotify' \in LinksOf(Waiters)
    <3>1. C!Linked(kept, b) \in LinksOf(Waiters)
      <4>. HIDE DEF kept, b
      <4>1. C!Linked(kept, b) = Learned(Waiters, kept, cNext, b)
        BY CvLinkedIs
      <4>2. cNext \in LinksOf(Waiters)
        BY <1>0
      <4>. QED  BY <2>1, <2>3, <4>1, <4>2, LinkedTypes
    <3>2. C!End(kept, b) \in BlocksOf(Waiters)
      BY <1>0, <2>5
    <3>. HIDE DEF kept, b
    <3>. QED  BY <1>0, <2>4, <3>1, <3>2, LinkOne
  <2>7. cGone' \in [C!Callers -> BOOLEAN] /\ cWanted' \in [C!Callers -> Nat] /\ cCount' \in [C!Callers -> Nat]
    <3>. HIDE DEF kept, b
    <3>. QED  BY <1>0, <2>4
  <2>8. cPc' \in [C!Callers -> CvLabels]
    BY <1>0, <2>4 DEF CvLabels, Emptying, Gathering
  <2>. QED  BY <1>0, <2>1, <2>4, <2>6, <2>7, <2>8
<1>21. CASE t \in Wakers /\ C!WakeOne(t)
  <2>1. cWord' \in CvWords
    <3>1. \/ cWord' = cWord
          \/ cWord.wakes # C!All /\ cWord' = [cWord EXCEPT !.wakes = @ + 1]
          \/ cWord' = [cWord EXCEPT !.busy = TRUE]
      BY <1>21 DEF C!WakeOne
    <3>. QED  BY <1>0, <3>1, CvWordTypes
  <2>2. cStatus' \in [C!Callers -> CvWords] /\ cWanted' \in [C!Callers -> Nat] /\ cCount' \in [C!Callers -> Nat]
        /\ cFirst' \in [C!Callers -> BlocksOf(Waiters)]
    BY <1>0, <1>21, <2>1 DEF C!WakeOne, C!Return
  <2>3. cPc' \in [C!Callers -> CvLabels]
    BY <1>0, <1>21 DEF C!WakeOne, C!Return, CvLabels, Emptying, Gathering
  <2>4. cOwed' \in Nat
    <3>1. C!Cardinality(Waiters) \in Nat
      BY ConditionAssumption, CardinalityIs, FS_CardinalityType
    <3>. QED  BY <1>0, <1>21, <3>1 DEF C!WakeOne, C!Min2
  <2>. QED  BY <1>0, <1>21, <2>1, <2>2, <2>3, <2>4 DEF C!WakeOne
<1>22. CASE t \in Wakers /\ C!WakeEverybody(t)
  <2>1. cWord' \in CvWords
    BY <1>0, <1>22, CvWordTypes DEF C!WakeEverybody
  <2>2. cStatus' \in [C!Callers -> CvWords] /\ cWanted' \in [C!Callers -> Nat] /\ cCount' \in [C!Callers -> Nat]
        /\ cFirst' \in [C!Callers -> BlocksOf(Waiters)]
    BY <1>0, <1>22, <2>1 DEF C!WakeEverybody, C!Return
  <2>3. cPc' \in [C!Callers -> CvLabels]
    BY <1>0, <1>22 DEF C!WakeEverybody, C!Return, CvLabels, Emptying
  <2>4. cOwed' \in Nat
    BY <1>0, <1>22 DEF C!WakeEverybody, C!OwedAfter
  <2>. QED  BY <1>0, <1>22, <2>1, <2>2, <2>3, <2>4 DEF C!WakeEverybody
<1>. QED
  BY <1>1, <1>2, <1>3, <1>4, <1>5, <1>6, <1>7, <1>8, <1>9, <1>10, <1>11, <1>12, <1>13, <1>14,
     <1>15, <1>16, <1>17, <1>18, <1>19, <1>20, <1>21, <1>22 DEF C!Call, C!Step, C!Wake

LEMMA CvNumbers ==
  ASSUME CvTypes
  PROVE  /\ cWord.wakes \in 0..7 /\ cWord.busy \in BOOLEAN /\ cOwed \in Nat
         /\ \A t \in C!Callers : cStatus[t].wakes \in 0..7 /\ cWanted[t] \in Nat /\ cCount[t] \in Nat
BY DEF CvTypes, CvWords

LEMMA EmptyIs ==
  ASSUME CvTypes, CvWord
  PROVE  /\ cWord = C!Empty <=> cWord.top = Nil
         /\ C!Empty.top = Nil /\ C!Empty.busy = FALSE /\ C!Empty.wakes = 0
BY DEF CvTypes, CvWord, CvWords, C!Empty

(* The fields of the words the steps write.                                *)
LEMMA WordFields ==
  \A word \in CvWords : \A b :
    /\ [C!Empty EXCEPT !.top = b].top = b /\ [C!Empty EXCEPT !.top = b].busy = FALSE
    /\ [C!Empty EXCEPT !.top = b].wakes = 0
    /\ [word EXCEPT !.top = b].top = b /\ ([word EXCEPT !.top = b].busy <=> word.busy)
    /\ [word EXCEPT !.top = b].wakes = word.wakes
    /\ [word EXCEPT !.busy = TRUE].top = word.top /\ [word EXCEPT !.busy = TRUE].busy
    /\ [word EXCEPT !.busy = TRUE].wakes = word.wakes
    /\ [word EXCEPT !.wakes = C!All].top = word.top /\ ([word EXCEPT !.wakes = C!All].busy <=> word.busy)
    /\ [word EXCEPT !.wakes = C!All].wakes = 7
    /\ [word EXCEPT !.wakes = @ + 1].top = word.top
    /\ ([word EXCEPT !.wakes = @ + 1].busy <=> word.busy)
    /\ [word EXCEPT !.wakes = @ + 1].wakes = word.wakes + 1
BY DEF CvWords, C!Empty, C!All

(* A thread that sees the list again when an exchange fails.               *)
LEMMA NoHolder ==
  ASSUME CvInv, ~cWord.busy
  PROVE  \A h \in C!Callers : cPc[h] \notin Holding /\ cPc[h] \notin Optimizing /\ cPc[h] \notin Gathering
BY DEF CvInv, CvHolder, Holding

LEMMA OtherHolder ==
  ASSUME CvInv, NEW t \in C!Callers, cPc[t] \in Holding
  PROVE  \A h \in C!Callers : h # t => cPc[h] \notin Holding /\ cPc[h] \notin Optimizing /\ cPc[h] \notin Gathering
BY DEF CvInv, CvHolder, Holding

-----------------------------------------------------------------------------
(* What is owed.                                                           *)
OwedNow == (~cWord.busy => cOwed = 0) /\ \A h \in C!Callers : OwedAt(h)

(* Steps that change where threads are, and nothing that is counted.       *)
LEMMA OwedQuiet ==
  ASSUME CvInv, cTimed = {}, UNCHANGED <<cWord, cStatus, cWanted, cCount, cOwed>>,
         \A h \in C!Callers : (cPc'[h] \in Gathering => cPc'[h] = cPc[h])
                              /\ (cPc'[h] \in Optimizing => cPc[h] \in Optimizing)
  PROVE  OwedNow'
<1>1. OwedNow
  BY DEF CvInv, CvOwed, OwedNow
<1>2. ASSUME NEW h \in C!Callers PROVE OwedAt(h)'
  <2>1. OwedAt(h)
    BY <1>1 DEF OwedNow
  <2>2. /\ cPc'[h] \in {"take", "wakeCas"} => cPc'[h] = cPc[h]
        /\ cPc'[h] = "take" => cPc'[h] = cPc[h]
        /\ cPc'[h] = "wakeCas" => cPc'[h] = cPc[h]
    BY DEF Gathering
  <2>. QED  BY <2>1, <2>2 DEF OwedAt
<1>. QED  BY <1>1, <1>2 DEF OwedNow

(* Steps that take the list from the word, or give it back.                *)
LEMMA OwedFree ==
  ASSUME CvInv, ~cWord'.busy, cWord'.wakes = 0, cOwed' = 0,
         \A h \in C!Callers : cPc'[h] \notin Gathering /\ cPc'[h] \notin Optimizing
  PROVE  OwedNow'
<1>1. ASSUME NEW h \in C!Callers PROVE OwedAt(h)'
  BY DEF OwedAt, Gathering
<1>. QED  BY <1>1 DEF OwedNow

(* Steps of the holder, t.                                                 *)
LEMMA OwedHolder ==
  ASSUME CvInv, NEW t \in C!Callers, cWord'.busy, cWord'.top # Nil, OwedAt(t)',
         \A h \in C!Callers : h # t => cPc'[h] \notin Gathering /\ cPc'[h] \notin Optimizing
  PROVE  OwedNow'
<1>1. ASSUME NEW h \in C!Callers, h # t PROVE OwedAt(h)'
  BY <1>1 DEF OwedAt, Gathering
<1>. QED  BY <1>1 DEF OwedNow

(* Calls that find the list taken ask its holder for more.                 *)
LEMMA OwedAsked ==
  ASSUME CvInv, cTimed = {}, cWord.busy, cWord'.busy, cWord'.top # Nil, UNCHANGED <<cStatus, cWanted, cCount>>,
         cWord.wakes \in 0..7, cWord'.wakes \in 0..7, cOwed \in Nat, cOwed' \in Nat,
         cWord'.wakes = 7 \/ (cOwed' + cWord.wakes <= cOwed + cWord'.wakes /\ cWord.wakes <= cWord'.wakes),
         \A h \in C!Callers : cPc[h] \in Gathering \cup Optimizing => cPc'[h] = cPc[h],
         \A h \in C!Callers : cPc'[h] \in Gathering \cup Optimizing => cPc'[h] = cPc[h]
  PROVE  OwedNow'
<1>1. ASSUME NEW h \in C!Callers PROVE OwedAt(h)'
  <2>1. OwedAt(h)
    BY DEF CvInv, CvOwed
  <2>2. cStatus[h].wakes \in 0..7 /\ cWanted[h] \in Nat /\ cCount[h] \in Nat
    BY CvNumbers DEF CvInv
  <2>3. cWord.wakes = 7 => cWord'.wakes = 7
    OBVIOUS
  <2>4. CASE cPc'[h] \in Gathering \cup Optimizing
    <3>1. cPc'[h] = cPc[h]
      BY <2>4
    <3>2. (cPc[h] \in Optimizing => cStatus[h].wakes = 0 /\ (cWord.wakes = 7 \/ cOwed <= cWord.wakes))'
      BY <2>1, <2>3, <3>1 DEF OwedAt
    <3>3. (cPc[h] \in Gathering =>
              cStatus[h].wakes <= cWord.wakes /\ (cWord.wakes = 7 \/ cOwed + cCount[h] <= cWanted[h] + cWord.wakes))'
      <4>1. CASE cWord'.wakes = 7
        BY <2>2, <4>1
      <4>2. CASE cWord'.wakes # 7
        BY <2>1, <2>2, <2>3, <3>1, <4>2 DEF OwedAt
      <4>. QED  BY <4>1, <4>2
    <3>. QED  BY <2>1, <2>2, <3>1, <3>2, <3>3 DEF OwedAt
  <2>5. CASE cPc'[h] \notin Gathering \cup Optimizing
    BY <2>5 DEF OwedAt, Gathering
  <2>. QED  BY <2>4, <2>5
<1>. QED  BY <1>1 DEF OwedNow

LEMMA CvWordStep ==
  ASSUME CvInv, NEW t \in C!Callers, C!Call(t) \/ C!Step(t)
  PROVE  CvWord'
<1>0. /\ CvTypes /\ cWord \in CvWords /\ C!Empty \in CvWords
      /\ (cWord.top = Nil => ~cWord.busy) /\ (~cWord.busy => cWord.wakes = 0)
      /\ cWord = C!Empty <=> cWord.top = Nil
      /\ C!Empty.top = Nil /\ C!Empty.busy = FALSE /\ C!Empty.wakes = 0
  BY EmptyIs, CvWordTypes DEF CvInv, CvTypes, CvWord
<1>1. CASE UNCHANGED cWord
  BY <1>0, <1>1 DEF CvWord
<1>2. CASE cWord' = C!Empty
  BY <1>0, <1>2 DEF CvWord
<1>3. CASE \E b : cWord' = [C!Empty EXCEPT !.top = b]
  BY <1>3, WordFields, <1>0 DEF CvWord
<1>4. CASE cWord # C!Empty /\ cWord' = [cWord EXCEPT !.busy = TRUE]
  BY <1>0, <1>4, WordFields DEF CvWord
<1>5. CASE cWord # C!Empty /\ cWord.busy /\ (cWord' = [cWord EXCEPT !.wakes = C!All] \/ cWord' = [cWord EXCEPT !.wakes = @ + 1])
  <2>1. CASE cWord' = [cWord EXCEPT !.wakes = C!All]
    BY <1>0, <1>5, <2>1, WordFields DEF CvWord
  <2>2. CASE cWord' = [cWord EXCEPT !.wakes = @ + 1]
    <3>1. /\ [cWord EXCEPT !.wakes = @ + 1].top = cWord.top
          /\ ([cWord EXCEPT !.wakes = @ + 1].busy <=> cWord.busy)
      BY <1>0, WordFields
    <3>2. cWord'.top = cWord.top /\ (cWord'.busy <=> cWord.busy)
      BY <2>2, <3>1, Zenon
    <3>. QED  BY <1>0, <1>5, <3>2 DEF CvWord
  <2>. QED  BY <1>5, <2>1, <2>2
<1>6. CASE t \in Waiters /\ C!Push(t)
  <2>1. cWord'.top = t /\ (cWord'.busy <=> cWord.busy \/ cWord.top # Nil) /\ cWord'.wakes = cWord.wakes /\ t # Nil
    BY <1>0, <1>6, ConditionAssumption DEF C!Push, CvWords
  <2>. QED  BY <1>0, <2>1 DEF CvWord
<1>7. CASE t \in Waiters /\ C!RemoveTop(t)
  <2>1. CASE cBack[t] # Nil /\ cWord' = [cNew[t] EXCEPT !.top = cBack[t]]
    <3>1. cNew[t] \in CvWords /\ cPc[t] = "remove"
      BY <1>0, <1>7 DEF CvTypes, C!RemoveTop
    <3>2. cNew[t].busy
      BY <2>1, <3>1 DEF CvInv, CvHolder, Holding
    <3>3. cWord'.top = cBack[t] /\ cWord'.busy
      BY <2>1, <3>1, <3>2, WordFields
    <3>. QED  BY <2>1, <3>3 DEF CvWord
  <2>. QED  BY <1>1, <1>2, <1>7, <2>1 DEF C!RemoveTop
<1>8. CASE t \in Waiters /\ C!LeaveList(t)
  BY <1>0, <1>1, <1>4, <1>5, <1>8 DEF C!LeaveList, C!All
<1>9. CASE t \in Wakers /\ C!WakeOne(t)
  BY <1>1, <1>4, <1>5, <1>9 DEF C!WakeOne
<1>10. CASE t \in Wakers /\ C!WakeEverybody(t)
  BY <1>1, <1>2, <1>5, <1>10 DEF C!WakeEverybody
<1>11. CASE t \in Waiters /\ C!OptimizeDone(t)
  BY <1>1, <1>3, <1>11 DEF C!OptimizeDone, C!Exchange
<1>12. CASE C!GiveListBack(t)
  BY <1>1, <1>3, <1>12 DEF C!GiveListBack, C!Exchange
<1>13. CASE C!TakeLast(t)
  BY <1>1, <1>2, <1>13 DEF C!TakeLast, C!Exchange
<1>14. CASE C!WakeAllAsked(t)
  BY <1>2, <1>14 DEF C!WakeAllAsked
<1>15. CASE \/ C!Lock(t) \/ C!Unlock(t) \/ C!FallAsleep(t) \/ C!Timeout(t) \/ C!Relock(t) \/ C!Leave(t)
            \/ C!Optimize(t) \/ C!FindOldest(t) \/ C!TakeOldest(t) \/ C!Signal(t) \/ C!Finish(t)
            \/ C!ReleaseEvent(t) \/ C!RemoveInside(t)
  BY <1>1, <1>15 DEF C!Lock, C!Unlock, C!FallAsleep, C!Timeout, C!Relock, C!Leave, C!Optimize, C!FindOldest,
     C!TakeOldest, C!Signal, C!Finish, C!ReleaseEvent, C!RemoveInside
<1>. QED
  BY <1>6, <1>7, <1>8, <1>9, <1>10, <1>11, <1>12, <1>13, <1>14, <1>15 DEF C!Call, C!Step, C!Wake

LEMMA CvOwedStep ==
  ASSUME CvInv, NEW t \in C!Callers, C!Call(t) \/ C!Step(t), CvTypes'
  PROVE  CvOwed'
<1>. SUFFICES ASSUME cTimed = {} PROVE OwedNow'
  <2>1. cTimed' = cTimed
    BY DEF C!Call, C!Step, C!Wake, C!history, C!Lock, C!Unlock, C!FallAsleep, C!Timeout, C!Relock, C!Leave, C!Optimize,
       C!FindOldest, C!TakeOldest, C!Signal, C!Finish, C!ReleaseEvent, C!RemoveInside, C!Push, C!RemoveTop, C!LeaveList,
       C!WakeOne, C!WakeEverybody, C!OptimizeDone, C!GiveListBack, C!TakeLast, C!WakeAllAsked
  <2>. QED  BY <2>1 DEF CvOwed, OwedNow
<1>0. /\ CvTypes /\ cWord \in CvWords /\ C!Empty \in CvWords
      /\ (cWord.top = Nil => ~cWord.busy) /\ (~cWord.busy => cWord.wakes = 0 /\ cOwed = 0)
      /\ cWord = C!Empty <=> cWord.top = Nil
      /\ C!Empty.top = Nil /\ C!Empty.busy = FALSE /\ C!Empty.wakes = 0
      /\ cPc \in [C!Callers -> CvLabels] /\ cStatus \in [C!Callers -> CvWords]
      /\ cWord.wakes \in 0..7 /\ cOwed \in Nat
      /\ cWanted \in [C!Callers -> Nat] /\ cCount \in [C!Callers -> Nat]
      /\ \A h \in C!Callers : cStatus[h].wakes \in 0..7
  BY EmptyIs, CvWordTypes, CvNumbers DEF CvInv, CvTypes, CvWord, CvOwed
<1>a. OwedAt(t)
  BY DEF CvInv, CvOwed
<1>b. cPc[t] \in Holding => cWord.busy /\ \A h \in C!Callers : h # t => cPc[h] \notin Gathering /\ cPc[h] \notin Optimizing
  BY OtherHolder, HolderBlock
<1>c. ~cWord.busy => \A h \in C!Callers : cPc[h] \notin Gathering /\ cPc[h] \notin Optimizing
  BY NoHolder
<1>. USE DEF C!Goto, C!links, C!local, C!history
<1>1. CASE \/ C!Lock(t) \/ C!Unlock(t) \/ C!FallAsleep(t) \/ C!Timeout(t) \/ C!Relock(t) \/ C!Leave(t)
           \/ C!Optimize(t) \/ C!Signal(t) \/ C!Finish(t) \/ C!ReleaseEvent(t)
  <2>1. UNCHANGED <<cWord, cStatus, cWanted, cCount, cOwed>>
    BY <1>1 DEF C!Lock, C!Unlock, C!FallAsleep, C!Timeout, C!Relock, C!Leave, C!Optimize, C!Signal, C!Finish, C!ReleaseEvent
  <2>2. CASE C!ReleaseEvent(t)
    BY <1>0, <2>1, <2>2, OwedQuiet DEF C!ReleaseEvent, Gathering, Optimizing
  <2>3. CASE C!Unlock(t)
    BY <1>0, <2>1, <2>3, OwedQuiet DEF C!Unlock, Gathering, Optimizing
  <2>4. CASE C!Optimize(t)
    BY <1>0, <2>1, <2>4, OwedQuiet DEF C!Optimize, Gathering, Optimizing
  <2>5. CASE C!Finish(t)
    BY <1>0, <2>1, <2>5, OwedQuiet DEF C!Finish, C!After, Gathering, Optimizing
  <2>6. CASE C!Lock(t) \/ C!FallAsleep(t) \/ C!Timeout(t) \/ C!Relock(t) \/ C!Leave(t) \/ C!Signal(t)
    <3>1. \E label \in {"in", "keyed", "relock", "expired", "returned", "out", "signal", "release"} :
            cPc' = [cPc EXCEPT ![t] = label]
      BY <2>6 DEF C!Lock, C!FallAsleep, C!Timeout, C!Relock, C!Leave, C!Signal
    <3>. QED  BY <1>0, <2>1, <3>1, OwedQuiet DEF Gathering, Optimizing
  <2>. QED  BY <1>1, <2>2, <2>3, <2>4, <2>5, <2>6
<1>2. CASE t \in Waiters /\ C!Push(t)
  <2>1. /\ cWord'.top = t /\ (cWord'.busy <=> cWord.busy \/ cWord.top # Nil) /\ cWord'.wakes = cWord.wakes /\ t # Nil
        /\ cStatus' = [cStatus EXCEPT ![t] = cWord'] /\ UNCHANGED <<cWanted, cCount, cOwed>>
        /\ cPc[t] = "in"
        /\ cPc' = [cPc EXCEPT ![t] = IF cWord'.busy /\ ~cWord.busy THEN "unlockOptimize" ELSE "unlock"]
    BY <1>0, <1>2, ConditionAssumption DEF C!Push, CvWords
  <2>2. CASE cWord.busy
    <3>1. ASSUME NEW h \in C!Callers PROVE OwedAt(h)'
      <4>1. OwedAt(h)
        BY DEF CvInv, CvOwed
      <4>2. CASE h = t
        BY <1>0, <2>1, <2>2, <4>2 DEF OwedAt, Gathering, Optimizing
      <4>3. CASE h # t
        BY <1>0, <2>1, <4>1, <4>3 DEF OwedAt
      <4>. QED  BY <4>2, <4>3
    <3>. QED  BY <2>1, <2>2, <3>1 DEF OwedNow
  <2>3. CASE ~cWord.busy /\ cWord.top = Nil
    <3>1. \A h \in C!Callers : cPc'[h] \notin Gathering /\ cPc'[h] \notin Optimizing
      BY <1>0, <1>c, <2>1, <2>3 DEF Gathering, Optimizing
    <3>. QED  BY <1>0, <2>1, <2>3, <3>1, OwedFree
  <2>4. CASE ~cWord.busy /\ cWord.top # Nil
    <3>1. \A h \in C!Callers : h # t => cPc'[h] \notin Gathering /\ cPc'[h] \notin Optimizing
      BY <1>0, <1>c, <2>1, <2>4
    <3>2. cPc'[t] = "unlockOptimize" /\ cStatus'[t].wakes = 0 /\ cOwed' = 0 /\ cWord'.wakes = 0
      BY <1>0, <2>1, <2>4
    <3>3. OwedAt(t)'
      BY <3>2 DEF OwedAt, Gathering, Optimizing
    <3>. QED  BY <2>1, <2>4, <3>1, <3>3, OwedHolder
  <2>. QED  BY <2>2, <2>3, <2>4
<1>3. CASE t \in Waiters /\ C!OptimizeDone(t)
  <2>0. cPc[t] \in Holding /\ cPc[t] \in Optimizing
    BY <1>3 DEF C!OptimizeDone, Holding, Optimizing
  <2>1. cStatus[t].wakes = 0 /\ (cWord.wakes = 7 \/ cOwed <= cWord.wakes)
    BY <1>a, <2>0 DEF OwedAt
  <2>2. CASE cWord = cStatus[t]
    <3>1. cWord' = [C!Empty EXCEPT !.top = cStatus[t].top] /\ cPc' = [cPc EXCEPT ![t] = "spin"] /\ cOwed' = cOwed
      BY <1>3, <2>2 DEF C!OptimizeDone, C!Exchange
    <3>2. ~cWord'.busy /\ cWord'.wakes = 0 /\ cOwed' = 0
      BY <1>0, <2>1, <2>2, <3>1, WordFields
    <3>3. \A h \in C!Callers : cPc'[h] \notin Gathering /\ cPc'[h] \notin Optimizing
      BY <1>0, <1>b, <2>0, <3>1 DEF Gathering, Optimizing
    <3>. QED  BY <3>2, <3>3, OwedFree
  <2>3. CASE cWord # cStatus[t]
    <3>1. /\ cWord' = cWord /\ cStatus' = [cStatus EXCEPT ![t] = cWord] /\ cOwed' = cOwed
          /\ cWanted' = [cWanted EXCEPT ![t] = 0] /\ cCount' = [cCount EXCEPT ![t] = 0]
          /\ cPc' = [cPc EXCEPT ![t] = IF cWord.wakes > 0 THEN "wake" ELSE "optimize"]
      BY <1>3, <2>3 DEF C!OptimizeDone, C!Exchange
    <3>2. /\ cStatus'[t] = cWord /\ cWanted'[t] = 0 /\ cCount'[t] = 0
          /\ cPc'[t] = IF cWord.wakes > 0 THEN "wake" ELSE "optimize"
          /\ \A h \in C!Callers : h # t => cPc'[h] = cPc[h]
      BY <1>0, <3>1
    <3>3. OwedAt(t)'
      BY <1>0, <2>1, <3>1, <3>2 DEF OwedAt, Gathering, Optimizing
    <3>4. cWord'.busy /\ cWord'.top # Nil
      BY <1>0, <1>b, <2>0, <3>1
    <3>. QED  BY <1>b, <2>0, <3>2, <3>3, <3>4, OwedHolder
  <2>. QED  BY <2>2, <2>3
<1>4. CASE C!WakeAllAsked(t)
  <2>0. cPc[t] \in Holding
    BY <1>4 DEF C!WakeAllAsked, Holding, Gathering
  <2>1. cWord' = C!Empty /\ cOwed' = 0 /\ cPc' = [cPc EXCEPT ![t] = "signal"]
    BY <1>4 DEF C!WakeAllAsked
  <2>2. \A h \in C!Callers : cPc'[h] \notin Gathering /\ cPc'[h] \notin Optimizing
    BY <1>0, <1>b, <2>0, <2>1 DEF Gathering, Optimizing
  <2>. QED  BY <1>0, <2>1, <2>2, OwedFree
<1>5. CASE C!FindOldest(t)
  <2>0. cPc[t] \in Holding /\ cPc[t] \in Gathering
    BY <1>5 DEF C!FindOldest, Holding, Gathering
  <2>1. /\ UNCHANGED <<cWord, cStatus, cWanted, cCount, cOwed>> /\ cStatus[t].wakes < 7
        /\ cPc' = [cPc EXCEPT ![t] = IF cWanted[t] + cStatus[t].wakes > cCount[t] THEN "take" ELSE "wakeCas"]
    BY <1>5 DEF C!FindOldest, C!MaxWake, C!All
  <2>2. /\ cPc'[t] = IF cWanted[t] + cStatus[t].wakes > cCount[t] THEN "take" ELSE "wakeCas"
        /\ cWanted[t] \in Nat /\ cCount[t] \in Nat /\ cStatus[t].wakes \in 0..7
        /\ \A h \in C!Callers : h # t => cPc'[h] = cPc[h]
    BY <1>0, <2>1
  <2>3. OwedAt(t)'
    BY <1>a, <2>0, <2>1, <2>2 DEF OwedAt, Gathering, Optimizing
  <2>4. cWord'.busy /\ cWord'.top # Nil
    BY <1>0, <1>b, <2>0, <2>1
  <2>. QED  BY <1>b, <2>0, <2>2, <2>3, <2>4, OwedHolder
<1>6. CASE C!TakeOldest(t)
  <2>0. cPc[t] \in Holding /\ cPc[t] \in Gathering /\ cPc[t] = "take"
    BY <1>6 DEF C!TakeOldest, Holding, Gathering
  <2>1. /\ UNCHANGED <<cWord, cStatus, cWanted>>
        /\ cCount' = [cCount EXCEPT ![t] = cCount[t] + 1] /\ cOwed' = C!OwedAfter(cWord, 1)
        /\ cPc' = [cPc EXCEPT ![t] = IF C!MaxWake(t) > cCount'[t] THEN "take" ELSE "wakeCas"]
    BY <1>6 DEF C!TakeOldest
  <2>2. /\ cCount'[t] = cCount[t] + 1
        /\ cPc'[t] = IF cWanted[t] + cStatus[t].wakes > cCount'[t] THEN "take" ELSE "wakeCas"
        /\ cWanted[t] \in Nat /\ cCount[t] \in Nat /\ cStatus[t].wakes \in 0..7
        /\ \A h \in C!Callers : h # t => cPc'[h] = cPc[h]
    BY <1>0, <2>1 DEF C!MaxWake
  <2>3. cWord'.busy /\ cWord'.top # Nil
    BY <1>0, <1>b, <2>0, <2>1
  <2>4. cOwed' = IF 1 > cOwed THEN 0 ELSE cOwed - 1
    BY <2>1, <2>3 DEF C!OwedAfter
  <2>5. OwedAt(t)'
    BY <1>0, <1>a, <2>0, <2>1, <2>2, <2>4 DEF OwedAt, Gathering, Optimizing
  <2>. QED  BY <1>b, <2>0, <2>2, <2>3, <2>5, OwedHolder
<1>7. CASE C!GiveListBack(t)
  <2>0. cPc[t] \in Holding /\ cPc[t] \in Gathering /\ cPc[t] = "wakeCas"
    BY <1>7 DEF C!GiveListBack, Holding, Gathering
  <2>1. cWanted[t] \in Nat /\ cCount[t] \in Nat
    BY <1>0
  <2>2. CASE cWord = cStatus[t]
    <3>1. cWord' = [C!Empty EXCEPT !.top = cStatus[t].top] /\ cPc' = [cPc EXCEPT ![t] = "signal"] /\ cOwed' = cOwed
      BY <1>7, <2>2 DEF C!GiveListBack, C!Exchange
    <3>2. cOwed = 0
      BY <1>0, <1>a, <2>0, <2>1, <2>2 DEF OwedAt
    <3>3. ~cWord'.busy /\ cWord'.wakes = 0 /\ cOwed' = 0
      BY <1>0, <3>1, <3>2, WordFields
    <3>4. \A h \in C!Callers : cPc'[h] \notin Gathering /\ cPc'[h] \notin Optimizing
      BY <1>0, <1>b, <2>0, <3>1 DEF Gathering, Optimizing
    <3>. QED  BY <3>3, <3>4, OwedFree
  <2>3. CASE cWord # cStatus[t]
    <3>1. /\ UNCHANGED <<cWord, cOwed, cWanted, cCount>> /\ cStatus' = [cStatus EXCEPT ![t] = cWord]
          /\ cPc' = [cPc EXCEPT ![t] = "wake"]
      BY <1>7, <2>3 DEF C!GiveListBack, C!Exchange
    <3>2. cStatus'[t] = cWord /\ cPc'[t] = "wake" /\ \A h \in C!Callers : h # t => cPc'[h] = cPc[h]
      BY <1>0, <3>1
    <3>3. OwedAt(t)'
      BY <1>0, <1>a, <2>0, <2>1, <3>1, <3>2 DEF OwedAt, Gathering, Optimizing
    <3>4. cWord'.busy /\ cWord'.top # Nil
      BY <1>0, <1>b, <2>0, <3>1
    <3>. QED  BY <1>b, <2>0, <3>2, <3>3, <3>4, OwedHolder
  <2>. QED  BY <2>2, <2>3
<1>8. CASE C!TakeLast(t)
  <2>0. cPc[t] \in Holding /\ cPc[t] \in Gathering /\ cPc[t] = "take"
    BY <1>8 DEF C!TakeLast, Holding, Gathering
  <2>1. cWanted[t] \in Nat /\ cCount[t] \in Nat
    BY <1>0
  <2>2. CASE cWord = cStatus[t]
    <3>1. cWord' = C!Empty /\ cPc' = [cPc EXCEPT ![t] = "signal"] /\ cOwed' = C!OwedAfter(cWord', 0)
      BY <1>8, <2>2 DEF C!TakeLast, C!Exchange
    <3>2. ~cWord'.busy /\ cWord'.wakes = 0 /\ cOwed' = 0
      BY <1>0, <3>1 DEF C!OwedAfter
    <3>3. \A h \in C!Callers : cPc'[h] \notin Gathering /\ cPc'[h] \notin Optimizing
      BY <1>0, <1>b, <2>0, <3>1 DEF Gathering, Optimizing
    <3>. QED  BY <3>2, <3>3, OwedFree
  <2>3. CASE cWord # cStatus[t]
    <3>1. /\ UNCHANGED <<cWord, cWanted, cCount>> /\ cStatus' = [cStatus EXCEPT ![t] = cWord]
          /\ cPc' = [cPc EXCEPT ![t] = "wake"] /\ cOwed' = C!OwedAfter(cWord', 0)
      BY <1>8, <2>3 DEF C!TakeLast, C!Exchange
    <3>2. cStatus'[t] = cWord /\ cPc'[t] = "wake" /\ \A h \in C!Callers : h # t => cPc'[h] = cPc[h]
      BY <1>0, <3>1
    <3>3. cWord'.busy /\ cWord'.top # Nil /\ cOwed' = cOwed
      BY <1>0, <1>b, <2>0, <3>1 DEF C!OwedAfter
    <3>4. OwedAt(t)'
      BY <1>0, <1>a, <2>0, <2>1, <3>1, <3>2, <3>3 DEF OwedAt, Gathering, Optimizing
    <3>. QED  BY <1>b, <2>0, <3>2, <3>3, <3>4, OwedHolder
  <2>. QED  BY <2>2, <2>3
<1>9. CASE t \in Waiters /\ (C!LeaveList(t) \/ C!RemoveTop(t) \/ C!RemoveInside(t))
  <2>1. t \notin cExpired
    BY <1>0 DEF CvTypes
  <2>2. cPc[t] \in {"expired", "remove"}
    BY <1>9 DEF C!LeaveList, C!RemoveTop, C!RemoveInside
  <2>. QED  BY <1>9, <2>1, <2>2 DEF CvInv, CvPlaces, Clocks
<1>10. CASE t \in Wakers /\ C!WakeOne(t)
  <2>0. cPc[t] = "start" /\ t \notin WakesAll
    BY <1>10 DEF C!WakeOne
  <2>1. CASE cWord = C!Empty \/ cWord.wakes = C!All
    <3>1. UNCHANGED <<cWord, cOwed, cStatus, cWanted, cCount>> /\ cPc' = [cPc EXCEPT ![t] = "out"]
      BY <1>10, <2>1 DEF C!WakeOne, C!Return
    <3>. QED  BY <1>0, <3>1, OwedQuiet DEF Gathering, Optimizing
  <2>2. CASE cWord # C!Empty /\ cWord.wakes # C!All /\ cWord.busy
    <3>1. /\ UNCHANGED <<cStatus, cWanted, cCount>> /\ cPc' = [cPc EXCEPT ![t] = "out"]
          /\ cWord' = [cWord EXCEPT !.wakes = @ + 1] /\ cOwed' = C!Min2(cOwed + 1, C!Cardinality(Waiters))
      BY <1>10, <2>2 DEF C!WakeOne, C!Return
    <3>2. cWord'.top # Nil /\ cWord'.busy /\ cWord'.wakes = cWord.wakes + 1 /\ cWord.wakes # 7
      BY <1>0, <2>2, <3>1, WordFields DEF C!All
    <3>3. cOwed' \in Nat /\ cOwed' <= cOwed + 1
      <4>1. C!Cardinality(Waiters) \in Nat
        BY ConditionAssumption, CardinalityIs, FS_CardinalityType
      <4>. QED  BY <1>0, <3>1, <4>1 DEF C!Min2
    <3>4. /\ \A h \in C!Callers : cPc[h] \in Gathering \cup Optimizing => cPc'[h] = cPc[h]
          /\ \A h \in C!Callers : cPc'[h] \in Gathering \cup Optimizing => cPc'[h] = cPc[h]
      BY <1>0, <2>0, <3>1 DEF Gathering, Optimizing
    <3>. QED  BY <1>0, <2>2, <3>1, <3>2, <3>3, <3>4, OwedAsked
  <2>3. CASE cWord # C!Empty /\ cWord.wakes # C!All /\ ~cWord.busy
    <3>1. /\ cStatus' = [cStatus EXCEPT ![t] = cWord'] /\ cWanted' = [cWanted EXCEPT ![t] = 1]
          /\ cCount' = [cCount EXCEPT ![t] = 0] /\ cPc' = [cPc EXCEPT ![t] = "wake"]
          /\ cWord' = [cWord EXCEPT !.busy = TRUE] /\ cOwed' = C!Min2(cOwed + 1, C!Cardinality(Waiters))
      BY <1>10, <2>3 DEF C!WakeOne
    <3>2. cWord'.top # Nil /\ cWord'.busy /\ cWord'.wakes = 0
      BY <1>0, <2>3, <3>1, WordFields
    <3>3. cOwed' \in Nat /\ cOwed' <= 1
      <4>1. C!Cardinality(Waiters) \in Nat
        BY ConditionAssumption, CardinalityIs, FS_CardinalityType
      <4>. QED  BY <1>0, <2>3, <3>1, <4>1 DEF C!Min2
    <3>4. /\ cStatus'[t] = cWord' /\ cWanted'[t] = 1 /\ cCount'[t] = 0 /\ cPc'[t] = "wake"
          /\ \A h \in C!Callers : h # t => cPc'[h] = cPc[h]
      BY <1>0, <3>1
    <3>5. OwedAt(t)'
      <4>1. cStatus'[t].wakes = 0
        BY <3>2, <3>4, Zenon
      <4>2. cOwed' + cCount'[t] <= cWanted'[t] + cWord'.wakes
        <5>1. cOwed' = 0 \/ cOwed' = 1
          BY <3>3
        <5>. QED  BY <3>2, <3>4, <5>1
      <4>. QED  BY <3>2, <3>4, <4>1, <4>2 DEF OwedAt, Gathering, Optimizing
    <3>. QED  BY <1>c, <2>3, <3>2, <3>4, <3>5, OwedHolder
  <2>. QED  BY <2>1, <2>2, <2>3
<1>11. CASE t \in Wakers /\ C!WakeEverybody(t)
  <2>0. cPc[t] = "start"
    BY <1>11 DEF C!WakeEverybody
  <2>1. CASE cWord = C!Empty
    <3>1. cWord' = cWord /\ cOwed' = C!OwedAfter(cWord', 0) /\ cPc' = [cPc EXCEPT ![t] = "out"]
      BY <1>11, <2>1 DEF C!WakeEverybody, C!Return
    <3>2. ~cWord'.busy /\ cWord'.wakes = 0 /\ cOwed' = 0
      BY <1>0, <2>1, <3>1 DEF C!OwedAfter
    <3>3. \A h \in C!Callers : cPc'[h] \notin Gathering /\ cPc'[h] \notin Optimizing
      BY <1>0, <1>c, <2>1, <3>1 DEF Gathering, Optimizing
    <3>. QED  BY <3>2, <3>3, OwedFree
  <2>2. CASE cWord # C!Empty /\ cWord.busy
    <3>1. /\ UNCHANGED <<cStatus, cWanted, cCount>> /\ cPc' = [cPc EXCEPT ![t] = "out"]
          /\ cWord' = [cWord EXCEPT !.wakes = C!All]
      BY <1>11, <2>2 DEF C!WakeEverybody, C!Return
    <3>2. cWord'.top # Nil /\ cWord'.busy /\ cWord'.wakes = 7
      BY <1>0, <2>2, <3>1, WordFields
    <3>3. cOwed' \in Nat
      BY DEF CvTypes
    <3>4. /\ \A h \in C!Callers : cPc[h] \in Gathering \cup Optimizing => cPc'[h] = cPc[h]
          /\ \A h \in C!Callers : cPc'[h] \in Gathering \cup Optimizing => cPc'[h] = cPc[h]
      BY <1>0, <2>0, <3>1 DEF Gathering, Optimizing
    <3>. QED  BY <1>0, <2>2, <3>1, <3>2, <3>3, <3>4, OwedAsked
  <2>3. CASE cWord # C!Empty /\ ~cWord.busy
    <3>1. cWord' = C!Empty /\ cPc' = [cPc EXCEPT ![t] = "signal"] /\ cOwed' = C!OwedAfter(cWord', 0)
      BY <1>11, <2>3 DEF C!WakeEverybody
    <3>2. ~cWord'.busy /\ cWord'.wakes = 0 /\ cOwed' = 0
      BY <1>0, <3>1 DEF C!OwedAfter
    <3>3. \A h \in C!Callers : cPc'[h] \notin Gathering /\ cPc'[h] \notin Optimizing
      BY <1>0, <1>c, <2>3, <3>1 DEF Gathering, Optimizing
    <3>. QED  BY <3>2, <3>3, OwedFree
  <2>. QED  BY <2>1, <2>2, <2>3
<1>. QED
  BY <1>1, <1>2, <1>3, <1>4, <1>5, <1>6, <1>7, <1>8, <1>9, <1>10, <1>11 DEF C!Call, C!Step, C!Wake

-----------------------------------------------------------------------------
(* The list and its holder.                                                *)
LEMMA NewestFresh ==
  ASSUME CvInv, NEW h \in C!Callers, cPc[h] \in Holding, cPc[h] # "remove"
  PROVE  cNext[cWord.top] = Nil
<1>1. /\ cWord.top # Nil /\ cWord.top \in Waiters /\ cStatus[h].top \in InChain
      /\ Passes(Waiters, cBack, cNext, C!Older, cWord.top, cStatus[h].top)
      /\ Ends(Waiters, cBack, cWord.top)
  BY HolderBlock
<1>2. Nil \notin Waiters /\ cBack \in LinksOf(Waiters) /\ cWord.top \in BlocksOf(Waiters)
  BY CvListTypes DEF CvInv
<1>3. cNext[cStatus[h].top] = Nil
  BY DEF CvInv, CvHolder
<1>4. cWord.top \in Met(Waiters, cBack, cWord.top)
  BY <1>1, <1>2, MetClosed
<1>5. CASE cWord.top \in Met(Waiters, cBack, cStatus[h].top)
  <2>1. cWord.top = cStatus[h].top
    BY <1>1, <1>2, <1>4, <1>5, MetAnti DEF InChain
  <2>. QED  BY <1>3, <2>1
<1>6. CASE cWord.top \notin Met(Waiters, cBack, cStatus[h].top)
  BY <1>1, <1>4, <1>6 DEF Passes
<1>. QED  BY <1>5, <1>6

(* Steps that change neither the links nor the newest block.               *)
LEMMA CvListSame ==
  ASSUME CvInv, UNCHANGED <<cBack, cNotify, cNext>>, cWord'.top = cWord.top,
         cWord.top # Nil /\ ~cWord'.busy => cNext[cWord.top] = Nil,
         (\A h \in C!Callers : cPc'[h] # "remove") => \A h \in C!Callers : cPc[h] # "remove",
         \A h \in C!Callers : cPc'[h] \in Holding =>
           /\ cWord'.busy
           /\ \A u \in C!Callers : cPc'[u] \in Holding => u = h
           /\ \/ cPc[h] \in Holding /\ cStatus'[h].top = cStatus[h].top /\ (cPc[h] = "remove" <=> cPc'[h] = "remove")
              \/ cWord.top # Nil /\ cStatus'[h].top = cWord.top /\ (cPc'[h] # "remove" => cNext[cWord.top] = Nil)
           /\ cPc'[h] = "remove" /\ cBack[h] # Nil => cNew'[h].busy
           /\ cPc'[h] = "take" =>
                 cPc[h] = "take" /\ cOldest'[h] = cOldest[h] /\ cStatus'[h].top = cStatus[h].top
  PROVE  CvHolder' /\ CvList'
<1>1. /\ Nil \notin Waiters /\ cBack \in LinksOf(Waiters) /\ C!Older \in LinksOf(Waiters)
      /\ cWord.top \in BlocksOf(Waiters) /\ C!Older' = C!Older /\ Stopped(Waiters, cBack, cNotify, C!Older)
      /\ Ends(Waiters, cBack, cWord.top)
  BY CvListTypes DEF CvInv, C!Older, CvList
<1>2. CvList'
  BY <1>1 DEF CvInv, CvList, CvKnown
<1>3. cWord.top # Nil => Passes(Waiters, cBack, cNext, C!Older, cWord.top, cWord.top)
  <2>1. cWord.top # Nil => cWord.top \in Met(Waiters, C!Older, cWord.top)
    BY <1>1, MetClosed
  <2>. QED  BY <2>1 DEF Passes
<1>4. ASSUME NEW h \in C!Callers, cPc'[h] \in Holding
      PROVE  /\ Passes(Waiters, cBack, cNext, C!Older, cWord.top, cStatus'[h].top)
             /\ cPc'[h] # "remove" => cNext[cStatus'[h].top] = Nil
             /\ cPc'[h] = "take" =>
                   /\ cOldest'[h] \in Met(Waiters, cBack, cStatus'[h].top) /\ cBack[cOldest'[h]] = Nil
                   /\ Mended(Waiters, cBack, cNext, cStatus'[h].top)
  <2>1. CASE cPc[h] \in Holding /\ cStatus'[h].top = cStatus[h].top /\ (cPc[h] = "remove" <=> cPc'[h] = "remove")
    BY <1>4, <2>1 DEF CvInv, CvHolder
  <2>2. CASE cWord.top # Nil /\ cStatus'[h].top = cWord.top /\ (cPc'[h] # "remove" => cNext[cWord.top] = Nil)
    <3>1. cPc'[h] = "take" =>
                   /\ cOldest'[h] \in Met(Waiters, cBack, cStatus'[h].top) /\ cBack[cOldest'[h]] = Nil
                   /\ Mended(Waiters, cBack, cNext, cStatus'[h].top)
      BY <1>4 DEF CvInv, CvHolder, Holding, Gathering
    <3>. QED  BY <1>3, <2>2, <3>1
  <2>. QED  BY <1>4, <2>1, <2>2
<1>5. CvHolder'
  BY <1>1, <1>4 DEF CvHolder
<1>. QED  BY <1>2, <1>5

(* Steps of others, and of the holder on its way to its walk.              *)
LEMMA ListQuiet ==
  ASSUME CvInv, UNCHANGED <<cBack, cNotify, cNext, cStatus, cOldest, cNew>>,
         cWord'.top = cWord.top, cWord'.busy <=> cWord.busy,
         \A h \in C!Callers : (cPc[h] = "remove" <=> cPc'[h] = "remove") /\ (cPc'[h] = "take" => cPc[h] = "take"),
         \A h \in C!Callers : cPc'[h] \in Holding => cPc[h] \in Holding
  PROVE  CvHolder' /\ CvList'
<1>1. cWord.top # Nil /\ ~cWord'.busy => cNext[cWord.top] = Nil
  BY DEF CvInv, CvList
<1>2. (\A h \in C!Callers : cPc'[h] # "remove") => \A h \in C!Callers : cPc[h] # "remove"
  OBVIOUS
<1>3. ASSUME NEW h \in C!Callers, cPc'[h] \in Holding
      PROVE  /\ cWord'.busy
             /\ \A u \in C!Callers : cPc'[u] \in Holding => u = h
             /\ cPc[h] \in Holding /\ cStatus'[h].top = cStatus[h].top /\ (cPc[h] = "remove" <=> cPc'[h] = "remove")
             /\ cPc'[h] = "remove" /\ cBack[h] # Nil => cNew'[h].busy
             /\ cPc'[h] = "take" =>
                   cPc[h] = "take" /\ cOldest'[h] = cOldest[h] /\ cStatus'[h].top = cStatus[h].top
  BY <1>3 DEF CvInv, CvHolder
<1>. QED  BY <1>1, <1>2, <1>3, CvListSame

-----------------------------------------------------------------------------
(* Where the blocks are.                                                   *)
InPlace(w) == w \in InChain \/ \E u \in C!Callers : w \in Gathered(u)

LEMMA PlacedSleeps ==
  ASSUME CvInv, NEW w \in Waiters, InPlace(w)
  PROVE  Sleeps(w)
BY DEF CvInv, CvPlaces, Placed, InPlace

(* Blocks go from the list to t, or leave.                                 *)
LEMMA PlacesMove ==
  ASSUME CvInv, NEW t \in C!Callers, InChain' \subseteq InChain, InChain' \subseteq Waiters,
         \A u \in C!Callers : u # t => Gathered(u)' \subseteq Gathered(u),
         Gathered(t)' \subseteq Gathered(t) \cup InChain, InChain' \cap Gathered(t)' = {},
         \A w \in Waiters : Sleeps(w) /\ InPlace(w)' => Sleeps(w)'
  PROVE  Placed'
<1>1. /\ \A w \in InChain : Sleeps(w)
      /\ \A u \in C!Callers : \A w \in Gathered(u) :
           Sleeps(w) /\ w \notin InChain /\ \A v \in C!Callers : w \in Gathered(v) => v = u
  BY DEF CvInv, CvPlaces, Placed
<1>2. ASSUME NEW w \in InChain' PROVE Sleeps(w)'
  BY <1>1, <1>2 DEF InPlace
<1>3. ASSUME NEW u \in C!Callers, NEW w \in Gathered(u)'
      PROVE  Sleeps(w)' /\ w \notin InChain' /\ \A v \in C!Callers : w \in Gathered(v)' => v = u
  <2>1. w \in Waiters
    BY <1>3 DEF Gathered
  <2>2. w \in Gathered(u) \/ (u = t /\ w \in InChain)
    BY <1>3
  <2>3. Sleeps(w)'
    BY <1>1, <1>3, <2>1, <2>2 DEF InPlace
  <2>4. w \notin InChain'
    BY <1>1, <1>3, <2>2
  <2>5. ASSUME NEW v \in C!Callers, w \in Gathered(v)' PROVE v = u
    BY <1>1, <1>3, <2>2, <2>5
  <2>. QED  BY <2>3, <2>4, <2>5
<1>. QED  BY <1>2, <1>3 DEF Placed

(* Steps that leave the links, the list and what threads have taken alone. *)
LEMMA PlacesQuiet ==
  ASSUME CvInv, UNCHANGED <<cBack, cFirst, cWakee>>, cWord'.top = cWord.top,
         \A u \in C!Callers : /\ cPc'[u] = "release" => cPc[u] = "release"
                              /\ cPc'[u] \notin Emptying => cPc[u] \notin Emptying \/ cFirst[u] = Nil,
         \A w \in Waiters : Sleeps(w) /\ InPlace(w)' => Sleeps(w)', Clocks'
  PROVE  CvPlaces'
<1>1. InChain' = InChain /\ InChain \subseteq Waiters
  BY CvListTypes DEF CvInv, InChain
<1>2. \A u \in C!Callers : Gathered(u)' \subseteq Gathered(u)
  BY DEF Gathered
<1>3. \A u \in C!Callers : \A w \in Gathered(u) : w \notin InChain
  BY DEF CvInv, CvPlaces, Placed
<1>4. CASE C!Callers = {}
  <2>1. \A w \in InChain' : w \in C!Callers
    BY <1>1 DEF C!Callers
  <2>2. Placed'
    BY <1>4, <2>1 DEF Placed
  <2>3. Collected'
    BY <1>4 DEF Collected
  <2>. QED  BY <2>2, <2>3 DEF CvPlaces
<1>5. ASSUME NEW t \in C!Callers PROVE Placed'
  BY <1>1, <1>2, <1>3, PlacesMove
<1>6. Collected'
  BY DEF CvInv, CvPlaces, Collected
<1>. QED  BY <1>4, <1>5, <1>6 DEF CvPlaces

LEMMA ClocksKept ==
  ASSUME CvInv, cExpired' = cExpired,
         \A w \in Waiters : /\ cPc'[w] \in {"start", "in"} => cPc[w] \in {"start", "in"}
                            /\ cPc'[w] \in {"expired", "remove"} => cPc[w] \in {"expired", "remove"}
  PROVE  Clocks'
BY DEF CvInv, CvPlaces, Clocks

(* A sleeper sleeps on while it goes from label to label of one group.     *)
LEMMA SleepsKept ==
  ASSUME NEW w \in Waiters, Sleeps(w), cFlag'[w] = cFlag[w], w \in cExpired' <=> w \in cExpired,
         cGone'[w] = cGone[w],
         \/ cPc'[w] = cPc[w]
         \/ cPc[w] \in Optimizing \cup Emptying \cup {"unlock", "spin"} /\ cPc'[w] \in Emptying
         \/ cPc[w] \in {"keyed", "expired", "keyedAgain"} /\ cPc'[w] \in {"keyed", "expired", "keyedAgain"}
         \/ /\ cFlag[w] /\ cPc[w] \in Optimizing \cup Emptying \cup {"unlock", "spin"}
            /\ cPc'[w] \in Optimizing \cup Emptying \cup {"unlock", "spin"}
         \/ cPc[w] = "remove" /\ cPc'[w] \in Emptying
  PROVE  Sleeps(w)'
<1>1. CASE cFlag[w]
  BY <1>1 DEF Sleeps, Optimizing, Emptying, Gathering
<1>2. CASE ~cFlag[w]
  BY <1>2 DEF Sleeps, Optimizing, Emptying, Gathering
<1>. QED  BY <1>1, <1>2

-----------------------------------------------------------------------------
(* The rest of the invariant, step by step.                                *)
CvRest == CvHolder /\ CvList /\ CvPlaces

LEMMA QuietRest ==
  ASSUME CvInv, NEW t \in Waiters,
         C!Lock(t) \/ C!Unlock(t) \/ C!FallAsleep(t) \/ C!Timeout(t) \/ C!Relock(t) \/ C!Leave(t)
  PROVE  CvRest'
<1>1. /\ cPc \in [C!Callers -> CvLabels] /\ cFlag \in [Waiters -> BOOLEAN] /\ t \in C!Callers
      /\ \A w \in Waiters : w \in C!Callers
  BY CvListTypes DEF CvInv, CvTypes
<1>2. UNCHANGED <<cWord, cBack, cNotify, cNext, cStatus, cOldest, cNew, cFirst, cWakee, cGone>>
  BY DEF C!Lock, C!Unlock, C!FallAsleep, C!Timeout, C!Relock, C!Leave, C!links, C!local
<1>3. \A u \in C!Callers : u # t => cPc'[u] = cPc[u]
  BY <1>1 DEF C!Lock, C!Unlock, C!FallAsleep, C!Timeout, C!Relock, C!Leave, C!Goto
<1>4. \A u \in Waiters : u # t => cFlag'[u] = cFlag[u] /\ (u \in cExpired' <=> u \in cExpired)
  BY <1>1 DEF C!Lock, C!Unlock, C!FallAsleep, C!Timeout, C!Relock, C!Leave, C!history
<1>5. \/ cPc[t] = "start" /\ cPc'[t] = "in" /\ cExpired' = cExpired
      \/ cPc[t] = "unlock" /\ cPc'[t] = "spin" /\ cFlag'[t] = cFlag[t] /\ cExpired' = cExpired
      \/ cPc[t] = "unlockOptimize" /\ cPc'[t] = "optimize" /\ cFlag'[t] = cFlag[t] /\ cExpired' = cExpired
      \/ cPc[t] = "spin" /\ cFlag[t] /\ cPc'[t] = "keyed" /\ ~cFlag'[t] /\ cExpired' = cExpired
      \/ cPc[t] = "spin" /\ ~cFlag[t] /\ cPc'[t] = "relock" /\ cExpired' = cExpired
      \/ cPc[t] = "keyed" /\ cPc'[t] = "expired" /\ cFlag'[t] = cFlag[t] /\ cExpired' = cExpired \cup {t}
      \/ cPc[t] = "relock" /\ cPc'[t] = "returned" /\ cExpired' = cExpired
      \/ cPc[t] = "returned" /\ cPc'[t] = "out" /\ cExpired' = cExpired
  BY <1>1 DEF C!Lock, C!Unlock, C!FallAsleep, C!Timeout, C!Relock, C!Leave, C!Goto, C!history
<1>6. /\ cPc'[t] \in Holding => cPc[t] \in Holding
      /\ cPc'[t] # "remove" /\ cPc[t] # "remove" /\ cPc'[t] # "take" /\ cPc'[t] # "release"
      /\ cPc'[t] \notin Emptying /\ cPc[t] \notin Emptying
  BY <1>5 DEF Holding, Emptying, Optimizing, Gathering
<1>7. CvHolder' /\ CvList'
  <2>1. \A h \in C!Callers : /\ cPc[h] = "remove" <=> cPc'[h] = "remove"
                             /\ cPc'[h] = "take" => cPc[h] = "take"
                             /\ cPc'[h] \in Holding => cPc[h] \in Holding
    BY <1>3, <1>6
  <2>. QED  BY <1>2, <2>1, ListQuiet
<1>8. Clocks'
  <2>1. \A w \in Waiters : w # t => /\ cPc'[w] \in {"start", "in"} => w \notin cExpired'
                                    /\ cPc'[w] \in {"expired", "remove"} => w \in cExpired'
    BY <1>1, <1>3, <1>4 DEF CvInv, CvPlaces, Clocks
  <2>2. /\ cPc'[t] \in {"start", "in"} => t \notin cExpired'
        /\ cPc'[t] \in {"expired", "remove"} => t \in cExpired'
    BY <1>5 DEF CvInv, CvPlaces, Clocks
  <2>. QED  BY <2>1, <2>2 DEF Clocks
<1>9. ASSUME NEW w \in Waiters, Sleeps(w) PROVE Sleeps(w)'
  <2>1. CASE w # t
    BY <1>1, <1>2, <1>3, <1>4, <1>9, <2>1, SleepsKept
  <2>2. CASE w = t
    BY <1>2, <1>5, <1>9, <2>2 DEF Sleeps, Optimizing, Emptying, Gathering
  <2>. QED  BY <2>1, <2>2
<1>10. \A u \in C!Callers : /\ cPc'[u] = "release" => cPc[u] = "release"
                            /\ cPc'[u] \notin Emptying => cPc[u] \notin Emptying \/ cFirst[u] = Nil
  BY <1>3, <1>6 DEF CvInv
<1>11. CvPlaces'
  BY <1>2, <1>8, <1>9, <1>10, PlacesQuiet
<1>. QED  BY <1>7, <1>11 DEF CvRest

LEMMA FinishRest ==
  ASSUME CvInv, NEW t \in C!Callers, C!Finish(t)
  PROVE  CvRest'
<1>1. cPc \in [C!Callers -> CvLabels] /\ \A w \in Waiters : w \in C!Callers /\ w \notin Wakers
  BY CvListTypes, ConditionAssumption DEF CvInv, CvTypes
<1>2. /\ UNCHANGED <<cWord, cBack, cNotify, cNext, cStatus, cOldest, cNew, cFirst, cWakee, cGone, cFlag, cExpired>>
      /\ cPc[t] = "signal" /\ cFirst[t] = Nil /\ cPc'[t] = C!After(t)
      /\ \A u \in C!Callers : u # t => cPc'[u] = cPc[u]
  BY <1>1 DEF C!Finish, C!Goto, C!links, C!local, C!history
<1>3. cPc'[t] \in {"out", "spin", "relock", "keyedAgain"}
  BY <1>2 DEF C!After
<1>4. cPc'[t] \notin Holding /\ cPc'[t] # "remove" /\ cPc'[t] # "take" /\ cPc'[t] # "release"
  BY <1>3 DEF Holding, Optimizing, Gathering
<1>5. CvHolder' /\ CvList'
  <2>1. \A h \in C!Callers : /\ cPc[h] = "remove" <=> cPc'[h] = "remove"
                             /\ cPc'[h] = "take" => cPc[h] = "take"
                             /\ cPc'[h] \in Holding => cPc[h] \in Holding
    BY <1>2, <1>4
  <2>. QED  BY <1>2, <2>1, ListQuiet
<1>6. Clocks'
  <2>1. \A w \in Waiters : /\ cPc'[w] \in {"start", "in"} => cPc[w] \in {"start", "in"}
                           /\ cPc'[w] \in {"expired", "remove"} => cPc[w] \in {"expired", "remove"}
    BY <1>1, <1>2, <1>3
  <2>. QED  BY <1>2, <2>1, ClocksKept
<1>7. ASSUME NEW w \in Waiters, Sleeps(w) PROVE Sleeps(w)'
  <2>1. CASE w # t
    BY <1>1, <1>2, <1>7, <2>1, SleepsKept
  <2>2. CASE w = t
    <3>1. t \notin Wakers
      BY <1>1, <2>2
    <3>2. CASE cFlag[t] /\ t \notin cExpired
      BY <1>2, <2>2, <3>1, <3>2 DEF Sleeps, C!After
    <3>3. CASE ~cFlag[t] /\ t \in cExpired /\ ~cGone[t]
      BY <1>2, <2>2, <3>1, <3>3 DEF Sleeps, C!After
    <3>. QED  BY <1>2, <1>7, <2>2, <3>2, <3>3 DEF Sleeps
  <2>. QED  BY <2>1, <2>2
<1>8. \A u \in C!Callers : /\ cPc'[u] = "release" => cPc[u] = "release"
                           /\ cPc'[u] \notin Emptying => cPc[u] \notin Emptying \/ cFirst[u] = Nil
  BY <1>2, <1>4
<1>9. CvPlaces'
  BY <1>2, <1>6, <1>7, <1>8, PlacesQuiet
<1>. QED  BY <1>5, <1>9 DEF CvRest

LEMMA ReleaseRest ==
  ASSUME CvInv, NEW t \in C!Callers, C!ReleaseEvent(t)
  PROVE  CvRest'
<1>1. /\ cPc \in [C!Callers -> CvLabels] /\ \A w \in Waiters : w \in C!Callers
      /\ cBack \in LinksOf(Waiters) /\ cFirst[t] \in BlocksOf(Waiters) /\ Nil \notin Waiters
  BY CvListTypes DEF CvInv, CvTypes
<1>2. PICK b \in Waiters : b = cWakee[t]
  BY DEF C!ReleaseEvent, CvInv, CvPlaces, Collected
<1>3. /\ UNCHANGED <<cWord, cBack, cNotify, cNext, cStatus, cOldest, cNew, cFirst, cWakee, cGone, cFlag, cExpired>>
      /\ cPc[t] = "release" /\ cPc[b] \in {"keyed", "keyedAgain"} /\ b # t
      /\ cPc'[t] = "signal" /\ cPc'[b] = "relock"
      /\ \A u \in C!Callers : u # t /\ u # b => cPc'[u] = cPc[u]
  BY <1>1, <1>2 DEF C!ReleaseEvent, C!links, C!local, C!history
<1>4. /\ cPc'[b] \notin Holding /\ cPc'[t] \notin Holding /\ cPc'[t] \in Emptying /\ cPc[b] \notin Emptying
      /\ cPc[t] \in Emptying
  BY <1>3 DEF Holding, Optimizing, Gathering, Emptying
<1>5. CvHolder' /\ CvList'
  <2>1. \A h \in C!Callers : /\ cPc[h] = "remove" <=> cPc'[h] = "remove"
                             /\ cPc'[h] = "take" => cPc[h] = "take"
                             /\ cPc'[h] \in Holding => cPc[h] \in Holding
    BY <1>3, <1>4
  <2>. QED  BY <1>3, <2>1, ListQuiet
<1>6. Clocks'
  <2>1. \A w \in Waiters : /\ cPc'[w] \in {"start", "in"} => cPc[w] \in {"start", "in"}
                           /\ cPc'[w] \in {"expired", "remove"} => cPc[w] \in {"expired", "remove"}
    BY <1>1, <1>3
  <2>. QED  BY <1>3, <2>1, ClocksKept
<1>7. ~InPlace(b)'
  <2>1. b \in Gathered(t)
    BY <1>2, <1>3 DEF Gathered
  <2>2. b \notin InChain /\ \A u \in C!Callers : b \in Gathered(u) => u = t
    BY <2>1 DEF CvInv, CvPlaces, Placed
  <2>3. \A u \in C!Callers : u # t => Gathered(u)' = Gathered(u)
    BY <1>3, <1>4 DEF Gathered
  <2>4. b \notin Gathered(t)'
    BY <1>2, <1>3 DEF Gathered, CvInv, CvPlaces, Collected
  <2>5. InChain' = InChain
    BY <1>3 DEF InChain
  <2>. QED  BY <2>2, <2>3, <2>4, <2>5 DEF InPlace
<1>8. ASSUME NEW w \in Waiters, Sleeps(w), InPlace(w)' PROVE Sleeps(w)'
  <2>1. w # b
    BY <1>7, <1>8
  <2>2. cPc'[w] = cPc[w] \/ (cPc[w] \in Emptying /\ cPc'[w] \in Emptying)
    BY <1>1, <1>3, <1>4, <2>1
  <2>. QED  BY <1>3, <1>8, <2>2, SleepsKept
<1>9. \A u \in C!Callers : /\ cPc'[u] = "release" => cPc[u] = "release"
                           /\ cPc'[u] \notin Emptying => cPc[u] \notin Emptying \/ cFirst[u] = Nil
  BY <1>3, <1>4
<1>10. CvPlaces'
  BY <1>3, <1>6, <1>8, <1>9, PlacesQuiet
<1>. QED  BY <1>5, <1>10 DEF CvRest

LEMMA SignalRest ==
  ASSUME CvInv, NEW t \in C!Callers, C!Signal(t)
  PROVE  CvRest'
<1>1. /\ cPc \in [C!Callers -> CvLabels] /\ \A w \in Waiters : w \in C!Callers
      /\ cBack \in LinksOf(Waiters) /\ Nil \notin Waiters /\ cFlag \in [Waiters -> BOOLEAN]
      /\ cFirst \in [C!Callers -> BlocksOf(Waiters)] /\ cWakee \in [C!Callers -> BlocksOf(Waiters)]
      /\ InChain \subseteq Waiters
  BY CvListTypes DEF CvInv, CvTypes
<1>2. PICK b \in Waiters : b = cFirst[t]
  BY <1>1 DEF C!Signal, BlocksOf
<1>3. /\ UNCHANGED <<cWord, cBack, cNotify, cNext, cStatus, cOldest, cNew, cGone, cExpired>>
      /\ cPc[t] = "signal" /\ cFirst'[t] = cBack[b] /\ cWakee'[t] = b /\ cFlag'[b] = FALSE
      /\ cPc'[t] = IF cFlag[b] THEN "signal" ELSE "release"
      /\ \A w \in Waiters : w # b => cFlag'[w] = cFlag[w]
      /\ \A u \in C!Callers : u # t => cPc'[u] = cPc[u] /\ cFirst'[u] = cFirst[u] /\ cWakee'[u] = cWakee[u]
  BY <1>1, <1>2 DEF C!Signal, C!Goto, C!links, C!local, C!history
<1>4. cPc'[t] \notin Holding /\ cPc'[t] \in Emptying /\ cPc[t] \in Emptying
  BY <1>3 DEF Holding, Optimizing, Gathering, Emptying
<1>5. CvHolder' /\ CvList'
  <2>1. \A h \in C!Callers : /\ cPc[h] = "remove" <=> cPc'[h] = "remove"
                             /\ cPc'[h] = "take" => cPc[h] = "take"
                             /\ cPc'[h] \in Holding => cPc[h] \in Holding
    BY <1>3, <1>4
  <2>. QED  BY <1>3, <2>1, ListQuiet
<1>6. Clocks'
  <2>1. \A w \in Waiters : /\ cPc'[w] \in {"start", "in"} => cPc[w] \in {"start", "in"}
                           /\ cPc'[w] \in {"expired", "remove"} => cPc[w] \in {"expired", "remove"}
    BY <1>1, <1>3
  <2>. QED  BY <1>3, <2>1, ClocksKept
<1>7. /\ Met(Waiters, cBack, cFirst[t]) = {b} \cup Met(Waiters, cBack, cBack[b])
      /\ Ends(Waiters, cBack, cBack[b]) /\ b \notin Met(Waiters, cBack, cBack[b])
      /\ Met(Waiters, cBack, cBack[b]) \subseteq Waiters
  <2>1. Ends(Waiters, cBack, b) /\ b \in Met(Waiters, cBack, b) /\ b \in BlocksOf(Waiters)
    BY <1>1, <1>2, MetClosed DEF CvInv, CvPlaces, Collected, BlocksOf
  <2>2. b \notin Met(Waiters, cBack, cBack[b])
    BY <1>1, <2>1, MetEnds
  <2>3. Ends(Waiters, cBack, cBack[b])
    <3>1. CASE cBack[b] = Nil
      BY <3>1 DEF Ends
    <3>2. CASE cBack[b] # Nil
      <4>1. cBack[b] \in Met(Waiters, cBack, b)
        BY <1>1, <2>1, <3>2, MetClosed
      <4>. QED  BY <1>1, <2>1, <4>1, MetEnds
    <3>. QED  BY <3>1, <3>2
  <2>. QED  BY <1>1, <1>2, <2>2, <2>3, MetStep DEF Met
<1>8. b \in Gathered(t)
  BY <1>2, <1>7 DEF Gathered
<1>9. Gathered(t)' \subseteq Gathered(t) /\ (cFlag[b] => b \notin Gathered(t)')
  <2>1. \A w \in Gathered(t)' : w \in Waiters /\ (w \in Met(Waiters, cBack, cBack[b]) \/ (w = b /\ ~cFlag[b]))
    BY <1>3 DEF Gathered
  <2>2. \A w \in Met(Waiters, cBack, cFirst[t]) : w \in Gathered(t)
    BY <1>7 DEF Gathered
  <2>. QED  BY <1>7, <2>1, <2>2
<1>10. \A u \in C!Callers : u # t => Gathered(u)' = Gathered(u)
  BY <1>3 DEF Gathered
<1>11. InChain' = InChain
  BY <1>3 DEF InChain
<1>12. /\ InChain \cap Gathered(t) = {}
       /\ b \notin InChain /\ \A u \in C!Callers : b \in Gathered(u) => u = t
  BY <1>8 DEF CvInv, CvPlaces, Placed
<1>13. ASSUME NEW w \in Waiters, Sleeps(w), InPlace(w)' PROVE Sleeps(w)'
  <2>1. w # b \/ ~cFlag[b]
    BY <1>9, <1>10, <1>11, <1>12, <1>13 DEF InPlace
  <2>2. cFlag'[w] = cFlag[w]
    <3>1. CASE w # b
      BY <1>3, <3>1
    <3>2. CASE w = b
      <4>1. cFlag[b] = FALSE
        BY <1>1, <2>1, <3>2
      <4>. QED  BY <1>3, <3>2, <4>1
    <3>. QED  BY <3>1, <3>2
  <2>3. cPc'[w] = cPc[w] \/ (cPc[w] \in Emptying /\ cPc'[w] \in Emptying)
    BY <1>1, <1>3, <1>4
  <2>. QED  BY <1>3, <1>13, <2>2, <2>3, SleepsKept
<1>14. Placed'
  BY <1>1, <1>9, <1>10, <1>11, <1>12, <1>13, PlacesMove
<1>15. Collected'
  <2>1. ASSUME NEW u \in C!Callers, u # t
        PROVE  /\ Ends(Waiters, cBack', cFirst'[u])
               /\ cPc'[u] \notin Emptying => cFirst'[u] = Nil
               /\ cPc'[u] = "release" =>
                     cWakee'[u] \in Waiters /\ cWakee'[u] \notin Met(Waiters, cBack', cFirst'[u])
    BY <1>3, <2>1 DEF CvInv, CvPlaces, Collected
  <2>2. /\ Ends(Waiters, cBack', cFirst'[t])
        /\ cPc'[t] \notin Emptying => cFirst'[t] = Nil
        /\ cPc'[t] = "release" =>
              cWakee'[t] \in Waiters /\ cWakee'[t] \notin Met(Waiters, cBack', cFirst'[t])
    BY <1>3, <1>4, <1>7
  <2>. QED  BY <2>1, <2>2 DEF Collected
<1>. QED  BY <1>5, <1>6, <1>14, <1>15 DEF CvRest, CvPlaces

(* Steps of t that change neither the links nor the newest block: it takes *)
(* the list or reads it again, gives it back, or has nothing to do with it.*)
LEMMA WordRest ==
  ASSUME CvInv, NEW t \in C!Callers,
         UNCHANGED <<cBack, cNotify, cNext, cFirst, cWakee, cFlag, cExpired, cOldest>>, cWord'.top = cWord.top,
         \A u \in C!Callers : u # t =>
           cPc'[u] = cPc[u] /\ cStatus'[u] = cStatus[u] /\ cNew'[u] = cNew[u] /\ cGone'[u] = cGone[u],
         cPc[t] = "remove" => cPc'[t] = "remove", cPc'[t] # "release", cPc'[t] # "take",
         cPc[t] \in Emptying => cPc'[t] \in Emptying,
         \/ cPc'[t] \notin Holding /\ cPc[t] \in Holding
         \/ cPc'[t] \notin Holding /\ cPc[t] \notin Holding /\ (cWord'.busy <=> cWord.busy)
         \/ /\ cPc'[t] \in Holding /\ cWord'.busy /\ cWord.top # Nil /\ cStatus'[t].top = cWord.top
            /\ cPc[t] \in Holding \/ ~cWord.busy
            /\ cPc'[t] = "remove" /\ cBack[t] # Nil => cNew'[t].busy,
         t \in Waiters => /\ cPc'[t] \notin {"start", "in"}
                          /\ cPc'[t] \in {"expired", "remove"} => cPc[t] \in {"expired", "remove"}
                          /\ Sleeps(t) => Sleeps(t)'
  PROVE  CvRest'
<1>1. /\ \A u \in C!Callers : u # t =>
           cPc'[u] = cPc[u] /\ cStatus'[u] = cStatus[u] /\ cNew'[u] = cNew[u] /\ cGone'[u] = cGone[u]
      /\ \A w \in Waiters : w \in C!Callers
  BY CvListTypes DEF CvInv
<1>2. \A h \in C!Callers : h # t /\ cPc'[h] \in Holding => cPc[h] \in Holding /\ cWord.busy
  BY <1>1 DEF CvInv, CvHolder
<1>3. cPc[t] \in Holding => \A h \in C!Callers : h # t => cPc[h] \notin Holding
  BY OtherHolder
<1>4. ~cWord.busy => \A h \in C!Callers : cPc[h] \notin Holding
  BY NoHolder
<1>5. cPc[t] \in Holding /\ cPc[t] # "remove" => cNext[cWord.top] = Nil
  BY NewestFresh
<1>6. ~cWord.busy /\ cWord.top # Nil => cNext[cWord.top] = Nil
  BY DEF CvInv, CvList
<1>7. "remove" \in Holding
  BY DEF Holding
<1>8. CvHolder' /\ CvList'
  <2>1. cWord.top # Nil /\ ~cWord'.busy => cNext[cWord.top] = Nil
    BY <1>5, <1>6, <1>7
  <2>2. (\A h \in C!Callers : cPc'[h] # "remove") => \A h \in C!Callers : cPc[h] # "remove"
    BY <1>1
  <2>3. ASSUME NEW h \in C!Callers, cPc'[h] \in Holding
        PROVE  /\ cWord'.busy
               /\ \A u \in C!Callers : cPc'[u] \in Holding => u = h
               /\ \/ /\ cPc[h] \in Holding /\ cStatus'[h].top = cStatus[h].top
                     /\ cPc[h] = "remove" <=> cPc'[h] = "remove"
                  \/ cWord.top # Nil /\ cStatus'[h].top = cWord.top /\ (cPc'[h] # "remove" => cNext[cWord.top] = Nil)
               /\ cPc'[h] = "remove" /\ cBack[h] # Nil => cNew'[h].busy
               /\ cPc'[h] = "take" =>
                     cPc[h] = "take" /\ cOldest'[h] = cOldest[h] /\ cStatus'[h].top = cStatus[h].top
    <3>1. CASE h = t
      <4>1. \A u \in C!Callers : cPc'[u] \in Holding => u = h
        BY <1>2, <1>3, <1>4, <2>3, <3>1
      <4>2. cPc'[t] # "remove" => cNext[cWord.top] = Nil
        BY <1>5, <1>6, <2>3, <3>1
      <4>. QED  BY <2>3, <3>1, <4>1, <4>2
    <3>2. CASE h # t
      <4>1. cPc[h] \in Holding /\ cWord.busy /\ cPc[t] \notin Holding /\ cPc'[t] \notin Holding
        BY <1>2, <1>3, <2>3, <3>2
      <4>2. \A u \in C!Callers : cPc'[u] \in Holding => u = h
        BY <1>2, <4>1 DEF CvInv, CvHolder
      <4>3. cWord'.busy
        BY <4>1
      <4>4. cPc'[h] = "remove" /\ cBack[h] # Nil => cNew'[h].busy
        BY <1>1, <3>2, <4>1 DEF CvInv, CvHolder
      <4>. QED  BY <1>1, <3>2, <4>1, <4>2, <4>3, <4>4
    <3>. QED  BY <3>1, <3>2
  <2>. QED  BY <2>1, <2>2, <2>3, CvListSame
<1>9. Clocks'
  <2>1. \A w \in Waiters : w # t => /\ cPc'[w] \in {"start", "in"} => w \notin cExpired'
                                    /\ cPc'[w] \in {"expired", "remove"} => w \in cExpired'
    BY <1>1 DEF CvInv, CvPlaces, Clocks
  <2>2. t \in Waiters => /\ cPc'[t] \in {"start", "in"} => t \notin cExpired'
                         /\ cPc'[t] \in {"expired", "remove"} => t \in cExpired'
    BY DEF CvInv, CvPlaces, Clocks
  <2>. QED  BY <2>1, <2>2 DEF Clocks
<1>10. ASSUME NEW w \in Waiters, Sleeps(w) PROVE Sleeps(w)'
  <2>1. CASE w # t
    BY <1>1, <1>10, <2>1, SleepsKept
  <2>. QED  BY <1>10, <2>1
<1>11. \A u \in C!Callers : /\ cPc'[u] = "release" => cPc[u] = "release"
                            /\ cPc'[u] \notin Emptying => cPc[u] \notin Emptying \/ cFirst[u] = Nil
  BY <1>1
<1>12. CvPlaces'
  BY <1>9, <1>10, <1>11, PlacesQuiet
<1>. QED  BY <1>8, <1>12 DEF CvRest

(* A compare-exchange of the holder that fails.                            *)
LEMMA FailRest ==
  ASSUME CvInv, NEW t \in C!Callers, cPc[t] \in Holding,
         UNCHANGED <<cWord, cBack, cNotify, cNext, cFirst, cWakee, cFlag, cExpired, cOldest, cGone>>,
         cStatus'[t] = cWord, cPc'[t] \in Holding, cPc'[t] # "take", cPc[t] = "remove" <=> cPc'[t] = "remove",
         \A u \in C!Callers : u # t => cPc'[u] = cPc[u] /\ cStatus'[u] = cStatus[u] /\ cNew'[u] = cNew[u],
         cPc[t] \in Emptying => cPc'[t] \in Emptying,
         cPc'[t] = "remove" /\ cBack[t] # Nil => cNew'[t].busy
  PROVE  CvRest'
<1>1. cWord.busy /\ cWord.top # Nil
  BY HolderBlock
<1>2. cPc'[t] # "release" /\ cPc'[t] \notin {"start", "in", "expired"}
  BY DEF Holding, Optimizing, Gathering
<1>3. ASSUME t \in Waiters, Sleeps(t) PROVE Sleeps(t)'
  BY <1>3 DEF Sleeps, Holding, Optimizing, Emptying, Gathering
<1>. QED  BY <1>1, <1>2, <1>3, WordRest

LEMMA LeaveListRest ==
  ASSUME CvInv, NEW t \in Waiters, C!LeaveList(t)
  PROVE  CvRest'
<1>1. /\ cPc \in [C!Callers -> CvLabels] /\ cGone \in [C!Callers -> BOOLEAN] /\ t \in C!Callers
      /\ cStatus \in [C!Callers -> CvWords] /\ cNew \in [C!Callers -> CvWords] /\ cWord \in CvWords
  BY CvListTypes DEF CvInv, CvTypes
<1>2. /\ UNCHANGED <<cBack, cNotify, cNext, cFirst, cWakee, cFlag, cExpired, cOldest>> /\ cPc[t] = "expired"
      /\ cGone'[t] = FALSE
      /\ \A u \in C!Callers : u # t =>
           cPc'[u] = cPc[u] /\ cStatus'[u] = cStatus[u] /\ cNew'[u] = cNew[u] /\ cGone'[u] = cGone[u]
  BY <1>1 DEF C!LeaveList, C!Goto, C!links, C!history
<1>3. \/ cPc'[t] = "keyedAgain" /\ cWord'.top = cWord.top /\ (cWord'.busy <=> cWord.busy)
      \/ /\ cPc'[t] = "remove" /\ cWord'.top = cWord.top /\ cWord'.busy /\ ~cWord.busy /\ cWord.top # Nil
         /\ cStatus'[t] = cWord' /\ cNew'[t] = cWord'
  <2>1. CASE cWord = C!Empty \/ cWord.wakes = C!All \/ cWord.busy
    <3>1. cPc'[t] = "keyedAgain" /\ (cWord' = cWord \/ cWord' = [cWord EXCEPT !.wakes = C!All])
      BY <1>1, <2>1 DEF C!LeaveList, C!Goto
    <3>2. CASE cWord' = cWord
      BY <3>1, <3>2
    <3>3. CASE cWord' = [cWord EXCEPT !.wakes = C!All]
      <4>1. cWord'.top = cWord.top /\ (cWord'.busy <=> cWord.busy)
        BY <1>1, <3>3, WordFields
      <4>. QED  BY <3>1, <4>1
    <3>. QED  BY <3>1, <3>2, <3>3
  <2>2. CASE ~(cWord = C!Empty \/ cWord.wakes = C!All \/ cWord.busy)
    <3>1. /\ cPc'[t] = "remove" /\ cWord' = [cWord EXCEPT !.busy = TRUE] /\ ~cWord.busy /\ cWord # C!Empty
          /\ cStatus'[t] = cWord' /\ cNew'[t] = cWord'
      BY <1>1, <2>2 DEF C!LeaveList, C!Goto
    <3>2. cWord.top # Nil
      BY <3>1, EmptyIs DEF CvInv
    <3>3. cWord'.top = cWord.top /\ cWord'.busy
      BY <1>1, <3>1, WordFields
    <3>. QED  BY <3>1, <3>2, <3>3
  <2>. QED  BY <2>1, <2>2
<1>4. /\ cPc[t] \notin Holding /\ cPc[t] \notin Emptying /\ "remove" \in Holding
      /\ cPc'[t] = "keyedAgain" => cPc'[t] \notin Holding
  BY <1>2 DEF Holding, Emptying, Optimizing, Gathering
<1>5. ASSUME Sleeps(t) PROVE Sleeps(t)'
  <2>1. t \in cExpired
    BY <1>2 DEF CvInv, CvPlaces, Clocks
  <2>. QED  BY <1>2, <1>3, <1>5, <2>1 DEF Sleeps, Optimizing, Emptying, Gathering
<1>6. cPc[t] # "remove" /\ cPc'[t] # "release" /\ cPc'[t] # "take" /\ cPc'[t] \notin {"start", "in"}
  BY <1>2, <1>3
<1>7. CASE cPc'[t] = "keyedAgain"
  BY <1>1, <1>2, <1>3, <1>4, <1>5, <1>6, <1>7, WordRest
<1>8. CASE cPc'[t] # "keyedAgain"
  <2>1. cPc'[t] = "remove" /\ cStatus'[t].top = cWord.top /\ cNew'[t].busy /\ cWord'.busy /\ ~cWord.busy /\ cWord.top # Nil
    BY <1>3, <1>8
  <2>. QED  BY <1>1, <1>2, <1>3, <1>4, <1>5, <1>6, <2>1, WordRest
<1>. QED  BY <1>7, <1>8

LEMMA OptimizeDoneRest ==
  ASSUME CvInv, NEW t \in Waiters, C!OptimizeDone(t)
  PROVE  CvRest'
<1>1. /\ cPc \in [C!Callers -> CvLabels] /\ cStatus \in [C!Callers -> CvWords] /\ cWord \in CvWords
      /\ t \in C!Callers
  BY CvListTypes DEF CvInv, CvTypes
<1>2. /\ UNCHANGED <<cBack, cNotify, cNext, cFirst, cWakee, cFlag, cExpired, cOldest, cNew, cGone>>
      /\ cPc[t] = "optimizeCas"
      /\ \A u \in C!Callers : u # t => cPc'[u] = cPc[u] /\ cStatus'[u] = cStatus[u]
  BY <1>1 DEF C!OptimizeDone, C!Exchange, C!Goto, C!links, C!history
<1>3. cPc[t] \in Holding /\ cPc[t] # "remove" /\ cPc[t] \notin Emptying
  BY <1>2 DEF Holding, Optimizing, Emptying, Gathering
<1>4. CASE cWord = cStatus[t]
  <2>1. cPc'[t] = "spin" /\ cWord' = [C!Empty EXCEPT !.top = cWord.top] /\ cStatus' = cStatus
    BY <1>1, <1>4 DEF C!OptimizeDone, C!Exchange, C!Goto
  <2>2. cWord'.top = cWord.top
    BY <1>1, <2>1, WordFields
  <2>3. cPc'[t] \notin Holding /\ cPc'[t] \notin {"release", "take", "start", "in", "expired", "remove"}
    BY <2>1 DEF Holding, Optimizing, Gathering
  <2>4. Sleeps(t) => Sleeps(t)'
    BY <1>2, <2>1 DEF Sleeps, Optimizing, Emptying, Gathering
  <2>. QED  BY <1>1, <1>2, <1>3, <2>1, <2>2, <2>3, <2>4, WordRest
<1>5. CASE cWord # cStatus[t]
  <2>1. cPc'[t] \in {"wake", "optimize"} /\ cWord' = cWord /\ cStatus'[t] = cWord
    BY <1>1, <1>5 DEF C!OptimizeDone, C!Exchange, C!Goto
  <2>2. cPc'[t] \in Holding /\ cPc'[t] # "take" /\ cPc'[t] # "remove"
    BY <2>1 DEF Holding, Optimizing, Gathering
  <2>. QED  BY <1>1, <1>2, <1>3, <2>1, <2>2, FailRest
<1>. QED  BY <1>4, <1>5

LEMMA GiveListBackRest ==
  ASSUME CvInv, NEW t \in C!Callers, C!GiveListBack(t)
  PROVE  CvRest'
<1>1. cPc \in [C!Callers -> CvLabels] /\ cStatus \in [C!Callers -> CvWords] /\ cWord \in CvWords
  BY DEF CvInv, CvTypes
<1>2. /\ UNCHANGED <<cBack, cNotify, cNext, cFirst, cWakee, cFlag, cExpired, cOldest, cNew, cGone>>
      /\ cPc[t] = "wakeCas"
      /\ \A u \in C!Callers : u # t => cPc'[u] = cPc[u] /\ cStatus'[u] = cStatus[u]
  BY <1>1 DEF C!GiveListBack, C!Exchange, C!Goto, C!links, C!history
<1>3. cPc[t] \in Holding /\ cPc[t] # "remove"
  BY <1>2 DEF Holding, Gathering
<1>4. CASE cWord = cStatus[t]
  <2>1. cPc'[t] = "signal" /\ cWord' = [C!Empty EXCEPT !.top = cWord.top] /\ cStatus' = cStatus
    BY <1>1, <1>4 DEF C!GiveListBack, C!Exchange, C!Goto
  <2>2. cWord'.top = cWord.top
    BY <1>1, <2>1, WordFields
  <2>3. /\ cPc'[t] \notin Holding /\ cPc'[t] \notin {"release", "take", "start", "in", "expired", "remove"}
        /\ cPc'[t] \in Emptying
    BY <2>1 DEF Holding, Optimizing, Gathering, Emptying
  <2>4. t \in Waiters => (Sleeps(t) => Sleeps(t)')
    BY <1>2, <2>1 DEF Sleeps, Optimizing, Emptying, Gathering
  <2>. QED  BY <1>1, <1>2, <1>3, <2>1, <2>2, <2>3, <2>4, WordRest
<1>5. CASE cWord # cStatus[t]
  <2>1. cPc'[t] = "wake" /\ cWord' = cWord /\ cStatus'[t] = cWord
    BY <1>1, <1>5 DEF C!GiveListBack, C!Exchange, C!Goto
  <2>2. cPc'[t] \in Holding /\ cPc'[t] # "take" /\ cPc'[t] # "remove" /\ cPc'[t] \in Emptying
    BY <2>1 DEF Holding, Gathering, Emptying
  <2>. QED  BY <1>1, <1>2, <1>3, <2>1, <2>2, FailRest
<1>. QED  BY <1>4, <1>5

LEMMA WakeOneRest ==
  ASSUME CvInv, NEW t \in Wakers, C!WakeOne(t)
  PROVE  CvRest'
<1>1. /\ cPc \in [C!Callers -> CvLabels] /\ cStatus \in [C!Callers -> CvWords] /\ cWord \in CvWords
      /\ t \in C!Callers /\ t \notin Waiters
  BY ConditionAssumption DEF CvInv, CvTypes, C!Callers
<1>2. /\ UNCHANGED <<cBack, cNotify, cNext, cFirst, cWakee, cFlag, cExpired, cOldest, cNew, cGone>>
      /\ cPc[t] = "start"
      /\ \A u \in C!Callers : u # t => cPc'[u] = cPc[u] /\ cStatus'[u] = cStatus[u]
  <2>1. UNCHANGED <<cBack, cNotify, cNext, cWakee, cFlag, cExpired, cOldest, cNew, cGone>> /\ cPc[t] = "start"
    BY DEF C!WakeOne, C!links
  <2>2. UNCHANGED cFirst /\ \A u \in C!Callers : u # t => cPc'[u] = cPc[u] /\ cStatus'[u] = cStatus[u]
    BY <1>1 DEF C!WakeOne, C!Return, C!Goto
  <2>. QED  BY <2>1, <2>2
<1>3. cPc[t] \notin Holding /\ cPc[t] \notin Emptying
  BY <1>2 DEF Holding, Optimizing, Emptying, Gathering
<1>4. CASE cPc'[t] = "out" /\ cWord'.top = cWord.top /\ (cWord'.busy <=> cWord.busy)
  <2>1. cPc'[t] \notin Holding /\ cPc'[t] # "release" /\ cPc'[t] # "take"
    BY <1>4 DEF Holding, Optimizing, Gathering
  <2>. QED  BY <1>1, <1>2, <1>3, <1>4, <2>1, WordRest
<1>5. CASE /\ cPc'[t] = "wake" /\ cWord'.top = cWord.top /\ cWord'.busy /\ ~cWord.busy /\ cWord.top # Nil
           /\ cStatus'[t].top = cWord.top
  <2>1. cPc'[t] \in Holding /\ cPc'[t] # "release" /\ cPc'[t] # "take" /\ cPc'[t] # "remove"
    BY <1>5 DEF Holding, Gathering
  <2>. QED  BY <1>1, <1>2, <1>3, <1>5, <2>1, WordRest
<1>6. CASE cWord = C!Empty \/ cWord.wakes = C!All
  <2>1. cPc'[t] = "out" /\ cWord' = cWord
    BY <1>1, <1>6 DEF C!WakeOne, C!Return, C!Goto
  <2>. QED  BY <1>4, <2>1
<1>7. CASE ~(cWord = C!Empty \/ cWord.wakes = C!All) /\ cWord.busy
  <2>1. cPc'[t] = "out" /\ cWord' = [cWord EXCEPT !.wakes = @ + 1]
    BY <1>1, <1>7 DEF C!WakeOne, C!Return, C!Goto
  <2>2. cWord'.top = cWord.top /\ (cWord'.busy <=> cWord.busy)
    BY <1>1, <2>1, WordFields
  <2>. QED  BY <1>4, <2>1, <2>2
<1>8. CASE ~(cWord = C!Empty \/ cWord.wakes = C!All) /\ ~cWord.busy
  <2>1. cPc'[t] = "wake" /\ cWord' = [cWord EXCEPT !.busy = TRUE] /\ cStatus'[t] = cWord'
    BY <1>1, <1>8 DEF C!WakeOne, C!Goto
  <2>2. cWord'.top = cWord.top /\ cWord'.busy
    BY <1>1, <2>1, WordFields
  <2>3. cWord.top # Nil
    BY <1>8, EmptyIs DEF CvInv
  <2>4. cStatus'[t].top = cWord.top
    BY <2>1, <2>2
  <2>. QED  BY <1>5, <1>8, <2>1, <2>2, <2>3, <2>4
<1>. QED  BY <1>6, <1>7, <1>8

(* The list after a step of its holder t, and an empty list.               *)
LEMMA HoldsOn ==
  ASSUME NEW t \in C!Callers, cWord'.busy, cPc'[t] \in Holding, cPc'[t] # "remove",
         \A u \in C!Callers : u # t => cPc'[u] \notin Holding,
         Passes(Waiters, cBack', cNext', C!Older', cWord'.top, cStatus'[t].top),
         cNext'[cStatus'[t].top] = Nil, Ends(Waiters, cBack', cWord'.top),
         Knows(Waiters, cBack', cNext', cNotify', C!Older', cWord'.top),
         cPc'[t] = "take" =>
            /\ cOldest'[t] \in Met(Waiters, cBack', cStatus'[t].top) /\ cBack'[cOldest'[t]] = Nil
            /\ Mended(Waiters, cBack', cNext', cStatus'[t].top)
  PROVE  CvHolder' /\ CvList'
<1>1. CvHolder'
  BY DEF CvHolder
<1>2. CvList'
  BY DEF CvList, CvKnown
<1>. QED  BY <1>1, <1>2

LEMMA ListGone ==
  ASSUME CvTypes', cWord'.top = Nil, \A u \in C!Callers : cPc'[u] \notin Holding
  PROVE  CvHolder' /\ CvList' /\ InChain' = {}
<1>1. Nil \notin Waiters /\ cBack' \in LinksOf(Waiters) /\ cNotify' \in LinksOf(Waiters)
  BY ConditionAssumption DEF CvTypes
<1>2. C!Older' \in LinksOf(Waiters)
  BY <1>1, StopTypes DEF C!Older
<1>3. Met(Waiters, cBack', cWord'.top) = {} /\ Met(Waiters, C!Older', cWord'.top) = {}
  BY <1>1, <1>2, MetStep
<1>4. CvHolder'
  BY DEF CvHolder
<1>5. Knows(Waiters, cBack', cNext', cNotify', C!Older', cWord'.top)
  BY <1>3 DEF Knows
<1>6. CvList'
  BY <1>5 DEF CvList, CvKnown, Ends
<1>. QED  BY <1>3, <1>4, <1>6 DEF InChain

LEMMA HolderKnows ==
  ASSUME CvInv, NEW h \in C!Callers, cPc[h] \in Holding, cPc[h] # "remove"
  PROVE  /\ Knows(Waiters, cBack, cNext, cNotify, C!Older, cWord.top)
         /\ cNext[cStatus[h].top] = Nil
         /\ \A u \in C!Callers : u # h => cPc[u] \notin Holding
<1>1. \A u \in C!Callers : u # h => cPc[u] \notin Holding
  BY DEF CvInv, CvHolder
<1>2. \A u \in C!Callers : cPc[u] # "remove"
  BY <1>1 DEF Holding
<1>. QED  BY <1>1, <1>2 DEF CvInv, CvHolder, CvList, CvKnown

(* The walk of Optimize and of FindOldest.                                 *)
LEMMA WalkRest ==
  ASSUME CvInv, NEW t \in C!Callers, cPc[t] \in Holding, cPc[t] # "remove",
         cNext' = C!Linked(C!Older, cStatus[t].top)
  PROVE  /\ cNext'[cStatus[t].top] = Nil
         /\ Passes(Waiters, cBack, cNext', C!Older, cWord.top, cStatus[t].top)
         /\ Mended(Waiters, cBack, cNext', cStatus[t].top)
         /\ Knows(Waiters, cBack, cNext', cNotify, C!Older, cWord.top)
         /\ C!Oldest(cStatus[t].top) \in Met(Waiters, cBack, cStatus[t].top)
         /\ cBack[C!Oldest(cStatus[t].top)] = Nil
         /\ \A h, n \in LinksOf(Waiters) :
              n = [cNotify EXCEPT ![cStatus[t].top] = C!Oldest(cStatus[t].top)] /\ Stopped(Waiters, cBack, n, h)
                => Passes(Waiters, cBack, cNext', h, cWord.top, cStatus[t].top)
                   /\ Knows(Waiters, cBack, cNext', n, h, cWord.top)
<1>1. /\ Nil \notin Waiters /\ cBack \in LinksOf(Waiters) /\ cNext \in LinksOf(Waiters)
      /\ cNotify \in LinksOf(Waiters) /\ C!Older \in LinksOf(Waiters) /\ cWord.top \in BlocksOf(Waiters)
      /\ Stopped(Waiters, cBack, cNotify, C!Older)
  BY CvListTypes DEF CvInv
<1>2. PICK s \in Waiters : s = cStatus[t].top
  BY HolderBlock
<1>3. /\ Passes(Waiters, cBack, cNext, C!Older, cWord.top, s) /\ Ends(Waiters, cBack, cWord.top)
      /\ Ends(Waiters, C!Older, s) /\ s \in BlocksOf(Waiters) /\ s # Nil
  BY <1>1, <1>2, HolderBlock DEF BlocksOf
<1>4. Knows(Waiters, cBack, cNext, cNotify, C!Older, cWord.top) /\ cNext[s] = Nil
  BY <1>2, HolderKnows
<1>5. PICK l : l = cNext'
  OBVIOUS
<1>6. l = Learned(Waiters, C!Older, cNext, s)
  BY <1>2, <1>5, CvLinkedIs
<1>7. PICK g : g = C!Older
  OBVIOUS
<1>8. /\ l[s] = Nil /\ Passes(Waiters, cBack, l, g, cWord.top, s) /\ Mended(Waiters, cBack, l, s)
      /\ Knows(Waiters, cBack, l, cNotify, g, cWord.top)
      /\ \E e \in Met(Waiters, g, s) :
           /\ g[e] = Nil /\ cNotify[e] \in Waiters /\ cNotify[e] \in Met(Waiters, cBack, s)
           /\ cBack[cNotify[e]] = Nil
           /\ \A h, n \in LinksOf(Waiters) :
                (n[s] = cNotify[e] /\ (\A x \in Waiters : x # s => n[x] = cNotify[x])
                                   /\ Stopped(Waiters, cBack, n, h))
                  => Passes(Waiters, cBack, l, h, cWord.top, s) /\ Knows(Waiters, cBack, l, n, h, cWord.top)
  BY <1>1, <1>3, <1>4, <1>6, <1>7, WalkTaught
<1>9. PICK e \in Met(Waiters, g, s) :
           /\ g[e] = Nil /\ cNotify[e] \in Waiters /\ cNotify[e] \in Met(Waiters, cBack, s)
           /\ cBack[cNotify[e]] = Nil
           /\ \A h, n \in LinksOf(Waiters) :
                (n[s] = cNotify[e] /\ (\A x \in Waiters : x # s => n[x] = cNotify[x])
                                   /\ Stopped(Waiters, cBack, n, h))
                  => Passes(Waiters, cBack, l, h, cWord.top, s) /\ Knows(Waiters, cBack, l, n, h, cWord.top)
  BY <1>8
<1>10. C!End(C!Older, s) = e
  BY <1>1, <1>3, <1>7, <1>9, EndIs
<1>11. C!Oldest(s) = cNotify[e]
  BY <1>10 DEF C!Oldest
<1>12. ASSUME NEW h \in LinksOf(Waiters), NEW n \in LinksOf(Waiters),
              n = [cNotify EXCEPT ![s] = C!Oldest(s)], Stopped(Waiters, cBack, n, h)
       PROVE  Passes(Waiters, cBack, l, h, cWord.top, s) /\ Knows(Waiters, cBack, l, n, h, cWord.top)
  <2>1. n[s] = cNotify[e] /\ \A x \in Waiters : x # s => n[x] = cNotify[x]
    BY <1>1, <1>11, <1>12 DEF LinksOf
  <2>. QED  BY <1>9, <1>12, <2>1
<1>. QED  BY <1>2, <1>5, <1>7, <1>8, <1>9, <1>11, <1>12

LEMMA OptimizeRest ==
  ASSUME CvInv, NEW t \in Waiters, C!Optimize(t), CvTypes'
  PROVE  CvRest'
<1>1. /\ cPc \in [C!Callers -> CvLabels] /\ t \in C!Callers /\ cBack \in LinksOf(Waiters)
      /\ \A w \in Waiters : w \in C!Callers
  BY CvListTypes DEF CvInv, CvTypes
<1>2. /\ UNCHANGED <<cWord, cBack, cFlag, cStatus, cOldest, cNew, cFirst, cWakee, cGone, cExpired>>
      /\ cPc[t] = "optimize" /\ cPc'[t] = "optimizeCas"
      /\ cNext' = C!Linked(C!Older, cStatus[t].top)
      /\ cNotify' = [cNotify EXCEPT ![cStatus[t].top] = C!Oldest(cStatus[t].top)]
      /\ \A u \in C!Callers : u # t => cPc'[u] = cPc[u]
  BY <1>1 DEF C!Optimize, C!Goto, C!local, C!history
<1>3. /\ cPc[t] \in Holding /\ cPc[t] # "remove" /\ cPc'[t] \in Holding
      /\ cPc'[t] \notin {"remove", "take", "release", "start", "in", "expired"}
      /\ cPc[t] \in Optimizing /\ cPc'[t] \in Optimizing /\ cPc[t] \notin Emptying /\ cPc'[t] \notin Emptying
  BY <1>2 DEF Holding, Optimizing, Gathering, Emptying
<1>4. cNotify' \in LinksOf(Waiters)
  BY DEF CvTypes
<1>5. C!Older' \in LinksOf(Waiters) /\ Stopped(Waiters, cBack, cNotify', C!Older')
  BY <1>1, <1>2, <1>4, StopTypes DEF C!Older
<1>6. PICK i : i = C!Older'
  OBVIOUS
<1>7. /\ Passes(Waiters, cBack, cNext', i, cWord.top, cStatus[t].top)
      /\ Knows(Waiters, cBack, cNext', cNotify', i, cWord.top) /\ cNext'[cStatus[t].top] = Nil
  BY <1>1, <1>2, <1>3, <1>4, <1>5, <1>6, WalkRest
<1>8. cWord.busy /\ Ends(Waiters, cBack, cWord.top)
  BY <1>1, <1>3, HolderBlock
<1>9. \A u \in C!Callers : u # t => cPc'[u] \notin Holding
  BY <1>1, <1>2, <1>3, HolderKnows
<1>10. CvHolder' /\ CvList'
  BY <1>1, <1>2, <1>3, <1>6, <1>7, <1>8, <1>9, HoldsOn
<1>11. \A w \in Waiters : Sleeps(w) => Sleeps(w)'
  <2>1. \A w \in Waiters : w # t /\ Sleeps(w) => Sleeps(w)'
    BY <1>1, <1>2, SleepsKept
  <2>2. Sleeps(t) => Sleeps(t)'
    BY <1>2 DEF Sleeps, Optimizing, Emptying, Gathering
  <2>. QED  BY <2>1, <2>2
<1>12. Clocks'
  <2>1. \A w \in Waiters : /\ cPc'[w] \in {"start", "in"} => cPc[w] \in {"start", "in"}
                           /\ cPc'[w] \in {"expired", "remove"} => cPc[w] \in {"expired", "remove"}
    BY <1>1, <1>2, <1>3
  <2>. QED  BY <1>2, <2>1, ClocksKept
<1>13. \A u \in C!Callers : /\ cPc'[u] = "release" => cPc[u] = "release"
                            /\ cPc'[u] \notin Emptying => cPc[u] \notin Emptying \/ cFirst[u] = Nil
  BY <1>2, <1>3
<1>14. CvPlaces'
  BY <1>2, <1>11, <1>12, <1>13, PlacesQuiet
<1>. QED  BY <1>10, <1>14 DEF CvRest

LEMMA FindOldestRest ==
  ASSUME CvInv, NEW t \in C!Callers, C!FindOldest(t)
  PROVE  CvRest'
<1>1. /\ cPc \in [C!Callers -> CvLabels] /\ cOldest \in [C!Callers -> BlocksOf(Waiters)]
      /\ \A w \in Waiters : w \in C!Callers
  BY CvListTypes DEF CvInv, CvTypes
<1>2. /\ UNCHANGED <<cWord, cBack, cNotify, cFlag, cStatus, cNew, cFirst, cWakee, cGone, cExpired>>
      /\ cPc[t] = "wake" /\ cPc'[t] \in {"take", "wakeCas"}
      /\ cNext' = C!Linked(C!Older, cStatus[t].top)
      /\ cOldest'[t] = C!Oldest(cStatus[t].top)
      /\ \A u \in C!Callers : u # t => cPc'[u] = cPc[u]
  BY <1>1 DEF C!FindOldest, C!Goto, C!history
<1>3. /\ cPc[t] \in Holding /\ cPc[t] # "remove" /\ cPc'[t] \in Holding
      /\ cPc'[t] \notin {"remove", "release", "start", "in", "expired"}
      /\ cPc[t] \in Emptying /\ cPc'[t] \in Emptying
  BY <1>2 DEF Holding, Gathering, Emptying
<1>4. C!Older' = C!Older
  BY <1>2 DEF C!Older
<1>5. /\ Passes(Waiters, cBack, cNext', C!Older, cWord.top, cStatus[t].top)
      /\ Knows(Waiters, cBack, cNext', cNotify, C!Older, cWord.top) /\ cNext'[cStatus[t].top] = Nil
      /\ Mended(Waiters, cBack, cNext', cStatus[t].top)
      /\ C!Oldest(cStatus[t].top) \in Met(Waiters, cBack, cStatus[t].top)
      /\ cBack[C!Oldest(cStatus[t].top)] = Nil
  BY <1>2, <1>3, WalkRest
<1>6. cWord.busy /\ Ends(Waiters, cBack, cWord.top)
  BY <1>3, HolderBlock
<1>7. \A u \in C!Callers : u # t => cPc'[u] \notin Holding
  BY <1>2, <1>3, HolderKnows
<1>8. CvHolder' /\ CvList'
  BY <1>2, <1>3, <1>4, <1>5, <1>6, <1>7, HoldsOn
<1>9. \A w \in Waiters : Sleeps(w) => Sleeps(w)'
  BY <1>1, <1>2, <1>3, SleepsKept
<1>10. Clocks'
  <2>1. \A w \in Waiters : /\ cPc'[w] \in {"start", "in"} => cPc[w] \in {"start", "in"}
                           /\ cPc'[w] \in {"expired", "remove"} => cPc[w] \in {"expired", "remove"}
    BY <1>1, <1>2, <1>3
  <2>. QED  BY <1>2, <2>1, ClocksKept
<1>11. \A u \in C!Callers : /\ cPc'[u] = "release" => cPc[u] = "release"
                            /\ cPc'[u] \notin Emptying => cPc[u] \notin Emptying \/ cFirst[u] = Nil
  BY <1>2, <1>3
<1>12. CvPlaces'
  BY <1>2, <1>9, <1>10, <1>11, PlacesQuiet
<1>. QED  BY <1>8, <1>12 DEF CvRest

(* t takes the blocks from c on out of the list.                           *)
LEMMA GatherPlaces ==
  ASSUME CvInv, CvTypes', NEW t \in C!Callers, NEW p \in LinksOf(Waiters), NEW c \in BlocksOf(Waiters),
         \A x \in Waiters : x \notin InChain => p[x] = cBack[x],
         Ends(Waiters, p, c), Met(Waiters, p, c) \subseteq InChain,
         Behind(Waiters, p, cFirst[t], c, cBack', cFirst'[t]),
         InChain' \subseteq InChain, InChain' \cap Met(Waiters, p, c) = {},
         UNCHANGED <<cFlag, cGone, cExpired>>,
         \A u \in C!Callers : u # t => cPc'[u] = cPc[u] /\ cFirst'[u] = cFirst[u] /\ cWakee'[u] = cWakee[u],
         cPc[t] # "release", cPc'[t] # "release", cPc'[t] \in Emptying,
         t \in Waiters => cPc[t] \in Emptying
  PROVE  CvPlaces'
<1>1. /\ Nil \notin Waiters /\ cBack \in LinksOf(Waiters) /\ cBack' \in LinksOf(Waiters)
      /\ cFirst \in [C!Callers -> BlocksOf(Waiters)] /\ InChain \subseteq Waiters
      /\ \A w \in Waiters : w \in C!Callers
  BY CvListTypes DEF CvInv, CvTypes
<1>2. \A u \in C!Callers : /\ Ends(Waiters, cBack, cFirst[u]) /\ cFirst[u] \in BlocksOf(Waiters)
                           /\ Met(Waiters, cBack, cFirst[u]) \subseteq Gathered(u)
                           /\ Met(Waiters, cBack, cFirst[u]) \cap InChain = {}
  <2>1. \A u \in C!Callers : Met(Waiters, cBack, cFirst[u]) \subseteq Gathered(u)
    BY DEF Gathered, Met
  <2>. QED  BY <1>1, <2>1 DEF CvInv, CvPlaces, Collected, Placed
<1>3. \A u \in C!Callers : Met(Waiters, p, cFirst[u]) = Met(Waiters, cBack, cFirst[u])
                           /\ Ends(Waiters, p, cFirst[u])
  <2>1. \A u \in C!Callers : \A x \in Met(Waiters, cBack, cFirst[u]) : x \in Waiters /\ p[x] = cBack[x]
    BY <1>2 DEF Gathered
  <2>. QED  BY <1>1, <1>2, <2>1, MetKept
<1>4. PICK g : g = cBack'
  OBVIOUS
<1>5. /\ Met(Waiters, g, cFirst'[t]) = Met(Waiters, p, cFirst[t]) \cup Met(Waiters, p, c)
      /\ Ends(Waiters, g, cFirst'[t])
      /\ \A h \in BlocksOf(Waiters) : Met(Waiters, p, h) \cap Met(Waiters, p, cFirst[t]) = {} =>
              Met(Waiters, g, h) = Met(Waiters, p, h) /\ (Ends(Waiters, p, h) => Ends(Waiters, g, h))
  <2>1. Met(Waiters, p, cFirst[t]) \cap Met(Waiters, p, c) = {}
    BY <1>2, <1>3
  <2>. QED  BY <1>1, <1>2, <1>3, <1>4, <2>1, Joined
<1>6. ASSUME NEW u \in C!Callers, u # t
      PROVE  /\ Met(Waiters, g, cFirst[u]) = Met(Waiters, cBack, cFirst[u]) /\ Ends(Waiters, g, cFirst[u])
             /\ Gathered(u)' = Gathered(u)
  <2>1. Met(Waiters, cBack, cFirst[u]) \cap Met(Waiters, cBack, cFirst[t]) = {}
    BY <1>2, <1>6 DEF CvInv, CvPlaces, Placed
  <2>2. Met(Waiters, g, cFirst[u]) = Met(Waiters, cBack, cFirst[u]) /\ Ends(Waiters, g, cFirst[u])
    BY <1>2, <1>3, <1>5, <2>1
  <2>3. cFirst'[u] = cFirst[u] /\ cWakee'[u] = cWakee[u] /\ cPc'[u] = cPc[u]
    BY <1>6
  <2>. QED  BY <1>4, <2>2, <2>3 DEF Gathered
<1>7. /\ Gathered(t)' = Met(Waiters, cBack, cFirst[t]) \cup Met(Waiters, p, c)
      /\ Gathered(t) = Met(Waiters, cBack, cFirst[t])
  <2>1. /\ Gathered(t)' = {w \in Waiters : w \in Met(Waiters, g, cFirst'[t])}
        /\ Gathered(t) = {w \in Waiters : w \in Met(Waiters, cBack, cFirst[t])}
    BY <1>4 DEF Gathered
  <2>2. Met(Waiters, g, cFirst'[t]) \subseteq Waiters /\ Met(Waiters, cBack, cFirst[t]) \subseteq Waiters
    BY DEF Met
  <2>. QED  BY <1>3, <1>5, <2>1, <2>2
<1>8. Gathered(t)' \subseteq Gathered(t) \cup InChain /\ InChain' \cap Gathered(t)' = {}
  BY <1>2, <1>7
<1>9. \A w \in Waiters : Sleeps(w) => Sleeps(w)'
  <2>1. \A w \in Waiters : w = t \/ cPc'[w] = cPc[w]
    BY <1>1
  <2>. QED  BY <2>1, SleepsKept
<1>10. Placed'
  BY <1>1, <1>6, <1>8, <1>9, PlacesMove
<1>11. Collected'
  <2>1. ASSUME NEW u \in C!Callers, u # t
        PROVE  /\ Ends(Waiters, cBack', cFirst'[u])
               /\ cPc'[u] \notin Emptying => cFirst'[u] = Nil
               /\ cPc'[u] = "release" =>
                     cWakee'[u] \in Waiters /\ cWakee'[u] \notin Met(Waiters, cBack', cFirst'[u])
    BY <1>4, <1>6, <2>1 DEF CvInv, CvPlaces, Collected
  <2>2. Ends(Waiters, cBack', cFirst'[t])
    BY <1>4, <1>5
  <2>. QED  BY <2>1, <2>2 DEF Collected
<1>12. Clocks'
  <2>1. \A w \in Waiters : /\ cPc'[w] \in {"start", "in"} => cPc[w] \in {"start", "in"}
                           /\ cPc'[w] \in {"expired", "remove"} => cPc[w] \in {"expired", "remove"}
    BY <1>1 DEF Emptying, Gathering
  <2>. QED  BY <2>1, ClocksKept
<1>. QED  BY <1>10, <1>11, <1>12 DEF CvPlaces

(* Appended and Take join what was taken and what is taken.                *)
LEMMA AppendedIs ==
  ASSUME CvInv, CvTypes', NEW t \in C!Callers, NEW p \in LinksOf(Waiters), NEW c \in BlocksOf(Waiters),
         \A x \in Waiters : x \notin InChain => p[x] = cBack[x],
         cBack' = C!Appended(t, c, p), C!Take(t, c)
  PROVE  /\ Behind(Waiters, p, cFirst[t], c, cBack', cFirst'[t])
         /\ \A u \in C!Callers : u # t => cFirst'[u] = cFirst[u]
         /\ \A x \in InChain : cBack'[x] = p[x]
<1>1. /\ Nil \notin Waiters /\ cBack \in LinksOf(Waiters)
      /\ cFirst \in [C!Callers -> BlocksOf(Waiters)] /\ InChain \subseteq Waiters
  BY CvListTypes DEF CvInv, CvTypes
<1>2. \A u \in C!Callers : u # t => cFirst'[u] = cFirst[u]
  BY <1>1 DEF C!Take
<1>3. cFirst'[t] = IF cFirst[t] = Nil THEN c ELSE cFirst[t]
  BY <1>1 DEF C!Take
<1>4. CASE cFirst[t] = Nil
  <2>1. cBack' = p
    BY <1>4 DEF C!Appended
  <2>. QED  BY <1>2, <1>3, <1>4, <2>1 DEF Behind
<1>5. CASE cFirst[t] # Nil
  <2>1. PICK e : e = C!End(cBack, cFirst[t])
    OBVIOUS
  <2>2. e \in Met(Waiters, cBack, cFirst[t]) /\ cBack[e] = Nil /\ e \in Waiters
    BY <1>1, <1>5, <2>1, EndIs, ConditionAssumption DEF CvInv, CvPlaces, Collected
  <2>3. \A x \in Met(Waiters, cBack, cFirst[t]) : x \in Waiters /\ x \notin InChain
    <3>1. Met(Waiters, cBack, cFirst[t]) \subseteq Gathered(t)
      BY DEF Gathered, Met
    <3>. QED  BY <3>1 DEF CvInv, CvPlaces, Placed, Gathered
  <2>4. cBack' = [p EXCEPT ![e] = c]
    BY <1>5, <2>1 DEF C!Appended
  <2>5. cBack'[e] = c /\ \A x \in Waiters : x # e => cBack'[x] = p[x]
    BY <2>2, <2>4 DEF LinksOf
  <2>6. Met(Waiters, p, cFirst[t]) = Met(Waiters, cBack, cFirst[t])
    BY <1>1, <2>3, MetKept
  <2>7. p[e] = Nil
    BY <2>2, <2>3
  <2>8. Behind(Waiters, p, cFirst[t], c, cBack', cFirst'[t])
    BY <1>3, <1>5, <2>2, <2>5, <2>6, <2>7 DEF Behind
  <2>. QED  BY <1>1, <1>2, <2>2, <2>3, <2>5, <2>8
<1>. QED  BY <1>4, <1>5

LEMMA WakeAllAskedRest ==
  ASSUME CvInv, NEW t \in C!Callers, C!WakeAllAsked(t), CvTypes'
  PROVE  CvRest'
<1>1. /\ cPc \in [C!Callers -> CvLabels] /\ cBack \in LinksOf(Waiters) /\ cWord.top \in BlocksOf(Waiters)
      /\ C!Empty.top = Nil
  BY CvListTypes, EmptyIs DEF CvInv, CvTypes
<1>2. /\ UNCHANGED <<cFlag, cGone, cExpired, cWakee>> /\ cWord' = C!Empty
      /\ cBack' = C!Appended(t, cWord.top, cBack) /\ C!Take(t, cWord.top)
      /\ cPc[t] = "wake" /\ cPc'[t] = "signal" /\ \A u \in C!Callers : u # t => cPc'[u] = cPc[u]
  BY <1>1 DEF C!WakeAllAsked, C!Goto
<1>3. /\ cPc[t] \in Holding /\ cPc[t] # "remove" /\ cPc'[t] \notin Holding
      /\ cPc[t] # "release" /\ cPc'[t] # "release" /\ cPc[t] \in Emptying /\ cPc'[t] \in Emptying
  BY <1>2 DEF Holding, Optimizing, Gathering, Emptying
<1>4. \A u \in C!Callers : cPc'[u] \notin Holding
  BY <1>2, <1>3, HolderKnows
<1>5. CvHolder' /\ CvList' /\ InChain' = {}
  BY <1>1, <1>2, <1>4, ListGone
<1>6. /\ Behind(Waiters, cBack, cFirst[t], cWord.top, cBack', cFirst'[t])
      /\ \A u \in C!Callers : u # t => cFirst'[u] = cFirst[u]
  BY <1>1, <1>2, AppendedIs
<1>7. Met(Waiters, cBack, cWord.top) = InChain /\ Ends(Waiters, cBack, cWord.top)
  BY DEF InChain, CvInv, CvList
<1>8. CvPlaces'
  BY <1>1, <1>2, <1>3, <1>5, <1>6, <1>7, GatherPlaces
<1>. QED  BY <1>5, <1>8 DEF CvRest

(* What the thread that is about to take the oldest block knows of it.     *)
LEMMA OldestBlock ==
  ASSUME CvInv, NEW t \in C!Callers, cPc[t] = "take"
  PROVE  /\ cOldest[t] \in Met(Waiters, cBack, cStatus[t].top) /\ cBack[cOldest[t]] = Nil
         /\ Mended(Waiters, cBack, cNext, cStatus[t].top)
         /\ cOldest[t] \in InChain /\ cOldest[t] \in Waiters
         /\ cPc[t] \in Holding /\ cPc[t] # "remove"
         /\ cWord.busy /\ Ends(Waiters, cBack, cWord.top)
         /\ Passes(Waiters, cBack, cNext, C!Older, cWord.top, cStatus[t].top)
         /\ cStatus[t].top \in Waiters /\ cNext[cStatus[t].top] = Nil
         /\ Knows(Waiters, cBack, cNext, cNotify, C!Older, cWord.top)
         /\ \A u \in C!Callers : u # t => cPc[u] \notin Holding
<1>1. cPc[t] \in Holding /\ cPc[t] # "remove"
  BY DEF Holding, Gathering
<1>2. /\ cOldest[t] \in Met(Waiters, cBack, cStatus[t].top) /\ cBack[cOldest[t]] = Nil
      /\ Mended(Waiters, cBack, cNext, cStatus[t].top)
  BY <1>1 DEF CvInv, CvHolder
<1>. QED  BY <1>1, <1>2, HolderBlock, HolderKnows, CvListTypes DEF CvInv

LEMMA TakeLastRest ==
  ASSUME CvInv, NEW t \in C!Callers, C!TakeLast(t), CvTypes'
  PROVE  CvRest'
<1>1. /\ cPc \in [C!Callers -> CvLabels] /\ cStatus \in [C!Callers -> CvWords]
      /\ cBack \in LinksOf(Waiters) /\ Nil \notin Waiters /\ cWord.top \in BlocksOf(Waiters)
      /\ C!Empty.top = Nil /\ InChain \subseteq Waiters
  BY CvListTypes, EmptyIs DEF CvInv, CvTypes
<1>2. /\ UNCHANGED <<cNotify, cNext, cFlag, cGone, cExpired, cWakee, cOldest, cNew>>
      /\ cPc[t] = "take" /\ cNext[cOldest[t]] = Nil
      /\ \A u \in C!Callers : u # t => cPc'[u] = cPc[u] /\ cStatus'[u] = cStatus[u]
  BY <1>1 DEF C!TakeLast, C!Exchange, C!Goto
<1>3. PICK o \in Waiters : o = cOldest[t]
  BY <1>2, OldestBlock
<1>4. /\ o \in Met(Waiters, cBack, cStatus[t].top) /\ cBack[o] = Nil /\ o \in InChain
      /\ Mended(Waiters, cBack, cNext, cStatus[t].top)
      /\ cPc[t] \in Holding /\ cStatus[t].top \in Waiters
      /\ \A u \in C!Callers : u # t => cPc[u] \notin Holding
  BY <1>2, <1>3, OldestBlock
<1>5. cPc[t] \in Emptying
  BY <1>2 DEF Emptying, Gathering
<1>6. CASE cWord # cStatus[t]
  <2>1. UNCHANGED <<cWord, cBack, cFirst>> /\ cPc'[t] = "wake" /\ cStatus'[t] = cWord
    BY <1>1, <1>6 DEF C!TakeLast, C!Exchange, C!Goto
  <2>2. /\ cPc'[t] \in Holding /\ cPc'[t] # "take" /\ cPc'[t] # "remove" /\ cPc[t] # "remove"
        /\ cPc'[t] \in Emptying
    BY <1>2, <2>1 DEF Holding, Gathering, Emptying
  <2>. QED  BY <1>2, <1>4, <2>1, <2>2, FailRest
<1>7. CASE cWord = cStatus[t]
  <2>. DEFINE p == [cBack EXCEPT ![o] = Nil]
  <2>1. cWord' = C!Empty /\ cPc'[t] = "signal" /\ cBack' = C!Appended(t, o, p) /\ C!Take(t, o)
    BY <1>1, <1>3, <1>7 DEF C!TakeLast, C!Exchange, C!Goto
  <2>2. p \in LinksOf(Waiters) /\ \A x \in Waiters : p[x] = cBack[x]
    BY <1>1, <1>4 DEF LinksOf, BlocksOf
  <2>. HIDE DEF p
  <2>3. cPc'[t] \notin Holding /\ cPc[t] # "release" /\ cPc'[t] # "release" /\ cPc'[t] \in Emptying
    BY <1>2, <2>1 DEF Holding, Optimizing, Gathering, Emptying
  <2>4. \A u \in C!Callers : cPc'[u] \notin Holding
    BY <1>2, <1>4, <2>3
  <2>5. CvHolder' /\ CvList' /\ InChain' = {}
    BY <1>1, <2>1, <2>4, ListGone
  <2>6. o \in BlocksOf(Waiters)
    BY DEF BlocksOf
  <2>7. /\ Behind(Waiters, p, cFirst[t], o, cBack', cFirst'[t])
        /\ \A u \in C!Callers : u # t => cFirst'[u] = cFirst[u]
    BY <2>1, <2>2, <2>6, AppendedIs
  <2>8. Met(Waiters, p, o) = {o} /\ Ends(Waiters, p, o)
    <3>1. p[o] = Nil
      BY <1>4, <2>2
    <3>2. Met(Waiters, p, o) = {o}
      BY <1>1, <2>2, <3>1, MetStep
    <3>. QED  BY <3>1, <3>2 DEF Ends
  <2>9. CvPlaces'
    BY <1>2, <1>4, <1>5, <2>2, <2>3, <2>5, <2>6, <2>7, <2>8, GatherPlaces
  <2>. QED  BY <2>5, <2>9 DEF CvRest
<1>. QED  BY <1>6, <1>7

LEMMA TakeOldestRest ==
  ASSUME CvInv, NEW t \in C!Callers, C!TakeOldest(t), CvTypes'
  PROVE  CvRest'
<1>1. /\ cPc \in [C!Callers -> CvLabels] /\ cNext \in LinksOf(Waiters) /\ cNotify \in LinksOf(Waiters)
      /\ cBack \in LinksOf(Waiters) /\ Nil \notin Waiters /\ cWord.top \in BlocksOf(Waiters)
      /\ InChain \subseteq Waiters /\ cOldest \in [C!Callers -> BlocksOf(Waiters)]
      /\ C!Older \in LinksOf(Waiters) /\ Stopped(Waiters, cBack, cNotify, C!Older)
  BY CvListTypes DEF CvInv, CvTypes
<1>2. PICK o \in Waiters : o = cOldest[t]
  BY OldestBlock DEF C!TakeOldest
<1>3. PICK s \in Waiters : s = cStatus[t].top
  BY OldestBlock DEF C!TakeOldest
<1>4. /\ cPc[t] = "take" /\ cNext[o] # Nil
      /\ o \in Met(Waiters, cBack, s) /\ cBack[o] = Nil /\ o \in InChain
      /\ Mended(Waiters, cBack, cNext, s) /\ cWord.busy /\ Ends(Waiters, cBack, cWord.top)
      /\ Passes(Waiters, cBack, cNext, C!Older, cWord.top, s) /\ cNext[s] = Nil
      /\ Knows(Waiters, cBack, cNext, cNotify, C!Older, cWord.top)
      /\ \A u \in C!Callers : u # t => cPc[u] \notin Holding
  BY <1>2, <1>3, OldestBlock DEF C!TakeOldest
<1>5. cNext[o] \in InChain /\ cBack[cNext[o]] = o
  BY <1>4 DEF Knows, InChain
<1>6. cNext[o] \in Waiters /\ cNext[o] # o
  BY <1>1, <1>4, <1>5
<1>. DEFINE p == [cBack EXCEPT ![o] = Nil, ![cNext[o]] = Nil]
<1>7. /\ UNCHANGED <<cWord, cNext, cFlag, cGone, cExpired, cWakee, cStatus, cNew>>
      /\ cBack' = C!Appended(t, o, p) /\ C!Take(t, o)
      /\ cNotify' = [cNotify EXCEPT ![s] = cNext[o]] /\ cOldest'[t] = cNext[o]
      /\ cPc'[t] \in {"take", "wakeCas"}
      /\ \A u \in C!Callers : u # t => cPc'[u] = cPc[u]
  BY <1>1, <1>2, <1>3 DEF C!TakeOldest, C!Goto
<1>8. p \in LinksOf(Waiters) /\ p[cNext[o]] = Nil /\ \A x \in Waiters : x # cNext[o] => p[x] = cBack[x]
  BY <1>1, <1>4, <1>6 DEF LinksOf, BlocksOf
<1>. HIDE DEF p
<1>9. \A x \in Waiters : x \notin InChain => p[x] = cBack[x]
  BY <1>5, <1>8
<1>10. o \in BlocksOf(Waiters)
  BY DEF BlocksOf
<1>11. /\ Behind(Waiters, p, cFirst[t], o, cBack', cFirst'[t])
       /\ \A u \in C!Callers : u # t => cFirst'[u] = cFirst[u]
       /\ \A x \in InChain : cBack'[x] = p[x]
  BY <1>7, <1>8, <1>9, <1>10, AppendedIs
<1>12. PICK h, i, n : h = cBack' /\ i = C!Older' /\ n = cNotify'
  OBVIOUS
<1>13. /\ h \in LinksOf(Waiters) /\ n \in LinksOf(Waiters)
       /\ i \in LinksOf(Waiters) /\ Stopped(Waiters, h, n, i)
  <2>1. cBack' \in LinksOf(Waiters) /\ cNotify' \in LinksOf(Waiters)
    BY DEF CvTypes
  <2>2. C!Older' \in LinksOf(Waiters) /\ Stopped(Waiters, cBack', cNotify', C!Older')
    BY <2>1, StopTypes DEF C!Older
  <2>. QED  BY <1>12, <2>1, <2>2
<1>14. /\ h[cNext[o]] = Nil /\ \A x \in Met(Waiters, cBack, cWord.top) : x # cNext[o] => h[x] = cBack[x]
  BY <1>1, <1>5, <1>8, <1>11, <1>12 DEF InChain
<1>15. n[s] = cNext[o] /\ \A x \in Waiters : x # s => n[x] = cNotify[x]
  BY <1>1, <1>7, <1>12 DEF LinksOf
<1>16. /\ Met(Waiters, h, cWord.top) = Met(Waiters, cBack, cWord.top) \ {o} /\ Ends(Waiters, h, cWord.top)
       /\ cNext[o] \in Met(Waiters, h, s) /\ Mended(Waiters, h, cNext, s)
       /\ Passes(Waiters, h, cNext, i, cWord.top, s) /\ Knows(Waiters, h, cNext, n, i, cWord.top)
  <2>1. PICK b \in BlocksOf(Waiters) : b = cWord.top
    BY <1>1
  <2>2. PICK k \in LinksOf(Waiters) : k = cNext
    BY <1>1
  <2>3. /\ Stopped(Waiters, cBack, cNotify, C!Older) /\ Ends(Waiters, cBack, b)
        /\ Knows(Waiters, cBack, k, cNotify, C!Older, b) /\ Passes(Waiters, cBack, k, C!Older, b, s)
        /\ k[s] = Nil /\ o \in Met(Waiters, cBack, s) /\ cBack[o] = Nil
        /\ Mended(Waiters, cBack, k, s) /\ k[o] # Nil
    BY <1>1, <1>4, <2>1, <2>2
  <2>4. /\ h[k[o]] = Nil /\ (\A x \in Met(Waiters, cBack, b) : x # k[o] => h[x] = cBack[x])
        /\ n[s] = k[o] /\ \A x \in Waiters : x # s => n[x] = cNotify[x]
    BY <1>14, <1>15, <2>1, <2>2
  <2>5. /\ Met(Waiters, h, b) = Met(Waiters, cBack, b) \ {o} /\ Ends(Waiters, h, b)
        /\ k[o] \in Met(Waiters, h, s) /\ Mended(Waiters, h, k, s)
        /\ Passes(Waiters, h, k, i, b, s) /\ Knows(Waiters, h, k, n, i, b)
    <3>1. /\ Nil \notin Waiters /\ cBack \in LinksOf(Waiters) /\ C!Older \in LinksOf(Waiters)
      BY <1>1
    <3>. QED  BY <1>13, <2>3, <2>4, <3>1, OldestTaken, SMTT(90)
  <2>. QED  BY <2>1, <2>2, <2>5
<1>17. /\ cPc'[t] \in Holding /\ cPc'[t] # "remove" /\ cPc'[t] # "release" /\ cPc[t] # "release"
       /\ cPc'[t] \in Emptying /\ cPc[t] \in Emptying
  BY <1>4, <1>7 DEF Holding, Gathering, Emptying
<1>18. \A u \in C!Callers : u # t => cPc'[u] \notin Holding
  BY <1>4, <1>7
<1>19. CvHolder' /\ CvList'
  <2>1. s = cStatus'[t].top /\ cWord'.busy /\ cWord'.top = cWord.top /\ cNext' = cNext
    BY <1>3, <1>4, <1>7
  <2>2. /\ Passes(Waiters, cBack', cNext', C!Older', cWord'.top, cStatus'[t].top)
        /\ cNext'[cStatus'[t].top] = Nil /\ Ends(Waiters, cBack', cWord'.top)
        /\ Knows(Waiters, cBack', cNext', cNotify', C!Older', cWord'.top)
        /\ cOldest'[t] \in Met(Waiters, cBack', cStatus'[t].top) /\ cBack'[cOldest'[t]] = Nil
        /\ Mended(Waiters, cBack', cNext', cStatus'[t].top)
    BY <1>4, <1>7, <1>12, <1>14, <1>16, <2>1
  <2>. QED  BY <1>17, <1>18, <2>1, <2>2, HoldsOn
<1>20. InChain' = InChain \ {o}
  BY <1>7, <1>12, <1>16 DEF InChain
<1>21. Met(Waiters, p, o) = {o} /\ Ends(Waiters, p, o)
  <2>1. p[o] = Nil
    BY <1>4, <1>6, <1>8
  <2>2. Met(Waiters, p, o) = {o}
    BY <1>1, <1>8, <2>1, MetStep
  <2>. QED  BY <2>1, <2>2 DEF Ends
<1>22. CvPlaces'
  BY <1>4, <1>7, <1>8, <1>9, <1>10, <1>11, <1>17, <1>20, <1>21, GatherPlaces
<1>. QED  BY <1>19, <1>22 DEF CvRest

LEMMA WakeEverybodyRest ==
  ASSUME CvInv, NEW t \in Wakers, C!WakeEverybody(t), CvTypes'
  PROVE  CvRest'
<1>1. /\ cPc \in [C!Callers -> CvLabels] /\ cBack \in LinksOf(Waiters) /\ cWord \in CvWords
      /\ cWord.top \in BlocksOf(Waiters) /\ cFirst \in [C!Callers -> BlocksOf(Waiters)]
      /\ t \in C!Callers /\ t \notin Waiters /\ C!Empty.top = Nil
  BY ConditionAssumption, CvListTypes, EmptyIs DEF CvInv, CvTypes, C!Callers
<1>2. /\ UNCHANGED <<cBack, cNotify, cNext, cFlag, cGone, cExpired, cWakee, cOldest, cNew, cStatus>>
      /\ cPc[t] = "start" /\ \A u \in C!Callers : u # t => cPc'[u] = cPc[u]
  <2>1. UNCHANGED <<cBack, cNotify, cNext, cFlag, cGone, cExpired, cWakee, cOldest, cNew>> /\ cPc[t] = "start"
    BY DEF C!WakeEverybody, C!links
  <2>2. UNCHANGED cStatus /\ \A u \in C!Callers : u # t => cPc'[u] = cPc[u]
    BY <1>1 DEF C!WakeEverybody, C!Return, C!Goto
  <2>. QED  BY <2>1, <2>2
<1>3. cPc[t] \notin Holding /\ cPc[t] \notin Emptying /\ cPc[t] # "release"
  BY <1>2 DEF Holding, Optimizing, Gathering, Emptying
<1>4. CASE cWord = C!Empty \/ cWord.busy
  <2>1. cPc'[t] = "out" /\ UNCHANGED cFirst /\ (cWord' = cWord \/ cWord' = [cWord EXCEPT !.wakes = C!All])
    BY <1>1, <1>4 DEF C!WakeEverybody, C!Return, C!Goto
  <2>2. cWord'.top = cWord.top /\ (cWord'.busy <=> cWord.busy)
    <3>1. CASE cWord' = cWord
      BY <3>1
    <3>2. CASE cWord' = [cWord EXCEPT !.wakes = C!All]
      BY <1>1, <3>2, WordFields
    <3>. QED  BY <2>1, <3>1, <3>2
  <2>3. cPc'[t] \notin Holding /\ cPc'[t] # "release" /\ cPc'[t] # "take"
    BY <2>1 DEF Holding, Optimizing, Gathering
  <2>. QED  BY <1>1, <1>2, <1>3, <2>1, <2>2, <2>3, WordRest
<1>5. CASE ~(cWord = C!Empty \/ cWord.busy)
  <2>1. /\ cPc'[t] = "signal" /\ cWord' = C!Empty /\ cFirst'[t] = cWord.top
        /\ \A u \in C!Callers : u # t => cFirst'[u] = cFirst[u]
    BY <1>1, <1>5 DEF C!WakeEverybody, C!Goto
  <2>2. cPc'[t] \notin Holding /\ cPc'[t] \in Emptying /\ cPc'[t] # "release"
    BY <2>1 DEF Holding, Optimizing, Gathering, Emptying
  <2>3. \A u \in C!Callers : cPc'[u] \notin Holding
    BY <1>2, <1>5, <2>2, NoHolder
  <2>4. CvHolder' /\ CvList' /\ InChain' = {}
    BY <1>1, <2>1, <2>3, ListGone
  <2>5. cFirst[t] = Nil
    BY <1>1, <1>3 DEF CvInv, CvPlaces, Collected
  <2>6. Behind(Waiters, cBack, cFirst[t], cWord.top, cBack', cFirst'[t])
    BY <1>2, <2>1, <2>5 DEF Behind
  <2>7. Met(Waiters, cBack, cWord.top) = InChain /\ Ends(Waiters, cBack, cWord.top)
    BY DEF InChain, CvInv, CvList
  <2>8. CvPlaces'
    BY <1>1, <1>2, <1>3, <2>1, <2>2, <2>4, <2>6, <2>7, GatherPlaces
  <2>. QED  BY <2>4, <2>8 DEF CvRest
<1>. QED  BY <1>4, <1>5

(* A thread that does not sleep has no block anywhere.                     *)
LEMMA AwakeOut ==
  ASSUME CvInv, NEW w \in Waiters, ~Sleeps(w)
  PROVE  w \notin InChain /\ \A u \in C!Callers : w \notin Gathered(u) /\ w \notin Met(Waiters, cBack, cFirst[u])
BY DEF CvInv, CvPlaces, Placed, Gathered

LEMMA PushRest ==
  ASSUME CvInv, NEW t \in Waiters, C!Push(t), CvTypes'
  PROVE  CvRest'
<1>1. /\ cPc \in [C!Callers -> CvLabels] /\ cStatus \in [C!Callers -> CvWords] /\ cWord \in CvWords
      /\ cFlag \in [Waiters -> BOOLEAN] /\ Nil \notin Waiters
      /\ cBack \in LinksOf(Waiters) /\ cNotify \in LinksOf(Waiters) /\ cNext \in LinksOf(Waiters)
      /\ C!Older \in LinksOf(Waiters) /\ Stopped(Waiters, cBack, cNotify, C!Older)
      /\ cWord.top \in BlocksOf(Waiters) /\ InChain \subseteq Waiters /\ t \in C!Callers
      /\ \A w \in Waiters : w \in C!Callers
      /\ \A u \in C!Callers : cFirst[u] \in BlocksOf(Waiters) /\ cStatus[u].top \in BlocksOf(Waiters)
  BY CvListTypes DEF CvInv, CvTypes
<1>2. /\ UNCHANGED <<cNew, cOldest, cFirst, cWakee, cGone, cExpired>> /\ cPc[t] = "in"
      /\ cWord' = [cWord EXCEPT !.top = t, !.busy = @ \/ cWord.top # Nil]
      /\ cBack' = [cBack EXCEPT ![t] = cWord.top]
      /\ cNotify' = [cNotify EXCEPT ![t] = IF cWord.top = Nil THEN t ELSE Nil]
      /\ cNext' = [cNext EXCEPT ![t] = Nil]
      /\ cFlag'[t] /\ \A w \in Waiters : w # t => cFlag'[w] = cFlag[w]
      /\ cStatus'[t] = cWord' /\ \A u \in C!Callers : u # t => cStatus'[u] = cStatus[u]
      /\ cPc'[t] = (IF cWord'.busy /\ ~cWord.busy THEN "unlockOptimize" ELSE "unlock")
      /\ \A u \in C!Callers : u # t => cPc'[u] = cPc[u]
  BY <1>1 DEF C!Push, C!Goto, C!history
<1>3. cWord'.top = t /\ (cWord'.busy <=> (cWord.busy \/ cWord.top # Nil))
  BY <1>1, <1>2 DEF CvWords
<1>4. cWord.busy => cWord.top # Nil
  BY DEF CvInv, CvWord
<1>5. /\ t \notin InChain /\ t \notin cExpired
      /\ \A u \in C!Callers : t \notin Gathered(u) /\ t \notin Met(Waiters, cBack, cFirst[u])
  <2>1. ~Sleeps(t)
    BY <1>2 DEF Sleeps, Optimizing, Emptying, Gathering
  <2>. QED  BY <1>2, <2>1, AwakeOut DEF CvInv, CvPlaces, Clocks
<1>6. PICK h, i, l, n : h = cBack' /\ i = C!Older' /\ l = cNext' /\ n = cNotify'
  OBVIOUS
<1>7. /\ h \in LinksOf(Waiters) /\ i \in LinksOf(Waiters) /\ l \in LinksOf(Waiters)
      /\ Stopped(Waiters, h, n, i)
  <2>1. cBack' \in LinksOf(Waiters) /\ cNotify' \in LinksOf(Waiters) /\ cNext' \in LinksOf(Waiters)
    BY DEF CvTypes
  <2>2. C!Older' \in LinksOf(Waiters) /\ Stopped(Waiters, cBack', cNotify', C!Older')
    BY <2>1, StopTypes DEF C!Older
  <2>. QED  BY <1>6, <2>1, <2>2
<1>8. /\ h[t] = cWord.top /\ l[t] = Nil /\ n[t] = (IF cWord.top = Nil THEN t ELSE Nil)
      /\ \A x \in Waiters : x # t => h[x] = cBack[x] /\ l[x] = cNext[x] /\ n[x] = cNotify[x]
  BY <1>1, <1>2, <1>6 DEF LinksOf
<1>9. Ends(Waiters, cBack, cWord.top) /\ t \notin Met(Waiters, cBack, cWord.top)
  BY <1>5 DEF CvInv, CvList, InChain
<1>10. PICK b \in BlocksOf(Waiters) : b = cWord.top
  BY <1>1
<1>11. /\ Met(Waiters, h, t) = {t} \cup Met(Waiters, cBack, b) /\ Ends(Waiters, h, t)
       /\ \A x \in BlocksOf(Waiters) :
            t \notin Met(Waiters, cBack, x) =>
              Met(Waiters, h, x) = Met(Waiters, cBack, x) /\ (Ends(Waiters, cBack, x) => Ends(Waiters, h, x))
       /\ Knows(Waiters, cBack, cNext, cNotify, C!Older, b) => Knows(Waiters, h, l, n, i, t)
       /\ b = Nil => Knows(Waiters, h, l, n, i, t)
       /\ b # Nil => Passes(Waiters, h, l, i, t, t)
       /\ \A s : Passes(Waiters, cBack, cNext, C!Older, b, s) =>
            /\ Passes(Waiters, h, l, i, t, s) /\ s \in Waiters /\ s # t
            /\ Met(Waiters, h, s) = Met(Waiters, cBack, s)
            /\ Mended(Waiters, cBack, cNext, s) => Mended(Waiters, h, l, s)
  <2>1. /\ h[t] = b /\ l[t] = Nil /\ n[t] = (IF b = Nil THEN t ELSE Nil)
        /\ \A x \in Waiters : x # t => h[x] = cBack[x] /\ l[x] = cNext[x] /\ n[x] = cNotify[x]
    BY <1>8, <1>10
  <2>2. Ends(Waiters, cBack, b) /\ t \notin Met(Waiters, cBack, b)
    BY <1>9, <1>10
  <2>3. /\ Nil \notin Waiters /\ cBack \in LinksOf(Waiters) /\ cNext \in LinksOf(Waiters)
        /\ C!Older \in LinksOf(Waiters) /\ Stopped(Waiters, cBack, cNotify, C!Older)
    BY <1>1
  <2>. QED  BY <1>7, <2>1, <2>2, <2>3, PushedList, SMTT(90)
<1>12. cPc'[t] \in Holding => cPc'[t] = "unlockOptimize" /\ ~cWord.busy /\ cWord'.busy /\ cWord.top # Nil
  BY <1>2, <1>3 DEF Holding, Optimizing, Gathering
<1>13. ASSUME NEW u \in C!Callers, u # t, cPc[u] \in Holding
       PROVE  /\ cWord'.busy /\ cPc'[t] \notin Holding
              /\ \A v \in C!Callers : cPc'[v] \in Holding => v = u
              /\ Passes(Waiters, h, l, i, t, cStatus[u].top)
              /\ cPc[u] # "remove" => l[cStatus[u].top] = Nil
              /\ cPc[u] = "remove" /\ h[u] # Nil => cNew[u].busy
              /\ cPc[u] = "take" =>
                    /\ cOldest[u] \in Met(Waiters, h, cStatus[u].top) /\ h[cOldest[u]] = Nil
                    /\ Mended(Waiters, h, l, cStatus[u].top)
  <2>1. /\ cWord.busy /\ Passes(Waiters, cBack, cNext, C!Older, b, cStatus[u].top)
        /\ Met(Waiters, cBack, cStatus[u].top) \subseteq InChain
    BY <1>10, <1>13, HolderBlock
  <2>2. /\ cWord'.busy /\ cPc'[t] \notin Holding
    BY <1>3, <1>12, <2>1
  <2>3. \A v \in C!Callers : cPc'[v] \in Holding => v = u
    BY <1>2, <1>13, <2>2 DEF CvInv, CvHolder
  <2>4. /\ Passes(Waiters, h, l, i, t, cStatus[u].top) /\ cStatus[u].top \in Waiters
        /\ cStatus[u].top # t /\ Met(Waiters, h, cStatus[u].top) = Met(Waiters, cBack, cStatus[u].top)
        /\ Mended(Waiters, cBack, cNext, cStatus[u].top) => Mended(Waiters, h, l, cStatus[u].top)
    BY <1>11, <2>1
  <2>5. cPc[u] # "remove" => l[cStatus[u].top] = Nil
    BY <1>8, <1>13, <2>4 DEF CvInv, CvHolder
  <2>6. cPc[u] = "remove" /\ h[u] # Nil => cNew[u].busy
    <3>1. cPc[u] = "remove" => h[u] = cBack[u]
      <4>1. CASE u \in Waiters
        BY <1>8, <1>13, <4>1
      <4>2. CASE u \notin Waiters
        BY <1>1, <1>2, <1>6, <4>2 DEF LinksOf
      <4>. QED  BY <4>1, <4>2
    <3>. QED  BY <1>13, <3>1 DEF CvInv, CvHolder
  <2>7. ASSUME cPc[u] = "take"
        PROVE  /\ cOldest[u] \in Met(Waiters, h, cStatus[u].top) /\ h[cOldest[u]] = Nil
               /\ Mended(Waiters, h, l, cStatus[u].top)
    <3>1. /\ cOldest[u] \in Met(Waiters, cBack, cStatus[u].top) /\ cBack[cOldest[u]] = Nil
          /\ Mended(Waiters, cBack, cNext, cStatus[u].top)
      BY <2>7, OldestBlock
    <3>2. cOldest[u] \in Waiters /\ cOldest[u] # t
      BY <1>1, <1>5, <2>1, <3>1
    <3>. QED  BY <1>8, <2>4, <3>1, <3>2
  <2>. QED  BY <2>1, <2>2, <2>3, <2>4, <2>5, <2>6, <2>7
<1>14. ASSUME cPc'[t] \in Holding
       PROVE  /\ cWord'.busy /\ (\A v \in C!Callers : cPc'[v] \in Holding => v = t)
              /\ Passes(Waiters, h, l, i, t, t) /\ l[t] = Nil /\ cPc'[t] # "remove" /\ cPc'[t] # "take"
  <2>1. ~cWord.busy /\ b # Nil /\ cPc'[t] = "unlockOptimize" /\ cWord'.busy
    BY <1>10, <1>12, <1>14
  <2>2. \A v \in C!Callers : cPc'[v] \in Holding => v = t
    BY <1>2, <2>1, NoHolder
  <2>. QED  BY <1>8, <1>11, <2>1, <2>2
<1>15. CvHolder'
  <2>1. ASSUME NEW u \in C!Callers, cPc'[u] \in Holding
        PROVE  /\ cWord'.busy
               /\ \A v \in C!Callers : cPc'[v] \in Holding => v = u
               /\ Passes(Waiters, cBack', cNext', C!Older', cWord'.top, cStatus'[u].top)
               /\ cPc'[u] # "remove" => cNext'[cStatus'[u].top] = Nil
               /\ cPc'[u] = "remove" /\ cBack'[u] # Nil => cNew'[u].busy
               /\ cPc'[u] = "take" =>
                     /\ cOldest'[u] \in Met(Waiters, cBack', cStatus'[u].top) /\ cBack'[cOldest'[u]] = Nil
                     /\ Mended(Waiters, cBack', cNext', cStatus'[u].top)
    <3>1. CASE u = t
      BY <1>2, <1>3, <1>6, <1>14, <2>1, <3>1
    <3>2. CASE u # t
      <4>1. cPc[u] \in Holding /\ cPc'[u] = cPc[u] /\ cStatus'[u] = cStatus[u]
        BY <1>2, <2>1, <3>2
      <4>. QED  BY <1>2, <1>3, <1>6, <1>13, <3>2, <4>1
    <3>. QED  BY <3>1, <3>2
  <2>. QED  BY <2>1 DEF CvHolder
<1>16. CvList'
  <2>1. Ends(Waiters, cBack', cWord'.top)
    BY <1>3, <1>6, <1>11
  <2>2. cNext'[cWord'.top] = Nil
    BY <1>3, <1>6, <1>8
  <2>3. ASSUME \A u \in C!Callers : cPc'[u] # "remove" PROVE CvKnown'
    <3>1. \A u \in C!Callers : cPc[u] # "remove"
      BY <1>2, <2>3
    <3>2. Knows(Waiters, cBack, cNext, cNotify, C!Older, b)
      BY <1>10, <3>1 DEF CvInv, CvList, CvKnown
    <3>. QED  BY <1>3, <1>6, <1>11, <3>2 DEF CvKnown
  <2>. QED  BY <2>1, <2>2, <2>3 DEF CvList
<1>17. InChain' = {t} \cup InChain
  BY <1>3, <1>6, <1>10, <1>11 DEF InChain
<1>18. /\ cPc'[t] \notin Emptying /\ cPc[t] \notin Emptying /\ cPc'[t] # "release" /\ cPc[t] # "release"
       /\ cPc'[t] \in Optimizing \cup {"unlock"} /\ cPc'[t] \notin {"start", "in", "expired", "remove"}
  BY <1>2 DEF Emptying, Gathering, Optimizing
<1>19. ASSUME NEW u \in C!Callers
       PROVE  /\ Met(Waiters, cBack', cFirst'[u]) = Met(Waiters, cBack, cFirst[u])
              /\ Ends(Waiters, cBack', cFirst'[u]) /\ Gathered(u)' = Gathered(u)
  <2>1. Ends(Waiters, cBack, cFirst[u]) /\ cFirst'[u] = cFirst[u] /\ cWakee'[u] = cWakee[u]
    BY <1>2 DEF CvInv, CvPlaces, Collected
  <2>2. Met(Waiters, h, cFirst[u]) = Met(Waiters, cBack, cFirst[u]) /\ Ends(Waiters, h, cFirst[u])
    BY <1>1, <1>5, <1>11, <2>1
  <2>3. cPc'[u] = "release" <=> cPc[u] = "release"
    BY <1>2, <1>18
  <2>. QED  BY <1>6, <2>1, <2>2, <2>3 DEF Gathered
<1>20. \A w \in Waiters : w # t /\ Sleeps(w) => Sleeps(w)'
  BY <1>1, <1>2, SleepsKept
<1>21. Sleeps(t)'
  BY <1>2, <1>5, <1>18 DEF Sleeps
<1>22. Placed'
  <2>1. \A w \in InChain' : Sleeps(w)'
    BY <1>1, <1>17, <1>20, <1>21 DEF CvInv, CvPlaces, Placed
  <2>2. ASSUME NEW u \in C!Callers, NEW w \in Gathered(u)'
        PROVE  Sleeps(w)' /\ w \notin InChain' /\ \A v \in C!Callers : w \in Gathered(v)' => v = u
    <3>1. w \in Gathered(u) /\ w \in Waiters /\ w # t
      BY <1>5, <1>19 DEF Gathered
    <3>. QED  BY <1>17, <1>19, <1>20, <3>1 DEF CvInv, CvPlaces, Placed
  <2>. QED  BY <2>1, <2>2 DEF Placed
<1>23. Collected'
  BY <1>2, <1>18, <1>19 DEF CvInv, CvPlaces, Collected
<1>24. Clocks'
  <2>1. \A w \in Waiters : /\ cPc'[w] \in {"start", "in"} => cPc[w] \in {"start", "in"}
                           /\ cPc'[w] \in {"expired", "remove"} => cPc[w] \in {"expired", "remove"}
    BY <1>1, <1>2, <1>18
  <2>. QED  BY <1>2, <2>1, ClocksKept
<1>. QED  BY <1>15, <1>16, <1>22, <1>23, <1>24 DEF CvRest, CvPlaces

LEMMA RemoveTopRest ==
  ASSUME CvInv, NEW t \in Waiters, C!RemoveTop(t), CvTypes'
  PROVE  CvRest'
<1>. DEFINE word == IF cBack[t] = Nil THEN C!Empty ELSE [cNew[t] EXCEPT !.top = cBack[t]]
<1>1. /\ cPc \in [C!Callers -> CvLabels] /\ cStatus \in [C!Callers -> CvWords] /\ cNew \in [C!Callers -> CvWords]
      /\ cGone \in [C!Callers -> BOOLEAN] /\ cBack \in LinksOf(Waiters) /\ Nil \notin Waiters
      /\ cWord.top \in BlocksOf(Waiters) /\ InChain \subseteq Waiters /\ t \in C!Callers
      /\ (\A w \in Waiters : w \in C!Callers) /\ C!Older \in LinksOf(Waiters) /\ cBack[t] \in BlocksOf(Waiters)
  BY CvListTypes DEF CvInv, CvTypes, LinksOf
<1>2. /\ UNCHANGED <<cBack, cNotify, cNext, cFlag, cOldest, cFirst, cWakee, cExpired>>
      /\ cPc[t] = "remove" /\ cStatus[t].top = t /\ cNew'[t] = word
      /\ \A u \in C!Callers : u # t => cNew'[u] = cNew[u]
  BY <1>1 DEF C!RemoveTop, C!links
<1>3. cPc[t] \in Holding /\ (cPc'[t] = "remove" => cPc'[t] \in Holding)
  BY <1>2 DEF Holding
<1>4. cWord.busy /\ \A u \in C!Callers : u # t => cPc[u] \notin Holding
  BY <1>1, <1>3 DEF CvInv, CvHolder
<1>5. cBack[t] # Nil => word.busy /\ word.top = cBack[t]
  <2>1. cBack[t] # Nil => cNew[t].busy
    BY <1>1, <1>2, <1>3 DEF CvInv, CvHolder
  <2>2. cNew[t] \in CvWords
    BY <1>1
  <2>3. [cNew[t] EXCEPT !.top = cBack[t]].top = cBack[t] /\ ([cNew[t] EXCEPT !.top = cBack[t]].busy <=> cNew[t].busy)
    BY <2>2, WordFields
  <2>. QED  BY <2>1, <2>3
<1>6. cBack[t] = Nil => word = C!Empty
  OBVIOUS
<1>. HIDE DEF word
<1>7. CASE cWord # cStatus[t]
  <2>1. UNCHANGED <<cWord, cGone, cPc>> /\ cStatus'[t] = cWord /\ \A u \in C!Callers : u # t => cStatus'[u] = cStatus[u]
    BY <1>1, <1>7 DEF C!RemoveTop
  <2>2. cPc'[t] = "remove" /\ cPc'[t] # "take" /\ cPc'[t] \in Holding /\ cPc[t] \notin Emptying
    BY <1>2, <1>3, <2>1 DEF Emptying, Gathering
  <2>3. cBack[t] # Nil => cNew'[t].busy
    BY <1>2, <1>5
  <2>. QED  BY <1>1, <1>2, <1>3, <2>1, <2>2, <2>3, FailRest
<1>8. CASE cWord = cStatus[t]
  <2>1. /\ cWord' = word /\ cStatus'[t] = word /\ cGone'[t] = TRUE
        /\ cPc'[t] = (IF word = C!Empty THEN "relock" ELSE "remove")
        /\ \A u \in C!Callers : u # t => cPc'[u] = cPc[u] /\ cStatus'[u] = cStatus[u] /\ cGone'[u] = cGone[u]
    BY <1>1, <1>8 DEF C!RemoveTop, C!Goto, word
  <2>2. cWord.top = t /\ C!Empty.top = Nil
    BY <1>2, <1>8, EmptyIs DEF CvInv
  <2>3. cWord'.top = cBack[t]
    BY <1>5, <1>6, <2>1, <2>2
  <2>4. /\ Met(Waiters, cBack, cBack[t]) = InChain \ {t} /\ Ends(Waiters, cBack, cBack[t])
    <3>1. Ends(Waiters, cBack, t) /\ t \in Met(Waiters, cBack, t) /\ t \in BlocksOf(Waiters)
      BY <1>1, <2>2, MetClosed DEF CvInv, CvList, BlocksOf
    <3>2. t \notin Met(Waiters, cBack, cBack[t])
      BY <1>1, <3>1, MetEnds
    <3>3. InChain = {t} \cup Met(Waiters, cBack, cBack[t])
      BY <1>1, <2>2, MetStep DEF InChain
    <3>4. Ends(Waiters, cBack, cBack[t])
      <4>1. CASE cBack[t] = Nil
        BY <4>1 DEF Ends
      <4>2. CASE cBack[t] # Nil
        <5>1. cBack[t] \in Met(Waiters, cBack, t)
          BY <1>1, <3>1, <4>2, MetClosed
        <5>. QED  BY <1>1, <3>1, <5>1, MetEnds
      <4>. QED  BY <4>1, <4>2
    <3>. QED  BY <3>2, <3>3, <3>4
  <2>5. InChain' = InChain \ {t}
    BY <1>2, <2>3, <2>4 DEF InChain
  <2>6. t \in InChain /\ t \notin InChain' /\ \A u \in C!Callers : t \notin Gathered(u)
    <3>1. t \in InChain
      BY <1>1, <2>2, MetClosed DEF InChain
    <3>. QED  BY <2>5, <3>1 DEF CvInv, CvPlaces, Placed
  <2>7. CvHolder' /\ CvList'
    <3>1. CASE cBack[t] = Nil
      <4>1. cPc'[t] \notin Holding
        BY <1>6, <2>1, <3>1 DEF Holding, Optimizing, Gathering
      <4>2. \A u \in C!Callers : cPc'[u] \notin Holding
        BY <1>4, <2>1, <4>1
      <4>. QED  BY <2>3, <3>1, <4>2, ListGone
    <3>2. CASE cBack[t] # Nil
      <4>1. word # C!Empty /\ cPc'[t] = "remove" /\ cWord'.busy /\ cNew'[t].busy
        BY <1>2, <1>5, <2>1, <2>2, <3>2
      <4>2. \A u \in C!Callers : u # t => cPc'[u] \notin Holding
        BY <1>4, <2>1
      <4>3. cStatus'[t].top = cWord'.top
        BY <2>1
      <4>4. C!Older' = C!Older
        BY <1>2 DEF C!Older
      <4>5. cWord'.top \in Met(Waiters, C!Older, cWord'.top)
        BY <1>1, <2>3, <3>2, MetClosed DEF BlocksOf
      <4>6. Passes(Waiters, cBack', cNext', C!Older', cWord'.top, cStatus'[t].top)
        BY <4>3, <4>4, <4>5 DEF Passes
      <4>7. CvHolder'
        BY <4>1, <4>2, <4>6 DEF CvHolder
      <4>8. CvList'
        BY <1>1, <1>2, <2>3, <2>4, <4>1 DEF CvList
      <4>. QED  BY <4>7, <4>8
    <3>. QED  BY <3>1, <3>2
  <2>8. cPc'[t] \in {"remove", "relock"} /\ cPc'[t] \notin Emptying /\ cPc[t] \notin Emptying
    BY <1>2, <2>1 DEF Emptying, Gathering
  <2>9. \A u \in C!Callers : Gathered(u)' = Gathered(u)
    <3>1. \A u \in C!Callers : cPc'[u] = "release" <=> cPc[u] = "release"
      BY <1>2, <2>1, <2>8
    <3>. QED  BY <1>2, <3>1 DEF Gathered
  <2>10. \A w \in Waiters : Sleeps(w) /\ InPlace(w)' => Sleeps(w)'
    <3>1. ~InPlace(t)'
      BY <2>6, <2>9 DEF InPlace
    <3>2. \A w \in Waiters : w # t /\ Sleeps(w) => Sleeps(w)'
      BY <1>1, <1>2, <2>1, SleepsKept
    <3>. QED  BY <3>1, <3>2
  <2>11. Placed'
    <3>1. InChain \cap Gathered(t) = {}
      BY <1>1 DEF CvInv, CvPlaces, Placed
    <3>. QED  BY <1>1, <2>5, <2>9, <2>10, <3>1, PlacesMove
  <2>12. Collected'
    BY <1>2, <2>1, <2>8 DEF CvInv, CvPlaces, Collected
  <2>13. Clocks'
    <3>1. \A w \in Waiters : /\ cPc'[w] \in {"start", "in"} => cPc[w] \in {"start", "in"}
                             /\ cPc'[w] \in {"expired", "remove"} => cPc[w] \in {"expired", "remove"}
      BY <1>1, <1>2, <2>1, <2>8
    <3>. QED  BY <1>2, <3>1, ClocksKept
  <2>. QED  BY <2>7, <2>11, <2>12, <2>13 DEF CvRest, CvPlaces
<1>. QED  BY <1>7, <1>8

LEMMA RemoveInsideRest ==
  ASSUME CvInv, NEW t \in Waiters, C!RemoveInside(t), CvTypes'
  PROVE  CvRest'
<1>1. /\ cPc \in [C!Callers -> CvLabels] /\ cGone \in [C!Callers -> BOOLEAN] /\ t \in C!Callers
      /\ Nil \notin Waiters /\ cBack \in LinksOf(Waiters) /\ cNotify \in LinksOf(Waiters)
      /\ cNext \in LinksOf(Waiters) /\ cWord.top \in BlocksOf(Waiters) /\ InChain \subseteq Waiters
      /\ C!Older \in LinksOf(Waiters) /\ Stopped(Waiters, cBack, cNotify, C!Older)
      /\ (\A w \in Waiters : w \in C!Callers) /\ \A u \in C!Callers : cFirst[u] \in BlocksOf(Waiters)
  BY CvListTypes DEF CvInv, CvTypes
<1>2. cPc[t] = "remove" /\ cPc[t] \in Holding
  BY DEF C!RemoveInside, Holding
<1>3. PICK s \in Waiters : s = cStatus[t].top
  BY <1>1, <1>2, HolderBlock
<1>4. /\ Passes(Waiters, cBack, cNext, C!Older, cWord.top, s) /\ Ends(Waiters, cBack, cWord.top) /\ cWord.busy
      /\ s \in BlocksOf(Waiters) /\ Met(Waiters, cBack, s) \subseteq InChain
      /\ Ends(Waiters, cBack, s)
      /\ \A u \in C!Callers : u # t => cPc[u] \notin Holding
  BY <1>1, <1>2, <1>3, HolderBlock, OtherHolder DEF BlocksOf
<1>. DEFINE kept == [x \in Waiters |-> IF x \in Met(Waiters, cBack, s) /\ cBack[x] = t THEN cBack[t] ELSE cBack[x]]
<1>5. C!Chain(s) = Met(Waiters, cBack, s)
  BY ReachIs DEF C!Chain
<1>6. /\ UNCHANGED <<cWord, cFlag, cStatus, cNew, cOldest, cFirst, cWakee, cExpired>> /\ s # t
      /\ cBack' = kept
      /\ cNext' = [C!Linked(kept, s) EXCEPT ![s] = Nil]
      /\ cNotify' = [cNotify EXCEPT ![s] = C!End(kept, s)]
      /\ cGone'[t] = (cGone[t] \/ t \in Met(Waiters, cBack, s))
      /\ cPc'[t] = "wake"
      /\ \A u \in C!Callers : u # t => cPc'[u] = cPc[u] /\ cGone'[u] = cGone[u]
  BY <1>1, <1>3, <1>5 DEF C!RemoveInside, C!Goto, C!history
<1>7. /\ \A x \in Waiters : kept[x] = IF x \in Met(Waiters, cBack, s) /\ cBack[x] = t THEN cBack[t] ELSE cBack[x]
  OBVIOUS
<1>. HIDE DEF kept
<1>8. kept \in LinksOf(Waiters)
  BY <1>6 DEF CvTypes
<1>9. PICK h, i, l, n : h = cBack' /\ i = C!Older' /\ l = cNext' /\ n = cNotify'
  OBVIOUS
<1>10. /\ h \in LinksOf(Waiters) /\ i \in LinksOf(Waiters) /\ l \in LinksOf(Waiters)
       /\ Stopped(Waiters, h, n, i)
  <2>1. cBack' \in LinksOf(Waiters) /\ cNotify' \in LinksOf(Waiters) /\ cNext' \in LinksOf(Waiters)
    BY DEF CvTypes
  <2>2. C!Older' \in LinksOf(Waiters) /\ Stopped(Waiters, cBack', cNotify', C!Older')
    BY <2>1, StopTypes DEF C!Older
  <2>. QED  BY <1>9, <2>1, <2>2
<1>11. C!Linked(kept, s) = Learned(Waiters, h, cNext, s)
  BY <1>6, <1>9, CvLinkedIs
<1>12. Learned(Waiters, h, cNext, s) \in LinksOf(Waiters)
  BY <1>1, <1>4, <1>10, LinkedTypes
<1>13. C!End(kept, s) = CHOOSE x \in Met(Waiters, h, s) : h[x] = Nil
  BY <1>6, <1>9, ReachIs DEF C!End
<1>14. /\ \A x \in Waiters : h[x] = IF x \in Met(Waiters, cBack, s) /\ cBack[x] = t THEN cBack[t] ELSE cBack[x]
       /\ l[s] = Nil /\ (\A x \in Waiters : x # s => l[x] = Learned(Waiters, h, cNext, s)[x])
       /\ n[s] = (CHOOSE x \in Met(Waiters, h, s) : h[x] = Nil)
       /\ \A x \in Waiters : x # s => n[x] = cNotify[x]
  <2>1. \A x \in Waiters : h[x] = IF x \in Met(Waiters, cBack, s) /\ cBack[x] = t THEN cBack[t] ELSE cBack[x]
    BY <1>6, <1>7, <1>9
  <2>2. l[s] = Nil /\ (\A x \in Waiters : x # s => l[x] = Learned(Waiters, h, cNext, s)[x])
    BY <1>6, <1>9, <1>11, <1>12 DEF LinksOf
  <2>3. n[s] = (CHOOSE x \in Met(Waiters, h, s) : h[x] = Nil) /\ \A x \in Waiters : x # s => n[x] = cNotify[x]
    BY <1>1, <1>6, <1>9, <1>13 DEF LinksOf
  <2>. QED  BY <2>1, <2>2, <2>3
<1>15. PICK b \in BlocksOf(Waiters) : b = cWord.top
  BY <1>1
<1>16. /\ t \in Met(Waiters, cBack, s) => Met(Waiters, h, b) = Met(Waiters, cBack, b) \ {t}
       /\ t \notin Met(Waiters, cBack, s) => Met(Waiters, h, b) = Met(Waiters, cBack, b)
       /\ Ends(Waiters, h, b) /\ \A x \in Waiters : x \notin Met(Waiters, cBack, b) => h[x] = cBack[x]
       /\ Passes(Waiters, h, l, i, b, s) /\ Knows(Waiters, h, l, n, i, b)
  <2>1. /\ Nil \notin Waiters /\ cBack \in LinksOf(Waiters) /\ cNext \in LinksOf(Waiters)
        /\ C!Older \in LinksOf(Waiters) /\ Stopped(Waiters, cBack, cNotify, C!Older)
        /\ Ends(Waiters, cBack, b) /\ Passes(Waiters, cBack, cNext, C!Older, b, s) /\ t # s
    BY <1>1, <1>4, <1>6, <1>15
  <2>. QED  BY <1>10, <1>14, <2>1, Skipped, SMTT(90)
<1>17. cPc'[t] \in Holding /\ cPc'[t] \notin {"remove", "take", "release", "start", "in", "expired"}
       /\ cPc[t] \notin Emptying /\ cPc'[t] \in Emptying
  BY <1>2, <1>6 DEF Holding, Gathering, Emptying
<1>18. CvHolder' /\ CvList'
  <2>1. /\ Passes(Waiters, cBack', cNext', C!Older', cWord'.top, cStatus'[t].top)
        /\ cNext'[cStatus'[t].top] = Nil /\ Ends(Waiters, cBack', cWord'.top) /\ cWord'.busy
        /\ Knows(Waiters, cBack', cNext', cNotify', C!Older', cWord'.top)
    BY <1>3, <1>4, <1>6, <1>9, <1>14, <1>15, <1>16
  <2>2. \A u \in C!Callers : u # t => cPc'[u] \notin Holding
    BY <1>4, <1>6
  <2>. QED  BY <1>1, <1>17, <2>1, <2>2, HoldsOn
<1>19. /\ t \in Met(Waiters, cBack, s) => InChain' = InChain \ {t}
       /\ t \notin Met(Waiters, cBack, s) => InChain' = InChain
  BY <1>6, <1>9, <1>15, <1>16 DEF InChain
<1>20. ASSUME NEW u \in C!Callers
       PROVE  /\ Met(Waiters, cBack', cFirst'[u]) = Met(Waiters, cBack, cFirst[u])
              /\ Ends(Waiters, cBack', cFirst'[u]) /\ Gathered(u)' = Gathered(u)
  <2>1. Ends(Waiters, cBack, cFirst[u]) /\ cFirst'[u] = cFirst[u] /\ cWakee'[u] = cWakee[u]
    BY <1>6 DEF CvInv, CvPlaces, Collected
  <2>2. \A x \in Met(Waiters, cBack, cFirst[u]) : x \in Waiters /\ x \notin InChain
    <3>1. Met(Waiters, cBack, cFirst[u]) \subseteq Gathered(u)
      BY DEF Gathered, Met
    <3>. QED  BY <3>1 DEF CvInv, CvPlaces, Placed, Gathered
  <2>3. \A x \in Met(Waiters, cBack, cFirst[u]) : h[x] = cBack[x]
    BY <1>15, <1>16, <2>2 DEF InChain
  <2>4. Met(Waiters, h, cFirst[u]) = Met(Waiters, cBack, cFirst[u]) /\ Ends(Waiters, h, cFirst[u])
    BY <1>1, <1>10, <2>1, <2>3, MetKept
  <2>5. cPc'[u] = "release" <=> cPc[u] = "release"
    BY <1>2, <1>6
  <2>. QED  BY <1>9, <2>1, <2>4, <2>5 DEF Gathered
<1>21. \A w \in Waiters : Sleeps(w) /\ InPlace(w)' => Sleeps(w)'
  <2>1. \A w \in Waiters : w # t /\ Sleeps(w) => Sleeps(w)'
    BY <1>1, <1>6, SleepsKept
  <2>2. CASE t \in Met(Waiters, cBack, s)
    <3>1. t \in InChain /\ t \notin InChain'
      BY <1>4, <1>19, <2>2
    <3>2. \A u \in C!Callers : t \notin Gathered(u)'
      BY <1>20, <3>1 DEF CvInv, CvPlaces, Placed
    <3>. QED  BY <2>1, <3>1, <3>2 DEF InPlace
  <2>3. CASE t \notin Met(Waiters, cBack, s)
    <3>1. cGone'[t] = cGone[t]
      BY <1>1, <1>6, <2>3
    <3>2. Sleeps(t) => Sleeps(t)'
      BY <1>2, <1>6, <1>17, <3>1, SleepsKept
    <3>. QED  BY <2>1, <3>2
  <2>. QED  BY <2>2, <2>3
<1>22. Placed'
  <2>1. InChain \cap Gathered(t) = {}
    BY <1>1 DEF CvInv, CvPlaces, Placed
  <2>2. InChain' \subseteq InChain
    BY <1>19
  <2>. QED  BY <1>1, <1>20, <1>21, <2>1, <2>2, PlacesMove
<1>23. Collected'
  BY <1>6, <1>17, <1>20 DEF CvInv, CvPlaces, Collected
<1>24. Clocks'
  <2>1. \A w \in Waiters : /\ cPc'[w] \in {"start", "in"} => cPc[w] \in {"start", "in"}
                           /\ cPc'[w] \in {"expired", "remove"} => cPc[w] \in {"expired", "remove"}
    BY <1>1, <1>6, <1>17
  <2>. QED  BY <1>6, <2>1, ClocksKept
<1>. QED  BY <1>18, <1>22, <1>23, <1>24 DEF CvRest, CvPlaces

LEMMA CvRestStep ==
  ASSUME CvInv, NEW t \in C!Callers, C!Call(t) \/ C!Step(t), CvTypes'
  PROVE  CvRest'
<1>1. \A w \in Waiters : w \in C!Callers
  BY DEF C!Callers
<1>2. CASE t \in Waiters /\ (C!Lock(t) \/ C!Unlock(t) \/ C!FallAsleep(t) \/ C!Timeout(t) \/ C!Relock(t) \/ C!Leave(t))
  BY <1>2, QuietRest
<1>3. CASE t \in Waiters /\ C!Push(t)
  BY <1>3, PushRest
<1>4. CASE t \in Waiters /\ C!Optimize(t)
  BY <1>4, OptimizeRest
<1>5. CASE t \in Waiters /\ C!OptimizeDone(t)
  BY <1>5, OptimizeDoneRest
<1>6. CASE t \in Waiters /\ C!LeaveList(t)
  BY <1>6, LeaveListRest
<1>7. CASE t \in Waiters /\ C!RemoveTop(t)
  BY <1>7, RemoveTopRest
<1>8. CASE t \in Waiters /\ C!RemoveInside(t)
  BY <1>8, RemoveInsideRest
<1>9. CASE t \in Wakers /\ C!WakeOne(t)
  BY <1>9, WakeOneRest
<1>10. CASE t \in Wakers /\ C!WakeEverybody(t)
  BY <1>10, WakeEverybodyRest
<1>11. CASE C!Wake(t)
  <2>1. CASE C!WakeAllAsked(t)
    BY <2>1, WakeAllAskedRest
  <2>2. CASE C!FindOldest(t)
    BY <2>2, FindOldestRest
  <2>3. CASE C!TakeOldest(t)
    BY <2>3, TakeOldestRest
  <2>4. CASE C!GiveListBack(t)
    BY <2>4, GiveListBackRest
  <2>5. CASE C!TakeLast(t)
    BY <2>5, TakeLastRest
  <2>6. CASE C!Signal(t)
    BY <2>6, SignalRest
  <2>7. CASE C!Finish(t)
    BY <2>7, FinishRest
  <2>8. CASE C!ReleaseEvent(t)
    BY <2>8, ReleaseRest
  <2>. QED  BY <1>11, <2>1, <2>2, <2>3, <2>4, <2>5, <2>6, <2>7, <2>8 DEF C!Wake
<1>. QED  BY <1>2, <1>3, <1>4, <1>5, <1>6, <1>7, <1>8, <1>9, <1>10, <1>11 DEF C!Call, C!Step

LEMMA CvInit == C!Init => CvInv
<1>. SUFFICES ASSUME C!Init PROVE CvInv
  OBVIOUS
<1>1. CvTypes
  <2>1. C!Empty \in CvWords
    BY CvWordTypes
  <2>2. "start" \in CvLabels /\ Nil \in BlocksOf(Waiters)
    BY DEF CvLabels, BlocksOf
  <2>. QED  BY <2>1, <2>2 DEF C!Init, CvTypes, LinksOf
<1>2. /\ cWord = C!Empty /\ C!Empty.top = Nil /\ C!Empty.busy = FALSE /\ C!Empty.wakes = 0
      /\ \A h \in C!Callers : cPc[h] = "start" /\ cFirst[h] = Nil
      /\ cExpired = {} /\ cOwed = 0
  BY DEF C!Init, C!Empty
<1>3. \A h \in C!Callers : cPc[h] \notin Holding /\ cPc[h] \notin Emptying
                           /\ cPc[h] \notin Optimizing /\ cPc[h] \notin Gathering
  BY <1>2 DEF Holding, Optimizing, Gathering, Emptying
<1>4. CvWord
  BY <1>2 DEF CvWord
<1>5. CvHolder
  BY <1>3 DEF CvHolder
<1>6. \A g \in LinksOf(Waiters) : Met(Waiters, g, Nil) = {}
  BY ConditionAssumption, MetStep
<1>7. /\ cBack \in LinksOf(Waiters) /\ C!Older \in LinksOf(Waiters) /\ cWord.top = Nil
  BY <1>1, <1>2, CvListTypes
<1>8. Met(Waiters, cBack, cWord.top) = {} /\ Met(Waiters, C!Older, cWord.top) = {} /\ Met(Waiters, cBack, Nil) = {}
  BY <1>6, <1>7
<1>9. CvList
  <2>1. CvKnown
    BY <1>8 DEF CvKnown, Knows
  <2>. QED  BY <1>7, <2>1 DEF CvList, Ends
<1>10. CvPlaces
  <2>1. \A u \in C!Callers : Gathered(u) = {}
    BY <1>2, <1>8 DEF Gathered
  <2>2. Placed
    BY <1>8, <2>1 DEF Placed, InChain
  <2>3. Collected
    BY <1>2, <1>3 DEF Collected, Ends
  <2>4. Clocks
    <3>1. \A w \in Waiters : w \in C!Callers
      BY DEF C!Callers
    <3>. QED  BY <1>2, <3>1 DEF Clocks
  <2>. QED  BY <2>2, <2>3, <2>4 DEF CvPlaces
<1>11. CvOwed
  <2>1. \A h \in C!Callers : OwedAt(h)
    BY <1>2 DEF OwedAt, Optimizing, Gathering
  <2>. QED  BY <1>2, <2>1 DEF CvOwed
<1>. QED  BY <1>1, <1>4, <1>5, <1>9, <1>10, <1>11 DEF CvInv

LEMMA CvStep == CvInv /\ [C!Next]_(C!vars) => CvInv'
<1>. SUFFICES ASSUME CvInv, [C!Next]_(C!vars) PROVE CvInv'
  OBVIOUS
<1>1. ASSUME NEW t \in C!Callers, C!Call(t) \/ C!Step(t) PROVE CvInv'
  <2>1. CvTypes'
    BY <1>1, CvTypesStep
  <2>2. CvWord'
    BY <1>1, CvWordStep
  <2>3. CvOwed'
    BY <1>1, <2>1, CvOwedStep
  <2>4. CvRest'
    BY <1>1, <2>1, CvRestStep
  <2>. QED  BY <2>1, <2>2, <2>3, <2>4 DEF CvInv, CvRest
<1>2. CASE UNCHANGED C!vars
  <2>1. /\ CvTypes' /\ CvWord' /\ CvPlaces' /\ CvOwed' /\ CvHolder' /\ CvList'
    <3>. USE <1>2 DEF C!vars, C!links, C!local, C!history
    <3>1. CvTypes'
      BY DEF CvInv, CvTypes
    <3>2. CvWord'
      BY DEF CvInv, CvWord
    <3>3. C!Older' = C!Older
      BY DEF C!Older
    <3>4. CvHolder'
      BY <3>3 DEF CvInv, CvHolder
    <3>5. CvList'
      BY <3>3 DEF CvInv, CvList, CvKnown
    <3>6. InChain' = InChain /\ \A u \in C!Callers : Gathered(u)' = Gathered(u)
      BY DEF InChain, Gathered
    <3>7. \A w \in Waiters : Sleeps(w)' <=> Sleeps(w)
      BY DEF Sleeps
    <3>8. CvPlaces'
      <4>1. Placed'
        <5>1. InChain \subseteq Waiters
          BY CvListTypes DEF CvInv
        <5>2. \A u \in C!Callers : Gathered(u) \subseteq Waiters
          BY DEF Gathered
        <5>. QED  BY <3>6, <3>7, <5>1, <5>2 DEF CvInv, CvPlaces, Placed
      <4>2. Collected'
        BY DEF CvInv, CvPlaces, Collected
      <4>3. Clocks'
        BY DEF CvInv, CvPlaces, Clocks
      <4>. QED  BY <4>1, <4>2, <4>3 DEF CvPlaces
    <3>9. CvOwed'
      BY DEF CvInv, CvOwed, OwedAt
    <3>. QED  BY <3>1, <3>2, <3>4, <3>5, <3>8, <3>9
  <2>. QED  BY <2>1 DEF CvInv
<1>. QED  BY <1>1, <1>2 DEF C!Next

(* The invariant of the condition variable, for any number of waiters,     *)
(* wakers and timeouts.                                                    *)
THEOREM CvInvariance == C!Spec => []CvInv
BY CvInit, CvStep, PTL DEF C!Spec

-----------------------------------------------------------------------------
(* What the invariant says of the walks and of the calls.                  *)
LEMMA ChainsInside ==
  ASSUME CvInv
  PROVE  C!NoDanglingBlock
<1>1. /\ Nil \notin Waiters /\ cBack \in LinksOf(Waiters) /\ cNext \in LinksOf(Waiters)
      /\ cNotify \in LinksOf(Waiters) /\ C!Older \in LinksOf(Waiters) /\ cWord.top \in BlocksOf(Waiters)
      /\ Stopped(Waiters, cBack, cNotify, C!Older) /\ InChain \subseteq Waiters
  BY CvListTypes DEF CvInv
<1>2. \A b : C!Chain(b) = Met(Waiters, cBack, b) /\ C!Reach(cNext, b) = Met(Waiters, cNext, b)
  BY ReachIs DEF C!Chain
<1>3. \A w : Sleeps(w) => C!Inside(w)
  BY DEF Sleeps, C!Inside, Optimizing, Emptying, Gathering
<1>4. \A w \in C!Chain(cWord.top) : C!Inside(w)
  BY <1>2, <1>3 DEF CvInv, CvPlaces, Placed, InChain
<1>5. ASSUME NEW t \in C!Callers
      PROVE  (\A w \in C!Chain(cFirst[t]) : C!Inside(w)) /\ (cPc[t] = "release" => C!Inside(cWakee[t]))
  <2>1. C!Chain(cFirst[t]) \subseteq Gathered(t)
    BY <1>2 DEF Gathered, Met
  <2>2. cPc[t] = "release" => cWakee[t] \in Gathered(t)
    BY DEF Gathered, CvInv, CvPlaces, Collected
  <2>. QED  BY <1>3, <2>1, <2>2 DEF CvInv, CvPlaces, Placed
<1>6. ASSUME NEW t \in C!Callers, cPc[t] \in {"optimize", "wake"}
      PROVE  C!Reach(cNext, C!Oldest(cStatus[t].top)) \cup C!Chain(cStatus[t].top) \subseteq C!Chain(cWord.top)
  <2>1. cPc[t] \in Holding /\ cPc[t] # "remove"
    BY <1>6 DEF Holding, Optimizing, Gathering
  <2>2. PICK s \in Waiters : s = cStatus[t].top
    BY <2>1, HolderBlock
  <2>3. /\ s \in Met(Waiters, C!Older, cWord.top) /\ Met(Waiters, cBack, s) \subseteq InChain
        /\ Ends(Waiters, C!Older, s) /\ Ends(Waiters, cBack, cWord.top) /\ s # Nil /\ s \in BlocksOf(Waiters)
    BY <1>1, <2>1, <2>2, HolderBlock DEF BlocksOf
  <2>4. Knows(Waiters, cBack, cNext, cNotify, C!Older, cWord.top)
    BY <2>1, HolderKnows
  <2>5. PICK e : e = C!End(C!Older, s)
    OBVIOUS
  <2>6. e \in Met(Waiters, C!Older, s) /\ C!Older[e] = Nil
    BY <1>1, <2>3, <2>5, EndIs
  <2>7. e \in Met(Waiters, C!Older, cWord.top)
    BY <1>1, <2>3, <2>6, MetSub
  <2>8. cNotify[e] \in InChain
    <3>1. cNotify[e] \in Met(Waiters, cBack, e)
      BY <2>4, <2>6, <2>7 DEF Knows
    <3>2. Met(Waiters, cBack, e) \subseteq Met(Waiters, cBack, cWord.top)
      BY <1>1, <2>3, <2>7, StoppedIn
    <3>. QED  BY <3>1, <3>2 DEF InChain
  <2>9. Met(Waiters, cNext, cNotify[e]) \subseteq InChain
    <3>1. \A y \in InChain : cNext[y] \in InChain \cup {Nil}
      BY <2>4 DEF Knows, InChain
    <3>. QED  BY <1>1, <2>8, <3>1, MetLeast
  <2>10. C!Oldest(s) = cNotify[e]
    BY <2>5 DEF C!Oldest
  <2>. QED  BY <1>2, <2>2, <2>3, <2>9, <2>10 DEF InChain
<1>. QED  BY <1>4, <1>5, <1>6 DEF C!NoDanglingBlock

(* For any number of waiters, wakers and timeouts, every block that is in  *)
(* the list, taken from it or about to be woken is on the stack of a       *)
(* thread inside its call, and no walk leaves the list.                    *)
THEOREM ListIsSafe == C!Spec => []C!NoDanglingBlock
<1>1. CvInv => C!NoDanglingBlock
  BY ChainsInside
<1>. QED  BY <1>1, CvInvariance, PTL

(* For any number of threads, no walk of a list of waiters and no waker of *)
(* a lock or of a condition variable meets a block whose thread is gone.   *)
THEOREM NoBlockDangles == Spec /\ C!Spec => []NoDanglingBlock
BY LockWalksAreSafe, ListIsSafe, PTL DEF NoDanglingBlock

(* Without timeouts, whatever the number of waiters and wakers, the calls  *)
(* of WakeConditionVariable have taken as many waiters as they must when   *)
(* the list is free.                                                       *)
THEOREM WakesAreKept == C!Spec => []NoWakeLost
<1>1. CvInv => NoWakeLost
  BY DEF CvInv, CvOwed, NoWakeLost, C!NoWakeLost
<1>. QED  BY <1>1, CvInvariance, PTL
=============================================================================
