-------------------------- MODULE WsDeliveryProofs --------------------------
(***************************************************************************)
(* NoHole, InOrder and CheckpointHonest of WsDelivery, for any number of    *)
(* emitters, events, connections, faults and visits, and any sizes of the    *)
(* channel, the replay buffer and a page of the log.                        *)
(*                                                                         *)
(* The inductive invariant has four parts.                                  *)
(*                                                                         *)
(* Types: what each variable may hold, with every number that of an event.  *)
(*                                                                         *)
(* Shape: what a task of the server holds at each of its steps, and what    *)
(* its session holds then; and that of two numbers the higher is broadcast  *)
(* first only if the lower one is excused (Emission).                      *)
(*                                                                         *)
(* Protocol: which modes of the page go together; that each history load    *)
(* has one answer on its way or none (Answers), so that an answer is never  *)
(* taken for that of a later load; and that a page that waits for nothing   *)
(* else has asked for its subscription with a number it has reached.        *)
(*                                                                         *)
(* Claims: once the page's history has been read, whatever the server takes  *)
(* as sent is excused, shown, buffered or on the wire (SentAll), and every   *)
(* event of the log is that, or is in one of the places from which the      *)
(* server will still send it: with its emitter, in the channel, lost in it   *)
(* but not yet noticed, in the replay buffer, or in what a replay has still  *)
(* to read (Covered).  And no number on the wire or in the page's buffer is  *)
(* ahead of one that is not there (WireOrder, TimelineOrder).  The claims    *)
(* wait for the answer to the load, since the page's timeline is empty      *)
(* before; they are not made while a _full_reload is on the wire, which      *)
(* starts the page anew.                                                   *)
(***************************************************************************)
EXTENDS WsDelivery, FiniteSetTheorems, SequenceTheorems, WellFoundedInduction, TLAPS

-----------------------------------------------------------------------------
(* Folds.  The induction over the length of a sequence is made by hand, as   *)
(* the absence of a least counterexample.                                  *)

(* A set of numbers has a smallest one. *)
LEMMA Smallest ==
  ASSUME NEW T, T \subseteq Nat, T # {}
  PROVE  \E x \in T : \A y \in T : x <= y
<1> DEFINE R == {ss \in Nat \X Nat : ss[1] < ss[2]}
<1>1. IsWellFoundedOn(R, Nat)
  BY NatLessThanWellFounded DEF OpToRel
<1> HIDE DEF R
<1>2. PICK x \in T : \A y \in T : ~(<<y, x>> \in R)
  BY <1>1, WFMin, Zenon
<1>3. \A y \in T : ~(y < x)
  <2> SUFFICES ASSUME NEW y \in T, y < x PROVE FALSE
    OBVIOUS
  <2>1. <<y, x>> \in R
    BY DEF R
  <2> QED  BY <1>2, <2>1
<1> QED  BY <1>3

LEMMA MaxOfPrefix ==
  ASSUME NEW n \in Nat \ {0}, NEW s \in SUBSET (1..n), n \in s
  PROVE  Max(s) = n
<1>1. \A y \in s : n >= y
  OBVIOUS
<1>2. \A x \in s : (\A y \in s : x >= y) => x = n
  OBVIOUS
<1> QED  BY <1>1, <1>2, Zenon DEF Max

(* The two functions that are folded: what is above n is kept, the highest. *)
Folded(what, n, before, s) ==
  IF what = "above" THEN (IF s > n THEN Append(before, s) ELSE before) ELSE MaxOf(before, s)

IsFold(f, what, n, base, events, S) ==
  f = [s \in SUBSET S |->
         IF s = {} THEN base
         ELSE Folded(what, n, f[s \ {Max(s)}], events[Max(s)])]

(* The recursive function of a fold exists, *)
LEMMA FoldExists ==
  ASSUME NEW what, NEW arg, NEW base, NEW S, NEW events \in Seq(S)
  PROVE  \E f : IsFold(f, what, arg, base, events, DOMAIN events)
<1> DEFINE T == {n \in 0..Len(events) : ~ \E f : IsFold(f, what, arg, base, events, 1..n)}
<1>0. DOMAIN events = 1..Len(events) /\ Len(events) \in Nat
  BY LenProperties
<1>1. T = {}
  <2> SUFFICES ASSUME T # {} PROVE FALSE
    OBVIOUS
  <2>1. T \subseteq Nat
    BY <1>0
  <2>2. PICK n \in T : \A y \in T : n <= y
    <3> HIDE DEF T
    <3> QED  BY <2>1, Smallest, Zenon
  <2>3. n # 0
    <3> SUFFICES ASSUME n = 0 PROVE FALSE
      OBVIOUS
    <3>1. IsFold([s \in {{}} |-> base], what, arg, base, events, {})
      BY DEF IsFold
    <3>2. 1..0 = {}
      OBVIOUS
    <3> QED  BY <3>1, <3>2
  <2>n. n \in Nat \ {0} /\ n - 1 \in 0..Len(events) /\ ~(n <= n - 1)
    BY <1>0, <2>3
  <2>4. PICK f : IsFold(f, what, arg, base, events, 1..n - 1)
    BY <2>2, <2>n
  <2> DEFINE g == [s \in SUBSET (1..n) |->
                     IF n \in s THEN Folded(what, arg, f[s \ {n}], events[n]) ELSE f[s]]
  <2>5. ASSUME NEW s \in SUBSET (1..n)
        PROVE  g[s] = IF s = {} THEN base
                      ELSE Folded(what, arg, g[s \ {Max(s)}], events[Max(s)])
    <3>1. CASE n \in s
      <4>1. Max(s) = n
        <5> HIDE DEF T
        <5> QED  BY <2>n, <3>1, MaxOfPrefix
      <4>2. s \ {n} \in SUBSET (1..n) /\ n \notin s \ {n} /\ s # {}
        BY <3>1
      <4>3. g[s \ {n}] = f[s \ {n}] /\ g[s] = Folded(what, arg, f[s \ {n}], events[n])
        BY <3>1, <4>2
      <4> QED  BY <4>1, <4>2, <4>3
    <3>2. CASE n \notin s
      <4>1. s \in SUBSET (1..n - 1)
        <5> HIDE DEF T
        <5> QED  BY <2>n, <3>2
      <4>2. CASE s = {}
        BY <2>4, <4>1, <4>2 DEF IsFold
      <4>3. CASE s # {}
        <5> DEFINE rest == s \ {Max(s)}
        <5>1. n \notin rest /\ rest \in SUBSET (1..n) /\ rest \in SUBSET (1..n - 1)
          BY <3>2, <4>1, Zenon
        <5>2. f[s] = Folded(what, arg, f[rest], events[Max(s)])
          BY <2>4, <4>1, <4>3, Zenon DEF IsFold
        <5>3. g[rest] = f[rest] /\ g[s] = f[s]
          BY <3>2, <5>1, Zenon
        <5> QED  BY <4>3, <5>2, <5>3, Zenon
      <4> QED  BY <4>2, <4>3
    <3> QED  BY <3>1, <3>2
  <2>6. IsFold(g, what, arg, base, events, 1..n)
    <3>1. g = [s \in SUBSET (1..n) |-> g[s]]
      OBVIOUS
    <3> HIDE DEF g
    <3>2. [s \in SUBSET (1..n) |-> g[s]]
            = [s \in SUBSET (1..n) |-> IF s = {} THEN base
                  ELSE Folded(what, arg, g[s \ {Max(s)}], events[Max(s)])]
      BY <2>5, Zenon
    <3> QED  BY <3>1, <3>2, Zenon DEF IsFold
  <2> QED  BY <2>2, <2>6
<1>2. ~(Len(events) \in T)
  BY <1>1
<1>3. \E f : IsFold(f, what, arg, base, events, 1..Len(events))
  BY <1>0, <1>2
<1> QED  BY <1>0, <1>3

(* and the folds of the module are values of it. *)
LEMMA FoldsAreValues ==
  ASSUME NEW S, NEW events \in Seq(S), NEW n
  PROVE  /\ \E f : /\ IsFold(f, "above", n, <<>>, events, DOMAIN events)
                   /\ Above(n, events) = f[DOMAIN events]
         /\ \E f : /\ IsFold(f, "max", n, n, events, DOMAIN events)
                   /\ FoldLeft(MaxOf, n, events) = f[DOMAIN events]
<1> DEFINE AboveFold(f) ==
             f = [s \in SUBSET DOMAIN events |->
                    IF s = {} THEN <<>>
                    ELSE IF events[Max(s)] > n THEN Append(f[s \ {Max(s)}], events[Max(s)])
                                               ELSE f[s \ {Max(s)}]]
           MaxFold(f) ==
             f = [s \in SUBSET DOMAIN events |->
                    IF s = {} THEN n ELSE MaxOf(f[s \ {Max(s)}], events[Max(s)])]
<1>1. \A f : IsFold(f, "above", n, <<>>, events, DOMAIN events) <=> AboveFold(f)
  BY Zenon DEF IsFold, Folded
<1>2. \A f : IsFold(f, "max", n, n, events, DOMAIN events) <=> MaxFold(f)
  <2>1. "max" # "above"
    OBVIOUS
  <2> QED  BY <2>1, Zenon DEF IsFold, Folded
<1>3. Above(n, events) = (CHOOSE f : AboveFold(f))[DOMAIN events]
  BY Zenon DEF Above, FoldLeft, MapThenFoldSet
<1>4. FoldLeft(MaxOf, n, events) = (CHOOSE f : MaxFold(f))[DOMAIN events]
  BY Zenon DEF FoldLeft, MapThenFoldSet
<1> HIDE DEF AboveFold, MaxFold
<1>5. AboveFold(CHOOSE f : AboveFold(f)) /\ MaxFold(CHOOSE f : MaxFold(f))
  <2>1. (\E f : AboveFold(f)) /\ \E f : MaxFold(f)
    BY <1>1, <1>2, FoldExists, Zenon
  <2> QED  BY <2>1, Zenon
<1> QED  BY <1>1, <1>2, <1>3, <1>4, <1>5, Zenon

(* One step of a fold. *)
StepByStep(f, what, arg, base, events, n) ==
  /\ f[1..0] = base
  /\ \A k \in 1..n, j \in 0..n : k = j + 1 => f[1..k] = Folded(what, arg, f[1..j], events[k])

LEMMA FoldSteps ==
  ASSUME NEW what, NEW arg, NEW base, NEW events, NEW n \in Nat, NEW f,
         IsFold(f, what, arg, base, events, 1..n)
  PROVE  StepByStep(f, what, arg, base, events, n)
<1>1. 1..0 = {} /\ {} \in SUBSET (1..n)
  OBVIOUS
<1>2. f[1..0] = base
  BY <1>1 DEF IsFold
<1>3. ASSUME NEW k \in 1..n, NEW j \in 0..n, k = j + 1
      PROVE  f[1..k] = Folded(what, arg, f[1..j], events[k])
  <2>1. /\ 1..k \in SUBSET (1..n) /\ 1..k # {} /\ (1..k) \ {k} = 1..j
        /\ k \in Nat \ {0} /\ k \in 1..k /\ 1..k \in SUBSET (1..k)
    BY <1>3
  <2>2. Max(1..k) = k
    BY <2>1, MaxOfPrefix
  <2> QED  BY <2>1, <2>2, Zenon DEF IsFold
<1> QED  BY <1>2, <1>3 DEF StepByStep

(* What Above keeps of the first k events: each of those above n, in their    *)
(* order.                                                                  *)
KeptOf(kept, events, n, k) ==
  /\ \A i \in 1..Len(kept) :
       /\ kept[i] > n
       /\ \E m \in 1..k :
            /\ kept[i] = events[m]
            /\ \A j \in 1..m - 1 : events[j] > n => \E h \in 1..i - 1 : kept[h] = events[j]
  /\ \A m \in 1..k : events[m] > n => \E i \in 1..Len(kept) : kept[i] = events[m]

LEMMA KeptOfNone == ASSUME NEW events, NEW n PROVE KeptOf(<<>>, events, n, 0)
BY DEF KeptOf

LEMMA KeptOfNext ==
  ASSUME NEW S, S \subseteq Nat, NEW events \in Seq(S), NEW n \in Nat, NEW j \in Nat, NEW k,
         k = j + 1, k <= Len(events), NEW kept \in Seq(S), KeptOf(kept, events, n, j)
  PROVE  LET next == IF events[k] > n THEN Append(kept, events[k]) ELSE kept
         IN next \in Seq(S) /\ KeptOf(next, events, n, k)
<1>1. k \in 1..Len(events) /\ events[k] \in S /\ Len(kept) \in Nat
  BY LenProperties, ElementOfSeq
<1>2. CASE events[k] > n
  <2> DEFINE next == Append(kept, events[k])
  <2>1. /\ next \in Seq(S) /\ Len(next) = Len(kept) + 1 /\ next[Len(kept) + 1] = events[k]
        /\ \A i \in 1..Len(kept) : next[i] = kept[i]
    BY <1>1, AppendProperties
  <2> HIDE DEF next
  <2>2. ASSUME NEW i \in 1..Len(next)
        PROVE  /\ next[i] > n
               /\ \E m \in 1..k :
                    /\ next[i] = events[m]
                    /\ \A l \in 1..m - 1 : events[l] > n => \E h \in 1..i - 1 : next[h] = events[l]
    <3>1. CASE i \in 1..Len(kept)
      <4>1. kept[i] > n
        BY <3>1 DEF KeptOf
      <4>2. PICK m \in 1..j :
              /\ kept[i] = events[m]
              /\ \A l \in 1..m - 1 : events[l] > n => \E h \in 1..i - 1 : kept[h] = events[l]
        BY <3>1 DEF KeptOf
      <4>3. m \in 1..k /\ \A h \in 1..i - 1 : h \in 1..Len(kept)
        BY <1>1, <3>1
      <4>4. \A l \in 1..m - 1 : events[l] > n => \E h \in 1..i - 1 : next[h] = events[l]
        BY <2>1, <4>2, <4>3
      <4> QED  BY <2>1, <3>1, <4>1, <4>2, <4>3, <4>4
    <3>2. CASE i = Len(kept) + 1
      <4>1. \A l \in 1..k - 1 : l \in 1..j
        BY <1>1
      <4>2. \A h \in 1..Len(kept) : h \in 1..i - 1
        BY <1>1, <3>2
      <4>3. \A l \in 1..k - 1 : events[l] > n => \E h \in 1..i - 1 : next[h] = events[l]
        BY <2>1, <4>1, <4>2 DEF KeptOf
      <4>4. k \in 1..k
        BY <1>1
      <4> QED  BY <1>2, <2>1, <3>2, <4>3, <4>4
    <3> QED  BY <1>1, <2>1, <3>1, <3>2
  <2>3. ASSUME NEW m \in 1..k, events[m] > n PROVE \E i \in 1..Len(next) : next[i] = events[m]
    <3>1. CASE m = k
      <4>1. Len(kept) + 1 \in 1..Len(next)
        BY <1>1, <2>1
      <4> QED  BY <2>1, <3>1, <4>1
    <3>2. CASE m # k
      <4>1. m \in 1..j
        BY <1>1, <3>2
      <4>2. PICK i \in 1..Len(kept) : kept[i] = events[m]
        BY <2>3, <4>1 DEF KeptOf
      <4>3. i \in 1..Len(next)
        BY <1>1, <2>1
      <4> QED  BY <2>1, <4>2, <4>3
    <3> QED  BY <3>1, <3>2
  <2> QED  BY <1>2, <2>1, <2>2, <2>3, Zenon DEF KeptOf, next
<1>3. CASE ~(events[k] > n)
  <2>1. \A m \in 1..k : m \in 1..j \/ m = k
    BY <1>1
  <2>2. \A m \in 1..j : m \in 1..k
    BY <1>1
  <2> QED  BY <1>3, <2>1, <2>2 DEF KeptOf
<1> QED  BY <1>2, <1>3

LEMMA AboveKeeps ==
  ASSUME NEW S, S \subseteq Nat, NEW events \in Seq(S), NEW n \in Nat
  PROVE  Above(n, events) \in Seq(S) /\ KeptOf(Above(n, events), events, n, Len(events))
<1> DEFINE len == Len(events)
<1>0. DOMAIN events = 1..len /\ len \in Nat
  BY LenProperties
<1>1. PICK f : IsFold(f, "above", n, <<>>, events, 1..len) /\ Above(n, events) = f[1..len]
  BY <1>0, FoldsAreValues
<1>2. /\ f[1..0] = <<>>
      /\ \A k \in 1..len, j \in 0..len : k = j + 1 =>
           f[1..k] = IF events[k] > n THEN Append(f[1..j], events[k]) ELSE f[1..j]
  <2> HIDE DEF len
  <2>1. /\ f[1..0] = <<>>
        /\ \A k \in 1..len, j \in 0..len : k = j + 1 => f[1..k] = Folded("above", n, f[1..j], events[k])
    <3>1. StepByStep(f, "above", n, <<>>, events, len)
      BY <1>0, <1>1, FoldSteps
    <3> QED  BY <3>1 DEF StepByStep
  <2> QED  BY <2>1, Zenon DEF Folded
<1> DEFINE Good(k) == f[1..k] \in Seq(S) /\ KeptOf(f[1..k], events, n, k)
           T == {k \in 0..len : ~Good(k)}
<1> HIDE DEF len
<1>3. T = {}
  <2> SUFFICES ASSUME T # {} PROVE FALSE
    OBVIOUS
  <2>1. T \subseteq Nat
    BY <1>0
  <2>2. PICK k \in T : \A y \in T : k <= y
    <3> HIDE DEF T
    <3> QED  BY <2>1, Smallest, Zenon
  <2>3. k \in 0..len /\ ~Good(k)
    BY <2>2
  <2>4. Good(0)
    BY <1>2, KeptOfNone, EmptySeq
  <2>5. k # 0
    <3> HIDE DEF Good
    <3> QED  BY <2>3, <2>4
  <2>6. PICK j \in 0..len : k = j + 1
    <3>1. k - 1 \in 0..len /\ k = (k - 1) + 1
      BY <1>0, <2>3, <2>5
    <3> QED  BY <3>1
  <2>7. Good(j)
    <3>1. ~(j \in T)
      <4> HIDE DEF T
      <4> QED  BY <1>0, <2>2, <2>6
    <3> QED  BY <3>1
  <2>8. k \in 1..len /\ k <= Len(events) /\ j \in Nat
    BY <1>0, <2>3, <2>6 DEF len
  <2>9. f[1..k] = IF events[k] > n THEN Append(f[1..j], events[k]) ELSE f[1..j]
    BY <1>2, <2>6, <2>8
  <2>10. Good(k)
    <3>1. LET next == IF events[k] > n THEN Append(f[1..j], events[k]) ELSE f[1..j]
          IN next \in Seq(S) /\ KeptOf(next, events, n, k)
      BY <2>6, <2>7, <2>8, KeptOfNext, Zenon
    <3> QED  BY <2>9, <3>1
  <2> QED  BY <2>3, <2>10
<1>4. Good(len)
  BY <1>0, <1>3
<1> QED  BY <1>1, <1>4 DEF len

LEMMA HighestIsOne ==
  ASSUME NEW S, S \subseteq Nat, NEW events \in Seq(S), NEW n \in Nat
  PROVE  FoldLeft(MaxOf, n, events) = n \/ \E i \in DOMAIN events : FoldLeft(MaxOf, n, events) = events[i]
<1> DEFINE len == Len(events)
<1>0. DOMAIN events = 1..len /\ len \in Nat
  BY LenProperties
<1>1. PICK f : IsFold(f, "max", n, n, events, 1..len) /\ FoldLeft(MaxOf, n, events) = f[1..len]
  BY <1>0, FoldsAreValues
<1>2. /\ f[1..0] = n
      /\ \A k \in 1..len, j \in 0..len : k = j + 1 =>
           f[1..k] = IF f[1..j] > events[k] THEN f[1..j] ELSE events[k]
  <2> HIDE DEF len
  <2>1. "max" # "above"
    OBVIOUS
  <2>2. /\ f[1..0] = n
        /\ \A k \in 1..len, j \in 0..len : k = j + 1 => f[1..k] = Folded("max", n, f[1..j], events[k])
    <3>1. IsFold(f, "max", n, n, events, 1..len)
      BY <1>1
    <3>2. len \in Nat
      BY <1>0
    <3>3. StepByStep(f, "max", n, n, events, len)
      BY <3>1, <3>2, FoldSteps
    <3> QED  BY <3>3 DEF StepByStep
  <2> QED  BY <2>1, <2>2, Zenon DEF Folded, MaxOf
<1> DEFINE Good(k) == f[1..k] = n \/ \E i \in 1..len : f[1..k] = events[i]
           T == {k \in 0..len : ~Good(k)}
<1> HIDE DEF len
<1>3. T = {}
  <2> SUFFICES ASSUME T # {} PROVE FALSE
    OBVIOUS
  <2>1. T \subseteq Nat
    BY <1>0
  <2>2. PICK k \in T : \A y \in T : k <= y
    <3> HIDE DEF T
    <3> QED  BY <2>1, Smallest, Zenon
  <2>3. k \in 0..len /\ ~Good(k)
    BY <2>2
  <2>4. Good(0)
    BY <1>2
  <2>5. k # 0
    <3> HIDE DEF Good
    <3> QED  BY <2>3, <2>4
  <2>6. PICK j \in 0..len : k = j + 1
    <3>1. k - 1 \in 0..len /\ k = (k - 1) + 1
      BY <1>0, <2>3, <2>5
    <3> QED  BY <3>1
  <2>7. Good(j)
    <3>1. ~(j \in T)
      <4> HIDE DEF T
      <4> QED  BY <1>0, <2>2, <2>6
    <3> QED  BY <3>1
  <2>8. k \in 1..len
    BY <1>0, <2>3, <2>6
  <2>9. f[1..k] = IF f[1..j] > events[k] THEN f[1..j] ELSE events[k]
    BY <1>2, <2>6, <2>8
  <2>10. Good(k)
    BY <2>7, <2>8, <2>9
  <2> QED  BY <2>3, <2>10
<1>4. Good(len)
  BY <1>0, <1>3
<1> QED  BY <1>0, <1>1, <1>4

-----------------------------------------------------------------------------
(* How many messages of some kinds there are in a queue. *)

Places(s, kinds) == {i \in DOMAIN s : s[i].kind \in kinds}
Number(s, kinds) == Cardinality(Places(s, kinds))
One(b) == IF b THEN 1 ELSE 0

LEMMA PlacesFinite ==
  ASSUME NEW T, NEW s \in Seq(T), NEW kinds
  PROVE  IsFiniteSet(Places(s, kinds)) /\ Number(s, kinds) \in Nat
<1>1. Len(s) \in Nat /\ DOMAIN s = 1 .. Len(s)
  OBVIOUS
<1>2. IsFiniteSet(1 .. Len(s))
  BY <1>1, FS_Interval
<1>3. Places(s, kinds) \in SUBSET (1 .. Len(s))
  BY <1>1 DEF Places
<1>4. IsFiniteSet(Places(s, kinds))
  BY <1>2, <1>3, FS_Subset
<1> QED  BY <1>4, FS_CardinalityType DEF Number

LEMMA NumberOfNone == ASSUME NEW kinds PROVE Number(<<>>, kinds) = 0
<1>1. Places(<<>>, kinds) = {}
  BY DEF Places
<1> QED  BY <1>1, FS_EmptySet DEF Number

(* One is at least one; two are at least two. *)
LEMMA NumberOfSome ==
  ASSUME NEW T, NEW s \in Seq(T), NEW kinds, NEW i \in DOMAIN s, s[i].kind \in kinds
  PROVE  /\ Number(s, kinds) >= 1
         /\ Number(s, kinds) = 1 => \A j \in DOMAIN s : s[j].kind \in kinds => j = i
<1>1. IsFiniteSet(Places(s, kinds)) /\ Number(s, kinds) \in Nat
  BY PlacesFinite
<1>2. i \in Places(s, kinds)
  BY DEF Places
<1>3. Number(s, kinds) # 0
  BY <1>1, <1>2, FS_EmptySet DEF Number
<1>4. ASSUME Number(s, kinds) = 1, NEW j \in DOMAIN s, s[j].kind \in kinds PROVE j = i
  <2>1. j \in Places(s, kinds)
    BY <1>4 DEF Places
  <2>2. PICK x : Places(s, kinds) = {x}
    BY <1>1, <1>4, FS_Singleton, Zenon DEF Number
  <2> QED  BY <1>2, <2>1, <2>2
<1> QED  BY <1>1, <1>3, <1>4

LEMMA NumberIsZero ==
  ASSUME NEW T, NEW s \in Seq(T), NEW kinds
  PROVE  Number(s, kinds) = 0 <=> \A i \in DOMAIN s : s[i].kind \notin kinds
<1>1. Number(s, kinds) = 0 <=> Places(s, kinds) = {}
  BY PlacesFinite, FS_EmptySet DEF Number
<1> QED  BY <1>1 DEF Places

LEMMA NumberOfAppend ==
  ASSUME NEW T, NEW s \in Seq(T), NEW e \in T, NEW kinds
  PROVE  Number(Append(s, e), kinds) = Number(s, kinds) + One(e.kind \in kinds)
<1> DEFINE n == Len(s)
           t == Append(s, e)
<1>1. /\ n \in Nat /\ t \in Seq(T) /\ Len(t) = n + 1
      /\ \A i \in 1 .. n : t[i] = s[i]
      /\ t[n + 1] = e
  BY AppendProperties
<1>2. DOMAIN s = 1 .. n /\ DOMAIN t = 1 .. n + 1
  BY <1>1
<1> HIDE DEF t, n
<1>3. Places(t, kinds) = Places(s, kinds) \cup (IF e.kind \in kinds THEN {n + 1} ELSE {})
  BY <1>1, <1>2 DEF Places
<1>4. n + 1 \notin Places(s, kinds)
  BY <1>1, <1>2 DEF Places
<1>5. IsFiniteSet(Places(s, kinds)) /\ Number(s, kinds) \in Nat
  BY PlacesFinite
<1>6. CASE e.kind \in kinds
  <2>1. Places(t, kinds) = Places(s, kinds) \cup {n + 1}
    BY <1>3, <1>6
  <2>2. Cardinality(Places(s, kinds) \cup {n + 1}) = Cardinality(Places(s, kinds)) + 1
    BY <1>4, <1>5, FS_AddElement, Zenon
  <2> QED  BY <1>6, <2>1, <2>2 DEF Number, One, t
<1>7. CASE e.kind \notin kinds
  <2>1. Places(t, kinds) = Places(s, kinds)
    BY <1>3, <1>7
  <2> QED  BY <1>5, <1>7, <2>1 DEF Number, One, t
<1> QED  BY <1>6, <1>7

LEMMA NumberOfTail ==
  ASSUME NEW T, NEW s \in Seq(T), s # <<>>, NEW kinds
  PROVE  Number(s, kinds) = Number(Tail(s), kinds) + One(Head(s).kind \in kinds)
<1> DEFINE n == Len(s)
           t == Tail(s)
           P == Places(s, kinds)
           Q == Places(t, kinds)
           f == [i \in P \ {1} |-> i - 1]
<1>1. /\ n \in Nat \ {0} /\ t \in Seq(T) /\ Len(t) = n - 1
      /\ \A i \in 1 .. n - 1 : t[i] = s[i + 1]
  BY HeadTailProperties, EmptySeq
<1>2. DOMAIN s = 1 .. n /\ DOMAIN t = 1 .. n - 1 /\ Head(s) = s[1]
  BY <1>1
<1>3. IsFiniteSet(P) /\ Number(s, kinds) \in Nat
  BY PlacesFinite
<1> HIDE DEF n, t
<1>4. \A i \in P \ {1} : i - 1 \in Q
  BY <1>1, <1>2 DEF Places
<1>5. \A j \in Q : j + 1 \in P \ {1} /\ (j + 1) - 1 = j
  BY <1>1, <1>2 DEF Places
<1>6. P \subseteq Int
  BY <1>2 DEF Places
<1> HIDE DEF P, Q
<1>7. f \in Bijection(P \ {1}, Q)
  <2>1. f \in [P \ {1} -> Q]
    BY <1>4
  <2>2. f \in Injection(P \ {1}, Q)
    BY <1>6, <2>1 DEF Injection, IsInjective
  <2>3. f \in Surjection(P \ {1}, Q)
    BY <1>5, <2>1 DEF Surjection
  <2> QED  BY <2>2, <2>3 DEF Bijection
<1>8. IsFiniteSet(P \ {1}) /\ Cardinality(P \ {1}) =
            IF 1 \in P THEN Cardinality(P) - 1 ELSE Cardinality(P)
  BY <1>3, FS_RemoveElement
<1>9. Cardinality(Q) = Cardinality(P \ {1})
  BY <1>7, <1>8, FS_Bijection DEF ExistsBijection
<1>10. 1 \in P <=> Head(s).kind \in kinds
  BY <1>1, <1>2 DEF P, Places
<1> QED  BY <1>3, <1>8, <1>9, <1>10 DEF Number, One, P, Q, t

-----------------------------------------------------------------------------
(* The inductive invariant: types.  Every number is that of an event of the log. *)

Numbers == 1 .. log
Held == {held[e] : e \in Emitters} \ {0}
Message(kinds) == [kind : kinds, s : 0 .. log]
Histories == {"history", "noHistory"}
Requests == {"subscribe", "unsubscribe", "load"}
Deliveries == {"event", "reload", "ack", "nack", "history", "noHistory"}
Steps == {"idle", "event", "mark", "read", "send", "drain", "flush", "reload", "announce", "reply"}
Replies == {"none", "ack", "nack", "history", "noHistory"}
Job == [pc : Steps, out : Seq(Numbers), pos : 0 .. log, max : 0 .. log, more : BOOLEAN,
        reply : Message(Replies)]
Session == [sub : BOOLEAN, cp : 0 .. log, rep : BOOLEAN, buf : Seq(Numbers), pend : BOOLEAN]
Ghost == [gone : SUBSET Numbers, owed : SUBSET Numbers, excused : SUBSET Numbers]
Transport == [last : 0 .. log, intent : BOOLEAN, live : BOOLEAN, susp : BOOLEAN,
              need : BOOLEAN, att : {"none", "own", "resub"}, old : Nat]
Middleware == [load : BOOLEAN, buf : Seq(Numbers), reload : 0 .. Attempts, again : BOOLEAN]
Store == [page : {"closed", "open", "failed"},
          pc : {"idle", "start", "history", "hung", "ack", "retry"},
          last : 0 .. log, timeline : Seq(Numbers), stale : Nat]

ChannelTypes ==
  /\ log \in Seqs /\ held \in [Emitters -> 0 .. log]
  /\ chan \in Seq(Numbers) /\ Len(chan) <= ChanCap /\ lagged \in BOOLEAN
  /\ conn \in {"up", "closing", "down"} /\ ghost \in Ghost
SessionTypes == sess \in Session /\ Len(sess.buf) <= BufCap /\ task \in [{"fwd", "cmd"} -> Job]
SocketTypes ==
  /\ up \in Seq(Message(Requests)) /\ wire \in Seq(Message(Deliveries))
  /\ \A i \in DOMAIN wire : wire[i].kind = "event" => wire[i].s > 0
ClientTypes == tr \in Transport /\ mw \in Middleware /\ st \in Store

Types == ChannelTypes /\ SessionTypes /\ SocketTypes /\ ClientTypes

(* What a task holds at each of its steps, and what the session holds then.  *)
InReplay == {"read", "send", "drain", "reload"}

PageShape(j) ==
  /\ j.pc \in {"read", "send"} => \A i \in DOMAIN j.out : j.out[i] = j.pos + i
  /\ j.pc = "read" => j.out = <<>>
FwdShape(j) ==
  /\ j.pc \notin {"flush", "reply"}
  /\ j.pc \in {"event", "mark"} => j.max > 0
  /\ j.pc = "drain" => j.max = 0
CmdShape(j) ==
  /\ j.pc \notin {"event", "mark"}
  /\ j.pc = "reply" => j.reply.kind # "none"
  /\ j.pc \in InReplay \cup {"flush", "announce"} => j.reply.kind \in {"ack", "nack"}
TaskShape ==
  /\ FwdShape(task["fwd"]) /\ PageShape(task["fwd"])
  /\ CmdShape(task["cmd"]) /\ PageShape(task["cmd"])

SessionShape ==
  /\ ~sess.sub => sess.cp = 0 /\ ~sess.rep
  /\ ~sess.rep => sess.buf = <<>>
  /\ task["fwd"].pc \in InReplay \cup {"announce"} => sess.buf = <<>>
  /\ ~lagged => ghost.gone = {}
  /\ conn # "up" => /\ sess = NewSession /\ task = NewTasks /\ chan = <<>> /\ ~lagged
                    /\ up = <<>> /\ wire = <<>>
  /\ ghost.owed # {} => sess.pend \/ ~sess.sub \/ \E t \in {"fwd", "cmd"} : task[t].pc = "reload"

(* Of the numbers that were given, a higher one is broadcast before a lower *)
(* one only if the lower one is excused.                                   *)
Emission ==
  /\ \A e, f \in Emitters : held[e] = held[f] /\ held[e] # 0 => e = f
  /\ \A d \in Held, s \in Numbers \ Held : d < s => d \in ghost.excused
  /\ Range(chan) \cap Held = {}
  /\ \A i, j \in DOMAIN chan : i < j /\ chan[j] < chan[i] => chan[j] \in ghost.excused

(* The client's modes. *)
Modes ==
  /\ conn = "down" => st.stale = 0 /\ st.pc \notin {"history", "ack", "hung"}
  /\ conn = "closing" => st.pc # "ack"
  /\ st.pc \in {"start", "history", "hung", "ack"} => st.page = "open"
  /\ st.pc = "retry" => st.page = "failed"
  /\ st.pc \in {"start", "history", "ack"} => mw.load
  /\ mw.again => mw.reload > 0
  /\ mw.reload > 0 => st.pc # "idle"

(* Each history load has one answer. *)
Answering == task["cmd"].pc = "reply" /\ task["cmd"].reply.kind \in Histories
Answers ==
  conn = "up" => Number(up, {"load"}) + Number(wire, Histories) + One(Answering)
                   = st.stale + One(st.pc = "history")

(* Nothing happened before the page was opened. *)
Unopened ==
  /\ visits \in Nat
  /\ visits = 0 => /\ up = <<>> /\ wire = <<>> /\ sess = NewSession /\ task = NewTasks
                   /\ st.page = "closed" /\ ~tr.intent /\ tr.att = "none"

(* What is under way when the page waits, and when it is loaded. *)
Resting == st.page = "open" /\ ~mw.again /\ st.pc \in {"ack", "idle"}
Requested ==
  /\ st.pc = "history" => up = <<>> \/ up[Len(up)].kind = "load"
  /\ st.pc = "history" /\ up = <<>> => task["cmd"].pc = "idle" \/ Answering
  /\ Resting /\ up # <<>> => /\ Len(up) = 1 /\ up[1].kind = "subscribe" /\ up[1].s <= tr.last
                             /\ task["cmd"].pc \in {"idle", "reply"}
  /\ Resting /\ up = <<>> => sess.sub \/ (ghost.owed = {} /\ task = NewTasks)

(* The claims.  A page is settled when its history is in place, or was read  *)
(* by the server and is on its way; Base is the number of events in it.    *)
Reloading == Msg("reload", 0) \in Range(wire)
Subscribing == up # <<>> /\ Head(up).kind = "subscribe"

BaseIs(h) ==
  \/ task["cmd"].pc = "reply" /\ task["cmd"].reply = Msg("history", h)
  \/ /\ task["cmd"].pc # "reply"
     /\ \E i \in DOMAIN wire :
          wire[i] = Msg("history", h) /\ \A j \in DOMAIN wire : wire[j].kind \in Histories => j <= i
Waiting == st.pc = "history" /\ up = <<>> /\ conn = "up" /\ \E h \in 0 .. log : BaseIs(h)
Settled == st.page = "open" /\ ~mw.again /\ (st.pc \in {"ack", "idle"} \/ Waiting)

(* What the page need not show: the excused, and, when a _full_reload is    *)
(* bound to reach it, what that will bring.                                *)
Doomed ==
  \/ Reloading
  \/ task["fwd"].pc = "announce" \/ task["cmd"].pc = "announce"
  \/ ~sess.pend /\ (task["fwd"].pc = "reload" \/ task["cmd"].pc = "reload")
Strict == Subscribing \/ (st.pc = "history" /\ up = <<>>)
Out == ghost.excused \cup (IF Doomed /\ ~Strict THEN ghost.owed ELSE {})

Had == IF st.pc = "history" THEN {d \in Numbers : \E h \in 0 .. log : BaseIs(h) /\ d <= h} ELSE Shown
Got == Out \cup Had
Here == Got \cup Range(mw.buf)
Sent == {d \in Numbers : Msg("event", d) \in Range(wire)}
Safe == Here \cup Sent

(* Each event of a sequence comes after all that precede it and are not in S. *)
Follows(s, S) == \A i \in DOMAIN s : 1 .. (s[i] - 1) \subseteq S \cup {s[j] : j \in 1 .. i - 1}

WireOrder ==
  \A i \in DOMAIN wire :
    wire[i].kind = "event" /\ (\A j \in 1 .. i - 1 : wire[j].kind # "reload") =>
      \A d \in 1 .. (wire[i].s - 1) : d \in Here \/ \E j \in 1 .. i - 1 : wire[j] = Msg("event", d)
TimelineOrder ==
  st.pc # "history" => /\ Follows(st.timeline, Out)
                       /\ st.last = 0 \/ st.last \in Shown
ClientClaims ==
  Settled => TimelineOrder /\ Follows(mw.buf, Got) /\ WireOrder /\ 1 .. tr.last \subseteq Here

(* What a replay will still send. *)
Brings(t) ==
  IF task[t].pc = "read" \/ (task[t].pc = "send" /\ task[t].more)
    THEN {d \in Numbers : d > task[t].pos}
  ELSE IF task[t].pc \in {"send", "flush"} THEN Range(task[t].out)
  ELSE IF task[t].pc = "reload" THEN {d \in Numbers : d > sess.cp}
  ELSE {}

SentAll ==
  /\ sess.sub => 1 .. sess.cp \subseteq Safe
  /\ task["fwd"].pc = "event" => 1 .. (task["fwd"].max - 1) \subseteq Safe
  /\ task["fwd"].pc = "mark" => 1 .. task["fwd"].max \subseteq Safe
  /\ \A t \in {"fwd", "cmd"} : task[t].pc \in {"read", "send"} => 1 .. task[t].pos \subseteq Safe
  /\ task["cmd"].pc \in {"drain", "flush"} => 1 .. task["cmd"].max \subseteq Safe
  /\ task["cmd"].pc = "flush" => Follows(task["cmd"].out, Safe)
  /\ Follows(sess.buf, Safe \cup Brings("cmd"))

Taken == IF task["fwd"].pc = "event" THEN {task["fwd"].max} ELSE {}
Pool == Safe \cup Held \cup Range(chan) \cup ghost.gone
Receptive == task["fwd"].pc \in {"idle", "event", "mark"} /\ sess.sub
Covered ==
  /\ Receptive /\ ~sess.rep => Numbers \subseteq Pool \cup Taken
  /\ Receptive /\ sess.rep /\ Len(sess.buf) < BufCap =>
       Numbers \subseteq Pool \cup Taken \cup Range(sess.buf) \cup Brings("cmd")
  /\ task["fwd"].pc \in InReplay =>
       Numbers \subseteq Pool \cup (IF sess.pend THEN {} ELSE Brings("fwd"))
Busy == task["cmd"].pc \in InReplay \cup {"flush"}
ServerClaims ==
  Settled /\ conn = "up" /\ ~Reloading =>
     SentAll /\ Covered /\ (sess.pend /\ Busy => task["fwd"].pc = "announce")
BusyClaims == Settled /\ Busy => st.pc # "history" /\ up = <<>>

Shape == TaskShape /\ SessionShape /\ Emission
Protocol == Modes /\ Answers /\ Unopened /\ Requested
Claims == ClientClaims /\ ServerClaims /\ BusyClaims
Invariant == Types /\ Shape /\ Protocol /\ Claims

-----------------------------------------------------------------------------
(* What the server's steps do, with the records that they change written out. *)

JobOf(p, o, q, m, b, y) == [pc |-> p, out |-> o, pos |-> q, max |-> m, more |-> b, reply |-> y]
SessionOf(s, c, r, b, p) == [sub |-> s, cp |-> c, rep |-> r, buf |-> b, pend |-> p]
GhostOf(g, o, x) == [gone |-> g, owed |-> o, excused |-> x]
Tasks == {"fwd", "cmd"}

LEMMA JobFields ==
  ASSUME NEW j \in Job
  PROVE  /\ j = JobOf(j.pc, j.out, j.pos, j.max, j.more, j.reply)
         /\ j.pc \in Steps /\ j.out \in Seq(Numbers) /\ j.pos \in 0 .. log /\ j.max \in 0 .. log
         /\ j.more \in BOOLEAN /\ j.reply \in Message(Replies)
<1>1. j = JobOf(j.pc, j.out, j.pos, j.max, j.more, j.reply)
  BY DEF Job, JobOf
<1>2. /\ j.pc \in Steps /\ j.out \in Seq(Numbers) /\ j.pos \in 0 .. log /\ j.max \in 0 .. log
      /\ j.more \in BOOLEAN /\ j.reply \in Message(Replies)
  BY DEF Job
<1> QED  BY <1>1, <1>2

LEMMA JobChanges ==
  ASSUME NEW j \in Job
  PROVE  /\ \A p \in Steps : [j EXCEPT !.pc = p] = JobOf(p, j.out, j.pos, j.max, j.more, j.reply)
         /\ \A p \in Steps, b \in BOOLEAN, o \in Seq(Numbers) : [j EXCEPT !.pc = p, !.more = b, !.out = o] = JobOf(p, o, j.pos, j.max, b, j.reply)
         /\ \A p \in Steps, y \in Message(Replies) : [j EXCEPT !.pc = p, !.reply = y] = JobOf(p, j.out, j.pos, j.max, j.more, y)
         /\ \A q \in 0 .. log, o \in Seq(Numbers) : [j EXCEPT !.pos = q, !.out = o] = JobOf(j.pc, o, q, j.max, j.more, j.reply)
         /\ \A p \in Steps, m \in 0 .. log : [j EXCEPT !.pc = p, !.max = m] = JobOf(p, j.out, j.pos, m, j.more, j.reply)
         /\ \A p \in Steps, o \in Seq(Numbers) : [j EXCEPT !.pc = p, !.out = o] = JobOf(p, o, j.pos, j.max, j.more, j.reply)
         /\ \A m \in 0 .. log, o \in Seq(Numbers) : [j EXCEPT !.max = m, !.out = o] = JobOf(j.pc, o, j.pos, m, j.more, j.reply)
         /\ \A p \in Steps, q \in 0 .. log : [j EXCEPT !.pc = p, !.pos = q] = JobOf(p, j.out, q, j.max, j.more, j.reply)
         /\ \A p \in Steps, q \in 0 .. log, y \in Message(Replies) : [j EXCEPT !.pc = p, !.pos = q, !.reply = y] = JobOf(p, j.out, q, j.max, j.more, y)
<1>1. ASSUME NEW p \in Steps
      PROVE  [j EXCEPT !.pc = p] = JobOf(p, j.out, j.pos, j.max, j.more, j.reply)
  <2> DEFINE r == [j EXCEPT !.pc = p]
  <2>1. r \in Job /\ r.pc = p /\ r.out = j.out /\ r.pos = j.pos /\ r.max = j.max /\ r.more = j.more /\ r.reply = j.reply
    BY DEF Job
  <2> HIDE DEF r
  <2>2. r = JobOf(r.pc, r.out, r.pos, r.max, r.more, r.reply)
    BY <2>1, JobFields
  <2> QED  BY <2>1, <2>2 DEF r
<1>2. ASSUME NEW p \in Steps, NEW b \in BOOLEAN, NEW o \in Seq(Numbers)
      PROVE  [j EXCEPT !.pc = p, !.more = b, !.out = o] = JobOf(p, o, j.pos, j.max, b, j.reply)
  <2> DEFINE r == [j EXCEPT !.pc = p, !.more = b, !.out = o]
  <2>1. r \in Job /\ r.pc = p /\ r.out = o /\ r.pos = j.pos /\ r.max = j.max /\ r.more = b /\ r.reply = j.reply
    BY Zenon DEF Job
  <2> HIDE DEF r
  <2>2. r = JobOf(r.pc, r.out, r.pos, r.max, r.more, r.reply)
    BY <2>1, JobFields
  <2> QED  BY <2>1, <2>2 DEF r
<1>3. ASSUME NEW p \in Steps, NEW y \in Message(Replies)
      PROVE  [j EXCEPT !.pc = p, !.reply = y] = JobOf(p, j.out, j.pos, j.max, j.more, y)
  <2> DEFINE r == [j EXCEPT !.pc = p, !.reply = y]
  <2>1. r \in Job /\ r.pc = p /\ r.out = j.out /\ r.pos = j.pos /\ r.max = j.max /\ r.more = j.more /\ r.reply = y
    BY Zenon DEF Job
  <2> HIDE DEF r
  <2>2. r = JobOf(r.pc, r.out, r.pos, r.max, r.more, r.reply)
    BY <2>1, JobFields
  <2> QED  BY <2>1, <2>2 DEF r
<1>4. ASSUME NEW q \in 0 .. log, NEW o \in Seq(Numbers)
      PROVE  [j EXCEPT !.pos = q, !.out = o] = JobOf(j.pc, o, q, j.max, j.more, j.reply)
  <2> DEFINE r == [j EXCEPT !.pos = q, !.out = o]
  <2>1. r \in Job /\ r.pc = j.pc /\ r.out = o /\ r.pos = q /\ r.max = j.max /\ r.more = j.more /\ r.reply = j.reply
    BY Zenon DEF Job
  <2> HIDE DEF r
  <2>2. r = JobOf(r.pc, r.out, r.pos, r.max, r.more, r.reply)
    BY <2>1, JobFields
  <2> QED  BY <2>1, <2>2 DEF r
<1>5. ASSUME NEW p \in Steps, NEW m \in 0 .. log
      PROVE  [j EXCEPT !.pc = p, !.max = m] = JobOf(p, j.out, j.pos, m, j.more, j.reply)
  <2> DEFINE r == [j EXCEPT !.pc = p, !.max = m]
  <2>1. r \in Job /\ r.pc = p /\ r.out = j.out /\ r.pos = j.pos /\ r.max = m /\ r.more = j.more /\ r.reply = j.reply
    BY Zenon DEF Job
  <2> HIDE DEF r
  <2>2. r = JobOf(r.pc, r.out, r.pos, r.max, r.more, r.reply)
    BY <2>1, JobFields
  <2> QED  BY <2>1, <2>2 DEF r
<1>6. ASSUME NEW p \in Steps, NEW o \in Seq(Numbers)
      PROVE  [j EXCEPT !.pc = p, !.out = o] = JobOf(p, o, j.pos, j.max, j.more, j.reply)
  <2> DEFINE r == [j EXCEPT !.pc = p, !.out = o]
  <2>1. r \in Job /\ r.pc = p /\ r.out = o /\ r.pos = j.pos /\ r.max = j.max /\ r.more = j.more /\ r.reply = j.reply
    BY Zenon DEF Job
  <2> HIDE DEF r
  <2>2. r = JobOf(r.pc, r.out, r.pos, r.max, r.more, r.reply)
    BY <2>1, JobFields
  <2> QED  BY <2>1, <2>2 DEF r
<1>7. ASSUME NEW m \in 0 .. log, NEW o \in Seq(Numbers)
      PROVE  [j EXCEPT !.max = m, !.out = o] = JobOf(j.pc, o, j.pos, m, j.more, j.reply)
  <2> DEFINE r == [j EXCEPT !.max = m, !.out = o]
  <2>1. r \in Job /\ r.pc = j.pc /\ r.out = o /\ r.pos = j.pos /\ r.max = m /\ r.more = j.more /\ r.reply = j.reply
    BY Zenon DEF Job
  <2> HIDE DEF r
  <2>2. r = JobOf(r.pc, r.out, r.pos, r.max, r.more, r.reply)
    BY <2>1, JobFields
  <2> QED  BY <2>1, <2>2 DEF r
<1>8. ASSUME NEW p \in Steps, NEW q \in 0 .. log
      PROVE  [j EXCEPT !.pc = p, !.pos = q] = JobOf(p, j.out, q, j.max, j.more, j.reply)
  <2> DEFINE r == [j EXCEPT !.pc = p, !.pos = q]
  <2>1. r \in Job /\ r.pc = p /\ r.out = j.out /\ r.pos = q /\ r.max = j.max /\ r.more = j.more /\ r.reply = j.reply
    BY Zenon DEF Job
  <2> HIDE DEF r
  <2>2. r = JobOf(r.pc, r.out, r.pos, r.max, r.more, r.reply)
    BY <2>1, JobFields
  <2> QED  BY <2>1, <2>2 DEF r
<1>9. ASSUME NEW p \in Steps, NEW q \in 0 .. log, NEW y \in Message(Replies)
      PROVE  [j EXCEPT !.pc = p, !.pos = q, !.reply = y] = JobOf(p, j.out, q, j.max, j.more, y)
  <2> DEFINE r == [j EXCEPT !.pc = p, !.pos = q, !.reply = y]
  <2>1. r \in Job /\ r.pc = p /\ r.out = j.out /\ r.pos = q /\ r.max = j.max /\ r.more = j.more /\ r.reply = y
    BY Zenon DEF Job
  <2> HIDE DEF r
  <2>2. r = JobOf(r.pc, r.out, r.pos, r.max, r.more, r.reply)
    BY <2>1, JobFields
  <2> QED  BY <2>1, <2>2 DEF r
<1> QED  BY <1>1, <1>2, <1>3, <1>4, <1>5, <1>6, <1>7, <1>8, <1>9, Zenon

LEMMA JobTyped ==
  ASSUME NEW p \in Steps, NEW o \in Seq(Numbers), NEW q \in 0 .. log, NEW m \in 0 .. log,
         NEW b \in BOOLEAN, NEW y \in Message(Replies)
  PROVE  JobOf(p, o, q, m, b, y) \in Job
BY DEF Job, JobOf

LEMMA SessionFields ==
  ASSUME NEW s \in Session
  PROVE  /\ s = SessionOf(s.sub, s.cp, s.rep, s.buf, s.pend)
         /\ s.sub \in BOOLEAN /\ s.cp \in 0 .. log /\ s.rep \in BOOLEAN /\ s.buf \in Seq(Numbers)
         /\ s.pend \in BOOLEAN
<1>1. s = SessionOf(s.sub, s.cp, s.rep, s.buf, s.pend)
  BY DEF Session, SessionOf
<1>2. s.sub \in BOOLEAN /\ s.cp \in 0 .. log /\ s.rep \in BOOLEAN /\ s.buf \in Seq(Numbers) /\ s.pend \in BOOLEAN
  BY DEF Session
<1> QED  BY <1>1, <1>2

LEMMA SessionChanges ==
  ASSUME NEW s \in Session
  PROVE  /\ \A b \in Seq(Numbers) : [s EXCEPT !.buf = b] = SessionOf(s.sub, s.cp, s.rep, b, s.pend)
         /\ \A c \in 0 .. log : [s EXCEPT !.cp = c] = SessionOf(s.sub, c, s.rep, s.buf, s.pend)
         /\ \A r \in BOOLEAN : [s EXCEPT !.rep = r] = SessionOf(s.sub, s.cp, r, s.buf, s.pend)
         /\ \A a \in BOOLEAN, c \in 0 .. log, p \in BOOLEAN, r \in BOOLEAN : [s EXCEPT !.sub = a, !.cp = c, !.pend = p, !.rep = r] = SessionOf(a, c, r, s.buf, p)
         /\ \A b \in Seq(Numbers), r \in BOOLEAN : [s EXCEPT !.buf = b, !.rep = r] = SessionOf(s.sub, s.cp, r, b, s.pend)
         /\ \A b \in Seq(Numbers), r \in BOOLEAN, p \in BOOLEAN : [s EXCEPT !.buf = b, !.rep = r, !.pend = p] = SessionOf(s.sub, s.cp, r, b, p)
<1>1. ASSUME NEW b \in Seq(Numbers)
      PROVE  [s EXCEPT !.buf = b] = SessionOf(s.sub, s.cp, s.rep, b, s.pend)
  <2> DEFINE z == [s EXCEPT !.buf = b]
  <2>1. z \in Session /\ z.sub = s.sub /\ z.cp = s.cp /\ z.rep = s.rep /\ z.buf = b /\ z.pend = s.pend
    BY DEF Session
  <2> HIDE DEF z
  <2>2. z = SessionOf(z.sub, z.cp, z.rep, z.buf, z.pend)
    BY <2>1, SessionFields
  <2> QED  BY <2>1, <2>2 DEF z
<1>2. ASSUME NEW c \in 0 .. log
      PROVE  [s EXCEPT !.cp = c] = SessionOf(s.sub, c, s.rep, s.buf, s.pend)
  <2> DEFINE z == [s EXCEPT !.cp = c]
  <2>1. z \in Session /\ z.sub = s.sub /\ z.cp = c /\ z.rep = s.rep /\ z.buf = s.buf /\ z.pend = s.pend
    BY DEF Session
  <2> HIDE DEF z
  <2>2. z = SessionOf(z.sub, z.cp, z.rep, z.buf, z.pend)
    BY <2>1, SessionFields
  <2> QED  BY <2>1, <2>2 DEF z
<1>3. ASSUME NEW r \in BOOLEAN
      PROVE  [s EXCEPT !.rep = r] = SessionOf(s.sub, s.cp, r, s.buf, s.pend)
  <2> DEFINE z == [s EXCEPT !.rep = r]
  <2>1. z \in Session /\ z.sub = s.sub /\ z.cp = s.cp /\ z.rep = r /\ z.buf = s.buf /\ z.pend = s.pend
    BY DEF Session
  <2> HIDE DEF z
  <2>2. z = SessionOf(z.sub, z.cp, z.rep, z.buf, z.pend)
    BY <2>1, SessionFields
  <2> QED  BY <2>1, <2>2 DEF z
<1>4. ASSUME NEW a \in BOOLEAN, NEW c \in 0 .. log, NEW p \in BOOLEAN, NEW r \in BOOLEAN
      PROVE  [s EXCEPT !.sub = a, !.cp = c, !.pend = p, !.rep = r] = SessionOf(a, c, r, s.buf, p)
  <2> DEFINE z == [s EXCEPT !.sub = a, !.cp = c, !.pend = p, !.rep = r]
  <2>1. z \in Session /\ z.sub = a /\ z.cp = c /\ z.rep = r /\ z.buf = s.buf /\ z.pend = p
    BY Zenon DEF Session
  <2> HIDE DEF z
  <2>2. z = SessionOf(z.sub, z.cp, z.rep, z.buf, z.pend)
    BY <2>1, SessionFields
  <2> QED  BY <2>1, <2>2 DEF z
<1>5. ASSUME NEW b \in Seq(Numbers), NEW r \in BOOLEAN
      PROVE  [s EXCEPT !.buf = b, !.rep = r] = SessionOf(s.sub, s.cp, r, b, s.pend)
  <2> DEFINE z == [s EXCEPT !.buf = b, !.rep = r]
  <2>1. z \in Session /\ z.sub = s.sub /\ z.cp = s.cp /\ z.rep = r /\ z.buf = b /\ z.pend = s.pend
    BY Zenon DEF Session
  <2> HIDE DEF z
  <2>2. z = SessionOf(z.sub, z.cp, z.rep, z.buf, z.pend)
    BY <2>1, SessionFields
  <2> QED  BY <2>1, <2>2 DEF z
<1>6. ASSUME NEW b \in Seq(Numbers), NEW r \in BOOLEAN, NEW p \in BOOLEAN
      PROVE  [s EXCEPT !.buf = b, !.rep = r, !.pend = p] = SessionOf(s.sub, s.cp, r, b, p)
  <2> DEFINE z == [s EXCEPT !.buf = b, !.rep = r, !.pend = p]
  <2>1. z \in Session /\ z.sub = s.sub /\ z.cp = s.cp /\ z.rep = r /\ z.buf = b /\ z.pend = p
    BY Zenon DEF Session
  <2> HIDE DEF z
  <2>2. z = SessionOf(z.sub, z.cp, z.rep, z.buf, z.pend)
    BY <2>1, SessionFields
  <2> QED  BY <2>1, <2>2 DEF z
<1> QED  BY <1>1, <1>2, <1>3, <1>4, <1>5, <1>6, Zenon

LEMMA SessionTyped ==
  ASSUME NEW s \in BOOLEAN, NEW c \in 0 .. log, NEW r \in BOOLEAN, NEW b \in Seq(Numbers), NEW p \in BOOLEAN
  PROVE  SessionOf(s, c, r, b, p) \in Session
BY DEF Session, SessionOf

(* The checkpoint moves forward only while the run is subscribed. *)
To(s) == IF sess.sub THEN MaxOf(sess.cp, s) ELSE sess.cp
LEMMA AdvancedIs ==
  ASSUME sess \in Session, log \in Nat, NEW s \in 0 .. log
  PROVE  Advanced(s) = SessionOf(sess.sub, To(s), sess.rep, sess.buf, sess.pend)
<1>1. [sess EXCEPT !.cp = MaxOf(@, s)] = SessionOf(sess.sub, MaxOf(sess.cp, s), sess.rep, sess.buf, sess.pend)
  <2>1. MaxOf(sess.cp, s) \in 0 .. log
    BY SessionFields DEF MaxOf
  <2> QED  BY <2>1, SessionFields, SessionChanges, Zenon
<1>2. sess = SessionOf(sess.sub, sess.cp, sess.rep, sess.buf, sess.pend)
  BY SessionFields
<1> QED  BY <1>1, <1>2, Zenon DEF Advanced, To

LEMMA ToTyped ==
  ASSUME sess \in Session, log \in Nat, NEW s \in 0 .. log
  PROVE  To(s) \in 0 .. log
BY DEF To, MaxOf, Session

LEMMA GhostFields ==
  ASSUME NEW g \in Ghost
  PROVE  /\ g = GhostOf(g.gone, g.owed, g.excused)
         /\ g.gone \subseteq Numbers /\ g.owed \subseteq Numbers /\ g.excused \subseteq Numbers
<1>1. g = GhostOf(g.gone, g.owed, g.excused)
  BY DEF Ghost, GhostOf
<1>2. g.gone \subseteq Numbers /\ g.owed \subseteq Numbers /\ g.excused \subseteq Numbers
  BY DEF Ghost
<1> QED  BY <1>1, <1>2

LEMMA GhostChanges ==
  ASSUME NEW g \in Ghost
  PROVE  /\ \A a \in SUBSET Numbers : [g EXCEPT !.gone = a] = GhostOf(a, g.owed, g.excused)
         /\ \A o \in SUBSET Numbers : [g EXCEPT !.owed = o] = GhostOf(g.gone, o, g.excused)
         /\ \A a \in SUBSET Numbers, x \in SUBSET Numbers : [g EXCEPT !.gone = a, !.excused = x] = GhostOf(a, g.owed, x)
<1>1. ASSUME NEW a \in SUBSET Numbers
      PROVE  [g EXCEPT !.gone = a] = GhostOf(a, g.owed, g.excused)
  <2> DEFINE z == [g EXCEPT !.gone = a]
  <2>1. z \in Ghost /\ z.gone = a /\ z.owed = g.owed /\ z.excused = g.excused
    BY DEF Ghost
  <2> HIDE DEF z
  <2>2. z = GhostOf(z.gone, z.owed, z.excused)
    BY <2>1, GhostFields
  <2> QED  BY <2>1, <2>2 DEF z
<1>2. ASSUME NEW o \in SUBSET Numbers
      PROVE  [g EXCEPT !.owed = o] = GhostOf(g.gone, o, g.excused)
  <2> DEFINE z == [g EXCEPT !.owed = o]
  <2>1. z \in Ghost /\ z.gone = g.gone /\ z.owed = o /\ z.excused = g.excused
    BY DEF Ghost
  <2> HIDE DEF z
  <2>2. z = GhostOf(z.gone, z.owed, z.excused)
    BY <2>1, GhostFields
  <2> QED  BY <2>1, <2>2 DEF z
<1>3. ASSUME NEW a \in SUBSET Numbers, NEW x \in SUBSET Numbers
      PROVE  [g EXCEPT !.gone = a, !.excused = x] = GhostOf(a, g.owed, x)
  <2> DEFINE z == [g EXCEPT !.gone = a, !.excused = x]
  <2>1. z \in Ghost /\ z.gone = a /\ z.owed = g.owed /\ z.excused = x
    BY Zenon DEF Ghost
  <2> HIDE DEF z
  <2>2. z = GhostOf(z.gone, z.owed, z.excused)
    BY <2>1, GhostFields
  <2> QED  BY <2>1, <2>2 DEF z
<1> QED  BY <1>1, <1>2, <1>3, Zenon

LEMMA GhostTyped ==
  ASSUME NEW g \in SUBSET Numbers, NEW o \in SUBSET Numbers, NEW x \in SUBSET Numbers
  PROVE  GhostOf(g, o, x) \in Ghost
BY DEF Ghost, GhostOf

(* What a task turns into. *)
LEMMA Becoming ==
  ASSUME NEW t \in Tasks, NEW r, task \in [Tasks -> Job], Become(t, r)
  PROVE  /\ task' = [u \in Tasks |-> IF u = t THEN r ELSE task[u]]
         /\ task'[t] = r
         /\ \A u \in Tasks : u # t => task'[u] = task[u]
         /\ r \in Job => task' \in [Tasks -> Job]
BY Zenon DEF Become

(* The sets that types are made of change only with the log. *)
LEMMA SameSets ==
  ASSUME log' = log
  PROVE  Numbers' = Numbers /\ Job' = Job /\ Session' = Session /\ Ghost' = Ghost
         /\ Transport' = Transport /\ Middleware' = Middleware /\ Store' = Store
         /\ \A k : Message(k)' = Message(k)
BY DEF Numbers, Job, Session, Ghost, Transport, Middleware, Store, Message

-----------------------------------------------------------------------------
(* Types are preserved.  First the variables a step may leave alone or change *)
(* in a way that several steps share.                                      *)

LEMMA LogIsNat ==
  ASSUME Types
  PROVE  log \in Nat /\ log \in 0 .. log /\ 0 \in 0 .. log
BY DEF Types, ChannelTypes, Seqs

LEMMA ClientFrame ==
  ASSUME ClientTypes, log' = log, UNCHANGED client
  PROVE  ClientTypes'
BY SameSets DEF ClientTypes, client

LEMMA ChannelFrame ==
  ASSUME ChannelTypes, UNCHANGED <<log, held, chan, lagged, conn, ghost>>
  PROVE  ChannelTypes'
BY SameSets DEF ChannelTypes

LEMMA SessionFrame ==
  ASSUME SessionTypes, log' = log, sess' = sess, task' \in [Tasks -> Job]
  PROVE  SessionTypes'
BY SameSets DEF SessionTypes, Tasks

LEMMA SessionMoves ==
  ASSUME log' = log, sess' \in Session, Len(sess'.buf) <= BufCap, task' \in [Tasks -> Job]
  PROVE  SessionTypes'
BY SameSets DEF SessionTypes, Tasks

LEMMA SocketFrame ==
  ASSUME SocketTypes, UNCHANGED <<log, up, wire>>
  PROVE  SocketTypes'
BY SameSets DEF SocketTypes

LEMMA WireGrows ==
  ASSUME SocketTypes, log' = log, up' = up,
         NEW m \in Message(Deliveries), m.kind = "event" => m.s > 0, wire' = Append(wire, m)
  PROVE  SocketTypes'
<1>1. wire' \in Seq(Message(Deliveries))
  BY DEF SocketTypes
<1>2. ASSUME NEW i \in DOMAIN wire', wire'[i].kind = "event" PROVE wire'[i].s > 0
  <2>1. Len(wire) \in Nat /\ DOMAIN wire' = 1 .. Len(wire) + 1 /\ DOMAIN wire = 1 .. Len(wire)
    BY DEF SocketTypes
  <2>2. i \in DOMAIN wire \/ i = Len(wire) + 1
    BY <2>1
  <2>3. i \in DOMAIN wire => wire'[i] = wire[i]
    BY <2>1 DEF SocketTypes
  <2>4. i = Len(wire) + 1 => wire'[i] = m
    BY <2>1 DEF SocketTypes
  <2> QED  BY <1>2, <2>2, <2>3, <2>4 DEF SocketTypes
<1>3. Message(Deliveries)' = Message(Deliveries) /\ Message(Requests)' = Message(Requests)
  BY DEF Message, Deliveries, Requests
<1> QED  BY <1>1, <1>2, <1>3 DEF SocketTypes

LEMMA WireShrinks ==
  ASSUME SocketTypes, log' = log, up' = up, wire # <<>>, wire' = Tail(wire)
  PROVE  SocketTypes' /\ Head(wire) \in Message(Deliveries) /\ Head(wire) = wire[1]
         /\ Len(wire) \in Nat \ {0} /\ DOMAIN wire' = 1 .. Len(wire) - 1
         /\ \A i \in DOMAIN wire' : i + 1 \in DOMAIN wire /\ wire'[i] = wire[i + 1]
<1>1. /\ wire' \in Seq(Message(Deliveries)) /\ Head(wire) \in Message(Deliveries) /\ Head(wire) = wire[1]
      /\ Len(wire) \in Nat \ {0} /\ DOMAIN wire' = 1 .. Len(wire) - 1 /\ DOMAIN wire = 1 .. Len(wire)
  BY DEF SocketTypes
<1>2. \A i \in DOMAIN wire' : i + 1 \in DOMAIN wire /\ wire'[i] = wire[i + 1]
  BY <1>1 DEF SocketTypes
<1>3. Message(Deliveries)' = Message(Deliveries) /\ Message(Requests)' = Message(Requests)
  BY DEF Message, Deliveries, Requests
<1>4. \A i \in DOMAIN wire' : wire'[i].kind = "event" => wire'[i].s > 0
  BY <1>2 DEF SocketTypes
<1> QED  BY <1>1, <1>2, <1>3, <1>4 DEF SocketTypes

LEMMA RequestTaken ==
  ASSUME SocketTypes, NEW kind, Taking(kind), log' = log, wire' = wire
  PROVE  SocketTypes' /\ Head(up) \in Message(Requests) /\ Head(up) = up[1] /\ Head(up).kind = kind
<1>1. up' \in Seq(Message(Requests)) /\ Head(up) \in Message(Requests) /\ Head(up) = up[1]
  BY DEF SocketTypes, Taking
<1>2. Message(Deliveries)' = Message(Deliveries) /\ Message(Requests)' = Message(Requests)
  BY DEF Message, Deliveries, Requests
<1> QED  BY <1>1, <1>2 DEF SocketTypes, Taking

LEMMA MsgTyped ==
  ASSUME log \in Nat, NEW k, NEW S, k \in S, NEW s \in 0 .. log
  PROVE  Msg(k, s) \in Message(S) /\ Msg(k, s).kind = k /\ Msg(k, s).s = s
BY DEF Msg, Message

LEMMA Parts ==
  ASSUME Types
  PROVE  /\ sess \in Session /\ task \in [Tasks -> Job] /\ ghost \in Ghost
         /\ task["fwd"] \in Job /\ task["cmd"] \in Job
         /\ log \in Nat
BY LogIsNat DEF Types, ChannelTypes, SessionTypes, Tasks

LEMMA FirstInChannel ==
  ASSUME Types, NEW s \in Seqs, Receiving(s)
  PROVE  /\ s \in Numbers /\ s = chan[1] /\ chan' \in Seq(Numbers) /\ Len(chan') <= ChanCap
         /\ Len(chan) \in Nat \ {0} /\ Len(chan') = Len(chan) - 1
         /\ \A i \in 1 .. Len(chan) - 1 : chan'[i] = chan[i + 1]
  BY WsSessionAssumption DEF Receiving, Types, ChannelTypes

-----------------------------------------------------------------------------
(* The server's emitters. *)

LEMMA PersistTyped ==
  ASSUME Types, NEW e \in Emitters, Persist(e), UNCHANGED client
  PROVE  Types'
<1>1. log' = log + 1 /\ log \in Nat /\ log' \in Nat /\ log' \in Seqs
  BY LogIsNat, WsSessionAssumption DEF Persist, Seqs
<1>2. Numbers \subseteq Numbers' /\ 0 .. log \subseteq 0 .. log'
  BY <1>1 DEF Numbers
<1>3. Seq(Numbers) \subseteq Seq(Numbers') /\ SUBSET Numbers \subseteq SUBSET Numbers'
  BY <1>2
<1>4. Job \subseteq Job' /\ Session \subseteq Session' /\ Ghost \subseteq Ghost'
  <2>1. Replies' = Replies /\ Steps' = Steps
    BY DEF Replies, Steps
  <2>2. \A k : Message(k) \subseteq Message(k)'
    BY <1>2 DEF Message
  <2>3. Job \subseteq Job'
    BY <1>2, <1>3, <2>1, <2>2 DEF Job
  <2>4. Session \subseteq Session'
    BY <1>2, <1>3 DEF Session
  <2>5. Ghost \subseteq Ghost'
    BY <1>3 DEF Ghost
  <2> QED  BY <2>3, <2>4, <2>5
<1>5. Transport \subseteq Transport' /\ Middleware \subseteq Middleware' /\ Store \subseteq Store'
  <2>1. Transport \subseteq Transport'
    BY <1>2 DEF Transport
  <2>2. Middleware \subseteq Middleware'
    BY <1>3 DEF Middleware
  <2>3. Store \subseteq Store'
    BY <1>2, <1>3 DEF Store
  <2> QED  BY <2>1, <2>2, <2>3
<1>6. Message(Requests) \subseteq Message(Requests)' /\ Message(Deliveries) \subseteq Message(Deliveries)'
  BY <1>2 DEF Message, Requests, Deliveries
<1>7. Seq(Message(Requests)) \subseteq Seq(Message(Requests)') /\ Seq(Message(Deliveries)) \subseteq Seq(Message(Deliveries)')
  BY <1>6
<1>8. ChannelTypes'
  <2>1. held' \in [Emitters -> 0 .. log']
    BY <1>1, <1>2 DEF Persist, Types, ChannelTypes
  <2> QED  BY <1>1, <1>3, <1>4, <2>1 DEF Persist, Types, ChannelTypes, channel
<1>9. SessionTypes'
  BY <1>4 DEF Persist, Types, SessionTypes
<1>10. SocketTypes'
  BY <1>7 DEF Persist, Types, SocketTypes
<1>11. ClientTypes'
  BY <1>5 DEF Types, ClientTypes, client
<1> QED  BY <1>8, <1>9, <1>10, <1>11 DEF Types

(* What a publication does to the channel. *)
Queue(e) == Append(chan, held[e])
Overflows(e) == conn = "up" /\ Len(Queue(e)) > ChanCap
Lost(e) == IF Overflows(e) THEN {Head(Queue(e))} ELSE {}
Overtaken(e) == Range(held) \cap 1 .. (held[e] - 1)

LEMMA PublishDoes ==
  ASSUME Types, NEW e \in Emitters, Publish(e)
  PROVE  /\ held[e] \in Numbers
         /\ held' \in [Emitters -> 0 .. log] /\ held'[e] = 0
         /\ \A f \in Emitters : f # e => held'[f] = held[f]
         /\ chan' = IF Overflows(e) THEN Tail(Queue(e)) ELSE IF conn = "up" THEN Queue(e) ELSE chan
         /\ chan' \in Seq(Numbers) /\ Len(chan') <= ChanCap
         /\ Lost(e) \subseteq Numbers /\ Overtaken(e) \subseteq Numbers
         /\ ghost' = GhostOf(ghost.gone \cup Lost(e), ghost.owed, ghost.excused \cup Overtaken(e))
         /\ ghost' \in Ghost
         /\ lagged' = (lagged \/ Overflows(e))
<1>1. held[e] \in Numbers /\ log \in Nat
  BY LogIsNat DEF Publish, Types, ChannelTypes, Numbers
<1>2. Queue(e) \in Seq(Numbers) /\ Queue(e) # <<>> /\ Len(Queue(e)) = Len(chan) + 1 /\ Len(chan) \in Nat
  BY <1>1 DEF Queue, Types, ChannelTypes
<1>3. Head(Queue(e)) \in Numbers /\ Tail(Queue(e)) \in Seq(Numbers) /\ Len(Tail(Queue(e))) = Len(Queue(e)) - 1
  BY <1>2
<1>4. Overtaken(e) \subseteq Numbers
  BY <1>1 DEF Overtaken, Numbers
<1>5. chan' = IF Overflows(e) THEN Tail(Queue(e)) ELSE IF conn = "up" THEN Queue(e) ELSE chan
  BY DEF Publish, Queue, Overflows
<1>6. chan' \in Seq(Numbers) /\ Len(chan') <= ChanCap
  <2>1. chan \in Seq(Numbers) /\ Len(chan) <= ChanCap /\ ChanCap \in Nat
    BY WsSessionAssumption DEF Types, ChannelTypes
  <2>2. Overflows(e) => Len(Tail(Queue(e))) <= ChanCap
    BY <1>2, <1>3, <2>1
  <2>3. ~Overflows(e) /\ conn = "up" => Len(Queue(e)) <= ChanCap
    BY <1>2, <2>1 DEF Overflows
  <2> HIDE DEF Overflows
  <2> QED  BY <1>2, <1>3, <1>5, <2>1, <2>2, <2>3
<1>7. Lost(e) \subseteq Numbers
  BY <1>3 DEF Lost
<1>8. ghost' = GhostOf(ghost.gone \cup Lost(e), ghost.owed, ghost.excused \cup Overtaken(e))
  <2>1. ghost' = [ghost EXCEPT !.gone = ghost.gone \cup Lost(e), !.excused = ghost.excused \cup Overtaken(e)]
    BY DEF Publish, Lost, Overtaken, Overflows, Queue
  <2>2. ghost.gone \cup Lost(e) \in SUBSET Numbers /\ ghost.excused \cup Overtaken(e) \in SUBSET Numbers
        /\ ghost.owed \in SUBSET Numbers
    BY <1>4, <1>7, Parts, GhostFields
  <2>3. ghost \in Ghost
    BY Parts
  <2>4. [ghost EXCEPT !.gone = ghost.gone \cup Lost(e), !.excused = ghost.excused \cup Overtaken(e)]
          = GhostOf(ghost.gone \cup Lost(e), ghost.owed, ghost.excused \cup Overtaken(e))
    <3> DEFINE g == ghost.gone \cup Lost(e)
               x == ghost.excused \cup Overtaken(e)
    <3>1. g \in SUBSET Numbers /\ x \in SUBSET Numbers
      BY <2>2
    <3> HIDE DEF g, x
    <3>2. [ghost EXCEPT !.gone = g, !.excused = x] = GhostOf(g, ghost.owed, x)
      <4>1. \A y \in SUBSET Numbers, z \in SUBSET Numbers :
               [ghost EXCEPT !.gone = y, !.excused = z] = GhostOf(y, ghost.owed, z)
        BY <2>3, GhostChanges, Zenon
      <4> QED  BY <3>1, <4>1, Zenon
    <3> QED  BY <3>2 DEF g, x
  <2> QED  BY <2>1, <2>4
<1>9. ghost' \in Ghost
  <2>1. ghost.gone \cup Lost(e) \in SUBSET Numbers /\ ghost.excused \cup Overtaken(e) \in SUBSET Numbers
        /\ ghost.owed \in SUBSET Numbers
    BY <1>4, <1>7, Parts, GhostFields
  <2> QED  BY <1>8, <2>1, GhostTyped
<1>10. /\ held' \in [Emitters -> 0 .. log] /\ held'[e] = 0
       /\ \A f \in Emitters : f # e => held'[f] = held[f]
  BY <1>1 DEF Publish, Types, ChannelTypes
<1>11. lagged' = (lagged \/ Overflows(e))
  BY DEF Publish, Overflows, Queue
<1> QED  BY <1>1, <1>4, <1>5, <1>6, <1>7, <1>8, <1>9, <1>10, <1>11

LEMMA PublishTyped ==
  ASSUME Types, NEW e \in Emitters, Publish(e), UNCHANGED client
  PROVE  Types'
<1>1. UNCHANGED <<log, sess, task, conn, up, wire>>
  BY DEF Publish
<1>2. ChannelTypes'
  <2>1. lagged' \in BOOLEAN
    BY PublishDoes, Zenon DEF Types, ChannelTypes
  <2> QED  BY <1>1, <2>1, PublishDoes, SameSets, Zenon DEF Types, ChannelTypes
<1>3. SessionTypes' /\ SocketTypes' /\ ClientTypes'
  BY <1>1, Parts, SessionFrame, SocketFrame, ClientFrame DEF Types
<1> QED  BY <1>2, <1>3 DEF Types

-----------------------------------------------------------------------------
(* The server's other steps, and the types after them. *)

LEMMA SessIs ==
  ASSUME Types
  PROVE  /\ \A b \in Seq(Numbers) : [sess EXCEPT !.buf = b] = SessionOf(sess.sub, sess.cp, sess.rep, b, sess.pend)
         /\ \A r \in BOOLEAN : [sess EXCEPT !.rep = r] = SessionOf(sess.sub, sess.cp, r, sess.buf, sess.pend)
         /\ \A a \in BOOLEAN, c \in 0 .. log, p \in BOOLEAN, r \in BOOLEAN :
              [sess EXCEPT !.sub = a, !.cp = c, !.pend = p, !.rep = r] = SessionOf(a, c, r, sess.buf, p)
         /\ \A b \in Seq(Numbers), r \in BOOLEAN :
              [sess EXCEPT !.buf = b, !.rep = r] = SessionOf(sess.sub, sess.cp, r, b, sess.pend)
         /\ \A b \in Seq(Numbers), r \in BOOLEAN, p \in BOOLEAN :
              [sess EXCEPT !.buf = b, !.rep = r, !.pend = p] = SessionOf(sess.sub, sess.cp, r, b, p)
<1>1. sess \in Session
  BY Parts
<1> QED  BY <1>1, SessionChanges, Zenon

LEMMA SessTyped ==
  ASSUME Types
  PROVE  /\ sess = SessionOf(sess.sub, sess.cp, sess.rep, sess.buf, sess.pend)
         /\ sess.sub \in BOOLEAN /\ sess.cp \in 0 .. log /\ sess.rep \in BOOLEAN
         /\ sess.buf \in Seq(Numbers) /\ sess.pend \in BOOLEAN
         /\ Len(sess.buf) \in Nat /\ Len(sess.buf) <= BufCap
<1>1. sess \in Session /\ Len(sess.buf) <= BufCap
  BY Parts DEF Types, SessionTypes
<1>2. sess.buf \in Seq(Numbers)
  BY <1>1, SessionFields
<1> QED  BY <1>1, <1>2, SessionFields, LenProperties

LEMMA TaskTyped ==
  ASSUME Types, NEW t \in Tasks
  PROVE  /\ task[t] \in Job
         /\ task[t] = JobOf(task[t].pc, task[t].out, task[t].pos, task[t].max, task[t].more, task[t].reply)
         /\ task[t].pc \in Steps /\ task[t].out \in Seq(Numbers) /\ task[t].pos \in 0 .. log
         /\ task[t].max \in 0 .. log /\ task[t].more \in BOOLEAN /\ task[t].reply \in Message(Replies)
         /\ Len(task[t].out) \in Nat
<1>1. task[t] \in Job
  BY Parts
<1>2. task[t].out \in Seq(Numbers)
  BY <1>1, JobFields
<1> QED  BY <1>1, <1>2, JobFields, LenProperties

(* A session that keeps its buffer, or empties it, keeps its types. *)
LEMMA SessionKept ==
  ASSUME Types, log' = log, NEW a \in BOOLEAN, NEW c \in 0 .. log, NEW r \in BOOLEAN, NEW p \in BOOLEAN,
         NEW b, b = sess.buf \/ b = <<>>, sess' = SessionOf(a, c, r, b, p), task' \in [Tasks -> Job]
  PROVE  SessionTypes'
<1>1. b \in Seq(Numbers) /\ Len(b) <= BufCap
  <2>1. CASE b = sess.buf
    BY <2>1, SessTyped
  <2>2. CASE b = <<>>
    <3>1. Len(<<>>) = 0 /\ <<>> \in Seq(Numbers)
      BY EmptySeq
    <3> QED  BY <2>2, <3>1, WsSessionAssumption
  <2> QED  BY <2>1, <2>2
<1>2. sess' \in Session /\ sess'.buf = b
  BY <1>1, SessionTyped DEF SessionOf
<1> QED  BY <1>1, <1>2, SessionMoves

LEMMA IdleTyped ==
  ASSUME Types
  PROVE  Idle = JobOf("idle", <<>>, 0, 0, FALSE, Msg("none", 0)) /\ Idle \in Job
         /\ Msg("none", 0) \in Message(Replies) /\ <<>> \in Seq(Numbers)
<1>1. Msg("none", 0) \in Message(Replies) /\ <<>> \in Seq(Numbers) /\ log \in Nat
  BY LogIsNat DEF Msg, Message, Replies
<1>2. Idle = JobOf("idle", <<>>, 0, 0, FALSE, Msg("none", 0))
  BY DEF Idle, JobOf
<1>3. JobOf("idle", <<>>, 0, 0, FALSE, Msg("none", 0)) \in Job
  <2>1. "idle" \in Steps
    BY DEF Steps
  <2>2. 0 \in 0 .. log /\ FALSE \in BOOLEAN
    BY LogIsNat
  <2> QED  BY <1>1, <2>1, <2>2, JobTyped, Zenon
<1> QED  BY <1>1, <1>2, <1>3, Zenon

LEMMA IdleBecomes ==
  ASSUME Types
  PROVE  /\ \A p \in Steps, m \in 0 .. log : [Idle EXCEPT !.pc = p, !.max = m] = JobOf(p, <<>>, 0, m, FALSE, Msg("none", 0))
         /\ \A p \in Steps, q \in 0 .. log : [Idle EXCEPT !.pc = p, !.pos = q] = JobOf(p, <<>>, q, 0, FALSE, Msg("none", 0))
         /\ \A p \in Steps, q \in 0 .. log, y \in Message(Replies) :
              [Idle EXCEPT !.pc = p, !.pos = q, !.reply = y] = JobOf(p, <<>>, q, 0, FALSE, y)
         /\ \A p \in Steps, y \in Message(Replies) : [Idle EXCEPT !.pc = p, !.reply = y] = JobOf(p, <<>>, 0, 0, FALSE, y)
<1>1. Idle \in Job
  BY IdleTyped, Zenon
<1>2. /\ Idle.pc = "idle" /\ Idle.out = <<>> /\ Idle.pos = 0 /\ Idle.max = 0 /\ Idle.more = FALSE
      /\ Idle.reply = Msg("none", 0)
  BY DEF Idle
<1>3. /\ \A p \in Steps, m \in 0 .. log :
           [Idle EXCEPT !.pc = p, !.max = m] = JobOf(p, Idle.out, Idle.pos, m, Idle.more, Idle.reply)
      /\ \A p \in Steps, q \in 0 .. log :
           [Idle EXCEPT !.pc = p, !.pos = q] = JobOf(p, Idle.out, q, Idle.max, Idle.more, Idle.reply)
      /\ \A p \in Steps, q \in 0 .. log, y \in Message(Replies) :
           [Idle EXCEPT !.pc = p, !.pos = q, !.reply = y] = JobOf(p, Idle.out, q, Idle.max, Idle.more, y)
      /\ \A p \in Steps, y \in Message(Replies) :
           [Idle EXCEPT !.pc = p, !.reply = y] = JobOf(p, Idle.out, Idle.pos, Idle.max, Idle.more, y)
  BY <1>1, JobChanges, Zenon
<1>4. ASSUME NEW p \in Steps, NEW m \in 0 .. log
      PROVE  [Idle EXCEPT !.pc = p, !.max = m] = JobOf(p, <<>>, 0, m, FALSE, Msg("none", 0))
  <2>1. [Idle EXCEPT !.pc = p, !.max = m] = JobOf(p, Idle.out, Idle.pos, m, Idle.more, Idle.reply)
    BY <1>3, Zenon
  <2> QED  BY <1>2, <2>1, Zenon
<1>5. ASSUME NEW p \in Steps, NEW q \in 0 .. log
      PROVE  [Idle EXCEPT !.pc = p, !.pos = q] = JobOf(p, <<>>, q, 0, FALSE, Msg("none", 0))
  <2>1. [Idle EXCEPT !.pc = p, !.pos = q] = JobOf(p, Idle.out, q, Idle.max, Idle.more, Idle.reply)
    BY <1>3, Zenon
  <2> QED  BY <1>2, <2>1, Zenon
<1>6. ASSUME NEW p \in Steps, NEW q \in 0 .. log, NEW y \in Message(Replies)
      PROVE  [Idle EXCEPT !.pc = p, !.pos = q, !.reply = y] = JobOf(p, <<>>, q, 0, FALSE, y)
  <2>1. [Idle EXCEPT !.pc = p, !.pos = q, !.reply = y] = JobOf(p, Idle.out, q, Idle.max, Idle.more, y)
    <3>1. \A pp \in Steps, qq \in 0 .. log, yy \in Message(Replies) :
            [Idle EXCEPT !.pc = pp, !.pos = qq, !.reply = yy] = JobOf(pp, Idle.out, qq, Idle.max, Idle.more, yy)
      BY <1>1, JobChanges, Zenon
    <3> QED  BY <3>1, Zenon
  <2> QED  BY <1>2, <2>1, Zenon
<1>7. ASSUME NEW p \in Steps, NEW y \in Message(Replies)
      PROVE  [Idle EXCEPT !.pc = p, !.reply = y] = JobOf(p, <<>>, 0, 0, FALSE, y)
  <2>1. [Idle EXCEPT !.pc = p, !.reply = y] = JobOf(p, Idle.out, Idle.pos, Idle.max, Idle.more, y)
    BY <1>3, Zenon
  <2> QED  BY <1>2, <2>1, Zenon
<1> QED  BY <1>4, <1>5, <1>6, <1>7, Zenon

LEMMA JobKept ==
  ASSUME Types, NEW t \in Tasks
  PROVE  /\ \A p \in Steps : [task[t] EXCEPT !.pc = p]
              = JobOf(p, task[t].out, task[t].pos, task[t].max, task[t].more, task[t].reply)
         /\ \A p \in Steps, b \in BOOLEAN, o \in Seq(Numbers) : [task[t] EXCEPT !.pc = p, !.more = b, !.out = o]
              = JobOf(p, o, task[t].pos, task[t].max, b, task[t].reply)
         /\ \A p \in Steps, y \in Message(Replies) : [task[t] EXCEPT !.pc = p, !.reply = y]
              = JobOf(p, task[t].out, task[t].pos, task[t].max, task[t].more, y)
         /\ \A q \in 0 .. log, o \in Seq(Numbers) : [task[t] EXCEPT !.pos = q, !.out = o]
              = JobOf(task[t].pc, o, q, task[t].max, task[t].more, task[t].reply)
         /\ \A p \in Steps, m \in 0 .. log : [task[t] EXCEPT !.pc = p, !.max = m]
              = JobOf(p, task[t].out, task[t].pos, m, task[t].more, task[t].reply)
         /\ \A p \in Steps, o \in Seq(Numbers) : [task[t] EXCEPT !.pc = p, !.out = o]
              = JobOf(p, o, task[t].pos, task[t].max, task[t].more, task[t].reply)
         /\ \A m \in 0 .. log, o \in Seq(Numbers) : [task[t] EXCEPT !.max = m, !.out = o]
              = JobOf(task[t].pc, o, task[t].pos, m, task[t].more, task[t].reply)
<1>1. task[t] \in Job
  BY Parts
<1> QED  BY <1>1, JobChanges, Zenon

(* The steps of a_forward. *)

LEMMA FwdSkipTyped ==
  ASSUME Types, FwdSkip, UNCHANGED client
  PROVE  Types'
<1>1. UNCHANGED <<log, held, lagged, sess, task, conn, up, wire, ghost>>
  BY DEF FwdSkip, Receiving, emitting
<1>2. chan' \in Seq(Numbers) /\ Len(chan') <= ChanCap
  BY FirstInChannel DEF FwdSkip
<1>3. ChannelTypes'
  BY <1>1, <1>2, SameSets DEF Types, ChannelTypes
<1> QED  BY <1>1, <1>3, Parts, SessionFrame, SocketFrame, ClientFrame DEF Types

LEMMA FwdBufferDoes ==
  ASSUME Types, FwdBuffer
  PROVE  /\ \E s \in Seqs : Receiving(s) /\ s = chan[1]
         /\ UNCHANGED <<log, held, lagged, task, conn, up, wire, ghost>>
         /\ sess.sub /\ sess.rep /\ Len(sess.buf) < BufCap /\ task["fwd"].pc = "idle"
         /\ chan[1] \in Numbers
         /\ sess' = SessionOf(sess.sub, sess.cp, sess.rep, Append(sess.buf, chan[1]), sess.pend)
<1>1. PICK s \in Seqs : /\ Receiving(s) /\ sess.sub /\ sess.rep /\ Len(sess.buf) < BufCap
                        /\ sess' = [sess EXCEPT !.buf = Append(sess.buf, s)] /\ UNCHANGED task
  BY DEF FwdBuffer
<1>2. s = chan[1] /\ s \in Numbers
  BY <1>1, FirstInChannel
<1>3. Append(sess.buf, s) \in Seq(Numbers)
  BY <1>2, SessTyped
<1>4. sess' = SessionOf(sess.sub, sess.cp, sess.rep, Append(sess.buf, s), sess.pend)
  BY <1>1, <1>3, SessIs, Zenon
<1> QED  BY <1>1, <1>2, <1>4, Zenon DEF Receiving, emitting

LEMMA FwdBufferTyped ==
  ASSUME Types, FwdBuffer, UNCHANGED client
  PROVE  Types'
<1>1. chan' \in Seq(Numbers) /\ Len(chan') <= ChanCap
  BY FirstInChannel, FwdBufferDoes
<1>2. ChannelTypes'
  BY <1>1, FwdBufferDoes, SameSets DEF Types, ChannelTypes
<1>3. SessionTypes'
  <2> DEFINE b == Append(sess.buf, chan[1])
  <2>1. b \in Seq(Numbers) /\ Len(b) <= BufCap
    BY FwdBufferDoes, SessTyped, WsSessionAssumption
  <2> HIDE DEF b
  <2>2. sess' = SessionOf(sess.sub, sess.cp, sess.rep, b, sess.pend)
    BY FwdBufferDoes DEF b
  <2>3. sess' \in Session /\ sess'.buf = b
    BY <2>1, <2>2, SessTyped, SessionTyped DEF SessionOf
  <2> QED  BY <2>1, <2>3, FwdBufferDoes, Parts, SessionMoves
<1> QED  BY <1>2, <1>3, FwdBufferDoes, SocketFrame, ClientFrame DEF Types

LEMMA FwdTakeDoes ==
  ASSUME Types, FwdTake
  PROVE  /\ \E s \in Seqs : Receiving(s) /\ s = chan[1]
         /\ UNCHANGED <<log, held, lagged, sess, conn, up, wire, ghost>>
         /\ sess.sub /\ ~sess.rep /\ chan[1] > sess.cp /\ task["fwd"].pc = "idle"
         /\ chan[1] \in Numbers
         /\ task'["fwd"] = JobOf("event", <<>>, 0, chan[1], FALSE, Msg("none", 0))
         /\ task'["cmd"] = task["cmd"]
         /\ task' \in [Tasks -> Job]
<1>1. PICK s \in Seqs : /\ Receiving(s) /\ sess.sub /\ ~sess.rep /\ s > sess.cp
                        /\ Become("fwd", [Idle EXCEPT !.pc = "event", !.max = s]) /\ UNCHANGED sess
  BY Zenon DEF FwdTake
<1>2. s = chan[1] /\ s \in Numbers /\ s \in 0 .. log /\ "event" \in Steps
  BY <1>1, FirstInChannel, LogIsNat DEF Numbers, Steps
<1>3. [Idle EXCEPT !.pc = "event", !.max = s] = JobOf("event", <<>>, 0, s, FALSE, Msg("none", 0))
  BY <1>2, IdleBecomes, Zenon
<1>4. JobOf("event", <<>>, 0, s, FALSE, Msg("none", 0)) \in Job
  BY <1>2, IdleTyped, LogIsNat, JobTyped, Zenon
<1>5. Become("fwd", JobOf("event", <<>>, 0, s, FALSE, Msg("none", 0)))
  BY <1>1, <1>3, Zenon
<1> QED  BY <1>1, <1>2, <1>4, <1>5, Parts, Becoming, Zenon DEF Receiving, emitting, Tasks

LEMMA FwdTakeTyped ==
  ASSUME Types, FwdTake, UNCHANGED client
  PROVE  Types'
<1>1. chan' \in Seq(Numbers) /\ Len(chan') <= ChanCap
  BY FirstInChannel, FwdTakeDoes
<1>2. ChannelTypes'
  BY <1>1, FwdTakeDoes, SameSets, Zenon DEF Types, ChannelTypes
<1> QED  BY <1>2, FwdTakeDoes, SessionFrame, SocketFrame, ClientFrame DEF Types

LEMMA FwdSendDoes ==
  ASSUME Types, FwdSend
  PROVE  /\ UNCHANGED <<log, held, chan, lagged, sess, conn, up, ghost>>
         /\ task["fwd"].pc = "event"
         /\ wire' = Append(wire, Msg("event", task["fwd"].max))
         /\ task'["fwd"] = JobOf("mark", task["fwd"].out, task["fwd"].pos, task["fwd"].max,
                                 task["fwd"].more, task["fwd"].reply)
         /\ task'["cmd"] = task["cmd"]
         /\ task' \in [Tasks -> Job]
<1> DEFINE j == JobOf("mark", task["fwd"].out, task["fwd"].pos, task["fwd"].max, task["fwd"].more, task["fwd"].reply)
<1>1. "fwd" \in Tasks /\ "cmd" \in Tasks /\ "mark" \in Steps
  BY DEF Tasks, Steps
<1>2. Become("fwd", j)
  <2>1. [task["fwd"] EXCEPT !.pc = "mark"] = j
    BY <1>1, JobKept, Zenon
  <2> QED  BY <2>1 DEF FwdSend
<1>3. j \in Job
  BY <1>1, TaskTyped, JobTyped
<1> HIDE DEF j
<1>4. task'["fwd"] = j /\ task'["cmd"] = task["cmd"] /\ task' \in [Tasks -> Job]
  BY <1>1, <1>2, <1>3, Parts, Becoming
<1> QED  BY <1>4 DEF FwdSend, emitting, channel, j

LEMMA FwdSendTyped ==
  ASSUME Types, TaskShape, FwdSend, UNCHANGED client
  PROVE  Types'
<1> DEFINE m == Msg("event", task["fwd"].max)
<1>1. task["fwd"].max \in 0 .. log /\ task["fwd"].max > 0
  BY FwdSendDoes, TaskTyped DEF TaskShape, FwdShape, Tasks
<1>2. m \in Message(Deliveries) /\ m.kind = "event" /\ m.s > 0
  BY <1>1, LogIsNat, MsgTyped, Zenon DEF Deliveries
<1> HIDE DEF m
<1>3. wire' = Append(wire, m)
  BY FwdSendDoes DEF m
<1>4. SocketTypes'
  BY <1>2, <1>3, FwdSendDoes, WireGrows DEF Types
<1> QED  BY <1>4, FwdSendDoes, ChannelFrame, SessionFrame, ClientFrame DEF Types

LEMMA FwdMarkDoes ==
  ASSUME Types, FwdMark
  PROVE  /\ UNCHANGED <<log, held, chan, lagged, conn, up, wire, ghost>>
         /\ task["fwd"].pc = "mark"
         /\ sess' = SessionOf(sess.sub, To(task["fwd"].max), sess.rep, sess.buf, sess.pend)
         /\ To(task["fwd"].max) \in 0 .. log
         /\ task'["fwd"] = Idle
         /\ task'["cmd"] = task["cmd"]
         /\ task' \in [Tasks -> Job]
<1>1. "fwd" \in Tasks /\ "cmd" \in Tasks /\ task["fwd"].max \in 0 .. log
  BY TaskTyped DEF Tasks
<1>2. task'["fwd"] = Idle /\ task'["cmd"] = task["cmd"] /\ task' \in [Tasks -> Job]
  BY <1>1, Parts, Becoming, IdleTyped, Zenon DEF FwdMark
<1>3. /\ sess' = SessionOf(sess.sub, To(task["fwd"].max), sess.rep, sess.buf, sess.pend)
      /\ To(task["fwd"].max) \in 0 .. log
  BY <1>1, Parts, AdvancedIs, ToTyped DEF FwdMark
<1> QED  BY <1>2, <1>3 DEF FwdMark, emitting, channel

LEMMA FwdMarkTyped ==
  ASSUME Types, FwdMark, UNCHANGED client
  PROVE  Types'
<1>1. SessionTypes'
  BY FwdMarkDoes, SessTyped, SessionKept
<1> QED  BY <1>1, FwdMarkDoes, ChannelFrame, SocketFrame, ClientFrame DEF Types

LEMMA FwdLaggedDoes ==
  ASSUME Types, FwdLagged
  PROVE  /\ UNCHANGED <<log, held, chan, conn, up, wire>>
         /\ conn = "up" /\ task["fwd"].pc = "idle" /\ lagged /\ lagged' = FALSE
         /\ \/ /\ sess.sub /\ ~sess.rep /\ ~sess.pend
               /\ sess' = SessionOf(sess.sub, sess.cp, TRUE, sess.buf, sess.pend)
               /\ task'["fwd"] = JobOf("read", <<>>, sess.cp, 0, FALSE, Msg("none", 0))
               /\ ghost' = GhostOf({}, ghost.owed, ghost.excused)
            \/ /\ ~(sess.sub /\ ~sess.rep /\ ~sess.pend)
               /\ UNCHANGED <<sess, task>>
               /\ ghost' = GhostOf({}, ghost.owed, ghost.excused \cup (IF sess.sub THEN ghost.gone ELSE {}))
         /\ task'["cmd"] = task["cmd"]
         /\ task' \in [Tasks -> Job]
         /\ sess' = SessionOf(sess.sub, sess.cp, sess'.rep, sess.buf, sess.pend) /\ sess'.rep \in BOOLEAN
         /\ ghost' \in Ghost
<1>1. "fwd" \in Tasks /\ "cmd" \in Tasks /\ "read" \in Steps /\ sess.cp \in 0 .. log /\ 0 \in 0 .. log
  BY SessTyped, LogIsNat DEF Tasks, Steps
<1>2. ghost.gone \in SUBSET Numbers /\ ghost.owed \in SUBSET Numbers /\ ghost.excused \in SUBSET Numbers
      /\ {} \in SUBSET Numbers
  BY Parts, GhostFields
<1>3. CASE sess.sub /\ ~sess.rep /\ ~sess.pend
  <2> DEFINE j == JobOf("read", <<>>, sess.cp, 0, FALSE, Msg("none", 0))
  <2>1. Become("fwd", j)
    <3>1. [Idle EXCEPT !.pc = "read", !.pos = sess.cp] = j
      BY <1>1, IdleBecomes, Zenon
    <3> QED  BY <1>3, <3>1, Zenon DEF FwdLagged
  <2>2. j \in Job
    BY <1>1, IdleTyped, JobTyped, Zenon
  <2> HIDE DEF j
  <2>3. task'["fwd"] = j /\ task'["cmd"] = task["cmd"] /\ task' \in [Tasks -> Job]
    BY <1>1, <2>1, <2>2, Parts, Becoming
  <2>4. sess' = SessionOf(sess.sub, sess.cp, TRUE, sess.buf, sess.pend)
    <3>1. sess' = [sess EXCEPT !.rep = TRUE]
      BY <1>3 DEF FwdLagged
    <3>2. TRUE \in BOOLEAN
      OBVIOUS
    <3> QED  BY <3>1, <3>2, SessIs, Zenon
  <2>5. ghost' = GhostOf({}, ghost.owed, ghost.excused)
    <3>1. ghost' = [ghost EXCEPT !.gone = {}]
      BY <1>3 DEF FwdLagged
    <3>2. \A y \in SUBSET Numbers : [ghost EXCEPT !.gone = y] = GhostOf(y, ghost.owed, ghost.excused)
      <4>1. ghost \in Ghost
        BY Parts
      <4> QED  BY <4>1, GhostChanges, Zenon
    <3> QED  BY <1>2, <3>1, <3>2, Zenon
  <2>6. ghost' \in Ghost
    BY <1>2, <2>5, GhostTyped
  <2>7. sess'.rep = TRUE
    BY <2>4 DEF SessionOf
  <2> QED  BY <1>3, <2>3, <2>4, <2>5, <2>6, <2>7, Zenon DEF FwdLagged, emitting, j
<1>4. CASE ~(sess.sub /\ ~sess.rep /\ ~sess.pend)
  <2> DEFINE x == ghost.excused \cup (IF sess.sub THEN ghost.gone ELSE {})
  <2>1. x \in SUBSET Numbers
    BY <1>2
  <2>2. ghost' = [ghost EXCEPT !.gone = {}, !.excused = x] /\ UNCHANGED <<sess, task>>
    BY <1>4 DEF FwdLagged
  <2> HIDE DEF x
  <2>3. \A y \in SUBSET Numbers, z \in SUBSET Numbers :
               [ghost EXCEPT !.gone = y, !.excused = z] = GhostOf(y, ghost.owed, z)
    <3>1. ghost \in Ghost
      BY Parts
    <3> QED  BY <3>1, GhostChanges, Zenon
  <2>4. ghost' = GhostOf({}, ghost.owed, x)
    BY <1>2, <2>1, <2>2, <2>3, Zenon
  <2>5. ghost' \in Ghost
    BY <1>2, <2>1, <2>4, GhostTyped
  <2>6. sess' = SessionOf(sess.sub, sess.cp, sess'.rep, sess.buf, sess.pend) /\ sess'.rep \in BOOLEAN
    BY <2>2, SessTyped
  <2> QED  BY <1>4, <2>2, <2>4, <2>5, <2>6, Parts, Zenon DEF FwdLagged, emitting, x
<1> QED  BY <1>3, <1>4, Zenon

LEMMA FwdLaggedTyped ==
  ASSUME Types, FwdLagged, UNCHANGED client
  PROVE  Types'
<1>1. SessionTypes'
  BY FwdLaggedDoes, SessTyped, SessionKept
<1>2. ChannelTypes'
  BY FwdLaggedDoes, SameSets, Zenon DEF Types, ChannelTypes
<1> QED  BY <1>1, <1>2, FwdLaggedDoes, SocketFrame, ClientFrame DEF Types

(* The steps of cmd_loop. *)

LEMMA SubscribeDoes ==
  ASSUME Types, Subscribe
  PROVE  /\ UNCHANGED <<log, held, chan, lagged, conn, wire>>
         /\ task["cmd"].pc = "idle" /\ up # <<>> /\ Head(up).kind = "subscribe" /\ up' = Tail(up)
         /\ Head(up).s \in 0 .. log
         /\ \E from \in 0 .. log :
              /\ from = MaxOf(sess.cp, Head(up).s)
              /\ sess' = SessionOf(TRUE, from, TRUE, sess.buf, FALSE)
              /\ task'["cmd"] = JobOf(IF sess.rep THEN "reply" ELSE "read", <<>>, from, 0, FALSE, Msg("ack", 0))
         /\ task'["fwd"] = task["fwd"] /\ task' \in [Tasks -> Job]
         /\ ghost' = GhostOf(ghost.gone, {}, ghost.excused) /\ ghost' \in Ghost
<1> DEFINE from == MaxOf(sess.cp, Head(up).s)
           p == IF sess.rep THEN "reply" ELSE "read"
           j == JobOf(p, <<>>, from, 0, FALSE, Msg("ack", 0))
<1>1. /\ UNCHANGED <<log, held, chan, lagged, conn, wire>>
      /\ Taking("subscribe")
      /\ sess' = [sess EXCEPT !.sub = TRUE, !.cp = from, !.pend = FALSE, !.rep = TRUE]
      /\ Become("cmd", [Idle EXCEPT !.pc = p, !.pos = from, !.reply = Msg("ack", 0)])
      /\ ghost' = [ghost EXCEPT !.owed = {}]
  BY DEF Subscribe, emitting, channel
<1>2. Head(up).s \in 0 .. log
  <2>1. Head(up) \in Message(Requests)
    BY <1>1, RequestTaken DEF Types
  <2> QED  BY <2>1 DEF Message
<1>3. /\ from \in 0 .. log /\ p \in Steps /\ "fwd" \in Tasks /\ "cmd" \in Tasks /\ 0 \in 0 .. log
      /\ TRUE \in BOOLEAN /\ FALSE \in BOOLEAN
  BY <1>2, SessTyped, LogIsNat DEF MaxOf, Steps, Tasks
<1>4. Msg("ack", 0) \in Message(Replies)
  BY <1>3, LogIsNat, MsgTyped, Zenon DEF Replies
<1>5. j \in Job
  BY <1>3, <1>4, IdleTyped, JobTyped, Zenon
<1> HIDE DEF from, p
<1>6. Become("cmd", j)
  <2>1. [Idle EXCEPT !.pc = p, !.pos = from, !.reply = Msg("ack", 0)] = j
    <3>1. \A z \in Steps, q \in 0 .. log, y \in Message(Replies) :
            [Idle EXCEPT !.pc = z, !.pos = q, !.reply = y] = JobOf(z, <<>>, q, 0, FALSE, y)
      BY IdleBecomes, Zenon
    <3> QED  BY <1>3, <1>4, <3>1, Zenon
  <2> QED  BY <1>1, <2>1, Zenon
<1> HIDE DEF j
<1>7. task'["cmd"] = j /\ task'["fwd"] = task["fwd"] /\ task' \in [Tasks -> Job]
  BY <1>3, <1>5, <1>6, Parts, Becoming
<1>8. sess' = SessionOf(TRUE, from, TRUE, sess.buf, FALSE)
  BY <1>1, <1>3, SessIs, Zenon
<1>9. ghost' = GhostOf(ghost.gone, {}, ghost.excused) /\ ghost' \in Ghost
  <2>1. \A y \in SUBSET Numbers : [ghost EXCEPT !.owed = y] = GhostOf(ghost.gone, y, ghost.excused)
    <3>1. ghost \in Ghost
      BY Parts
    <3> QED  BY <3>1, GhostChanges, Zenon
  <2>2. {} \in SUBSET Numbers
    OBVIOUS
  <2>3. ghost' = GhostOf(ghost.gone, {}, ghost.excused)
    BY <1>1, <2>1, <2>2, Zenon
  <2> QED  BY <2>2, <2>3, Parts, GhostFields, GhostTyped
<1> QED  BY <1>1, <1>2, <1>3, <1>7, <1>8, <1>9, Zenon DEF Taking, from, p, j

LEMMA SubscribeTyped ==
  ASSUME Types, Subscribe, UNCHANGED client
  PROVE  Types'
<1>1. SessionTypes'
  <2>1. PICK from \in 0 .. log : sess' = SessionOf(TRUE, from, TRUE, sess.buf, FALSE)
    BY SubscribeDoes, Zenon
  <2> QED  BY <2>1, SubscribeDoes, SessionKept, Zenon
<1>2. SocketTypes'
  BY SubscribeDoes, RequestTaken DEF Types, Subscribe
<1>3. ChannelTypes'
  BY SubscribeDoes, SameSets, Zenon DEF Types, ChannelTypes
<1> QED  BY <1>1, <1>2, <1>3, SubscribeDoes, ClientFrame DEF Types

LEMMA UnsubscribeTyped ==
  ASSUME Types, Unsubscribe, UNCHANGED client
  PROVE  Types'
<1>1. UNCHANGED <<log, held, chan, lagged, task, conn, wire, ghost>>
  BY DEF Unsubscribe, emitting, channel
<1>2. sess' = SessionOf(FALSE, 0, FALSE, <<>>, FALSE)
  BY DEF Unsubscribe, NewSession, SessionOf
<1>3. SessionTypes'
  BY <1>1, <1>2, Parts, LogIsNat, SessionKept, Zenon
<1>4. SocketTypes'
  BY <1>1, RequestTaken DEF Types, Unsubscribe
<1> QED  BY <1>1, <1>3, <1>4, ChannelFrame, ClientFrame DEF Types

LEMMA ReadHistoryDoes ==
  ASSUME Types, ReadHistory
  PROVE  /\ UNCHANGED <<log, held, chan, lagged, sess, conn, wire, ghost>>
         /\ task["cmd"].pc = "idle" /\ up # <<>> /\ Head(up).kind = "load" /\ up' = Tail(up)
         /\ \E y \in {Msg("history", log), Msg("noHistory", 0)} :
              task'["cmd"] = JobOf("reply", <<>>, 0, 0, FALSE, y) /\ y \in Message(Replies)
         /\ task'["fwd"] = task["fwd"] /\ task' \in [Tasks -> Job]
<1>1. /\ UNCHANGED <<log, held, chan, lagged, sess, conn, wire, ghost>>
      /\ Taking("load")
  BY DEF ReadHistory, emitting, channel
<1>2. PICK y \in {Msg("history", log), Msg("noHistory", 0)} :
         Become("cmd", [Idle EXCEPT !.pc = "reply", !.reply = y])
  BY DEF ReadHistory
<1>3. y \in Message(Replies) /\ "reply" \in Steps /\ "cmd" \in Tasks /\ "fwd" \in Tasks
  <2>1. Msg("history", log) \in Message(Replies) /\ Msg("noHistory", 0) \in Message(Replies)
    <3>1. log \in Nat /\ log \in 0 .. log /\ 0 \in 0 .. log /\ "history" \in Replies /\ "noHistory" \in Replies
      BY LogIsNat DEF Replies
    <3> QED  BY <3>1, MsgTyped
  <2> QED  BY <2>1 DEF Steps, Tasks
<1> DEFINE j == JobOf("reply", <<>>, 0, 0, FALSE, y)
<1>4. j \in Job
  BY <1>3, IdleTyped, LogIsNat, JobTyped, Zenon
<1>5. Become("cmd", j)
  <2>1. [Idle EXCEPT !.pc = "reply", !.reply = y] = j
    BY <1>3, IdleBecomes, Zenon
  <2> QED  BY <1>2, <2>1, Zenon
<1> HIDE DEF j
<1>6. task'["cmd"] = j /\ task'["fwd"] = task["fwd"] /\ task' \in [Tasks -> Job]
  BY <1>3, <1>4, <1>5, Parts, Becoming
<1> QED  BY <1>1, <1>3, <1>6, Zenon DEF Taking, j

LEMMA ReadHistoryTyped ==
  ASSUME Types, ReadHistory, UNCHANGED client
  PROVE  Types'
<1>1. SocketTypes'
  BY ReadHistoryDoes, RequestTaken, Zenon DEF Types, ReadHistory
<1> QED  BY <1>1, ReadHistoryDoes, ChannelFrame, SessionFrame, ClientFrame DEF Types

LEMMA ReplyDoes ==
  ASSUME Types, Reply
  PROVE  /\ UNCHANGED <<log, held, chan, lagged, sess, conn, up, ghost>>
         /\ task["cmd"].pc = "reply"
         /\ wire' = Append(wire, task["cmd"].reply)
         /\ task'["cmd"] = Idle /\ task'["fwd"] = task["fwd"] /\ task' \in [Tasks -> Job]
<1>1. "fwd" \in Tasks /\ "cmd" \in Tasks
  BY DEF Tasks
<1>2. task'["cmd"] = Idle /\ task'["fwd"] = task["fwd"] /\ task' \in [Tasks -> Job]
  BY <1>1, Parts, Becoming, IdleTyped, Zenon DEF Reply
<1> QED  BY <1>2 DEF Reply, emitting, channel

LEMMA ReplyTyped ==
  ASSUME Types, TaskShape, Reply, UNCHANGED client
  PROVE  Types'
<1> DEFINE m == task["cmd"].reply
<1>1. m \in Message(Deliveries) /\ m.kind # "event"
  <2>1. m \in Message(Replies) /\ m.kind # "none"
    BY ReplyDoes, TaskTyped DEF TaskShape, CmdShape, Tasks
  <2> QED  BY <2>1 DEF Message, Replies, Deliveries
<1> HIDE DEF m
<1>2. wire' = Append(wire, m)
  BY ReplyDoes DEF m
<1>3. SocketTypes'
  BY <1>1, <1>2, ReplyDoes, WireGrows DEF Types
<1> QED  BY <1>3, ReplyDoes, ChannelFrame, SessionFrame, ClientFrame DEF Types

(* The steps of either task. *)

Others(t) == \A u \in Tasks : u # t => task'[u] = task[u]
With(t, p, o) == JobOf(p, o, task[t].pos, task[t].max, task[t].more, task[t].reply)
Leaves(t) == IF t = "fwd" THEN Idle ELSE With(t, "reply", task[t].out)

LEMMA Turns ==
  ASSUME Types, NEW t \in Tasks, NEW j \in Job, Become(t, j)
  PROVE  task'[t] = j /\ Others(t) /\ task' \in [Tasks -> Job]
BY Parts, Becoming DEF Others

LEMMA WithTyped ==
  ASSUME Types, NEW t \in Tasks, NEW p \in Steps, NEW o \in Seq(Numbers)
  PROVE  With(t, p, o) \in Job
BY TaskTyped, JobTyped DEF With

LEMMA DoneIs ==
  ASSUME Types, NEW t \in Tasks
  PROVE  Done(t) = Leaves(t) /\ Leaves(t) \in Job
<1>1. "reply" \in Steps
  BY DEF Steps
<1>2. [task[t] EXCEPT !.pc = "reply"] = With(t, "reply", task[t].out)
  BY <1>1, JobKept, Zenon DEF With
<1>3. With(t, "reply", task[t].out) \in Job
  BY <1>1, TaskTyped, WithTyped
<1> QED  BY <1>2, <1>3, IdleTyped, Zenon DEF Done, Leaves

PageLength(t) == IF log - task[t].pos > PageSize THEN PageSize ELSE log - task[t].pos
PageOf(t) == [i \in 1 .. PageLength(t) |-> task[t].pos + i]

LEMMA PageTyped ==
  ASSUME Types, NEW t \in Tasks
  PROVE  /\ PageOf(t) \in Seq(Numbers) /\ Len(PageOf(t)) = PageLength(t) /\ PageLength(t) \in Nat
         /\ task[t].pos + PageLength(t) \in Nat /\ task[t].pos + PageLength(t) <= log
         /\ \A i \in 1 .. PageLength(t) : PageOf(t)[i] = task[t].pos + i
<1>1. PageLength(t) \in Nat /\ task[t].pos \in Nat /\ log \in Nat /\ task[t].pos + PageLength(t) <= log
  BY TaskTyped, LogIsNat, WsSessionAssumption DEF PageLength
<1>2. \A i \in 1 .. PageLength(t) : task[t].pos + i \in Numbers
  <2> HIDE DEF PageLength
  <2> QED  BY <1>1 DEF Numbers
<1> HIDE DEF PageLength
<1>3. PageOf(t) \in Seq(Numbers) /\ Len(PageOf(t)) = PageLength(t)
  BY <1>1, <1>2 DEF PageOf
<1> QED  BY <1>1, <1>3 DEF PageOf

LEMMA ReplayPageDoes ==
  ASSUME Types, NEW t \in Tasks, ReplayPage(t)
  PROVE  /\ UNCHANGED <<log, held, chan, lagged, sess, conn, up, wire, ghost>>
         /\ AtPage(t)
         /\ task'[t] = JobOf("send", PageOf(t), task[t].pos, task[t].max, task[t].pos + PageLength(t) < log,
                             task[t].reply)
         /\ Others(t) /\ task' \in [Tasks -> Job]
<1> DEFINE m == task[t].pos + PageLength(t) < log
           j == JobOf("send", PageOf(t), task[t].pos, task[t].max, m, task[t].reply)
<1>1. m \in BOOLEAN /\ "send" \in Steps /\ PageOf(t) \in Seq(Numbers)
  BY PageTyped DEF Steps
<1>2. j \in Job
  BY <1>1, TaskTyped, JobTyped, Zenon
<1>3. Become(t, j)
  <2>1. Become(t, [task[t] EXCEPT !.pc = "send", !.more = m, !.out = PageOf(t)])
    BY DEF ReplayPage, PageOf, PageLength
  <2> HIDE DEF m
  <2>2. [task[t] EXCEPT !.pc = "send", !.more = m, !.out = PageOf(t)] = j
    <3>1. \A p \in Steps, b \in BOOLEAN, o \in Seq(Numbers) : [task[t] EXCEPT !.pc = p, !.more = b, !.out = o]
            = JobOf(p, o, task[t].pos, task[t].max, b, task[t].reply)
      BY JobKept, Zenon
    <3> QED  BY <1>1, <3>1, Zenon
  <2> QED  BY <2>1, <2>2
<1> HIDE DEF j
<1>4. task'[t] = j /\ Others(t) /\ task' \in [Tasks -> Job]
  BY <1>2, <1>3, Turns
<1> QED  BY <1>4 DEF ReplayPage, emitting, channel, j

LEMMA ReplayPageTyped ==
  ASSUME Types, NEW t \in Tasks, ReplayPage(t), UNCHANGED client
  PROVE  Types'
BY ReplayPageDoes, ChannelFrame, SessionFrame, SocketFrame, ClientFrame DEF Types

LEMMA ReplayFailsDoes ==
  ASSUME Types, NEW t \in Tasks, ReplayFails(t)
  PROVE  /\ UNCHANGED <<log, held, chan, lagged, sess, conn, up, wire, ghost>>
         /\ AtPage(t)
         /\ task'[t] = JobOf("reload", task[t].out, task[t].pos, task[t].max, task[t].more, Msg("nack", 0))
         /\ Others(t) /\ task' \in [Tasks -> Job]
<1> DEFINE j == JobOf("reload", task[t].out, task[t].pos, task[t].max, task[t].more, Msg("nack", 0))
<1>1. "reload" \in Steps /\ Msg("nack", 0) \in Message(Replies)
  BY LogIsNat, MsgTyped, Zenon DEF Steps, Replies
<1>2. j \in Job
  BY <1>1, TaskTyped, JobTyped
<1>3. Become(t, j)
  <2>1. [task[t] EXCEPT !.pc = "reload", !.reply = Msg("nack", 0)] = j
    <3>1. \A p \in Steps, y \in Message(Replies) : [task[t] EXCEPT !.pc = p, !.reply = y]
            = JobOf(p, task[t].out, task[t].pos, task[t].max, task[t].more, y)
      BY JobKept, Zenon
    <3> QED  BY <1>1, <3>1, Zenon
  <2> QED  BY <2>1 DEF ReplayFails
<1> HIDE DEF j
<1>4. task'[t] = j /\ Others(t) /\ task' \in [Tasks -> Job]
  BY <1>2, <1>3, Turns
<1> QED  BY <1>4 DEF ReplayFails, emitting, channel, j

LEMMA ReplayFailsTyped ==
  ASSUME Types, NEW t \in Tasks, ReplayFails(t), UNCHANGED client
  PROVE  Types'
BY ReplayFailsDoes, ChannelFrame, SessionFrame, SocketFrame, ClientFrame DEF Types

(* The first event that a task has ready to send. *)
LEMMA FirstOut ==
  ASSUME Types, NEW t \in Tasks, task[t].out # <<>>
  PROVE  /\ Head(task[t].out) \in Numbers /\ Tail(task[t].out) \in Seq(Numbers)
         /\ Head(task[t].out) = task[t].out[1] /\ Len(Tail(task[t].out)) = Len(task[t].out) - 1
         /\ Len(task[t].out) \in Nat \ {0} /\ DOMAIN task[t].out = 1 .. Len(task[t].out)
         /\ \A i \in 1 .. Len(task[t].out) - 1 : Tail(task[t].out)[i] = task[t].out[i + 1]
         /\ Head(task[t].out) \in 0 .. log /\ Head(task[t].out) > 0
<1>1. task[t].out \in Seq(Numbers)
  BY TaskTyped
<1>2. Head(task[t].out) \in Numbers
  BY <1>1
<1>3. Head(task[t].out) \in 0 .. log /\ Head(task[t].out) > 0
  BY <1>2, LogIsNat DEF Numbers
<1> QED  BY <1>1, <1>2, <1>3

LEMMA ReplaySendDoes ==
  ASSUME Types, NEW t \in Tasks, ReplaySend(t)
  PROVE  /\ UNCHANGED <<log, held, chan, lagged, sess, conn, up, ghost>>
         /\ task[t].pc = "send" /\ task[t].out # <<>>
         /\ wire' = Append(wire, Msg("event", Head(task[t].out)))
         /\ task'[t] = JobOf("send", Tail(task[t].out), Head(task[t].out), task[t].max, task[t].more, task[t].reply)
         /\ Others(t) /\ task' \in [Tasks -> Job]
<1> DEFINE q == Head(task[t].out)
           o == Tail(task[t].out)
           j == JobOf(task[t].pc, o, q, task[t].max, task[t].more, task[t].reply)
<1>1. task[t].out # <<>> /\ task[t].pc = "send"
  BY DEF ReplaySend
<1>2. q \in 0 .. log /\ o \in Seq(Numbers)
  BY <1>1, FirstOut
<1>3. j \in Job
  BY <1>2, TaskTyped, JobTyped, Zenon
<1>4. Become(t, [task[t] EXCEPT !.pos = q, !.out = o])
  BY DEF ReplaySend
<1> HIDE DEF q, o
<1>5. Become(t, j)
  <2>1. [task[t] EXCEPT !.pos = q, !.out = o] = j
    <3>1. \A y \in 0 .. log, z \in Seq(Numbers) : [task[t] EXCEPT !.pos = y, !.out = z]
            = JobOf(task[t].pc, z, y, task[t].max, task[t].more, task[t].reply)
      BY JobKept, Zenon
    <3> QED  BY <1>2, <3>1, Zenon
  <2> QED  BY <1>4, <2>1
<1> HIDE DEF j
<1>6. task'[t] = j /\ Others(t) /\ task' \in [Tasks -> Job]
  BY <1>3, <1>5, Turns
<1>7. j = JobOf("send", o, q, task[t].max, task[t].more, task[t].reply)
  BY <1>1 DEF j
<1> QED  BY <1>1, <1>6, <1>7 DEF ReplaySend, emitting, channel, q, o

LEMMA EventSent ==
  ASSUME Types, NEW s \in 0 .. log, s > 0, wire' = Append(wire, Msg("event", s)), UNCHANGED <<log, up>>
  PROVE  SocketTypes' /\ Msg("event", s) \in Message(Deliveries)
<1> DEFINE m == Msg("event", s)
<1>1. m \in Message(Deliveries) /\ m.kind = "event" /\ m.s > 0
  BY LogIsNat, MsgTyped, Zenon DEF Deliveries
<1> HIDE DEF m
<1>2. wire' = Append(wire, m)
  BY DEF m
<1>3. SocketTypes'
  BY <1>1, <1>2, WireGrows DEF Types
<1> QED  BY <1>1, <1>3 DEF m

LEMMA ReplaySendTyped ==
  ASSUME Types, NEW t \in Tasks, ReplaySend(t), UNCHANGED client
  PROVE  Types'
<1>1. SocketTypes'
  BY ReplaySendDoes, FirstOut, EventSent
<1> QED  BY <1>1, ReplaySendDoes, ChannelFrame, SessionFrame, ClientFrame DEF Types

LEMMA ReplayDoneDoes ==
  ASSUME Types, NEW t \in Tasks, ReplayDone(t)
  PROVE  /\ UNCHANGED <<log, held, chan, lagged, conn, up, wire, ghost>>
         /\ task[t].pc = "send" /\ task[t].out = <<>> /\ ~task[t].more
         /\ sess' = SessionOf(sess.sub, To(task[t].pos), sess.rep, sess.buf, sess.pend)
         /\ To(task[t].pos) \in 0 .. log
         /\ task'[t] = JobOf("drain", task[t].out, task[t].pos, 0, task[t].more, task[t].reply)
         /\ Others(t) /\ task' \in [Tasks -> Job]
<1> DEFINE j == JobOf("drain", task[t].out, task[t].pos, 0, task[t].more, task[t].reply)
<1>1. "drain" \in Steps /\ 0 \in 0 .. log
  BY LogIsNat DEF Steps
<1>2. j \in Job
  BY <1>1, TaskTyped, JobTyped
<1>3. Become(t, j)
  <2>1. [task[t] EXCEPT !.pc = "drain", !.max = 0] = j
    BY <1>1, JobKept, Zenon
  <2> QED  BY <2>1 DEF ReplayDone
<1> HIDE DEF j
<1>4. task'[t] = j /\ Others(t) /\ task' \in [Tasks -> Job]
  BY <1>2, <1>3, Turns
<1>5. /\ sess' = SessionOf(sess.sub, To(task[t].pos), sess.rep, sess.buf, sess.pend)
      /\ To(task[t].pos) \in 0 .. log
  BY TaskTyped, Parts, AdvancedIs, ToTyped DEF ReplayDone
<1> QED  BY <1>4, <1>5 DEF ReplayDone, emitting, channel, j

LEMMA ReplayDoneTyped ==
  ASSUME Types, NEW t \in Tasks, ReplayDone(t), UNCHANGED client
  PROVE  Types'
<1>1. SessionTypes'
  BY ReplayDoneDoes, SessTyped, SessionKept
<1> QED  BY <1>1, ReplayDoneDoes, ChannelFrame, SocketFrame, ClientFrame DEF Types

LEMMA OwedGrows ==
  ASSUME Types, ghost' = [ghost EXCEPT !.owed = ghost.owed \cup Unsent]
  PROVE  /\ ghost' = GhostOf(ghost.gone, ghost.owed \cup Unsent, ghost.excused) /\ ghost' \in Ghost
         /\ Unsent \subseteq Numbers
<1>1. Unsent \subseteq Numbers
  BY SessTyped, LogIsNat DEF Unsent, Numbers
<1>2. \A y \in SUBSET Numbers : [ghost EXCEPT !.owed = y] = GhostOf(ghost.gone, y, ghost.excused)
  <2>1. ghost \in Ghost
    BY Parts
  <2> QED  BY <2>1, GhostChanges, Zenon
<1> DEFINE o == ghost.owed \cup Unsent
<1>3. o \in SUBSET Numbers /\ ghost.gone \in SUBSET Numbers /\ ghost.excused \in SUBSET Numbers
  BY <1>1, Parts, GhostFields
<1> HIDE DEF o
<1>4. ghost' = [ghost EXCEPT !.owed = o]
  BY DEF o
<1>5. ghost' = GhostOf(ghost.gone, o, ghost.excused)
  BY <1>2, <1>3, <1>4, Zenon
<1>6. ghost' \in Ghost
  BY <1>3, <1>5, GhostTyped
<1> QED  BY <1>1, <1>5, <1>6 DEF o

LEMMA ChannelFor ==
  ASSUME Types, UNCHANGED <<log, held, chan, lagged, conn>>, ghost' \in Ghost
  PROVE  ChannelTypes'
BY SameSets DEF Types, ChannelTypes

DrainTo(t) == MaxOf(sess.cp, task[t].max)

LEMMA DrainDoes ==
  ASSUME Types, NEW t \in Tasks, Drain(t)
  PROVE  /\ UNCHANGED <<log, held, chan, lagged, conn, up, wire>>
         /\ task[t].pc = "drain"
         /\ \/ /\ sess.buf = <<>>
               /\ sess' = SessionOf(sess.sub, To(task[t].max), FALSE, sess.buf, sess.pend)
               /\ task'[t] = Leaves(t)
               /\ UNCHANGED ghost
            \/ /\ Len(sess.buf) >= BufCap
               /\ sess' = SessionOf(sess.sub, sess.cp, FALSE, <<>>, sess.pend)
               /\ task'[t] = JobOf("reload", task[t].out, task[t].pos, task[t].max, task[t].more, Msg("nack", 0))
               /\ ghost' = GhostOf(ghost.gone, ghost.owed \cup Unsent, ghost.excused)
            \/ /\ Len(sess.buf) \in 1 .. BufCap - 1
               /\ sess' = SessionOf(sess.sub, sess.cp, sess.rep, <<>>, sess.pend)
               /\ task'[t] = With(t, "flush", Above(DrainTo(t), sess.buf))
               /\ UNCHANGED ghost
         /\ Others(t) /\ task' \in [Tasks -> Job] /\ ghost' \in Ghost
         /\ \E c \in 0 .. log, r \in BOOLEAN, b \in {sess.buf, <<>>} :
              sess' = SessionOf(sess.sub, c, r, b, sess.pend)
<1>1. UNCHANGED <<log, held, chan, lagged, conn, up, wire>> /\ task[t].pc = "drain"
  BY DEF Drain, emitting, channel
<1>2. task[t].max \in 0 .. log /\ sess.cp \in 0 .. log /\ log \in Nat /\ sess.buf \in Seq(Numbers)
      /\ <<>> \in Seq(Numbers) /\ FALSE \in BOOLEAN /\ ghost \in Ghost /\ Numbers \subseteq Nat
  BY TaskTyped, SessTyped, LogIsNat, Parts, IdleTyped DEF Numbers
<1>3. CASE /\ sess.buf = <<>>
           /\ sess' = [Advanced(task[t].max) EXCEPT !.rep = FALSE]
           /\ Become(t, Done(t))
           /\ UNCHANGED ghost
  <2> DEFINE s == SessionOf(sess.sub, To(task[t].max), sess.rep, sess.buf, sess.pend)
  <2>1. Advanced(task[t].max) = s /\ To(task[t].max) \in 0 .. log
    BY <1>2, Parts, AdvancedIs, ToTyped, Zenon
  <2>2. s \in Session
    BY <2>1, SessTyped, SessionTyped
  <2>3. s.sub = sess.sub /\ s.cp = To(task[t].max) /\ s.buf = sess.buf /\ s.pend = sess.pend
    BY DEF SessionOf
  <2>4. sess' = [s EXCEPT !.rep = FALSE]
    BY <1>3, <2>1
  <2> HIDE DEF s
  <2>5. \A r \in BOOLEAN : [s EXCEPT !.rep = r] = SessionOf(s.sub, s.cp, r, s.buf, s.pend)
    BY <2>2, SessionChanges, Zenon
  <2>6. sess' = SessionOf(sess.sub, To(task[t].max), FALSE, sess.buf, sess.pend)
    BY <1>2, <2>3, <2>4, <2>5, Zenon
  <2>7. task'[t] = Leaves(t) /\ Others(t) /\ task' \in [Tasks -> Job]
    BY <1>3, DoneIs, Turns
  <2> QED  BY <1>1, <1>2, <1>3, <2>1, <2>6, <2>7, Zenon
<1>4. CASE /\ Len(sess.buf) >= BufCap
           /\ sess' = [sess EXCEPT !.buf = <<>>, !.rep = FALSE]
           /\ Become(t, [task[t] EXCEPT !.pc = "reload", !.reply = Msg("nack", 0)])
           /\ ghost' = [ghost EXCEPT !.owed = @ \cup Unsent]
  <2> DEFINE j == JobOf("reload", task[t].out, task[t].pos, task[t].max, task[t].more, Msg("nack", 0))
  <2>1. sess' = SessionOf(sess.sub, sess.cp, FALSE, <<>>, sess.pend)
    BY <1>2, <1>4, SessIs, Zenon
  <2>2. Msg("nack", 0) \in Message(Replies) /\ "reload" \in Steps
    <3>1. 0 \in 0 .. log /\ "nack" \in Replies /\ "reload" \in Steps
      BY <1>2 DEF Replies, Steps
    <3> QED  BY <1>2, <3>1, MsgTyped, Zenon
  <2>3. j \in Job
    BY <2>2, TaskTyped, JobTyped
  <2>4. Become(t, j)
    <3>1. \A p \in Steps, y \in Message(Replies) : [task[t] EXCEPT !.pc = p, !.reply = y]
            = JobOf(p, task[t].out, task[t].pos, task[t].max, task[t].more, y)
      BY JobKept, Zenon
    <3>2. [task[t] EXCEPT !.pc = "reload", !.reply = Msg("nack", 0)] = j
      BY <2>2, <3>1, Zenon
    <3> QED  BY <1>4, <3>2
  <2> HIDE DEF j
  <2>5. task'[t] = j /\ Others(t) /\ task' \in [Tasks -> Job]
    BY <2>3, <2>4, Turns
  <2>6. ghost' = GhostOf(ghost.gone, ghost.owed \cup Unsent, ghost.excused) /\ ghost' \in Ghost
    BY <1>4, OwedGrows
  <2> QED  BY <1>1, <1>2, <1>4, <2>1, <2>5, <2>6, Zenon DEF j
<1>5. CASE /\ Len(sess.buf) \in 1 .. BufCap - 1
           /\ sess' = [sess EXCEPT !.buf = <<>>]
           /\ Become(t, [task[t] EXCEPT !.pc = "flush", !.out = Above(MaxOf(sess.cp, task[t].max), sess.buf)])
           /\ UNCHANGED ghost
  <2> DEFINE o == Above(DrainTo(t), sess.buf)
  <2>1. sess' = SessionOf(sess.sub, sess.cp, sess.rep, <<>>, sess.pend)
    BY <1>2, <1>5, SessIs, Zenon
  <2>2. o \in Seq(Numbers)
    <3>1. DrainTo(t) \in Nat
      BY <1>2 DEF DrainTo, MaxOf
    <3> QED  BY <1>2, <3>1, AboveKeeps, Zenon
  <2>3. With(t, "flush", o) \in Job /\ "flush" \in Steps
    <3>1. "flush" \in Steps
      BY DEF Steps
    <3> QED  BY <2>2, <3>1, WithTyped
  <2>4. Become(t, [task[t] EXCEPT !.pc = "flush", !.out = o])
    BY <1>5 DEF DrainTo
  <2> HIDE DEF o
  <2>5. Become(t, With(t, "flush", o))
    <3>1. \A p \in Steps, z \in Seq(Numbers) : [task[t] EXCEPT !.pc = p, !.out = z]
            = JobOf(p, z, task[t].pos, task[t].max, task[t].more, task[t].reply)
      BY JobKept, Zenon
    <3>2. [task[t] EXCEPT !.pc = "flush", !.out = o] = With(t, "flush", o)
      BY <2>2, <2>3, <3>1, Zenon DEF With
    <3> QED  BY <2>4, <3>2
  <2>6. task'[t] = With(t, "flush", o) /\ Others(t) /\ task' \in [Tasks -> Job]
    BY <2>3, <2>5, Turns
  <2> QED  BY <1>1, <1>2, <1>5, <2>1, <2>6, SessTyped, Zenon DEF o
<1> QED  BY <1>3, <1>4, <1>5, Zenon DEF Drain

LEMMA DrainTyped ==
  ASSUME Types, NEW t \in Tasks, Drain(t), UNCHANGED client
  PROVE  Types'
<1>1. SessionTypes'
  <2>1. PICK c \in 0 .. log, r \in BOOLEAN, b \in {sess.buf, <<>>} : sess' = SessionOf(sess.sub, c, r, b, sess.pend)
    BY DrainDoes, Zenon
  <2> QED  BY <2>1, DrainDoes, SessTyped, SessionKept, Zenon
<1> QED  BY <1>1, DrainDoes, ChannelFor, SocketFrame, ClientFrame, Zenon DEF Types

LEMMA FlushSendDoes ==
  ASSUME Types, NEW t \in Tasks, FlushSend(t)
  PROVE  /\ UNCHANGED <<log, held, chan, lagged, sess, conn, up, ghost>>
         /\ task[t].pc = "flush" /\ task[t].out # <<>>
         /\ wire' = Append(wire, Msg("event", Head(task[t].out)))
         /\ task'[t] = JobOf("flush", Tail(task[t].out), task[t].pos, MaxOf(task[t].max, Head(task[t].out)),
                             task[t].more, task[t].reply)
         /\ Others(t) /\ task' \in [Tasks -> Job]
<1> DEFINE q == Head(task[t].out)
           m == MaxOf(task[t].max, q)
           o == Tail(task[t].out)
           j == JobOf(task[t].pc, o, task[t].pos, m, task[t].more, task[t].reply)
<1>1. task[t].out # <<>> /\ task[t].pc = "flush"
  BY DEF FlushSend
<1>2. m \in 0 .. log /\ o \in Seq(Numbers)
  BY <1>1, FirstOut, TaskTyped DEF MaxOf
<1>3. j \in Job
  BY <1>2, TaskTyped, JobTyped, Zenon
<1>4. Become(t, [task[t] EXCEPT !.max = m, !.out = o])
  BY DEF FlushSend
<1> HIDE DEF m, o
<1>5. Become(t, j)
  <2>1. [task[t] EXCEPT !.max = m, !.out = o] = j
    <3>1. \A y \in 0 .. log, z \in Seq(Numbers) : [task[t] EXCEPT !.max = y, !.out = z]
            = JobOf(task[t].pc, z, task[t].pos, y, task[t].more, task[t].reply)
      BY JobKept, Zenon
    <3> QED  BY <1>2, <3>1, Zenon
  <2> QED  BY <1>4, <2>1
<1> HIDE DEF j
<1>6. task'[t] = j /\ Others(t) /\ task' \in [Tasks -> Job]
  BY <1>3, <1>5, Turns
<1>7. j = JobOf("flush", o, task[t].pos, m, task[t].more, task[t].reply)
  BY <1>1 DEF j
<1> QED  BY <1>1, <1>6, <1>7 DEF FlushSend, emitting, channel, m, o

LEMMA FlushSendTyped ==
  ASSUME Types, NEW t \in Tasks, FlushSend(t), UNCHANGED client
  PROVE  Types'
<1>1. SocketTypes'
  BY FlushSendDoes, FirstOut, EventSent
<1> QED  BY <1>1, FlushSendDoes, ChannelFrame, SessionFrame, ClientFrame DEF Types

LEMMA FlushMarkDoes ==
  ASSUME Types, NEW t \in Tasks, FlushMark(t)
  PROVE  /\ UNCHANGED <<log, held, chan, lagged, conn, up, wire, ghost>>
         /\ task[t].pc = "flush" /\ task[t].out = <<>>
         /\ sess' = SessionOf(sess.sub, To(task[t].max), sess.rep, sess.buf, sess.pend)
         /\ To(task[t].max) \in 0 .. log
         /\ task'[t] = With(t, "drain", task[t].out)
         /\ Others(t) /\ task' \in [Tasks -> Job]
<1>1. "drain" \in Steps
  BY DEF Steps
<1>2. With(t, "drain", task[t].out) \in Job
  BY <1>1, TaskTyped, WithTyped
<1>3. Become(t, With(t, "drain", task[t].out))
  <2>1. [task[t] EXCEPT !.pc = "drain"] = With(t, "drain", task[t].out)
    BY <1>1, JobKept, Zenon DEF With
  <2> QED  BY <2>1 DEF FlushMark
<1>4. task'[t] = With(t, "drain", task[t].out) /\ Others(t) /\ task' \in [Tasks -> Job]
  BY <1>2, <1>3, Turns
<1>5. /\ sess' = SessionOf(sess.sub, To(task[t].max), sess.rep, sess.buf, sess.pend)
      /\ To(task[t].max) \in 0 .. log
  BY TaskTyped, Parts, AdvancedIs, ToTyped DEF FlushMark
<1> QED  BY <1>4, <1>5 DEF FlushMark, emitting, channel

LEMMA FlushMarkTyped ==
  ASSUME Types, NEW t \in Tasks, FlushMark(t), UNCHANGED client
  PROVE  Types'
<1>1. SessionTypes'
  BY FlushMarkDoes, SessTyped, SessionKept
<1> QED  BY <1>1, FlushMarkDoes, ChannelFrame, SocketFrame, ClientFrame DEF Types

LEMMA BeginDoes ==
  ASSUME Types, NEW t \in Tasks, BeginFullReload(t)
  PROVE  /\ UNCHANGED <<log, held, chan, lagged, conn, up, wire>>
         /\ task[t].pc = "reload"
         /\ sess' = SessionOf(sess.sub, sess.cp, FALSE, <<>>, TRUE)
         /\ task'[t] = IF sess.pend THEN Leaves(t) ELSE With(t, "announce", task[t].out)
         /\ ghost' = GhostOf(ghost.gone, ghost.owed \cup Unsent, ghost.excused) /\ ghost' \in Ghost
         /\ Others(t) /\ task' \in [Tasks -> Job]
<1>1. "announce" \in Steps /\ <<>> \in Seq(Numbers) /\ FALSE \in BOOLEAN /\ TRUE \in BOOLEAN
  BY IdleTyped DEF Steps
<1>2. With(t, "announce", task[t].out) \in Job
  BY <1>1, TaskTyped, WithTyped
<1> DEFINE j == IF sess.pend THEN Leaves(t) ELSE With(t, "announce", task[t].out)
<1>3. Become(t, j)
  <2>1. [task[t] EXCEPT !.pc = "announce"] = With(t, "announce", task[t].out)
    BY <1>1, JobKept, Zenon DEF With
  <2> QED  BY <2>1, DoneIs DEF BeginFullReload
<1>4. j \in Job
  BY <1>2, DoneIs
<1> HIDE DEF j
<1>5. task'[t] = j /\ Others(t) /\ task' \in [Tasks -> Job]
  BY <1>3, <1>4, Turns
<1>6. sess' = SessionOf(sess.sub, sess.cp, FALSE, <<>>, TRUE)
  <2>1. \A b \in Seq(Numbers), r \in BOOLEAN, p \in BOOLEAN :
          [sess EXCEPT !.buf = b, !.rep = r, !.pend = p] = SessionOf(sess.sub, sess.cp, r, b, p)
    BY SessIs, Zenon
  <2>2. sess' = [sess EXCEPT !.buf = <<>>, !.rep = FALSE, !.pend = TRUE]
    BY DEF BeginFullReload
  <2> QED  BY <1>1, <2>1, <2>2, Zenon
<1>7. ghost' = GhostOf(ghost.gone, ghost.owed \cup Unsent, ghost.excused) /\ ghost' \in Ghost
  BY OwedGrows DEF BeginFullReload
<1> QED  BY <1>5, <1>6, <1>7, Zenon DEF BeginFullReload, emitting, channel, j

LEMMA BeginTyped ==
  ASSUME Types, NEW t \in Tasks, BeginFullReload(t), UNCHANGED client
  PROVE  Types'
<1>1. SessionTypes'
  BY BeginDoes, SessTyped, SessionKept, Zenon
<1> QED  BY <1>1, BeginDoes, ChannelFor, SocketFrame, ClientFrame, Zenon DEF Types

LEMMA AnnounceDoes ==
  ASSUME Types, NEW t \in Tasks, SendFullReload(t)
  PROVE  /\ UNCHANGED <<log, held, chan, lagged, sess, conn, up, ghost>>
         /\ task[t].pc = "announce"
         /\ wire' = Append(wire, Msg("reload", 0))
         /\ task'[t] = Leaves(t)
         /\ Others(t) /\ task' \in [Tasks -> Job]
<1>1. task'[t] = Leaves(t) /\ Others(t) /\ task' \in [Tasks -> Job]
  BY DoneIs, Turns DEF SendFullReload
<1> QED  BY <1>1 DEF SendFullReload, emitting, channel

LEMMA AnnounceTyped ==
  ASSUME Types, NEW t \in Tasks, SendFullReload(t), UNCHANGED client
  PROVE  Types'
<1> DEFINE m == Msg("reload", 0)
<1>1. m \in Message(Deliveries) /\ m.kind # "event"
  <2>1. log \in Nat /\ 0 \in 0 .. log /\ "reload" \in Deliveries
    BY LogIsNat DEF Deliveries
  <2>2. m \in Message(Deliveries) /\ m.kind = "reload"
    BY <2>1, MsgTyped
  <2> QED  BY <2>2
<1> HIDE DEF m
<1>2. wire' = Append(wire, m)
  BY AnnounceDoes DEF m
<1>3. SocketTypes'
  BY <1>1, <1>2, AnnounceDoes, WireGrows DEF Types
<1> QED  BY <1>3, AnnounceDoes, ChannelFrame, SessionFrame, ClientFrame DEF Types

-----------------------------------------------------------------------------
(* The client.  What its operators make of a transport, *)

LEMMA TransportFields ==
  ASSUME NEW t \in Transport
  PROVE  t.last \in 0 .. log /\ t.intent \in BOOLEAN /\ t.live \in BOOLEAN /\ t.susp \in BOOLEAN
         /\ t.need \in BOOLEAN /\ t.att \in {"none", "own", "resub"} /\ t.old \in Nat
BY DEF Transport

LEMMA UnsubscribeRunTyped ==
  ASSUME log \in Nat, NEW t \in Transport
  PROVE  UnsubscribeRun(t) \in Transport /\ UnsubscribeRun(t).att = "none"
<1>1. Unanswered(t) \in Nat
  BY TransportFields DEF Unanswered
<1> DEFINE n == Unanswered(t)
           f == NewTransport
           r == [f EXCEPT !.old = n]
<1>2. f \in Transport /\ f.att = "none"
  BY DEF NewTransport, Transport
<1> HIDE DEF n, f
<1>3. r \in Transport /\ r.att = "none"
  BY <1>1, <1>2 DEF Transport, n
<1> QED  BY <1>3 DEF UnsubscribeRun, n, f

LEMMA SubscribeRunTyped ==
  ASSUME log \in Nat, NEW t \in Transport, NEW seq \in 0 .. log, NEW live \in BOOLEAN
  PROVE  SubscribeRun(t, seq, live) \in Transport /\ SubscribeRun(t, seq, live).last = MaxOf(t.last, seq)
<1>1. Unanswered(t) \in Nat /\ MaxOf(t.last, seq) \in 0 .. log
  BY TransportFields DEF Unanswered, MaxOf
<1> QED  BY <1>1 DEF SubscribeRun, Transport

LEMMA AttemptFailedTyped ==
  ASSUME NEW t \in Transport
  PROVE  AttemptFailed(t) \in Transport /\ AttemptFailed(t).last = t.last /\ AttemptFailed(t).att = "none"
<1>1. CASE t.att = "none"
  BY <1>1 DEF AttemptFailed
<1>2. CASE t.att = "resub"
  <2> DEFINE r == [t EXCEPT !.att = "none", !.need = TRUE]
  <2>1. r \in Transport /\ r.last = t.last /\ r.att = "none"
    BY Zenon DEF Transport
  <2> QED  BY <1>2, <2>1, Zenon DEF AttemptFailed
<1>3. CASE t.att = "own"
  <2> DEFINE r == [t EXCEPT !.att = "none", !.need = t.live, !.susp = ~t.live]
  <2>1. r \in Transport /\ r.last = t.last /\ r.att = "none"
    BY Zenon DEF Transport
  <2> QED  BY <1>3, <2>1, Zenon DEF AttemptFailed
<1> QED  BY <1>1, <1>2, <1>3, TransportFields

LEMMA ClosedTyped ==
  ASSUME NEW t \in Transport
  PROVE  Closed(t) \in Transport /\ Closed(t).last = t.last /\ Closed(t).att = "none"
<1> DEFINE a == [t EXCEPT !.need = @ \/ (t.intent /\ ~t.susp)]
           b == AttemptFailed(a)
           c == [b EXCEPT !.old = 0]
<1>1. a \in Transport /\ a.last = t.last
  BY DEF Transport
<1> HIDE DEF a
<1>2. b \in Transport /\ b.last = a.last /\ b.att = "none"
  BY <1>1, AttemptFailedTyped
<1> HIDE DEF b
<1>3. c \in Transport /\ c.last = b.last /\ c.att = b.att
  BY <1>2 DEF Transport
<1> QED  BY <1>1, <1>2, <1>3 DEF Closed, a, b

LEMMA OpenedTyped ==
  ASSUME NEW t \in Transport
  PROVE  Opened(t) \in Transport /\ Opened(t).last = t.last
<1>1. CASE Resubscribes(t)
  <2> DEFINE r == [t EXCEPT !.att = "resub", !.old = 0]
  <2>1. r \in Transport /\ r.last = t.last
    BY Zenon DEF Transport
  <2> QED  BY <1>1, <2>1 DEF Opened
<1>2. CASE ~Resubscribes(t)
  <2> DEFINE r == [t EXCEPT !.need = FALSE, !.old = 0]
  <2>1. r \in Transport /\ r.last = t.last
    BY Zenon DEF Transport
  <2> QED  BY <1>2, <2>1 DEF Opened
<1> QED  BY <1>1, <1>2

LEMMA GivesUpTyped ==
  ASSUME log \in Nat, NEW t \in Transport
  PROVE  GivesUp(t) \in Transport /\ (t.att = "none" => GivesUp(t).att = "none")
BY UnsubscribeRunTyped DEF GivesUp

(* of a store and a middleware. *)

LEMMA ClientFields ==
  ASSUME Types
  PROVE  /\ tr \in Transport /\ mw \in Middleware /\ st \in Store
         /\ st.page \in {"closed", "open", "failed"} /\ st.pc \in {"idle", "start", "history", "hung", "ack", "retry"}
         /\ st.last \in 0 .. log /\ st.timeline \in Seq(Numbers) /\ st.stale \in Nat
         /\ mw.load \in BOOLEAN /\ mw.buf \in Seq(Numbers) /\ mw.reload \in 0 .. Attempts /\ mw.again \in BOOLEAN
         /\ mw.reload \in Nat
         /\ tr.last \in 0 .. log /\ tr.old \in Nat
BY WsDeliveryAssumption DEF Types, ClientTypes, Transport, Middleware, Store

LEMMA ClientTyped ==
  ASSUME log' = log, tr' \in Transport, mw' \in Middleware, st' \in Store
  PROVE  ClientTypes'
BY SameSets DEF ClientTypes

LEMMA NewTyped ==
  ASSUME Types
  PROVE  NewMiddleware \in Middleware /\ NewTransport \in Transport /\ NewStore \in Store
BY LogIsNat, WsDeliveryAssumption DEF NewMiddleware, NewTransport, NewStore, Middleware, Transport, Store

LEMMA StartLoadTyped ==
  ASSUME log \in Nat, NEW s \in Store
  PROVE  /\ StartLoad(s) \in Store /\ StartLoad(s).page = "open" /\ StartLoad(s).pc = "start"
         /\ StartLoad(s).stale = s.stale + One(s.pc = "history")
BY DEF StartLoad, Store, One

LEMMA ApplyTyped ==
  ASSUME log \in Nat, NEW s \in Store, NEW events \in Seq(Numbers)
  PROVE  /\ Apply(s, events) \in Store /\ Apply(s, events).page = s.page /\ Apply(s, events).pc = s.pc
         /\ Apply(s, events).stale = s.stale
         /\ IF Len(events) = 1 /\ Head(events) <= s.last
              THEN Apply(s, events).timeline = s.timeline /\ Apply(s, events).last = s.last
              ELSE /\ Apply(s, events).timeline = s.timeline \o events
                   /\ Apply(s, events).last = s.last \/ \E i \in DOMAIN events : Apply(s, events).last = events[i]
<1>1. s.last \in 0 .. log /\ s.timeline \in Seq(Numbers) /\ s.last \in Nat /\ Numbers \subseteq Nat
  BY DEF Store, Numbers
<1> DEFINE l == FoldLeft(MaxOf, s.last, events)
<1>2. l = s.last \/ \E i \in DOMAIN events : l = events[i]
  BY <1>1, HighestIsOne, Zenon
<1> HIDE DEF l
<1>3. \A i \in DOMAIN events : events[i] \in 0 .. log
  BY ElementOfSeq, LenProperties DEF Numbers
<1>4. l \in 0 .. log
  BY <1>1, <1>2, <1>3
<1>5. s.timeline \o events \in Seq(Numbers)
  BY <1>1
<1>6. CASE Len(events) = 1 /\ Head(events) <= s.last
  BY <1>6 DEF Apply
<1>7. CASE ~(Len(events) = 1 /\ Head(events) <= s.last)
  <2> DEFINE z == s.timeline \o events
             r == [s EXCEPT !.timeline = z, !.last = l]
  <2>1. Apply(s, events) = r
    BY <1>7 DEF Apply, l
  <2> HIDE DEF z
  <2>2. /\ r \in Store /\ r.page = s.page /\ r.pc = s.pc /\ r.stale = s.stale
        /\ r.timeline = z /\ r.last = l
    BY <1>4, <1>5, Zenon DEF Store, z
  <2> HIDE DEF r
  <2> QED  BY <1>2, <1>7, <2>1, <2>2 DEF z
<1> QED  BY <1>6, <1>7

LEMMA LoadFailedDoes ==
  ASSUME Types, NEW stale \in Nat, LoadFailed(stale)
  PROVE  /\ mw' \in Middleware /\ st' \in Store
         /\ mw'.load = FALSE /\ mw'.buf = <<>> /\ mw'.again = (mw.again /\ mw.reload # 1)
         /\ mw'.reload = IF mw.reload = 0 THEN 0 ELSE mw.reload - 1
         /\ st'.page = "failed" /\ st'.stale = stale /\ st'.pc = IF mw.reload > 1 THEN "retry" ELSE "idle"
<1>1. /\ mw' \in Middleware
      /\ mw'.load = FALSE /\ mw'.buf = <<>> /\ mw'.again = (mw.again /\ mw.reload # 1)
      /\ mw'.reload = IF mw.reload = 0 THEN 0 ELSE mw.reload - 1
  BY ClientFields, IdleTyped, WsDeliveryAssumption DEF LoadFailed, Exhausted, Middleware
<1> DEFINE p == IF mw.reload > 1 THEN "retry" ELSE "idle"
<1>2. p \in {"retry", "idle"}
  OBVIOUS
<1>3. st' = [st EXCEPT !.page = "failed", !.stale = stale, !.pc = p]
  BY DEF LoadFailed
<1> HIDE DEF p
<1>4. st' \in Store /\ st'.page = "failed" /\ st'.stale = stale /\ st'.pc = p
  BY <1>2, <1>3, ClientFields, Zenon DEF Store
<1> QED  BY <1>1, <1>4 DEF p

LEMMA RequestFullReloadDoes ==
  ASSUME Types, RequestFullReload
  PROVE  /\ mw' \in Middleware /\ st' \in Store
         /\ \/ mw.reload > 0 /\ mw'.again = TRUE /\ mw'.reload = mw.reload /\ mw'.load = mw.load /\ st' = st
            \/ /\ mw.reload = 0 /\ mw'.load = TRUE /\ mw'.reload = Attempts /\ mw'.again = mw.again
               /\ st'.page = "open" /\ st'.pc = "start" /\ st'.stale = st.stale + One(st.pc = "history")
<1>1. CASE mw.reload > 0
  <2> DEFINE r == [mw EXCEPT !.again = TRUE]
  <2>1. r \in Middleware /\ r.again = TRUE /\ r.reload = mw.reload /\ r.load = mw.load
    BY ClientFields, Zenon DEF Middleware
  <2> QED  BY <1>1, <2>1, ClientFields, Zenon DEF RequestFullReload
<1>2. CASE ~(mw.reload > 0)
  <2> DEFINE r == [mw EXCEPT !.load = TRUE, !.reload = Attempts]
  <2>1. Attempts \in 0 .. Attempts
    BY WsDeliveryAssumption
  <2>2. r \in Middleware /\ r.again = mw.again /\ r.reload = Attempts /\ r.load = TRUE
    BY <2>1, ClientFields, Zenon DEF Middleware
  <2>3. mw' = r /\ st' = StartLoad(st) /\ mw.reload = 0
    BY <1>2, ClientFields DEF RequestFullReload
  <2> HIDE DEF r
  <2> QED  BY <2>2, <2>3, ClientFields, LogIsNat, StartLoadTyped
<1> QED  BY <1>1, <1>2, Zenon

(* The end of a load.  What was buffered and is above the history is shown. *)
Released == Above(st.last, mw.buf)
LEMMA LoadFinishedDoes ==
  ASSUME Types, LoadFinished
  PROVE  /\ mw' \in Middleware /\ st' \in Store
         /\ Released \in Seq(Numbers) /\ KeptOf(Released, mw.buf, st.last, Len(mw.buf))
         /\ \/ mw.again /\ mw'.again = FALSE /\ mw'.reload = Attempts /\ mw'.load = TRUE
               /\ st'.page = "open" /\ st'.pc = "start" /\ st'.stale = st.stale
            \/ /\ ~mw.again /\ mw' = NewMiddleware
               /\ st'.page = st.page /\ st'.pc = "idle" /\ st'.stale = st.stale
               /\ st'.timeline = st.timeline \o Released
               /\ st'.last = st.last \/ \E i \in DOMAIN Released : st'.last = Released[i]
<1>1. st.last \in Nat /\ mw.buf \in Seq(Numbers) /\ Numbers \subseteq Nat /\ log \in Nat
  BY ClientFields, LogIsNat DEF Numbers
<1>2. Released \in Seq(Numbers) /\ KeptOf(Released, mw.buf, st.last, Len(mw.buf))
  BY <1>1, AboveKeeps, Zenon DEF Released
<1> DEFINE s == [st EXCEPT !.pc = "idle"]
           loaded == Apply(s, Released)
<1>3. /\ s \in Store /\ s.page = st.page /\ s.pc = "idle" /\ s.stale = st.stale
      /\ s.timeline = st.timeline /\ s.last = st.last
  BY ClientFields DEF Store
<1>4. IF mw.again
        THEN /\ mw' = [load |-> TRUE, buf |-> <<>>, reload |-> Attempts, again |-> FALSE]
             /\ st' = StartLoad(loaded)
        ELSE mw' = NewMiddleware /\ st' = loaded
  BY DEF LoadFinished, Released
<1>5. ~(Len(Released) = 1 /\ Head(Released) <= s.last)
  <2> SUFFICES ASSUME Len(Released) = 1 PROVE ~(Head(Released) <= s.last)
    OBVIOUS
  <2>2. Released[1] > st.last /\ Head(Released) = Released[1] /\ Released[1] \in Numbers
    <3>1. 1 \in 1 .. Len(Released)
      OBVIOUS
    <3>2. Released[1] > st.last
      BY <1>2, <3>1 DEF KeptOf
    <3>3. Released \in Seq(Numbers)
      BY <1>2
    <3>4. Released[1] \in Numbers
      BY <3>1, <3>3, ElementOfSeq
    <3>5. Head(Released) = Released[1]
      BY <3>3
    <3> QED  BY <3>2, <3>4, <3>5
  <2> QED  BY <1>1, <1>3, <2>2
<1> HIDE DEF s
<1>6. /\ loaded \in Store /\ loaded.page = s.page /\ loaded.pc = s.pc /\ loaded.stale = s.stale
      /\ loaded.timeline = s.timeline \o Released
      /\ loaded.last = s.last \/ \E i \in DOMAIN Released : loaded.last = Released[i]
  BY <1>1, <1>2, <1>3, <1>5, ApplyTyped, Zenon
<1> HIDE DEF loaded
<1>7. CASE mw.again
  <2> DEFINE r == [load |-> TRUE, buf |-> <<>>, reload |-> Attempts, again |-> FALSE]
  <2>1. r \in Middleware /\ r.again = FALSE /\ r.reload = Attempts /\ r.load = TRUE
    BY WsDeliveryAssumption, IdleTyped DEF Middleware
  <2>2. mw' = r /\ st' = StartLoad(loaded)
    BY <1>4, <1>7
  <2> HIDE DEF r
  <2>3. /\ StartLoad(loaded) \in Store /\ StartLoad(loaded).page = "open" /\ StartLoad(loaded).pc = "start"
        /\ StartLoad(loaded).stale = loaded.stale + One(loaded.pc = "history")
    BY <1>1, <1>6, StartLoadTyped
  <2>4. loaded.stale + One(loaded.pc = "history") = st.stale
    BY <1>3, <1>6, ClientFields DEF One
  <2> QED  BY <1>2, <1>7, <2>1, <2>2, <2>3, <2>4
<1>8. CASE ~mw.again
  BY <1>2, <1>3, <1>4, <1>6, <1>8, NewTyped
<1> QED  BY <1>7, <1>8, Zenon

Forgotten == IF Undelivered THEN ghost.owed ELSE {}
LEMMA FreshServerDoes ==
  ASSUME Types, FreshServer, log' = log, held' = held, conn' \in {"up", "closing", "down"},
         up' \in Seq(Message(Requests))
  PROVE  /\ sess' = NewSession /\ sess' = SessionOf(FALSE, 0, FALSE, <<>>, FALSE)
         /\ task' = NewTasks /\ task'["fwd"] = Idle /\ task'["cmd"] = Idle
         /\ chan' = <<>> /\ lagged' = FALSE /\ wire' = <<>>
         /\ ghost' = GhostOf({}, {}, ghost.excused \cup Forgotten)
         /\ SessionTypes' /\ ChannelTypes' /\ SocketTypes'
<1>1. sess' = NewSession /\ task' = NewTasks /\ chan' = <<>> /\ lagged' = FALSE /\ wire' = <<>>
  BY DEF FreshServer
<1>2. sess' = SessionOf(FALSE, 0, FALSE, <<>>, FALSE)
  BY <1>1 DEF NewSession, SessionOf
<1>3. task'["fwd"] = Idle /\ task'["cmd"] = Idle /\ task' \in [Tasks -> Job]
  BY <1>1, IdleTyped, Zenon DEF NewTasks, Tasks
<1>4. ghost' = GhostOf({}, {}, ghost.excused \cup Forgotten) /\ ghost' \in Ghost
  <2> DEFINE x == ghost.excused \cup Forgotten
  <2>1. x \in SUBSET Numbers /\ {} \in SUBSET Numbers
    BY Parts, GhostFields DEF Forgotten
  <2>2. ghost' = [NoGhost EXCEPT !.excused = x]
    BY DEF FreshServer, Forgotten
  <2> HIDE DEF x
  <2>3. ghost' = GhostOf({}, {}, x)
    BY <2>2, Zenon DEF NoGhost, GhostOf
  <2> QED  BY <2>1, <2>3, GhostTyped DEF x
<1>5. SessionTypes'
  BY <1>2, <1>3, LogIsNat, SessionKept, Zenon
<1>6. ChannelTypes'
  <2>1. chan' \in Seq(Numbers) /\ Len(chan') <= ChanCap
    <3>1. Len(<<>>) = 0 /\ <<>> \in Seq(Numbers)
      OBVIOUS
    <3> QED  BY <1>1, <3>1, WsSessionAssumption
  <2> QED  BY <1>1, <1>4, <2>1, SameSets, Zenon DEF Types, ChannelTypes
<1>7. SocketTypes'
  <2>1. Message(Deliveries)' = Message(Deliveries) /\ Message(Requests)' = Message(Requests)
    BY DEF Message, Deliveries, Requests
  <2>2. wire' \in Seq(Message(Deliveries)) /\ DOMAIN wire' = {}
    <3>1. <<>> \in Seq(Message(Deliveries)) /\ DOMAIN <<>> = {}
      OBVIOUS
    <3> QED  BY <1>1, <3>1
  <2> QED  BY <2>1, <2>2 DEF SocketTypes
<1> QED  BY <1>1, <1>2, <1>3, <1>4, <1>5, <1>6, <1>7

LEMMA RequestTyped ==
  ASSUME Types, NEW k \in Requests, NEW s \in 0 .. log
  PROVE  /\ Msg(k, s) \in Message(Requests) /\ Msg(k, s).kind = k /\ Msg(k, s).s = s
         /\ up \in Seq(Message(Requests))
         /\ Append(up, Msg(k, s)) \in Seq(Message(Requests)) /\ <<Msg(k, s)>> \in Seq(Message(Requests))
         /\ <<>> \in Seq(Message(Requests))
<1> DEFINE m == Msg(k, s)
<1>1. m \in Message(Requests) /\ m.kind = k /\ m.s = s
  BY LogIsNat, MsgTyped
<1>2. up \in Seq(Message(Requests))
  BY DEF Types, SocketTypes
<1> HIDE DEF m
<1>3. Append(up, m) \in Seq(Message(Requests)) /\ <<m>> \in Seq(Message(Requests))
  BY <1>1, <1>2
<1>4. <<>> \in Seq(Message(Requests))
  OBVIOUS
<1> QED  BY <1>1, <1>2, <1>3, <1>4 DEF m

LEMMA SocketGrows ==
  ASSUME Types, log' = log, wire' = wire, up' \in Seq(Message(Requests))
  PROVE  SocketTypes'
<1>1. Message(Deliveries)' = Message(Deliveries) /\ Message(Requests)' = Message(Requests)
  BY DEF Message, Deliveries, Requests
<1> QED  BY <1>1 DEF Types, SocketTypes

(* The user. *)

LEMMA OpenRunDoes ==
  ASSUME Types, OpenRun
  PROVE  /\ UNCHANGED <<log, held, chan, lagged, sess, task, conn, up, wire, faults, ghost, tr, drops>>
         /\ st.page = "closed" /\ visits' = visits + 1
         /\ mw' \in Middleware /\ mw'.load = TRUE /\ mw'.reload = mw.reload /\ mw'.again = mw.again
         /\ st' \in Store /\ st'.page = "open" /\ st'.pc = "start"
         /\ st'.stale = st.stale + One(st.pc = "history")
         /\ Types'
<1>1. /\ UNCHANGED <<log, held, chan, lagged, sess, task, conn, up, wire, faults, ghost, tr, drops>>
      /\ st.page = "closed" /\ visits' = visits + 1
  BY DEF OpenRun
<1>2. mw' \in Middleware /\ mw'.load = TRUE /\ mw'.reload = mw.reload /\ mw'.again = mw.again
  BY ClientFields, Zenon DEF OpenRun, Middleware
<1>3. st' \in Store /\ st'.page = "open" /\ st'.pc = "start" /\ st'.stale = st.stale + One(st.pc = "history")
  BY ClientFields, LogIsNat, StartLoadTyped DEF OpenRun
<1>4. ClientTypes'
  BY <1>1, <1>2, <1>3, ClientFields, ClientTyped
<1> QED  BY <1>1, <1>2, <1>3, <1>4, Parts, ChannelFrame, SessionFrame, SocketFrame DEF Types

LEMMA StartSessionDoes ==
  ASSUME Types, StartSession
  PROVE  /\ UNCHANGED <<log, held, chan, lagged, sess, task, conn, wire, faults, ghost, mw, drops>>
         /\ st.page = "closed" /\ visits = 0 /\ visits' = visits + 1 /\ log = 0 /\ conn = "up"
         /\ st' \in Store /\ st'.page = "open" /\ st'.pc = st.pc /\ st'.stale = st.stale
         /\ st'.timeline = st.timeline /\ st'.last = st.last
         /\ tr' \in Transport /\ tr'.last = MaxOf(tr.last, 0)
         /\ up' = Append(up, Msg("subscribe", 0))
         /\ Types'
<1>1. /\ UNCHANGED <<log, held, chan, lagged, sess, task, conn, wire, faults, ghost, mw, drops>>
      /\ st.page = "closed" /\ visits = 0 /\ visits' = visits + 1 /\ log = 0 /\ conn = "up"
      /\ up' = Append(up, Msg("subscribe", 0))
  BY DEF StartSession
<1>2. /\ st' \in Store /\ st'.page = "open" /\ st'.pc = st.pc /\ st'.stale = st.stale
      /\ st'.timeline = st.timeline /\ st'.last = st.last
  BY ClientFields DEF StartSession, Store
<1>3. tr' \in Transport /\ tr'.last = MaxOf(tr.last, 0)
  BY ClientFields, LogIsNat, SubscribeRunTyped, Zenon DEF StartSession
<1>4. up' \in Seq(Message(Requests))
  <2>1. "subscribe" \in Requests /\ 0 \in 0 .. log
    BY LogIsNat DEF Requests
  <2> QED  BY <1>1, <2>1, RequestTyped
<1>5. ClientTypes'
  BY <1>1, <1>2, <1>3, ClientFields, ClientTyped
<1> QED  BY <1>1, <1>2, <1>3, <1>4, <1>5, Parts, ChannelFrame, SessionFrame, SocketGrows DEF Types

LEMMA LeaveRunDoes ==
  ASSUME Types, LeaveRun
  PROVE  /\ UNCHANGED <<log, held, chan, lagged, sess, task, conn, wire, faults, ghost, drops, visits>>
         /\ st.page # "closed"
         /\ mw' = NewMiddleware
         /\ st' \in Store /\ st'.page = "closed" /\ st'.pc = "idle"
         /\ st'.stale = st.stale + One(st.pc = "history")
         /\ tr' \in Transport /\ tr'.att = "none"
         /\ up' = IF conn = "up" THEN Append(up, Msg("unsubscribe", 0)) ELSE up
         /\ Types'
<1>1. /\ UNCHANGED <<log, held, chan, lagged, sess, task, conn, wire, faults, ghost, drops, visits>>
      /\ st.page # "closed" /\ mw' = NewMiddleware
      /\ up' = IF conn = "up" THEN Append(up, Msg("unsubscribe", 0)) ELSE up
  BY DEF LeaveRun
<1>2. st' \in Store /\ st'.page = "closed" /\ st'.pc = "idle" /\ st'.stale = st.stale + One(st.pc = "history")
  <2> DEFINE n == StartLoad(st).stale
             f == NewStore
  <2>1. n \in Nat /\ n = st.stale + One(st.pc = "history")
    BY ClientFields, LogIsNat, StartLoadTyped DEF One
  <2>2. f \in Store /\ f.page = "closed" /\ f.pc = "idle"
    BY NewTyped DEF NewStore
  <2>3. st' = [f EXCEPT !.stale = n]
    BY DEF LeaveRun
  <2> HIDE DEF n, f
  <2>4. st' \in Store /\ st'.page = f.page /\ st'.pc = f.pc /\ st'.stale = n
    BY <2>1, <2>2, <2>3 DEF Store
  <2> QED  BY <2>1, <2>2, <2>4
<1>3. tr' \in Transport /\ tr'.att = "none"
  BY ClientFields, LogIsNat, UnsubscribeRunTyped DEF LeaveRun
<1>4. up' \in Seq(Message(Requests))
  <2>1. "unsubscribe" \in Requests /\ 0 \in 0 .. log
    BY LogIsNat DEF Requests
  <2> QED  BY <1>1, <2>1, RequestTyped
<1>5. ClientTypes'
  BY <1>1, <1>2, <1>3, NewTyped, ClientTyped
<1> QED  BY <1>1, <1>2, <1>3, <1>4, <1>5, Parts, ChannelFrame, SessionFrame, SocketGrows DEF Types

(* The client's own steps. *)

LEMMA RequestHistoryDoes ==
  ASSUME Types, RequestHistory
  PROVE  /\ UNCHANGED <<log, held, chan, lagged, sess, task, conn, wire, faults, ghost, tr, mw, drops, visits>>
         /\ st.pc = "start" /\ conn = "up"
         /\ st' \in Store /\ st'.page = st.page /\ st'.pc = "history" /\ st'.stale = st.stale
         /\ up' = Append(up, Msg("load", 0))
         /\ Types'
<1>1. /\ UNCHANGED <<log, held, chan, lagged, sess, task, conn, wire, faults, ghost, tr, mw, drops, visits>>
      /\ st.pc = "start" /\ conn = "up"
      /\ up' = Append(up, Msg("load", 0))
  BY DEF RequestHistory
<1>2. st' \in Store /\ st'.page = st.page /\ st'.pc = "history" /\ st'.stale = st.stale
  BY ClientFields, Zenon DEF RequestHistory, Store
<1>3. up' \in Seq(Message(Requests))
  <2>1. "load" \in Requests /\ 0 \in 0 .. log
    BY LogIsNat DEF Requests
  <2> QED  BY <1>1, <2>1, RequestTyped
<1>4. ClientTypes'
  BY <1>1, <1>2, ClientFields, ClientTyped
<1> QED  BY <1>1, <1>2, <1>3, <1>4, Parts, ChannelFrame, SessionFrame, SocketGrows DEF Types

LEMMA RetryReloadDoes ==
  ASSUME Types, RetryReload
  PROVE  /\ UNCHANGED <<log, held, chan, lagged, sess, task, conn, up, wire, faults, ghost, tr, drops, visits>>
         /\ st.pc = "retry"
         /\ mw' \in Middleware /\ mw'.load = TRUE /\ mw'.reload = mw.reload /\ mw'.again = mw.again
         /\ st' \in Store /\ st'.page = "open" /\ st'.pc = "start"
         /\ st'.stale = st.stale + One(st.pc = "history")
         /\ Types'
<1>1. /\ UNCHANGED <<log, held, chan, lagged, sess, task, conn, up, wire, faults, ghost, tr, drops, visits>>
      /\ st.pc = "retry"
  BY DEF RetryReload
<1>2. mw' \in Middleware /\ mw'.load = TRUE /\ mw'.reload = mw.reload /\ mw'.again = mw.again
  BY ClientFields, Zenon DEF RetryReload, Middleware
<1>3. st' \in Store /\ st'.page = "open" /\ st'.pc = "start" /\ st'.stale = st.stale + One(st.pc = "history")
  BY ClientFields, LogIsNat, StartLoadTyped DEF RetryReload
<1>4. ClientTypes'
  BY <1>1, <1>2, <1>3, ClientFields, ClientTyped
<1> QED  BY <1>1, <1>2, <1>3, <1>4, Parts, ChannelFrame, SessionFrame, SocketFrame DEF Types

LEMMA FlushDoes ==
  ASSUME Types, Flush
  PROVE  /\ UNCHANGED <<log, held, chan, lagged, sess, task, conn, up, wire, faults, ghost, tr, drops, visits>>
         /\ mw.buf # <<>> /\ ~mw.load
         /\ mw' \in Middleware /\ mw'.buf = <<>> /\ mw'.load = mw.load /\ mw'.reload = mw.reload /\ mw'.again = mw.again
         /\ st' \in Store /\ st'.page = st.page /\ st'.pc = st.pc /\ st'.stale = st.stale
         /\ IF Len(mw.buf) = 1 /\ Head(mw.buf) <= st.last
              THEN st'.timeline = st.timeline /\ st'.last = st.last
              ELSE /\ st'.timeline = st.timeline \o mw.buf
                   /\ st'.last = st.last \/ \E i \in DOMAIN mw.buf : st'.last = mw.buf[i]
         /\ Types'
<1>1. /\ UNCHANGED <<log, held, chan, lagged, sess, task, conn, up, wire, faults, ghost, tr, drops, visits>>
      /\ mw.buf # <<>> /\ ~mw.load /\ st' = Apply(st, mw.buf)
  BY DEF Flush
<1>2. mw' \in Middleware /\ mw'.buf = <<>> /\ mw'.load = mw.load /\ mw'.reload = mw.reload /\ mw'.again = mw.again
  BY ClientFields, IdleTyped, Zenon DEF Flush, Middleware
<1>3. /\ st' \in Store /\ st'.page = st.page /\ st'.pc = st.pc /\ st'.stale = st.stale
      /\ IF Len(mw.buf) = 1 /\ Head(mw.buf) <= st.last
           THEN st'.timeline = st.timeline /\ st'.last = st.last
           ELSE /\ st'.timeline = st.timeline \o mw.buf
                /\ st'.last = st.last \/ \E i \in DOMAIN mw.buf : st'.last = mw.buf[i]
  <2>1. log \in Nat /\ st \in Store /\ mw.buf \in Seq(Numbers)
    BY ClientFields, LogIsNat
  <2> QED  BY <1>1, <2>1, ApplyTyped, Zenon
<1>4. ClientTypes'
  BY <1>1, <1>2, <1>3, ClientFields, ClientTyped
<1> QED  BY <1>1, <1>2, <1>3, <1>4, Parts, ChannelFrame, SessionFrame, SocketFrame, Zenon DEF Types

LEMMA ReconnectDoes ==
  ASSUME Types, log' = log, held' = held, conn' = "up", tr' = Opened(tr), FreshServer,
         up' = IF Resubscribes(tr) THEN <<Msg("subscribe", tr.last)>> ELSE <<>>
  PROVE  /\ tr' \in Transport /\ tr'.last = tr.last
         /\ up' = <<>> \/ up' = <<Msg("subscribe", tr.last)>>
         /\ ChannelTypes' /\ SessionTypes' /\ SocketTypes'
         /\ up' \in Seq(Message(Requests))
<1>1. tr' \in Transport /\ tr'.last = tr.last
  BY ClientFields, OpenedTyped
<1>2. up' = <<>> \/ up' = <<Msg("subscribe", tr.last)>>
  OBVIOUS
<1>3. up' \in Seq(Message(Requests))
  <2>1. "subscribe" \in Requests /\ tr.last \in 0 .. log
    BY ClientFields DEF Requests
  <2> QED  BY <1>2, <2>1, RequestTyped
<1> QED  BY <1>1, <1>2, <1>3, FreshServerDoes, Zenon

LEMMA ConnectDoes ==
  ASSUME Types, Connect
  PROVE  /\ UNCHANGED <<log, held, faults, mw, st, drops, visits>>
         /\ conn = "down" /\ conn' = "up" /\ FreshServer
         /\ tr' \in Transport /\ tr'.last = tr.last
         /\ up' = <<>> \/ up' = <<Msg("subscribe", tr.last)>>
         /\ up' \in Seq(Message(Requests))
         /\ Types'
<1>1. /\ UNCHANGED <<log, held, faults, mw, st, drops, visits>>
      /\ conn = "down" /\ conn' = "up" /\ FreshServer /\ tr' = Opened(tr)
      /\ up' = IF Resubscribes(tr) THEN <<Msg("subscribe", tr.last)>> ELSE <<>>
  BY DEF Connect
<1>2. /\ tr' \in Transport /\ tr'.last = tr.last
      /\ up' = <<>> \/ up' = <<Msg("subscribe", tr.last)>>
      /\ ChannelTypes' /\ SessionTypes' /\ SocketTypes' /\ up' \in Seq(Message(Requests))
  BY <1>1, ReconnectDoes
<1>3. ClientTypes'
  BY <1>1, <1>2, ClientFields, ClientTyped
<1> QED  BY <1>1, <1>2, <1>3 DEF Types

LEMMA ConnectFailsDoes ==
  ASSUME Types, ConnectFails
  PROVE  /\ UNCHANGED <<log, held, chan, lagged, sess, task, conn, up, wire, ghost, drops, visits>>
         /\ conn = "down" /\ st.pc = "start" /\ LoadFailed(0)
         /\ tr' \in Transport /\ (tr.att = "none" => tr'.att = "none")
         /\ Types'
<1>1. /\ UNCHANGED <<log, held, chan, lagged, sess, task, conn, up, wire, ghost, drops, visits>>
      /\ conn = "down" /\ st.pc = "start" /\ LoadFailed(0) /\ tr' = GivesUp(tr)
  BY DEF ConnectFails
<1>2. tr' \in Transport /\ (tr.att = "none" => tr'.att = "none")
  BY <1>1, ClientFields, LogIsNat, GivesUpTyped
<1>3. ClientTypes'
  BY <1>1, <1>2, LoadFailedDoes, ClientTyped, Zenon
<1> QED  BY <1>1, <1>2, <1>3, Parts, ChannelFrame, SessionFrame, SocketFrame DEF Types

LEMMA ConnectionLostDoes ==
  ASSUME Types, ConnectionLost
  PROVE  /\ conn' = "down"
         /\ tr' \in Transport /\ tr'.att = "none" /\ mw' \in Middleware /\ st' \in Store
         /\ \/ st.pc \in {"history", "ack", "hung"} /\ LoadFailed(0)
            \/ /\ st.pc \notin {"history", "ack", "hung"} /\ mw' = mw /\ tr'.last = tr.last
               /\ st'.page = st.page /\ st'.pc = st.pc /\ st'.stale = 0
               /\ st'.timeline = st.timeline /\ st'.last = st.last
<1>1. CASE st.pc \in {"history", "ack", "hung"}
  <2>1. conn' = "down" /\ LoadFailed(0) /\ tr' = GivesUp(Closed(tr))
    BY <1>1 DEF ConnectionLost
  <2>2. Closed(tr) \in Transport /\ Closed(tr).att = "none"
    BY ClientFields, ClosedTyped
  <2>3. tr' \in Transport /\ tr'.att = "none"
    BY <2>1, <2>2, LogIsNat, GivesUpTyped
  <2> QED  BY <1>1, <2>1, <2>3, LoadFailedDoes, Zenon
<1>2. CASE st.pc \notin {"history", "ack", "hung"}
  <2>1. conn' = "down" /\ mw' = mw /\ st' = [st EXCEPT !.stale = 0] /\ tr' = Closed(tr)
    BY <1>2 DEF ConnectionLost
  <2>2. tr' \in Transport /\ tr'.att = "none" /\ tr'.last = tr.last
    BY <2>1, ClientFields, ClosedTyped
  <2>3. /\ st' \in Store /\ st'.page = st.page /\ st'.pc = st.pc /\ st'.stale = 0
        /\ st'.timeline = st.timeline /\ st'.last = st.last
    BY <2>1, ClientFields, Zenon DEF Store
  <2> QED  BY <1>2, <2>1, <2>2, <2>3, ClientFields
<1> QED  BY <1>1, <1>2

LEMMA DropTyped ==
  ASSUME Types, Drop
  PROVE  Types' /\ FreshServer /\ ConnectionLost /\ conn = "up" /\ up' = <<>>
         /\ up' \in Seq(Message(Requests)) /\ UNCHANGED <<log, held, faults, visits>>
<1>1. FreshServer /\ ConnectionLost /\ conn = "up" /\ up' = <<>> /\ UNCHANGED <<log, held, faults, visits>>
  BY DEF Drop
<1>2. up' \in Seq(Message(Requests))
  BY <1>1
<1>3. ClientTypes'
  BY <1>1, ConnectionLostDoes, ClientTyped
<1>4. ChannelTypes' /\ SessionTypes' /\ SocketTypes'
  BY <1>1, <1>2, ConnectionLostDoes, FreshServerDoes
<1> QED  BY <1>1, <1>2, <1>3, <1>4 DEF Types

LEMMA OnCloseTyped ==
  ASSUME Types, OnClose
  PROVE  Types' /\ ConnectionLost /\ conn = "closing"
         /\ UNCHANGED <<log, held, chan, lagged, sess, task, up, wire, faults, ghost, drops, visits>>
<1>1. /\ ConnectionLost /\ conn = "closing"
      /\ UNCHANGED <<log, held, chan, lagged, sess, task, up, wire, faults, ghost, drops, visits>>
  BY DEF OnClose
<1>2. ClientTypes'
  BY <1>1, ConnectionLostDoes, ClientTyped
<1>3. ChannelTypes'
  BY <1>1, ConnectionLostDoes, SameSets DEF Types, ChannelTypes
<1> QED  BY <1>1, <1>2, <1>3, Parts, SessionFrame, SocketFrame DEF Types

LEMMA SupersedeDoes ==
  ASSUME Types, Supersede
  PROVE  /\ UNCHANGED <<log, held, faults, mw, drops, visits>>
         /\ conn = "closing" /\ conn' = "up" /\ FreshServer
         /\ tr' \in Transport /\ tr'.last = tr.last
         /\ up' = <<>> \/ up' = <<Msg("subscribe", tr.last)>>
         /\ up' \in Seq(Message(Requests))
         /\ st' \in Store /\ st'.page = st.page /\ st'.stale = 0
         /\ st'.pc = IF st.pc = "history" THEN "hung" ELSE st.pc
         /\ st'.timeline = st.timeline /\ st'.last = st.last
         /\ Types'
<1>1. /\ UNCHANGED <<log, held, faults, mw, drops, visits>>
      /\ conn = "closing" /\ conn' = "up" /\ FreshServer /\ tr' = Opened(tr)
      /\ up' = IF Resubscribes(tr) THEN <<Msg("subscribe", tr.last)>> ELSE <<>>
  BY DEF Supersede
<1>2. /\ tr' \in Transport /\ tr'.last = tr.last
      /\ up' = <<>> \/ up' = <<Msg("subscribe", tr.last)>>
      /\ ChannelTypes' /\ SessionTypes' /\ SocketTypes' /\ up' \in Seq(Message(Requests))
  BY <1>1, ReconnectDoes
<1>3. /\ st' \in Store /\ st'.page = st.page /\ st'.stale = 0
      /\ st'.pc = IF st.pc = "history" THEN "hung" ELSE st.pc
      /\ st'.timeline = st.timeline /\ st'.last = st.last
  <2> DEFINE p == IF st.pc = "history" THEN "hung" ELSE st.pc
  <2>1. p \in {"idle", "start", "history", "hung", "ack", "retry"}
    BY ClientFields
  <2>2. st' = [st EXCEPT !.stale = 0, !.pc = p]
    BY DEF Supersede
  <2> HIDE DEF p
  <2>3. /\ st' \in Store /\ st'.page = st.page /\ st'.stale = 0 /\ st'.pc = p
        /\ st'.timeline = st.timeline /\ st'.last = st.last
    BY <2>1, <2>2, ClientFields, Zenon DEF Store
  <2> QED  BY <2>3 DEF p
<1>4. ClientTypes'
  BY <1>1, <1>2, <1>3, ClientFields, ClientTyped
<1> QED  BY <1>1, <1>2, <1>3, <1>4 DEF Types

LEMMA SubscriptionFailedDoes ==
  ASSUME Types, SubscriptionFailed, UNCHANGED <<log, held>>
  PROVE  /\ conn' = "closing" /\ up' = <<>> /\ FreshServer /\ up' \in Seq(Message(Requests))
         /\ tr' \in Transport /\ tr'.att = "none" /\ tr'.last = tr.last
         /\ mw' \in Middleware /\ st' \in Store
         /\ \/ st.pc = "ack" /\ LoadFailed(st.stale)
            \/ st.pc # "ack" /\ UNCHANGED <<mw, st>>
         /\ Types'
<1>1. /\ conn' = "closing" /\ up' = <<>> /\ FreshServer /\ tr' = AttemptFailed(tr)
      /\ \/ st.pc = "ack" /\ LoadFailed(st.stale)
         \/ st.pc # "ack" /\ UNCHANGED <<mw, st>>
  BY DEF SubscriptionFailed
<1>2. tr' \in Transport /\ tr'.att = "none" /\ tr'.last = tr.last
  BY <1>1, ClientFields, AttemptFailedTyped
<1>3. mw' \in Middleware /\ st' \in Store
  BY <1>1, ClientFields, LoadFailedDoes, Zenon
<1>4. up' \in Seq(Message(Requests))
  BY <1>1
<1>5. ClientTypes'
  BY <1>2, <1>3, ClientTyped
<1>6. ChannelTypes' /\ SessionTypes' /\ SocketTypes'
  BY <1>1, <1>4, FreshServerDoes
<1> QED  BY <1>1, <1>2, <1>3, <1>4, <1>5, <1>6 DEF Types

LEMMA SubscribeTimeoutDoes ==
  ASSUME SubscribeTimeout
  PROVE  SubscriptionFailed /\ UNCHANGED <<log, held, drops, visits>> /\ conn = "up" /\ tr.att # "none"
BY DEF SubscribeTimeout

(* The handler of a message. *)

Handled ==
  /\ wire # <<>> /\ wire' = Tail(wire)
  /\ UNCHANGED <<log, held, chan, lagged, sess, task, conn, faults, ghost, drops, visits>>

LEMMA HandledTyped ==
  ASSUME Types, Handled, up' \in Seq(Message(Requests)), tr' \in Transport, mw' \in Middleware, st' \in Store
  PROVE  Types'
<1>1. wire' \in Seq(Message(Deliveries)) /\ \A i \in DOMAIN wire' : wire'[i].kind = "event" => wire'[i].s > 0
  <2>1. wire \in Seq(Message(Deliveries)) /\ \A i \in DOMAIN wire : wire[i].kind = "event" => wire[i].s > 0
    BY DEF Types, SocketTypes
  <2>2. /\ Len(wire) \in Nat \ {0} /\ DOMAIN wire' = 1 .. Len(wire) - 1 /\ DOMAIN wire = 1 .. Len(wire)
        /\ wire' \in Seq(Message(Deliveries))
    BY <2>1 DEF Handled
  <2>3. \A i \in DOMAIN wire' : i + 1 \in DOMAIN wire /\ wire'[i] = wire[i + 1]
    BY <2>1, <2>2 DEF Handled
  <2> QED  BY <2>1, <2>2, <2>3
<1>2. Message(Deliveries)' = Message(Deliveries) /\ Message(Requests)' = Message(Requests)
  BY DEF Message, Deliveries, Requests, Handled
<1>3. SocketTypes'
  BY <1>1, <1>2 DEF SocketTypes
<1>4. ClientTypes'
  BY ClientTyped DEF Handled
<1> QED  BY <1>3, <1>4, Parts, ChannelFrame, SessionFrame DEF Handled, Types

LEMMA FirstMessage ==
  ASSUME Types, wire # <<>>
  PROVE  /\ wire[1] = Head(wire) /\ wire[1] \in Message(Deliveries) /\ wire[1].s \in 0 .. log
         /\ wire[1] = Msg(wire[1].kind, wire[1].s)
         /\ Len(wire) \in Nat \ {0} /\ DOMAIN wire = 1 .. Len(wire) /\ 1 \in DOMAIN wire
         /\ DOMAIN Tail(wire) = 1 .. Len(wire) - 1 /\ Len(Tail(wire)) = Len(wire) - 1
         /\ Tail(wire) \in Seq(Message(Deliveries))
         /\ \A i \in 1 .. Len(wire) - 1 : i + 1 \in DOMAIN wire /\ Tail(wire)[i] = wire[i + 1]
         /\ wire[1].kind = "event" => wire[1].s \in Numbers
<1>1. wire \in Seq(Message(Deliveries)) /\ \A i \in DOMAIN wire : wire[i].kind = "event" => wire[i].s > 0
  BY DEF Types, SocketTypes
<1>2. /\ wire[1] = Head(wire) /\ wire[1] \in Message(Deliveries)
      /\ Len(wire) \in Nat \ {0} /\ DOMAIN wire = 1 .. Len(wire) /\ 1 \in DOMAIN wire
      /\ DOMAIN Tail(wire) = 1 .. Len(wire) - 1 /\ Len(Tail(wire)) = Len(wire) - 1
      /\ Tail(wire) \in Seq(Message(Deliveries))
      /\ \A i \in 1 .. Len(wire) - 1 : i + 1 \in DOMAIN wire /\ Tail(wire)[i] = wire[i + 1]
  BY <1>1
<1>3. wire[1].s \in 0 .. log /\ wire[1] = Msg(wire[1].kind, wire[1].s)
  BY <1>2 DEF Message, Msg
<1>4. wire[1].kind = "event" => wire[1].s \in Numbers
  BY <1>1, <1>2, <1>3, LogIsNat DEF Numbers
<1> QED  BY <1>2, <1>3, <1>4

LEMMA OnEventDoes ==
  ASSUME Types, OnEvent
  PROVE  /\ Handled /\ wire[1].kind = "event" /\ up' = up /\ st' = st
         /\ tr' \in Transport /\ tr'.last = MaxOf(tr.last, wire[1].s) /\ tr'.att = tr.att
         /\ mw' \in Middleware /\ mw'.load = mw.load /\ mw'.reload = mw.reload /\ mw'.again = mw.again
         /\ mw'.buf = IF st.page = "closed" THEN mw.buf ELSE Append(mw.buf, wire[1].s)
         /\ st.page = "closed" => mw' = mw
         /\ Types'
<1>1. /\ Handled /\ wire[1].kind = "event" /\ up' = up /\ st' = st
      /\ tr' = [tr EXCEPT !.last = MaxOf(tr.last, wire[1].s)]
      /\ mw' = IF st.page = "closed" THEN mw ELSE [mw EXCEPT !.buf = Append(mw.buf, wire[1].s)]
  BY FirstMessage DEF OnEvent, Delivered, NextMessage, Handled
<1>2. wire[1].s \in Numbers /\ wire[1].s \in 0 .. log
  BY <1>1, FirstMessage DEF Handled
<1>3. tr' \in Transport /\ tr'.last = MaxOf(tr.last, wire[1].s) /\ tr'.att = tr.att
  <2> DEFINE l == MaxOf(tr.last, wire[1].s)
  <2>1. l \in 0 .. log
    BY <1>2, ClientFields DEF MaxOf
  <2> HIDE DEF l
  <2>2. tr' = [tr EXCEPT !.last = l]
    BY <1>1 DEF l
  <2> QED  BY <2>1, <2>2, ClientFields, Zenon DEF Transport, l
<1>4. /\ mw' \in Middleware /\ mw'.load = mw.load /\ mw'.reload = mw.reload /\ mw'.again = mw.again
      /\ mw'.buf = IF st.page = "closed" THEN mw.buf ELSE Append(mw.buf, wire[1].s)
  <2>1. CASE st.page = "closed"
    BY <1>1, <2>1, ClientFields
  <2>2. CASE st.page # "closed"
    <3> DEFINE b == Append(mw.buf, wire[1].s)
    <3>1. b \in Seq(Numbers)
      BY <1>2, ClientFields
    <3>2. mw' = [mw EXCEPT !.buf = b]
      BY <1>1, <2>2
    <3> HIDE DEF b
    <3>3. mw' \in Middleware /\ mw'.load = mw.load /\ mw'.reload = mw.reload /\ mw'.again = mw.again /\ mw'.buf = b
      BY <3>1, <3>2, ClientFields, Zenon DEF Middleware
    <3> QED  BY <2>2, <3>3 DEF b
  <2> QED  BY <2>1, <2>2
<1>5. Types'
  <2>1. up' \in Seq(Message(Requests))
    BY <1>1 DEF Types, SocketTypes
  <2> QED  BY <1>1, <1>3, <1>4, <2>1, ClientFields, HandledTyped
<1> QED  BY <1>1, <1>3, <1>4, <1>5

LEMMA OnFullReloadDoes ==
  ASSUME Types, OnFullReload
  PROVE  /\ Handled /\ wire[1].kind = "reload" /\ up' = up
         /\ tr' \in Transport /\ tr'.att = tr.att
         /\ mw' \in Middleware /\ st' \in Store
         /\ \/ st.page = "closed" /\ UNCHANGED <<mw, st>>
            \/ st.page # "closed" /\ RequestFullReload
         /\ Types'
<1>1. /\ Handled /\ wire[1].kind = "reload" /\ up' = up
      /\ tr' = [tr EXCEPT !.last = 0, !.need = FALSE, !.live = FALSE, !.susp = TRUE]
      /\ \/ st.page = "closed" /\ UNCHANGED <<mw, st>>
         \/ st.page # "closed" /\ RequestFullReload
  BY FirstMessage DEF OnFullReload, Delivered, NextMessage, Handled
<1>2. tr' \in Transport /\ tr'.att = tr.att
  BY <1>1, ClientFields, LogIsNat, Zenon DEF Transport
<1>3. mw' \in Middleware /\ st' \in Store
  BY <1>1, ClientFields, RequestFullReloadDoes, Zenon
<1>4. Types'
  <2>1. up' \in Seq(Message(Requests))
    BY <1>1 DEF Types, SocketTypes
  <2> QED  BY <1>1, <1>2, <1>3, <2>1, HandledTyped
<1> QED  BY <1>1, <1>2, <1>3, <1>4

LEMMA OnHistoryDoes ==
  ASSUME Types, OnHistory
  PROVE  /\ Handled /\ wire[1].kind = "history" /\ mw' = mw
         /\ tr' \in Transport /\ st' \in Store
         /\ \/ /\ st.stale > 0 /\ UNCHANGED <<tr, up>>
               /\ st'.stale = st.stale - 1 /\ st'.page = st.page /\ st'.pc = st.pc
               /\ st'.timeline = st.timeline /\ st'.last = st.last
            \/ /\ st.stale = 0
               /\ st'.stale = 0 /\ st'.page = st.page /\ st'.pc = "ack"
               /\ st'.timeline = [i \in 1 .. wire[1].s |-> i] /\ st'.last = wire[1].s
               /\ tr'.last = MaxOf(tr.last, wire[1].s)
               /\ up' = Append(up, Msg("subscribe", tr'.last))
         /\ Types'
<1>1. /\ Handled /\ wire[1].kind = "history" /\ mw' = mw
      /\ \/ st.stale > 0 /\ UNCHANGED <<tr, up>> /\ st' = [st EXCEPT !.stale = st.stale - 1]
         \/ /\ st.stale = 0 /\ tr' = SubscribeRun(tr, wire[1].s, FALSE)
            /\ up' = Append(up, Msg("subscribe", tr'.last))
            /\ st' = [st EXCEPT !.pc = "ack", !.last = wire[1].s, !.timeline = [i \in 1 .. wire[1].s |-> i]]
  <2>1. /\ Handled /\ Head(wire).kind = "history" /\ mw' = mw /\ Head(wire) = wire[1]
    BY FirstMessage DEF OnHistory, Delivered, NextMessage, Handled
  <2>2. CASE st.stale > 0
    <3>1. UNCHANGED <<tr, up>> /\ st' = [st EXCEPT !.stale = st.stale - 1]
      BY <2>2, Zenon DEF OnHistory
    <3> QED  BY <2>1, <2>2, <3>1, Zenon
  <2>3. CASE ~(st.stale > 0)
    <3>1. /\ st' = [st EXCEPT !.pc = "ack", !.last = Head(wire).s, !.timeline = [i \in 1 .. Head(wire).s |-> i]]
          /\ tr' = SubscribeRun(tr, Head(wire).s, FALSE)
          /\ up' = Append(up, Msg("subscribe", tr'.last))
      BY <2>3, Zenon DEF OnHistory
    <3>2. st.stale = 0
      BY <2>3, ClientFields
    <3> QED  BY <2>1, <3>1, <3>2, Zenon
  <2> QED  BY <2>2, <2>3, Zenon
<1>2. wire[1].s \in 0 .. log /\ log \in Nat
  BY <1>1, FirstMessage, LogIsNat DEF Handled
<1>3. CASE st.stale > 0 /\ UNCHANGED <<tr, up>> /\ st' = [st EXCEPT !.stale = st.stale - 1]
  <2> DEFINE n == st.stale - 1
  <2>1. n \in Nat
    BY <1>3, ClientFields
  <2>2. st' = [st EXCEPT !.stale = n]
    BY <1>3
  <2> HIDE DEF n
  <2>3. /\ st' \in Store /\ st'.stale = n /\ st'.page = st.page /\ st'.pc = st.pc
        /\ st'.timeline = st.timeline /\ st'.last = st.last
    BY <2>1, <2>2, ClientFields, Zenon DEF Store
  <2>4. tr' \in Transport /\ mw' \in Middleware
    BY <1>1, <1>3, ClientFields
  <2>5. up' \in Seq(Message(Requests))
    BY <1>3 DEF Types, SocketTypes
  <2>6. Types'
    BY <1>1, <2>3, <2>4, <2>5, HandledTyped
  <2> QED  BY <1>1, <1>3, <2>3, <2>4, <2>6 DEF n
<1>4. CASE /\ st.stale = 0 /\ tr' = SubscribeRun(tr, wire[1].s, FALSE)
           /\ up' = Append(up, Msg("subscribe", tr'.last))
           /\ st' = [st EXCEPT !.pc = "ack", !.last = wire[1].s, !.timeline = [i \in 1 .. wire[1].s |-> i]]
  <2> DEFINE h == wire[1].s
             l == [i \in 1 .. h |-> i]
  <2>1. tr' \in Transport /\ tr'.last = MaxOf(tr.last, h) /\ mw' \in Middleware
    BY <1>1, <1>2, <1>4, ClientFields, SubscribeRunTyped, Zenon
  <2>2. l \in Seq(Numbers) /\ h \in 0 .. log
    BY <1>2 DEF Numbers
  <2>3. st' = [st EXCEPT !.pc = "ack", !.last = h, !.timeline = l]
    BY <1>4
  <2> HIDE DEF h, l
  <2>4. /\ st' \in Store /\ st'.stale = st.stale /\ st'.page = st.page /\ st'.pc = "ack"
        /\ st'.timeline = l /\ st'.last = h
    BY <2>2, <2>3, ClientFields, Zenon DEF Store
  <2>5. tr'.last \in 0 .. log
    BY <2>1, TransportFields
  <2>6. up' \in Seq(Message(Requests))
    <3>1. "subscribe" \in Requests
      BY DEF Requests
    <3> QED  BY <1>4, <2>5, <3>1, RequestTyped, Zenon
  <2>7. Types'
    BY <1>1, <2>1, <2>4, <2>6, HandledTyped
  <2> QED  BY <1>1, <1>4, <2>1, <2>4, <2>7, Zenon DEF h, l
<1> QED  BY <1>1, <1>3, <1>4, Zenon

LEMMA OnNoHistoryDoes ==
  ASSUME Types, OnNoHistory
  PROVE  /\ Handled /\ wire[1].kind = "noHistory"
         /\ tr' \in Transport /\ st' \in Store /\ mw' \in Middleware
         /\ \/ /\ st.stale > 0 /\ UNCHANGED <<tr, mw, up>>
               /\ st'.stale = st.stale - 1 /\ st'.page = st.page /\ st'.pc = st.pc
               /\ st'.timeline = st.timeline /\ st'.last = st.last
            \/ /\ st.stale = 0 /\ LoadFailed(0)
               /\ tr.att = "none" => tr'.att = "none"
               /\ up' = up \/ up' = Append(up, Msg("unsubscribe", 0))
         /\ Types'
<1>1. /\ Handled /\ wire[1].kind = "noHistory"
      /\ \/ st.stale > 0 /\ UNCHANGED <<tr, mw, up>> /\ st' = [st EXCEPT !.stale = st.stale - 1]
         \/ /\ st.stale = 0 /\ LoadFailed(0) /\ tr' = GivesUp(tr)
            /\ up' = up \/ up' = Append(up, Msg("unsubscribe", 0))
  BY FirstMessage, ClientFields DEF OnNoHistory, Delivered, NextMessage, Handled
<1>2. log \in Nat /\ up \in Seq(Message(Requests)) /\ Append(up, Msg("unsubscribe", 0)) \in Seq(Message(Requests))
  <2>1. log \in Nat /\ 0 \in 0 .. log /\ "unsubscribe" \in Requests
    BY LogIsNat DEF Requests
  <2> QED  BY <2>1, RequestTyped
<1>3. CASE st.stale > 0 /\ UNCHANGED <<tr, mw, up>> /\ st' = [st EXCEPT !.stale = st.stale - 1]
  <2> DEFINE n == st.stale - 1
  <2>1. n \in Nat
    BY <1>3, ClientFields
  <2>2. st' = [st EXCEPT !.stale = n]
    BY <1>3
  <2> HIDE DEF n
  <2>3. /\ st' \in Store /\ st'.stale = n /\ st'.page = st.page /\ st'.pc = st.pc
        /\ st'.timeline = st.timeline /\ st'.last = st.last
    BY <2>1, <2>2, ClientFields, Zenon DEF Store
  <2>4. tr' \in Transport /\ mw' \in Middleware
    BY <1>1, <1>3, ClientFields
  <2>5. up' \in Seq(Message(Requests))
    BY <1>2, <1>3
  <2>6. Types'
    BY <1>1, <2>3, <2>4, <2>5, HandledTyped
  <2> QED  BY <1>1, <1>3, <2>3, <2>4, <2>6 DEF n
<1>4. CASE /\ st.stale = 0 /\ LoadFailed(0) /\ tr' = GivesUp(tr)
           /\ up' = up \/ up' = Append(up, Msg("unsubscribe", 0))
  <2>1. tr' \in Transport /\ (tr.att = "none" => tr'.att = "none")
    BY <1>2, <1>4, ClientFields, GivesUpTyped
  <2>2. mw' \in Middleware /\ st' \in Store
    <3>1. 0 \in Nat
      OBVIOUS
    <3> QED  BY <1>4, <3>1, LoadFailedDoes, Zenon
  <2>3. Types'
    BY <1>1, <1>2, <1>4, <2>1, <2>2, HandledTyped
  <2> QED  BY <1>1, <1>4, <2>1, <2>2, <2>3
<1> QED  BY <1>1, <1>3, <1>4

LEMMA OnAckDoes ==
  ASSUME Types, OnAck
  PROVE  /\ Handled /\ wire[1].kind = "ack" /\ up' = up
         /\ tr' \in Transport /\ tr'.last = tr.last /\ (tr.att = "none" => tr'.att = "none")
         /\ st' \in Store /\ mw' \in Middleware
         /\ \/ UNCHANGED <<mw, st>>
            \/ st.pc = "ack" /\ LoadFinished
         /\ Types'
<1>1. /\ Handled /\ wire[1].kind = "ack" /\ up' = up
      /\ \/ tr.old > 0 /\ tr' = [tr EXCEPT !.old = tr.old - 1] /\ UNCHANGED <<mw, st>>
         \/ /\ tr' = [tr EXCEPT !.att = "none", !.need = FALSE]
            /\ UNCHANGED <<mw, st>> \/ (st.pc = "ack" /\ LoadFinished)
  BY FirstMessage DEF OnAck, Delivered, NextMessage, Handled
<1>2. tr' \in Transport /\ tr'.last = tr.last /\ (tr.att = "none" => tr'.att = "none")
  <2>1. CASE tr.old > 0 /\ tr' = [tr EXCEPT !.old = tr.old - 1]
    <3> DEFINE n == tr.old - 1
    <3>1. n \in Nat
      BY <2>1, ClientFields
    <3>2. tr' = [tr EXCEPT !.old = n]
      BY <2>1
    <3> HIDE DEF n
    <3> QED  BY <3>1, <3>2, ClientFields, Zenon DEF Transport
  <2>2. CASE tr' = [tr EXCEPT !.att = "none", !.need = FALSE]
    BY <2>2, ClientFields, Zenon DEF Transport
  <2> QED  BY <1>1, <2>1, <2>2
<1>3. st' \in Store /\ mw' \in Middleware
  BY <1>1, ClientFields, LoadFinishedDoes, Zenon
<1>4. Types'
  <2>1. up' \in Seq(Message(Requests))
    BY <1>1 DEF Types, SocketTypes
  <2> QED  BY <1>1, <1>2, <1>3, <2>1, HandledTyped
<1> QED  BY <1>1, <1>2, <1>3, <1>4

LEMMA OnNackDoes ==
  ASSUME Types, OnNack
  PROVE  /\ \/ /\ Handled /\ wire[1].kind = "nack" /\ UNCHANGED <<mw, st, up>>
               /\ tr' \in Transport /\ tr'.last = tr.last /\ tr'.att = tr.att
            \/ SubscriptionFailed /\ UNCHANGED <<log, held, faults, drops, visits>> /\ wire # <<>>
         /\ Types'
<1>1. \/ /\ Handled /\ wire[1].kind = "nack" /\ UNCHANGED <<mw, st, up>>
         /\ tr.old > 0 /\ tr' = [tr EXCEPT !.old = tr.old - 1]
      \/ SubscriptionFailed /\ UNCHANGED <<log, held, faults, drops, visits>> /\ wire # <<>>
  BY FirstMessage DEF OnNack, Delivered, NextMessage, Handled
<1>2. CASE /\ Handled /\ wire[1].kind = "nack" /\ UNCHANGED <<mw, st, up>>
           /\ tr.old > 0 /\ tr' = [tr EXCEPT !.old = tr.old - 1]
  <2> DEFINE n == tr.old - 1
  <2>1. n \in Nat
    BY <1>2, ClientFields
  <2>2. tr' = [tr EXCEPT !.old = n]
    BY <1>2
  <2> HIDE DEF n
  <2>3. tr' \in Transport /\ tr'.last = tr.last /\ tr'.att = tr.att
    BY <2>1, <2>2, ClientFields, Zenon DEF Transport
  <2>4. up' \in Seq(Message(Requests)) /\ mw' \in Middleware /\ st' \in Store
    BY <1>2, ClientFields DEF Types, SocketTypes
  <2> QED  BY <1>2, <2>3, <2>4, HandledTyped
<1>3. CASE SubscriptionFailed /\ UNCHANGED <<log, held, faults, drops, visits>> /\ wire # <<>>
  BY <1>3, SubscriptionFailedDoes
<1> QED  BY <1>1, <1>2, <1>3

LEMMA InitTyped == Init => Types
<1> SUFFICES ASSUME Init PROVE Types
  OBVIOUS
<1>1. log = 0 /\ log \in Nat /\ log \in Seqs
  BY WsSessionAssumption DEF Init, Seqs
<1>2. ChannelTypes
  <2>1. Len(<<>>) = 0 /\ <<>> \in Seq(Numbers)
    OBVIOUS
  <2>2. ghost \in Ghost
    BY DEF Init, NoGhost, Ghost
  <2>3. held \in [Emitters -> 0 .. log]
    BY <1>1 DEF Init
  <2>4. chan \in Seq(Numbers) /\ Len(chan) <= ChanCap
    BY <2>1, WsSessionAssumption DEF Init
  <2>5. lagged \in BOOLEAN /\ conn \in {"up", "closing", "down"}
    BY Zenon DEF Init
  <2> QED  BY <1>1, <2>2, <2>3, <2>4, <2>5 DEF ChannelTypes
<1>3. SessionTypes
  <2>1. Len(<<>>) = 0 /\ <<>> \in Seq(Numbers)
    OBVIOUS
  <2>2. sess \in Session /\ sess.buf = <<>>
    BY <1>1, <2>1 DEF Init, NewSession, Session
  <2>3. task \in [Tasks -> Job]
    <3>1. Idle \in Job
      <4>1. Msg("none", 0) \in Message(Replies)
        BY <1>1 DEF Msg, Message, Replies
      <4> QED  BY <1>1, <2>1, <4>1 DEF Idle, Job, Steps
    <3> QED  BY <3>1 DEF Init, NewTasks, Tasks
  <2> QED  BY <2>1, <2>2, <2>3, WsSessionAssumption DEF SessionTypes, Tasks
<1>4. SocketTypes
  <2>1. <<>> \in Seq(Message(Requests)) /\ <<>> \in Seq(Message(Deliveries)) /\ DOMAIN <<>> = {}
    OBVIOUS
  <2> QED  BY <2>1 DEF Init, SocketTypes
<1>5. ClientTypes
  BY <1>1, WsDeliveryAssumption DEF Init, ClientTypes, NewTransport, NewMiddleware, NewStore,
     Transport, Middleware, Store
<1> QED  BY <1>2, <1>3, <1>4, <1>5 DEF Types

-----------------------------------------------------------------------------
(* The shape is preserved.  What a task holds. *)

LEMMA JobGives ==
  ASSUME NEW p, NEW o, NEW q, NEW m, NEW b, NEW y, NEW j, j = JobOf(p, o, q, m, b, y)
  PROVE  j.pc = p /\ j.out = o /\ j.pos = q /\ j.max = m /\ j.more = b /\ j.reply = y
BY DEF JobOf

LEMMA SessionGives ==
  ASSUME NEW s, NEW c, NEW r, NEW b, NEW p, NEW x, x = SessionOf(s, c, r, b, p)
  PROVE  x.sub = s /\ x.cp = c /\ x.rep = r /\ x.buf = b /\ x.pend = p
BY DEF SessionOf

LEMMA GhostGives ==
  ASSUME NEW g, NEW o, NEW x, NEW y, y = GhostOf(g, o, x)
  PROVE  y.gone = g /\ y.owed = o /\ y.excused = x
BY DEF GhostOf

Holds(t, j) == PageShape(j) /\ IF t = "fwd" THEN FwdShape(j) ELSE CmdShape(j)

LEMMA TasksHold ==
  /\ TaskShape <=> \A t \in Tasks : Holds(t, task[t])
  /\ TaskShape' <=> \A t \in Tasks : Holds(t, task'[t])
<1>1. TaskShape <=> \A t \in Tasks : Holds(t, task[t])
  BY DEF TaskShape, Holds, Tasks
<1>2. TaskShape' <=> \A t \in Tasks : Holds(t, task'[t])
  BY DEF TaskShape, Holds, Tasks, FwdShape, CmdShape, PageShape
<1> QED  BY <1>1, <1>2

LEMMA IdleHolds == \A t \in Tasks : Holds(t, Idle)
BY DEF Tasks, Holds, PageShape, FwdShape, CmdShape, Idle, InReplay

LEMMA TaskTurns ==
  ASSUME TaskShape, NEW t \in Tasks, Holds(t, task'[t]), Others(t)
  PROVE  TaskShape'
<1>1. \A u \in Tasks : Holds(u, task'[u])
  BY TasksHold DEF Others
<1> QED  BY <1>1, TasksHold

LEMMA LeavesHolds ==
  ASSUME Types, TaskShape, NEW t \in Tasks, task[t].pc \in InReplay \cup {"announce"}
  PROVE  Holds(t, Leaves(t))
<1>1. CASE t = "fwd"
  BY <1>1, IdleHolds DEF Leaves
<1>2. CASE t = "cmd"
  BY <1>2, TasksHold DEF Leaves, With, JobOf, Holds, CmdShape, PageShape, InReplay, Tasks
<1> QED  BY <1>1, <1>2 DEF Tasks

LEMMA TaskShapeServer ==
  ASSUME Types, TaskShape, SessionShape, Server
  PROVE  TaskShape'
<1>1. ASSUME NEW e \in Emitters, Persist(e) \/ Publish(e) PROVE TaskShape'
  <2>1. task' = task
    BY <1>1 DEF Persist, Publish
  <2> QED  BY <2>1, TasksHold
<1>2. CASE FwdSkip \/ FwdBuffer \/ Unsubscribe
  <2>1. task' = task
    BY <1>2 DEF FwdSkip, FwdBuffer, Unsubscribe
  <2> QED  BY <2>1, TasksHold
<1>3. CASE FwdTake
  <2>1. Holds("fwd", task'["fwd"]) /\ Others("fwd")
    BY <1>3, FwdTakeDoes DEF JobOf, Holds, FwdShape, PageShape, Others, Tasks, Numbers
  <2> QED  BY <2>1, TaskTurns DEF Tasks
<1>4. CASE FwdSend
  <2>1. Holds("fwd", task'["fwd"]) /\ Others("fwd")
    BY <1>4, FwdSendDoes, TasksHold DEF JobOf, Holds, FwdShape, PageShape, Others, Tasks
  <2> QED  BY <2>1, TaskTurns DEF Tasks
<1>5. CASE FwdMark
  <2>1. Holds("fwd", task'["fwd"]) /\ Others("fwd")
    BY <1>5, FwdMarkDoes, IdleHolds DEF Others, Tasks
  <2> QED  BY <2>1, TaskTurns DEF Tasks
<1>6. CASE FwdLagged
  <2>1. CASE task' = task
    BY <2>1, TasksHold
  <2>2. CASE task'["fwd"] = JobOf("read", <<>>, sess.cp, 0, FALSE, Msg("none", 0))
    <3>1. DOMAIN <<>> = {}
      OBVIOUS
    <3>2. Holds("fwd", task'["fwd"])
      BY <2>2, <3>1 DEF JobOf, Holds, FwdShape, PageShape
    <3>3. Others("fwd")
      BY <1>6, FwdLaggedDoes DEF Others, Tasks
    <3> QED  BY <3>2, <3>3, TaskTurns DEF Tasks
  <2> QED  BY <1>6, <2>1, <2>2, FwdLaggedDoes, Zenon
<1>7. ASSUME NEW t \in Tasks, ReplayPage(t) PROVE TaskShape'
  <2>1. Holds(t, task'[t])
    <3>1. \A i \in DOMAIN PageOf(t) : PageOf(t)[i] = task[t].pos + i
      BY PageTyped DEF PageOf
    <3>2. t = "cmd" => task[t].reply.kind \in {"ack", "nack"}
      BY <1>7, TasksHold, ReplayPageDoes DEF Holds, CmdShape, AtPage, InReplay
    <3> QED  BY <1>7, <3>1, <3>2, ReplayPageDoes DEF JobOf, Holds, FwdShape, CmdShape, PageShape, InReplay, Tasks
  <2> QED  BY <1>7, <2>1, ReplayPageDoes, TaskTurns
<1>8. ASSUME NEW t \in Tasks, ReplayFails(t) PROVE TaskShape'
  <2>1. Holds(t, task'[t])
    BY <1>8, ReplayFailsDoes DEF JobOf, Holds, FwdShape, CmdShape, PageShape, InReplay, Tasks, Msg
  <2> QED  BY <1>8, <2>1, ReplayFailsDoes, TaskTurns
<1>9. ASSUME NEW t \in Tasks, ReplaySend(t) PROVE TaskShape'
  <2>1. task[t].pc = "send" /\ task[t].out # <<>> /\ Holds(t, task[t])
    BY <1>9, ReplaySendDoes, TasksHold
  <2>2. \A i \in DOMAIN Tail(task[t].out) : Tail(task[t].out)[i] = Head(task[t].out) + i
    <3> SUFFICES ASSUME NEW i \in DOMAIN Tail(task[t].out)
                 PROVE Tail(task[t].out)[i] = Head(task[t].out) + i
      OBVIOUS
    <3>1. i \in 1 .. Len(task[t].out) - 1 /\ Len(task[t].out) \in Nat
      BY <2>1, FirstOut
    <3>2. Tail(task[t].out)[i] = task[t].out[i + 1] /\ i + 1 \in DOMAIN task[t].out /\ 1 \in DOMAIN task[t].out
      BY <2>1, <3>1, FirstOut
    <3>3. task[t].out[i + 1] = task[t].pos + (i + 1) /\ task[t].out[1] = task[t].pos + 1
      BY <2>1, <3>2 DEF Holds, PageShape
    <3> QED  BY <2>1, <3>1, <3>2, <3>3, FirstOut, TaskTyped
  <2>3. Holds(t, task'[t])
    <3>1. /\ task'[t].pc = "send" /\ task'[t].out = Tail(task[t].out) /\ task'[t].pos = Head(task[t].out)
          /\ task'[t].reply = task[t].reply
      <4>1. task'[t] = JobOf("send", Tail(task[t].out), Head(task[t].out), task[t].max, task[t].more, task[t].reply)
        BY <1>9, ReplaySendDoes
      <4> QED  BY <4>1, JobGives
    <3>2. PageShape(task'[t])
      BY <2>2, <3>1 DEF PageShape
    <3>3. IF t = "fwd" THEN FwdShape(task'[t]) ELSE CmdShape(task'[t])
      BY <2>1, <3>1 DEF Holds, FwdShape, CmdShape, InReplay
    <3> QED  BY <3>2, <3>3 DEF Holds
  <2> QED  BY <1>9, <2>3, ReplaySendDoes, TaskTurns
<1>10. ASSUME NEW t \in Tasks, ReplayDone(t) PROVE TaskShape'
  <2>1. Holds(t, task'[t])
    BY <1>10, ReplayDoneDoes, TasksHold DEF JobOf, Holds, FwdShape, CmdShape, PageShape, InReplay, Tasks
  <2> QED  BY <1>10, <2>1, ReplayDoneDoes, TaskTurns
<1>11. ASSUME NEW t \in Tasks, Drain(t) PROVE TaskShape'
  <2>1. task[t].pc = "drain" /\ Holds(t, task[t])
    BY <1>11, DrainDoes, TasksHold, Zenon
  <2>2. t = "fwd" => sess.buf = <<>>
    BY <2>1 DEF SessionShape, InReplay
  <2>3. CASE task'[t] = Leaves(t)
    <3>1. Holds(t, task'[t])
      BY <2>1, <2>3, LeavesHolds DEF InReplay
    <3> QED  BY <1>11, <3>1, DrainDoes, TaskTurns, Zenon
  <2>4. CASE task'[t] = JobOf("reload", task[t].out, task[t].pos, task[t].max, task[t].more, Msg("nack", 0))
    <3>1. Holds(t, task'[t])
      BY <2>4 DEF JobOf, Holds, FwdShape, CmdShape, PageShape, InReplay, Tasks, Msg
    <3> QED  BY <1>11, <3>1, DrainDoes, TaskTurns, Zenon
  <2>5. CASE Len(sess.buf) \in 1 .. BufCap - 1 /\ task'[t] = With(t, "flush", Above(DrainTo(t), sess.buf))
    <3>1. t # "fwd"
      <4>1. Len(<<>>) = 0
        OBVIOUS
      <4>2. sess.buf # <<>>
        BY <2>5, <4>1
      <4> QED  BY <2>2, <4>2
    <3>2. Holds(t, task'[t])
      BY <2>1, <2>5, <3>1 DEF With, JobOf, Holds, CmdShape, PageShape, InReplay, Tasks
    <3> QED  BY <1>11, <3>2, DrainDoes, TaskTurns, Zenon
  <2> QED  BY <1>11, <2>3, <2>4, <2>5, DrainDoes, Zenon
<1>12. ASSUME NEW t \in Tasks, FlushSend(t) PROVE TaskShape'
  <2>1. Holds(t, task'[t])
    BY <1>12, FlushSendDoes, TasksHold DEF JobOf, Holds, FwdShape, CmdShape, PageShape, InReplay, Tasks
  <2> QED  BY <1>12, <2>1, FlushSendDoes, TaskTurns
<1>13. ASSUME NEW t \in Tasks, FlushMark(t) PROVE TaskShape'
  <2>1. Holds(t, task'[t])
    BY <1>13, FlushMarkDoes, TasksHold DEF With, JobOf, Holds, FwdShape, CmdShape, PageShape, InReplay, Tasks
  <2> QED  BY <1>13, <2>1, FlushMarkDoes, TaskTurns
<1>14. ASSUME NEW t \in Tasks, BeginFullReload(t) PROVE TaskShape'
  <2>1. task[t].pc = "reload" /\ Holds(t, task[t])
    BY <1>14, BeginDoes, TasksHold, Zenon
  <2>2. Holds(t, Leaves(t))
    BY <2>1, LeavesHolds DEF InReplay
  <2>3. Holds(t, With(t, "announce", task[t].out))
    BY <2>1 DEF With, JobOf, Holds, FwdShape, CmdShape, PageShape, InReplay, Tasks
  <2>4. Holds(t, task'[t])
    BY <1>14, <2>2, <2>3, BeginDoes, Zenon
  <2> QED  BY <1>14, <2>4, BeginDoes, TaskTurns, Zenon
<1>15. ASSUME NEW t \in Tasks, SendFullReload(t) PROVE TaskShape'
  <2>1. Holds(t, task'[t])
    BY <1>15, AnnounceDoes, LeavesHolds
  <2> QED  BY <1>15, <2>1, AnnounceDoes, TaskTurns
<1>16. CASE Subscribe
  <2>1. Holds("cmd", task'["cmd"])
    <3>1. DOMAIN <<>> = {}
      OBVIOUS
    <3>2. PICK from \in 0 .. log :
            task'["cmd"] = JobOf(IF sess.rep THEN "reply" ELSE "read", <<>>, from, 0, FALSE, Msg("ack", 0))
      BY <1>16, SubscribeDoes, Zenon
    <3>3. /\ task'["cmd"].pc \in {"reply", "read"} /\ task'["cmd"].out = <<>>
          /\ task'["cmd"].reply.kind = "ack"
      BY <3>2 DEF JobOf, Msg
    <3> QED  BY <3>1, <3>3 DEF Holds, CmdShape, PageShape, InReplay
  <2>2. Others("cmd")
    BY <1>16, SubscribeDoes DEF Others, Tasks
  <2> QED  BY <2>1, <2>2, TaskTurns DEF Tasks
<1>17. CASE ReadHistory
  <2>1. Holds("cmd", task'["cmd"])
    BY <1>17, ReadHistoryDoes DEF JobOf, Holds, CmdShape, PageShape, InReplay, Msg
  <2>2. Others("cmd")
    BY <1>17, ReadHistoryDoes DEF Others, Tasks
  <2> QED  BY <2>1, <2>2, TaskTurns DEF Tasks
<1>18. CASE Reply
  <2>1. Holds("cmd", task'["cmd"]) /\ Others("cmd")
    BY <1>18, ReplyDoes, IdleHolds DEF Others, Tasks
  <2> QED  BY <2>1, TaskTurns DEF Tasks
<1> QED
  BY <1>1, <1>2, <1>3, <1>4, <1>5, <1>6, <1>7, <1>8, <1>9, <1>10, <1>11, <1>12, <1>13, <1>14,
     <1>15, <1>16, <1>17, <1>18 DEF Server, Forwarding, Commands, Replaying, Tasks

(* What the session holds. *)

LEMMA DownIsStill ==
  ASSUME SessionShape, conn # "up"
  PROVE  /\ task["fwd"].pc = "idle" /\ task["cmd"].pc = "idle" /\ \A t \in Tasks : task[t] = Idle
         /\ up = <<>> /\ wire = <<>> /\ ~lagged /\ chan = <<>> /\ sess = NewSession
         /\ ghost.gone = {}
<1>1. task = NewTasks /\ up = <<>> /\ wire = <<>> /\ ~lagged /\ chan = <<>> /\ sess = NewSession /\ ghost.gone = {}
  BY DEF SessionShape
<1>2. task["fwd"] = Idle /\ task["cmd"] = Idle
  BY <1>1 DEF NewTasks
<1> QED  BY <1>1, <1>2 DEF Idle, Tasks

LEMMA ServerUp ==
  ASSUME Types, SessionShape,
         \/ Forwarding \/ Commands
         \/ \E t \in {"fwd", "cmd"} : ReplayFails(t)
  PROVE  conn = "up"
<1> SUFFICES ASSUME conn # "up" PROVE FALSE
  OBVIOUS
<1>1. /\ task["fwd"].pc = "idle" /\ task["cmd"].pc = "idle" /\ up = <<>>
      /\ \A t \in Tasks : task[t].pc = "idle"
  BY DownIsStill DEF Tasks
<1>2. CASE FwdSkip \/ FwdBuffer \/ FwdTake \/ FwdSend \/ FwdMark \/ FwdLagged
  BY <1>1, <1>2, Zenon DEF FwdSkip, FwdBuffer, FwdTake, FwdSend, FwdMark, FwdLagged, Receiving
<1>3. CASE Subscribe \/ Unsubscribe \/ ReadHistory \/ Reply
  BY <1>1, <1>3 DEF Subscribe, Unsubscribe, ReadHistory, Reply, Taking
<1>4. ASSUME NEW t \in Tasks, Replaying(t) \/ ReplayFails(t) PROVE FALSE
  BY <1>1, <1>4 DEF Replaying, ReplayFails, ReplayPage, AtPage, ReplaySend, ReplayDone, Drain, FlushSend, FlushMark,
                    BeginFullReload, SendFullReload
<1> QED  BY <1>2, <1>3, <1>4 DEF Forwarding, Commands, Tasks

\* The parts of SessionShape that speak of the session and a_forward.
BufferShape(s, j) ==
  /\ ~s.sub => s.cp = 0 /\ ~s.rep
  /\ ~s.rep => s.buf = <<>>
  /\ j.pc \in InReplay \cup {"announce"} => s.buf = <<>>
OwedShape(s, g, T) == g.owed # {} => s.pend \/ ~s.sub \/ \E t \in Tasks : T[t].pc = "reload"

LEMMA SessionShapeParts ==
  ASSUME Types, SessionShape
  PROVE  BufferShape(sess, task["fwd"]) /\ (~lagged => ghost.gone = {}) /\ OwedShape(sess, ghost, task)
BY DEF SessionShape, BufferShape, OwedShape, Tasks

LEMMA SessionShapeUp ==
  ASSUME conn' = "up", BufferShape(sess', task'["fwd"]), ~lagged' => ghost'.gone = {}, OwedShape(sess', ghost', task')
  PROVE  SessionShape'
BY DEF SessionShape, BufferShape, OwedShape, Tasks, InReplay

LEMMA LeavesIs ==
  ASSUME Types, NEW t \in Tasks
  PROVE  /\ t = "fwd" => Leaves(t).pc = "idle"
         /\ t = "cmd" => Leaves(t).pc = "reply"
         /\ t = "fwd" => Leaves(t) = Idle
         /\ t = "cmd" => Leaves(t).reply = task[t].reply
BY DEF Leaves, With, JobOf, Idle

LEMMA SessionShapeServer ==
  ASSUME Types, TaskShape, SessionShape, Server
  PROVE  SessionShape'
<1> USE DEF Tasks
<1>0. /\ BufferShape(sess, task["fwd"]) /\ (~lagged => ghost.gone = {}) /\ OwedShape(sess, ghost, task)
      /\ sess.sub \in BOOLEAN
  BY SessionShapeParts, SessTyped
<1>1. ASSUME NEW e \in Emitters, Persist(e) PROVE SessionShape'
  BY <1>1 DEF Persist, SessionShape, channel
<1>2. ASSUME NEW e \in Emitters, Publish(e) PROVE SessionShape'
  <2>1. /\ ghost' = GhostOf(ghost.gone \cup Lost(e), ghost.owed, ghost.excused \cup Overtaken(e))
        /\ lagged' = (lagged \/ Overflows(e)) /\ UNCHANGED <<sess, task, conn, up, wire>>
        /\ conn # "up" => chan' = chan
    BY <1>2, PublishDoes, Zenon DEF Publish, Overflows
  <2>2. ~Overflows(e) => Lost(e) = {}
    BY DEF Lost
  <2>3. ghost'.gone = ghost.gone \cup Lost(e) /\ ghost'.owed = ghost.owed
    BY <2>1, GhostGives
  <2>4. ~lagged' => ghost'.gone = {}
    BY <1>0, <2>1, <2>2, <2>3, Zenon
  <2>5. CASE conn = "up"
    <3>1. BufferShape(sess', task'["fwd"]) /\ OwedShape(sess', ghost', task') /\ conn' = "up"
      BY <1>0, <2>1, <2>3, <2>5 DEF OwedShape
    <3> QED  BY <2>4, <3>1, SessionShapeUp
  <2>6. CASE conn # "up"
    <3>1. ~Overflows(e)
      BY <2>6 DEF Overflows
    <3> QED  BY <2>1, <2>2, <2>3, <2>4, <2>6, <3>1, Zenon DEF SessionShape
  <2> QED  BY <2>5, <2>6
<1>3. CASE FwdSkip
  <2>1. UNCHANGED <<sess, task, lagged, ghost, conn>>
    BY <1>3 DEF FwdSkip, Receiving
  <2> QED  BY <1>0, <1>3, <2>1, ServerUp, SessionShapeUp DEF Forwarding
<1>4. CASE FwdBuffer
  <2>1. /\ UNCHANGED <<task, lagged, ghost, conn>> /\ sess.sub /\ sess.rep /\ task["fwd"].pc = "idle"
        /\ sess' = SessionOf(sess.sub, sess.cp, sess.rep, Append(sess.buf, chan[1]), sess.pend)
    BY <1>4, FwdBufferDoes
  <2>2. sess'.sub = sess.sub /\ sess'.rep = sess.rep /\ sess'.pend = sess.pend
    BY <2>1 DEF SessionOf
  <2>3. BufferShape(sess', task'["fwd"]) /\ OwedShape(sess', ghost', task')
    BY <1>0, <2>1, <2>2, Zenon DEF BufferShape, OwedShape, InReplay
  <2> QED  BY <1>0, <1>4, <2>1, <2>3, ServerUp, SessionShapeUp DEF Forwarding
<1>5. CASE FwdTake
  <2>1. /\ UNCHANGED <<sess, lagged, ghost, conn>> /\ task'["cmd"] = task["cmd"] /\ task["fwd"].pc = "idle"
        /\ task'["fwd"] = JobOf("event", <<>>, 0, chan[1], FALSE, Msg("none", 0))
    BY <1>5, FwdTakeDoes, Zenon
  <2>2. task'["fwd"].pc = "event"
    BY <2>1 DEF JobOf
  <2>3. BufferShape(sess', task'["fwd"]) /\ OwedShape(sess', ghost', task')
    BY <1>0, <2>1, <2>2, Zenon DEF BufferShape, OwedShape, InReplay
  <2> QED  BY <1>0, <1>5, <2>1, <2>3, ServerUp, SessionShapeUp DEF Forwarding
<1>6. CASE FwdSend
  <2>1. /\ UNCHANGED <<sess, lagged, ghost, conn>> /\ task'["cmd"] = task["cmd"] /\ task["fwd"].pc = "event"
        /\ task'["fwd"].pc = "mark"
    BY <1>6, FwdSendDoes, JobGives
  <2>3. BufferShape(sess', task'["fwd"]) /\ OwedShape(sess', ghost', task')
    BY <1>0, <2>1 DEF BufferShape, OwedShape, InReplay
  <2> QED  BY <1>0, <1>6, <2>1, <2>3, ServerUp, SessionShapeUp DEF Forwarding
<1>7. CASE FwdMark
  <2>1. /\ UNCHANGED <<lagged, ghost, conn>> /\ task'["cmd"] = task["cmd"] /\ task["fwd"].pc = "mark"
        /\ task'["fwd"] = Idle
        /\ sess' = SessionOf(sess.sub, To(task["fwd"].max), sess.rep, sess.buf, sess.pend)
    BY <1>7, FwdMarkDoes
  <2>2. /\ sess'.sub = sess.sub /\ sess'.cp = To(task["fwd"].max) /\ sess'.rep = sess.rep
        /\ sess'.buf = sess.buf /\ sess'.pend = sess.pend
    BY <2>1, SessionGives
  <2>3. BufferShape(sess', task'["fwd"]) /\ OwedShape(sess', ghost', task')
    BY <1>0, <2>1, <2>2 DEF BufferShape, OwedShape, InReplay, To, Idle
  <2> QED  BY <1>0, <1>7, <2>1, <2>3, ServerUp, SessionShapeUp DEF Forwarding
<1>8. CASE FwdLagged
  <2>1. /\ UNCHANGED <<conn>> /\ task'["cmd"] = task["cmd"] /\ task["fwd"].pc = "idle"
        /\ ghost'.gone = {} /\ ghost'.owed = ghost.owed
    <3>1. \E x : ghost' = GhostOf({}, ghost.owed, x)
      BY <1>8, FwdLaggedDoes, Zenon
    <3>2. ghost'.gone = {} /\ ghost'.owed = ghost.owed
      BY <3>1 DEF GhostOf
    <3> QED  BY <1>8, <3>2, FwdLaggedDoes
  <2>2. BufferShape(sess', task'["fwd"]) /\ OwedShape(sess', ghost', task')
    <3>1. CASE UNCHANGED <<sess, task>>
      BY <1>0, <2>1, <3>1 DEF OwedShape
    <3>2. CASE /\ sess.sub /\ ~sess.rep /\ ~sess.pend
               /\ sess' = SessionOf(sess.sub, sess.cp, TRUE, sess.buf, sess.pend)
               /\ task'["fwd"] = JobOf("read", <<>>, sess.cp, 0, FALSE, Msg("none", 0))
      <4>1. /\ sess'.sub = sess.sub /\ sess'.cp = sess.cp /\ sess'.rep = TRUE
            /\ sess'.buf = sess.buf /\ sess'.pend = sess.pend
        BY <3>2 DEF SessionOf
      <4>2. task'["fwd"].pc = "read"
        BY <3>2 DEF JobOf
      <4> QED  BY <1>0, <2>1, <3>2, <4>1, <4>2, Zenon DEF BufferShape, OwedShape, InReplay
    <3> QED  BY <1>8, <3>1, <3>2, FwdLaggedDoes, Zenon
  <2> QED  BY <1>8, <2>1, <2>2, ServerUp, SessionShapeUp DEF Forwarding
<1>9. ASSUME NEW t \in Tasks, ReplayPage(t) \/ ReplayFails(t) \/ ReplaySend(t) PROVE SessionShape'
  <2>1. /\ UNCHANGED <<sess, lagged, ghost, conn>> /\ Others(t) /\ task[t].pc \in {"read", "send"}
        /\ task'[t].pc \in InReplay
    BY <1>9, ReplayPageDoes, ReplayFailsDoes, ReplaySendDoes, JobGives DEF AtPage, InReplay
  <2>2. BufferShape(sess', task'["fwd"]) /\ OwedShape(sess', ghost', task')
    BY <1>0, <2>1 DEF BufferShape, OwedShape, InReplay, Others
  <2> QED  BY <1>0, <1>9, <2>1, <2>2, ServerUp, SessionShapeUp DEF Forwarding, Commands, Replaying
<1>10. ASSUME NEW t \in Tasks, ReplayDone(t) PROVE SessionShape'
  <2>1. /\ UNCHANGED <<lagged, ghost, conn>> /\ Others(t) /\ task[t].pc = "send" /\ task'[t].pc = "drain"
        /\ sess' = SessionOf(sess.sub, To(task[t].pos), sess.rep, sess.buf, sess.pend)
    BY <1>10, ReplayDoneDoes, JobGives
  <2>2. /\ sess'.sub = sess.sub /\ sess'.cp = To(task[t].pos) /\ sess'.rep = sess.rep
        /\ sess'.buf = sess.buf /\ sess'.pend = sess.pend
    BY <2>1, SessionGives
  <2>3. BufferShape(sess', task'["fwd"]) /\ OwedShape(sess', ghost', task')
    BY <1>0, <2>1, <2>2 DEF BufferShape, OwedShape, InReplay, Others, To
  <2> QED  BY <1>0, <1>10, <2>1, <2>3, ServerUp, SessionShapeUp DEF Forwarding, Commands, Replaying
<1>11. ASSUME NEW t \in Tasks, Drain(t) PROVE SessionShape'
  <2>1. UNCHANGED <<lagged, conn>> /\ Others(t) /\ task[t].pc = "drain"
    BY <1>11, DrainDoes, Zenon
  <2>2. CASE /\ sess.buf = <<>>
             /\ sess' = SessionOf(sess.sub, To(task[t].max), FALSE, sess.buf, sess.pend)
             /\ task'[t] = Leaves(t)
             /\ UNCHANGED ghost
    <3>1. /\ sess'.sub = sess.sub /\ sess'.cp = To(task[t].max) /\ sess'.rep = FALSE
          /\ sess'.buf = sess.buf /\ sess'.pend = sess.pend
      BY <2>2 DEF SessionOf
    <3>2. BufferShape(sess', task'["fwd"]) /\ OwedShape(sess', ghost', task')
      BY <1>0, <2>1, <2>2, <3>1, Zenon DEF BufferShape, OwedShape, InReplay, Others, To
    <3> QED  BY <1>0, <1>11, <2>1, <2>2, <3>2, ServerUp, SessionShapeUp DEF Forwarding, Commands, Replaying
  <2>3. CASE /\ sess' = SessionOf(sess.sub, sess.cp, FALSE, <<>>, sess.pend)
             /\ task'[t] = JobOf("reload", task[t].out, task[t].pos, task[t].max, task[t].more, Msg("nack", 0))
             /\ ghost' = GhostOf(ghost.gone, ghost.owed \cup Unsent, ghost.excused)
    <3>1. /\ sess'.sub = sess.sub /\ sess'.cp = sess.cp /\ sess'.rep = FALSE
          /\ sess'.buf = <<>> /\ sess'.pend = sess.pend
      BY <2>3 DEF SessionOf
    <3>2. task'[t].pc = "reload" /\ ghost'.gone = ghost.gone
      BY <2>3, JobGives, GhostGives
    <3>3. BufferShape(sess', task'["fwd"]) /\ OwedShape(sess', ghost', task')
      BY <1>0, <2>1, <3>1, <3>2 DEF BufferShape, OwedShape
    <3> QED  BY <1>0, <1>11, <2>1, <3>2, <3>3, ServerUp, SessionShapeUp DEF Forwarding, Commands, Replaying
  <2>4. CASE /\ sess' = SessionOf(sess.sub, sess.cp, sess.rep, <<>>, sess.pend)
             /\ task'[t] = With(t, "flush", Above(DrainTo(t), sess.buf))
             /\ UNCHANGED ghost
    <3>1. /\ sess'.sub = sess.sub /\ sess'.cp = sess.cp /\ sess'.rep = sess.rep
          /\ sess'.buf = <<>> /\ sess'.pend = sess.pend
      BY <2>4, SessionGives
    <3>2. BufferShape(sess', task'["fwd"]) /\ OwedShape(sess', ghost', task')
      BY <1>0, <2>1, <2>4, <3>1 DEF BufferShape, OwedShape, Others
    <3> QED  BY <1>0, <1>11, <2>1, <2>4, <3>2, ServerUp, SessionShapeUp DEF Forwarding, Commands, Replaying
  <2> QED  BY <1>11, <2>2, <2>3, <2>4, DrainDoes, Zenon
<1>12. ASSUME NEW t \in Tasks, FlushSend(t) PROVE SessionShape'
  <2>1. /\ UNCHANGED <<sess, lagged, ghost, conn>> /\ Others(t) /\ task[t].pc = "flush" /\ task'[t].pc = "flush"
    BY <1>12, FlushSendDoes, JobGives
  <2>2. BufferShape(sess', task'["fwd"]) /\ OwedShape(sess', ghost', task')
    BY <1>0, <2>1 DEF BufferShape, OwedShape, InReplay, Others
  <2> QED  BY <1>0, <1>12, <2>1, <2>2, ServerUp, SessionShapeUp DEF Forwarding, Commands, Replaying
<1>13. ASSUME NEW t \in Tasks, FlushMark(t) PROVE SessionShape'
  <2>1. /\ UNCHANGED <<lagged, ghost, conn>> /\ Others(t) /\ task[t].pc = "flush" /\ task'[t].pc = "drain"
        /\ sess' = SessionOf(sess.sub, To(task[t].max), sess.rep, sess.buf, sess.pend)
    BY <1>13, FlushMarkDoes, JobGives DEF With
  <2>2. /\ sess'.sub = sess.sub /\ sess'.cp = To(task[t].max) /\ sess'.rep = sess.rep
        /\ sess'.buf = sess.buf /\ sess'.pend = sess.pend
    BY <2>1, SessionGives
  <2>3. t # "fwd"
    BY <2>1 DEF TaskShape, FwdShape
  <2>4. BufferShape(sess', task'["fwd"]) /\ OwedShape(sess', ghost', task')
    BY <1>0, <2>1, <2>2, <2>3 DEF BufferShape, OwedShape, InReplay, Others, To
  <2> QED  BY <1>0, <1>13, <2>1, <2>4, ServerUp, SessionShapeUp DEF Forwarding, Commands, Replaying
<1>14. ASSUME NEW t \in Tasks, BeginFullReload(t) PROVE SessionShape'
  <2>1. /\ UNCHANGED <<lagged, conn>> /\ Others(t) /\ ghost'.gone = ghost.gone
        /\ sess' = SessionOf(sess.sub, sess.cp, FALSE, <<>>, TRUE)
    <3>1. ghost' = GhostOf(ghost.gone, ghost.owed \cup Unsent, ghost.excused)
      BY <1>14, BeginDoes, Zenon
    <3>2. ghost'.gone = ghost.gone
      BY <3>1 DEF GhostOf
    <3> QED  BY <1>14, <3>2, BeginDoes, Zenon
  <2>2. /\ sess'.sub = sess.sub /\ sess'.cp = sess.cp /\ sess'.rep = FALSE
        /\ sess'.buf = <<>> /\ sess'.pend = TRUE
    BY <2>1 DEF SessionOf
  <2>3. BufferShape(sess', task'["fwd"]) /\ OwedShape(sess', ghost', task')
    BY <1>0, <2>2 DEF BufferShape, OwedShape
  <2> QED  BY <1>0, <1>14, <2>1, <2>3, ServerUp, SessionShapeUp DEF Forwarding, Commands, Replaying
<1>15. ASSUME NEW t \in Tasks, SendFullReload(t) PROVE SessionShape'
  <2>1. UNCHANGED <<sess, lagged, ghost, conn>> /\ Others(t) /\ task[t].pc = "announce" /\ task'[t] = Leaves(t)
    BY <1>15, AnnounceDoes
  <2>2. BufferShape(sess', task'["fwd"]) /\ OwedShape(sess', ghost', task')
    BY <1>0, <2>1, LeavesIs DEF BufferShape, OwedShape, InReplay, Others
  <2> QED  BY <1>0, <1>15, <2>1, <2>2, ServerUp, SessionShapeUp DEF Forwarding, Commands, Replaying
<1>16. CASE Subscribe
  <2>1. /\ UNCHANGED <<lagged, conn>> /\ task'["fwd"] = task["fwd"] /\ ghost'.owed = {} /\ ghost'.gone = ghost.gone
        /\ \E from \in 0 .. log : sess' = SessionOf(TRUE, from, TRUE, sess.buf, FALSE)
    <3>1. ghost' = GhostOf(ghost.gone, {}, ghost.excused)
      BY <1>16, SubscribeDoes
    <3>2. ghost'.owed = {} /\ ghost'.gone = ghost.gone
      BY <3>1 DEF GhostOf
    <3> QED  BY <1>16, <3>2, SubscribeDoes, Zenon
  <2>2. sess'.sub = TRUE /\ sess'.rep = TRUE /\ sess'.buf = sess.buf
    BY <2>1 DEF SessionOf
  <2>3. BufferShape(sess', task'["fwd"]) /\ OwedShape(sess', ghost', task')
    BY <1>0, <2>1, <2>2, Zenon DEF BufferShape, OwedShape
  <2> QED  BY <1>0, <1>16, <2>1, <2>3, ServerUp, SessionShapeUp DEF Commands
<1>17. CASE Unsubscribe
  <2>1. UNCHANGED <<task, lagged, ghost, conn>> /\ sess' = NewSession
    BY <1>17 DEF Unsubscribe, channel
  <2>2. BufferShape(sess', task'["fwd"]) /\ OwedShape(sess', ghost', task')
    BY <1>0, <2>1 DEF BufferShape, OwedShape, NewSession
  <2> QED  BY <1>0, <1>17, <2>1, <2>2, ServerUp, SessionShapeUp DEF Commands
<1>18. CASE ReadHistory
  <2>1. /\ UNCHANGED <<sess, lagged, ghost, conn>> /\ task'["fwd"] = task["fwd"] /\ task["cmd"].pc = "idle"
    BY <1>18, ReadHistoryDoes
  <2>2. BufferShape(sess', task'["fwd"]) /\ OwedShape(sess', ghost', task')
    BY <1>0, <2>1 DEF BufferShape, OwedShape
  <2> QED  BY <1>0, <1>18, <2>1, <2>2, ServerUp, SessionShapeUp DEF Commands
<1>19. CASE Reply
  <2>1. /\ UNCHANGED <<sess, lagged, ghost, conn>> /\ task'["fwd"] = task["fwd"] /\ task["cmd"].pc = "reply"
    BY <1>19, ReplyDoes
  <2>2. BufferShape(sess', task'["fwd"]) /\ OwedShape(sess', ghost', task')
    BY <1>0, <2>1 DEF BufferShape, OwedShape
  <2> QED  BY <1>0, <1>19, <2>1, <2>2, ServerUp, SessionShapeUp DEF Commands
<1> QED
  BY <1>1, <1>2, <1>3, <1>4, <1>5, <1>6, <1>7, <1>8, <1>9, <1>10, <1>11, <1>12, <1>13, <1>14,
     <1>15, <1>16, <1>17, <1>18, <1>19 DEF Server, Forwarding, Commands, Replaying

(* A client's step leaves the server alone or begins a new connection. *)

ServerUntouched ==
  /\ UNCHANGED <<log, held, chan, lagged, sess, task, ghost>>
  /\ wire' = wire \/ (wire # <<>> /\ wire' = Tail(wire))
  /\ conn' = conn \/ (conn = "closing" /\ conn' = "down" /\ up' = up /\ wire' = wire)
  /\ up' = up \/ conn = "up" \/ wire # <<>>
Renewed ==
  /\ FreshServer /\ UNCHANGED <<log, held>> /\ (conn' = "up" \/ up' = <<>>)
  /\ conn' \in {"up", "closing", "down"} /\ up' \in Seq(Message(Requests))

LEMMA ClientEffect ==
  ASSUME Types, Client
  PROVE  (ServerUntouched \/ Renewed) /\ Types'
<1>1. CASE OpenRun
  BY <1>1, OpenRunDoes DEF ServerUntouched
<1>2. CASE StartSession
  BY <1>2, StartSessionDoes DEF ServerUntouched
<1>3. CASE LeaveRun
  BY <1>3, LeaveRunDoes DEF ServerUntouched
<1>4. CASE RequestHistory
  BY <1>4, RequestHistoryDoes DEF ServerUntouched
<1>5. CASE RetryReload
  BY <1>5, RetryReloadDoes DEF ServerUntouched
<1>6. CASE Flush
  BY <1>6, FlushDoes DEF ServerUntouched
<1>7. CASE Connect
  BY <1>7, ConnectDoes DEF Renewed
<1>8. CASE ConnectFails
  BY <1>8, ConnectFailsDoes DEF ServerUntouched
<1>9. CASE Drop
  BY <1>9, DropTyped DEF Renewed, ConnectionLost
<1>10. CASE OnClose
  BY <1>10, OnCloseTyped DEF ServerUntouched, ConnectionLost
<1>11. CASE Supersede
  BY <1>11, SupersedeDoes DEF Renewed
<1>12. CASE SubscribeTimeout
  BY <1>12, SubscribeTimeoutDoes, SubscriptionFailedDoes DEF Renewed
<1>13. CASE OnEvent
  BY <1>13, OnEventDoes DEF ServerUntouched, Handled
<1>14. CASE OnFullReload
  BY <1>14, OnFullReloadDoes DEF ServerUntouched, Handled
<1>15. CASE OnHistory
  BY <1>15, OnHistoryDoes DEF ServerUntouched, Handled
<1>16. CASE OnNoHistory
  BY <1>16, OnNoHistoryDoes DEF ServerUntouched, Handled
<1>17. CASE OnAck
  BY <1>17, OnAckDoes DEF ServerUntouched, Handled
<1>18. CASE OnNack
  <2>1. CASE Handled /\ UNCHANGED up
    BY <1>18, <2>1, OnNackDoes DEF ServerUntouched, Handled
  <2>2. CASE SubscriptionFailed /\ UNCHANGED <<log, held>>
    BY <2>2, SubscriptionFailedDoes DEF Renewed
  <2> QED  BY <1>18, <2>1, <2>2, OnNackDoes
<1> QED
  BY <1>1, <1>2, <1>3, <1>4, <1>5, <1>6, <1>7, <1>8, <1>9, <1>10, <1>11, <1>12, <1>13, <1>14,
     <1>15, <1>16, <1>17, <1>18 DEF Client, Receive

LEMMA TaskShapeClient ==
  ASSUME Types, TaskShape, Client
  PROVE  TaskShape'
<1>1. CASE ServerUntouched
  BY <1>1, TasksHold DEF ServerUntouched
<1>2. CASE Renewed
  <2>1. \A t \in Tasks : task'[t] = Idle
    BY <1>2, FreshServerDoes, Zenon DEF Renewed, Tasks
  <2> QED  BY <2>1, TasksHold, IdleHolds
<1> QED  BY <1>1, <1>2, ClientEffect

LEMMA SessionShapeClient ==
  ASSUME Types, SessionShape, Client
  PROVE  SessionShape'
<1>1. CASE ServerUntouched
  <2>1. conn = "up" \/ (up' = up /\ wire' = wire)
    BY <1>1, DownIsStill DEF ServerUntouched
  <2>2. CASE conn = "up"
    <3>1. conn' = "up" /\ BufferShape(sess', task'["fwd"]) /\ (~lagged' => ghost'.gone = {})
          /\ OwedShape(sess', ghost', task')
      BY <1>1, <2>2, SessionShapeParts DEF ServerUntouched, OwedShape
    <3> QED  BY <3>1, SessionShapeUp
  <2>3. CASE conn # "up"
    BY <1>1, <2>1, <2>3 DEF ServerUntouched, SessionShape
  <2> QED  BY <2>2, <2>3
<1>2. CASE Renewed
  <2>1. /\ sess' = NewSession /\ sess' = SessionOf(FALSE, 0, FALSE, <<>>, FALSE)
        /\ task' = NewTasks /\ task'["fwd"] = Idle /\ task'["cmd"] = Idle
        /\ chan' = <<>> /\ lagged' = FALSE /\ wire' = <<>>
        /\ ghost' = GhostOf({}, {}, ghost.excused \cup Forgotten)
    BY <1>2, FreshServerDoes, Zenon DEF Renewed
  <2>2. sess'.sub = FALSE /\ sess'.cp = 0 /\ sess'.rep = FALSE /\ sess'.buf = <<>>
    BY <2>1 DEF SessionOf
  <2>3. ghost'.gone = {} /\ ghost'.owed = {}
    BY <2>1 DEF GhostOf
  <2> QED  BY <1>2, <2>1, <2>2, <2>3, Zenon DEF SessionShape, Renewed
<1> QED  BY <1>1, <1>2, ClientEffect

(* In which order the numbers are broadcast. *)

LEMMA EmissionFrame ==
  ASSUME Types, Emission, UNCHANGED <<log, held>>, ghost.excused \subseteq ghost'.excused,
         \/ chan' = chan
         \/ chan' = <<>>
         \/ Len(chan) \in Nat \ {0} /\ Len(chan') = Len(chan) - 1 /\ chan' \in Seq(Numbers)
            /\ \A i \in 1 .. Len(chan) - 1 : chan'[i] = chan[i + 1]
  PROVE  Emission'
<1>1. Numbers' = Numbers /\ Held' = Held
  BY DEF Numbers, Held
<1>2. \A d \in Held', s \in Numbers' \ Held' : d < s => d \in ghost'.excused
  BY <1>1 DEF Emission
<1>3. \A e, f \in Emitters : held'[e] = held'[f] /\ held'[e] # 0 => e = f
  BY DEF Emission
<1>4. Range(chan') \cap Held' = {} /\ \A i, j \in DOMAIN chan' : i < j /\ chan'[j] < chan'[i] => chan'[j] \in ghost'.excused
  <2>1. CASE chan' = chan
    BY <1>1, <2>1 DEF Emission
  <2>2. CASE chan' = <<>>
    <3>1. DOMAIN chan' = {}
      BY <2>2
    <3> QED  BY <3>1 DEF Range
  <2>3. CASE Len(chan) \in Nat \ {0} /\ Len(chan') = Len(chan) - 1 /\ chan' \in Seq(Numbers)
            /\ \A i \in 1 .. Len(chan) - 1 : chan'[i] = chan[i + 1]
    <3>1. DOMAIN chan' = 1 .. Len(chan) - 1 /\ DOMAIN chan = 1 .. Len(chan)
      BY <2>3 DEF Types, ChannelTypes
    <3>2. \A i \in DOMAIN chan' : i + 1 \in DOMAIN chan /\ chan'[i] = chan[i + 1]
      BY <2>3, <3>1
    <3>3. Range(chan') \subseteq Range(chan)
      BY <3>2 DEF Range
    <3>4. \A i, j \in DOMAIN chan' : i < j => i + 1 < j + 1
      BY <3>1, <2>3
    <3>5. \A i, j \in DOMAIN chan : i < j /\ chan[j] < chan[i] => chan[j] \in ghost.excused
      BY DEF Emission
    <3>6. \A i, j \in DOMAIN chan' : i < j /\ chan'[j] < chan'[i] => chan'[j] \in ghost'.excused
      BY <3>2, <3>4, <3>5
    <3>7. Range(chan') \cap Held' = {}
      BY <1>1, <3>3 DEF Emission
    <3> QED  BY <3>6, <3>7
  <2> QED  BY <2>1, <2>2, <2>3
<1> QED  BY <1>2, <1>3, <1>4 DEF Emission

LEMMA HeldTyped ==
  ASSUME Types
  PROVE  /\ held \in [Emitters -> 0 .. log] /\ Held \subseteq Numbers
         /\ \A e \in Emitters : held[e] \in 0 .. log /\ (held[e] # 0 => held[e] \in Held)
         /\ \A d \in Held : \E e \in Emitters : held[e] = d
         /\ chan \in Seq(Numbers) /\ Len(chan) \in Nat /\ DOMAIN chan = 1 .. Len(chan)
<1>1. held \in [Emitters -> 0 .. log] /\ log \in Nat /\ chan \in Seq(Numbers)
  BY Parts DEF Types, ChannelTypes
<1>2. \A e \in Emitters : held[e] \in 0 .. log /\ (held[e] # 0 => held[e] \in Held)
  BY <1>1 DEF Held
<1>3. \A d \in Held : \E e \in Emitters : held[e] = d /\ d # 0
  BY DEF Held
<1>4. Held \subseteq Numbers
  BY <1>1, <1>2, <1>3 DEF Numbers
<1> QED  BY <1>1, <1>2, <1>3, <1>4

LEMMA EmissionPersist ==
  ASSUME Types, Emission, NEW e \in Emitters, Persist(e)
  PROVE  Emission'
<1>1. /\ log \in Nat /\ log' = log + 1 /\ held[e] = 0 /\ held' = [held EXCEPT ![e] = log + 1]
      /\ chan' = chan /\ ghost' = ghost
  BY Parts DEF Persist, channel
<1>2. held'[e] = log + 1 /\ \A f \in Emitters : f # e => held'[f] = held[f]
  BY <1>1, HeldTyped
<1>3. Held' = Held \cup {log + 1}
  <2>1. \A f \in Emitters : held'[f] # 0 => held'[f] \in Held \cup {log + 1}
    BY <1>2, HeldTyped
  <2>2. log + 1 \in Held'
    BY <1>1, <1>2 DEF Held
  <2>3. \A d \in Held : d \in Held'
    <3> SUFFICES ASSUME NEW d \in Held PROVE d \in Held'
      OBVIOUS
    <3>1. PICK f \in Emitters : held[f] = d
      BY HeldTyped
    <3>2. f # e /\ d # 0
      BY <1>1, <3>1 DEF Held
    <3> QED  BY <1>2, <3>1, <3>2 DEF Held
  <2>4. Held' \subseteq Held \cup {log + 1}
    BY <2>1 DEF Held
  <2> QED  BY <2>2, <2>3, <2>4
<1>4. Numbers' = Numbers \cup {log + 1} /\ log + 1 \notin Numbers
  BY <1>1 DEF Numbers
<1>5. Numbers' \ Held' = Numbers \ Held
  BY <1>3, <1>4, HeldTyped
<1>6. \A d \in Held', s \in Numbers' \ Held' : d < s => d \in ghost'.excused
  <2> SUFFICES ASSUME NEW d \in Held', NEW s \in Numbers \ Held, d < s PROVE d \in ghost'.excused
    BY <1>5
  <2>1. d # log + 1
    BY <1>1 DEF Numbers
  <2>2. d \in Held
    BY <1>3, <2>1
  <2> QED  BY <1>1, <2>2 DEF Emission
<1>7. \A f, g \in Emitters : held'[f] = held'[g] /\ held'[f] # 0 => f = g
  <2> SUFFICES ASSUME NEW f \in Emitters, NEW g \in Emitters, held'[f] = held'[g], held'[f] # 0 PROVE f = g
    OBVIOUS
  <2>1. \A x \in Emitters : held[x] # log + 1
    BY <1>1, HeldTyped
  <2> QED  BY <1>2, <2>1 DEF Emission
<1>8. Range(chan') \cap Held' = {}
  <2>1. Range(chan) \subseteq Numbers
    BY HeldTyped DEF Range
  <2> QED  BY <1>1, <1>3, <1>4, <2>1 DEF Emission
<1> QED  BY <1>1, <1>6, <1>7, <1>8 DEF Emission

LEMMA EmissionPublish ==
  ASSUME Types, Emission, NEW e \in Emitters, Publish(e)
  PROVE  Emission'
<1>1. /\ held[e] \in Numbers /\ held' \in [Emitters -> 0 .. log] /\ held'[e] = 0
      /\ \A f \in Emitters : f # e => held'[f] = held[f]
      /\ chan' = IF Overflows(e) THEN Tail(Queue(e)) ELSE IF conn = "up" THEN Queue(e) ELSE chan
      /\ chan' \in Seq(Numbers)
      /\ ghost' = GhostOf(ghost.gone \cup Lost(e), ghost.owed, ghost.excused \cup Overtaken(e))
      /\ log' = log
  BY PublishDoes, Zenon DEF Publish
<1>2. ghost'.excused = ghost.excused \cup Overtaken(e)
  BY <1>1 DEF GhostOf
<1>3. Held' = Held \ {held[e]} /\ held[e] \in Held /\ Numbers' = Numbers
  <2>1. held[e] \in Held /\ Numbers' = Numbers
    BY <1>1 DEF Held, Numbers
  <2>2. ASSUME NEW d \in Held' PROVE d \in Held \ {held[e]}
    <3>1. PICK f \in Emitters : held'[f] = d /\ d # 0
      BY <2>2 DEF Held
    <3>2. f # e /\ held[f] = d
      BY <1>1, <3>1
    <3>3. d # held[e]
      BY <3>1, <3>2 DEF Emission
    <3> QED  BY <3>1, <3>2, <3>3, HeldTyped
  <2>3. ASSUME NEW d \in Held \ {held[e]} PROVE d \in Held'
    <3>1. PICK f \in Emitters : held[f] = d
      BY HeldTyped
    <3>2. f # e /\ d # 0
      BY <3>1 DEF Held
    <3> QED  BY <1>1, <3>1, <3>2 DEF Held
  <2> QED  BY <2>1, <2>2, <2>3
<1>4. \A d \in Held' : d < held[e] => d \in ghost'.excused
  <2> SUFFICES ASSUME NEW d \in Held', d < held[e] PROVE d \in ghost'.excused
    OBVIOUS
  <2>1. d \in Held /\ d \in Numbers
    BY <1>3, HeldTyped
  <2>2. PICK f \in Emitters : held[f] = d
    BY <2>1, HeldTyped
  <2>3. d \in Range(held)
    BY <2>2, HeldTyped DEF Range
  <2>4. d \in 1 .. (held[e] - 1)
    BY <1>1, <2>1 DEF Numbers
  <2> QED  BY <1>2, <2>3, <2>4 DEF Overtaken
<1>5. \A d \in Held', s \in Numbers' \ Held' : d < s => d \in ghost'.excused
  BY <1>2, <1>3, <1>4 DEF Emission
<1>6. \A f, g \in Emitters : held'[f] = held'[g] /\ held'[f] # 0 => f = g
  BY <1>1 DEF Emission
<1>7. \A d \in Range(chan) : d \in Numbers \ Held
  BY HeldTyped DEF Emission, Range
<1>8. ASSUME NEW q, q = Queue(e)
      PROVE  /\ \A i \in DOMAIN q : q[i] \in Numbers \ Held'
             /\ \A i, j \in DOMAIN q : i < j /\ q[j] < q[i] => q[j] \in ghost'.excused
             /\ q \in Seq(Numbers) /\ Len(q) = Len(chan) + 1
  <2>1. q \in Seq(Numbers) /\ Len(q) = Len(chan) + 1 /\ Len(chan) \in Nat /\ q[Len(chan) + 1] = held[e]
        /\ \A i \in 1 .. Len(chan) : q[i] = chan[i]
    BY <1>1, <1>8, HeldTyped DEF Queue
  <2>2. DOMAIN q = 1 .. Len(chan) + 1 /\ DOMAIN chan = 1 .. Len(chan)
    BY <2>1, HeldTyped
  <2>3. \A i \in DOMAIN q : i = Len(chan) + 1 \/ (i \in DOMAIN chan /\ q[i] = chan[i])
    BY <2>1, <2>2
  <2>4. \A i \in DOMAIN chan : chan[i] \in Range(chan)
    BY DEF Range
  <2>5. \A i \in DOMAIN q : q[i] \in Numbers \ Held'
    BY <1>1, <1>3, <1>7, <2>1, <2>3, <2>4
  <2>6. ASSUME NEW i \in DOMAIN q, NEW j \in DOMAIN q, i < j, q[j] < q[i] PROVE q[j] \in ghost'.excused
    <3>1. i \in DOMAIN chan /\ q[i] = chan[i]
      BY <2>2, <2>3, <2>6
    <3>2. CASE j = Len(chan) + 1
      <4>1. q[j] = held[e] /\ q[i] \in Numbers \ Held
        BY <1>7, <2>1, <2>4, <3>1, <3>2
      <4> QED  BY <1>2, <1>3, <2>6, <4>1 DEF Emission
    <3>3. CASE j \in DOMAIN chan /\ q[j] = chan[j]
      BY <1>2, <2>6, <3>1, <3>3 DEF Emission
    <3> QED  BY <2>3, <3>2, <3>3
  <2> QED  BY <2>1, <2>5, <2>6
<1>9. Range(chan') \cap Held' = {} /\ \A i, j \in DOMAIN chan' : i < j /\ chan'[j] < chan'[i] => chan'[j] \in ghost'.excused
  <2>1. CASE chan' = Queue(e)
    BY <1>8, <2>1 DEF Range
  <2>2. CASE chan' = Tail(Queue(e))
    <3> DEFINE q == Queue(e)
    <3>1. /\ \A i \in DOMAIN q : q[i] \in Numbers \ Held'
          /\ \A i, j \in DOMAIN q : i < j /\ q[j] < q[i] => q[j] \in ghost'.excused
          /\ q \in Seq(Numbers) /\ Len(q) = Len(chan) + 1 /\ Len(chan) \in Nat
      BY <1>8, HeldTyped
    <3> HIDE DEF q
    <3>2. \A i \in DOMAIN Tail(q) : i \in Nat /\ i + 1 \in DOMAIN q /\ Tail(q)[i] = q[i + 1]
      BY <3>1
    <3>3. \A i, j \in DOMAIN Tail(q) : i < j => i + 1 < j + 1
      BY <3>2
    <3>4. Range(Tail(q)) \cap Held' = {}
      BY <3>1, <3>2 DEF Range
    <3>5. \A i, j \in DOMAIN Tail(q) : i < j /\ Tail(q)[j] < Tail(q)[i] => Tail(q)[j] \in ghost'.excused
      BY <3>1, <3>2, <3>3
    <3> QED  BY <2>2, <3>4, <3>5 DEF q
  <2>3. CASE chan' = chan
    <3>1. \A i, j \in DOMAIN chan : i < j /\ chan[j] < chan[i] => chan[j] \in ghost.excused
      BY DEF Emission
    <3>2. Range(chan) \cap Held' = {}
      BY <1>3, <1>7
    <3> QED  BY <1>2, <2>3, <3>1, <3>2
  <2> QED  BY <1>1, <2>1, <2>2, <2>3, Zenon
<1> QED  BY <1>5, <1>6, <1>9 DEF Emission

LEMMA ReceivedFromChannel ==
  ASSUME Types, Emission, NEW s \in Seqs, Receiving(s)
  PROVE  Emission'
<1>1. /\ chan' \in Seq(Numbers) /\ Len(chan) \in Nat \ {0} /\ Len(chan') = Len(chan) - 1
      /\ \A i \in 1 .. Len(chan) - 1 : chan'[i] = chan[i + 1]
  BY FirstInChannel
<1> QED  BY <1>1, EmissionFrame, Zenon DEF Receiving, emitting

LEMMA EmissionServer ==
  ASSUME Types, Emission, Server
  PROVE  Emission'
<1> USE DEF Tasks
<1>1. ASSUME NEW e \in Emitters, Persist(e) \/ Publish(e) PROVE Emission'
  BY <1>1, EmissionPersist, EmissionPublish
<1>2. CASE FwdSkip \/ FwdBuffer \/ FwdTake
  BY <1>2, ReceivedFromChannel, Zenon DEF FwdSkip, FwdBuffer, FwdTake
<1>3. CASE FwdSend \/ FwdMark \/ Unsubscribe \/ ReadHistory \/ Reply
  BY <1>3, EmissionFrame DEF FwdSend, FwdMark, Unsubscribe, ReadHistory, Reply, emitting, channel
<1>4. CASE FwdLagged
  <2>1. UNCHANGED <<log, held, chan>> /\ \E x : ghost' = GhostOf({}, ghost.owed, x) /\ ghost.excused \subseteq x
    BY <1>4, FwdLaggedDoes, Zenon
  <2>2. ghost.excused \subseteq ghost'.excused
    BY <2>1 DEF GhostOf
  <2> QED  BY <2>1, <2>2, EmissionFrame
<1>5. CASE Subscribe
  <2>1. UNCHANGED <<log, held, chan>> /\ ghost' = GhostOf(ghost.gone, {}, ghost.excused)
    BY <1>5, SubscribeDoes
  <2>2. ghost.excused \subseteq ghost'.excused
    BY <2>1 DEF GhostOf
  <2> QED  BY <2>1, <2>2, EmissionFrame
<1>6. ASSUME NEW t \in Tasks, ReplayPage(t) \/ ReplayFails(t) \/ ReplaySend(t) \/ ReplayDone(t) \/ FlushSend(t)
                               \/ FlushMark(t) \/ SendFullReload(t)
      PROVE Emission'
  BY <1>6, EmissionFrame DEF ReplayPage, ReplayFails, ReplaySend, ReplayDone, FlushSend, FlushMark, SendFullReload,
     emitting, channel
<1>7. ASSUME NEW t \in Tasks, Drain(t) \/ BeginFullReload(t) PROVE Emission'
  <2>1. UNCHANGED <<log, held, chan>>
        /\ (ghost' = ghost \/ ghost' = GhostOf(ghost.gone, ghost.owed \cup Unsent, ghost.excused))
    BY <1>7, DrainDoes, BeginDoes, Zenon
  <2>2. ghost.excused \subseteq ghost'.excused
    BY <2>1 DEF GhostOf
  <2> QED  BY <2>1, <2>2, EmissionFrame
<1> QED  BY <1>1, <1>2, <1>3, <1>4, <1>5, <1>6, <1>7 DEF Server, Forwarding, Commands, Replaying

LEMMA EmissionClient ==
  ASSUME Types, Emission, Client
  PROVE  Emission'
<1>1. CASE ServerUntouched
  BY <1>1, EmissionFrame DEF ServerUntouched
<1>2. CASE Renewed
  <2>1. chan' = <<>> /\ ghost' = GhostOf({}, {}, ghost.excused \cup Forgotten) /\ UNCHANGED <<log, held>>
    BY <1>2, FreshServerDoes, Zenon DEF Renewed
  <2>2. ghost.excused \subseteq ghost'.excused
    BY <2>1 DEF GhostOf
  <2> QED  BY <2>1, <2>2, EmissionFrame, Zenon
<1> QED  BY <1>1, <1>2, ClientEffect

LEMMA TypesServer ==
  ASSUME Types, TaskShape, Server
  PROVE  Types'
<1> USE DEF Tasks
<1>1. UNCHANGED client
  BY DEF Server
<1>2. ASSUME NEW e \in Emitters, Persist(e) \/ Publish(e) PROVE Types'
  BY <1>1, <1>2, PersistTyped, PublishTyped
<1>3. CASE FwdSkip \/ FwdBuffer \/ FwdTake \/ FwdSend \/ FwdMark \/ FwdLagged
  BY <1>1, <1>3, FwdSkipTyped, FwdBufferTyped, FwdTakeTyped, FwdSendTyped, FwdMarkTyped, FwdLaggedTyped
<1>4. CASE Subscribe \/ Unsubscribe \/ ReadHistory \/ Reply
  BY <1>1, <1>4, SubscribeTyped, UnsubscribeTyped, ReadHistoryTyped, ReplyTyped
<1>5. ASSUME NEW t \in Tasks, ReplayPage(t) \/ ReplayFails(t) \/ ReplaySend(t) \/ ReplayDone(t) PROVE Types'
  BY <1>1, <1>5, ReplayPageTyped, ReplayFailsTyped, ReplaySendTyped, ReplayDoneTyped
<1>6. ASSUME NEW t \in Tasks, Drain(t) \/ FlushSend(t) \/ FlushMark(t) \/ BeginFullReload(t) \/ SendFullReload(t)
      PROVE Types'
  BY <1>1, <1>6, DrainTyped, FlushSendTyped, FlushMarkTyped, BeginTyped, AnnounceTyped
<1> QED  BY <1>2, <1>3, <1>4, <1>5, <1>6 DEF Server, Forwarding, Commands, Replaying

LEMMA TypesKept ==
  ASSUME Types, TaskShape, [Next]_vars
  PROVE  Types'
<1>1. CASE UNCHANGED vars
  BY <1>1, ClientFrame, ChannelFrame, SessionFrame, SocketFrame, Parts DEF vars, client, Types
<1> QED  BY <1>1, TypesServer, ClientEffect DEF Next

LEMMA ShapeKept ==
  ASSUME Types, Shape, [Next]_vars
  PROVE  Shape'
<1>1. CASE Server
  BY <1>1, TaskShapeServer, SessionShapeServer, EmissionServer DEF Shape
<1>2. CASE Client
  BY <1>2, TaskShapeClient, SessionShapeClient, EmissionClient DEF Shape
<1>3. CASE UNCHANGED vars
  <2>1. TaskShape'
    BY <1>3, TasksHold DEF Shape, vars
  <2>2. Emission'
    BY <1>3, EmissionFrame DEF Shape, vars
  <2>3. SessionShape'
    BY <1>3 DEF Shape, vars, SessionShape
  <2> QED  BY <2>1, <2>2, <2>3 DEF Shape
<1> QED  BY <1>1, <1>2, <1>3 DEF Next

LEMMA ShapeInit == Init => Shape
<1> SUFFICES ASSUME Init PROVE Shape
  OBVIOUS
<1>1. TaskShape
  <2>1. \A t \in Tasks : task[t] = Idle
    BY DEF Init, NewTasks, Tasks
  <2> QED  BY <2>1, TasksHold, IdleHolds
<1>2. SessionShape
  <2>1. task["fwd"] = Idle /\ sess = NewSession /\ ~lagged /\ conn = "up" /\ ghost.gone = {} /\ ghost.owed = {}
    BY DEF Init, NewTasks, NoGhost
  <2> QED  BY <2>1 DEF SessionShape, NewSession, Idle, InReplay
<1>3. Emission
  <2>1. held = [e \in Emitters |-> 0] /\ log = 0 /\ chan = <<>> /\ DOMAIN <<>> = {}
    BY DEF Init
  <2>2. Held = {} /\ Numbers = {} /\ Range(chan) = {} /\ DOMAIN chan = {}
    BY <2>1 DEF Held, Numbers, Range
  <2> QED  BY <2>1, <2>2 DEF Emission
<1> QED  BY <1>1, <1>2, <1>3 DEF Shape

LEMMA TypesAlways == Spec => [](Types /\ Shape)
<1>1. Init => Types /\ Shape
  BY InitTyped, ShapeInit
<1>2. Types /\ Shape /\ [Next]_vars => (Types /\ Shape)'
  BY TypesKept, ShapeKept DEF Shape
<1> QED  BY <1>1, <1>2, PTL DEF Spec

LEMMA TypesImplyTypeOK == Types => TypeOK
<1> SUFFICES ASSUME Types PROVE TypeOK
  OBVIOUS
<1>1. /\ log \in Nat /\ log \in Seqs /\ MaxEvents \in Nat
  BY Parts, WsSessionAssumption DEF Types, ChannelTypes
<1>2. 0 .. log \subseteq Seqs /\ Numbers \subseteq Seqs
  BY <1>1 DEF Seqs, Numbers
<1>3. Seq(Numbers) \subseteq Seq(Seqs)
  BY <1>2
<1>4. held \in [Emitters -> Seqs] /\ chan \in Seq(Seqs) /\ Len(chan) <= ChanCap /\ lagged \in BOOLEAN
      /\ conn \in {"up", "closing", "down"}
  BY <1>2, <1>3 DEF Types, ChannelTypes
<1>5. sess \in [sub : BOOLEAN, cp : Seqs, rep : BOOLEAN, buf : Seq(Seqs), pend : BOOLEAN]
      /\ Len(sess.buf) <= BufCap
  BY <1>2, <1>3 DEF Types, SessionTypes, Session
<1>6. tr \in [last : Seqs, intent : BOOLEAN, live : BOOLEAN, susp : BOOLEAN,
               need : BOOLEAN, att : {"none", "own", "resub"}, old : Nat]
  BY <1>2 DEF Types, ClientTypes, Transport
<1>7. mw \in [load : BOOLEAN, buf : Seq(Seqs), reload : 0 .. Attempts, again : BOOLEAN]
  BY <1>3 DEF Types, ClientTypes, Middleware
<1>8. st \in [page : {"closed", "open", "failed"},
               pc : {"idle", "start", "history", "hung", "ack", "retry"},
               last : Seqs, timeline : Seq(Seqs), stale : Nat]
  BY <1>2, <1>3 DEF Types, ClientTypes, Store
<1> QED  BY <1>1, <1>4, <1>5, <1>6, <1>7, <1>8 DEF TypeOK

(* The variables of both sides hold what their types say: for any number of *)
(* events, connections, faults and visits, and any sizes of the broadcast   *)
(* channel, the replay buffer and a page of the log.                        *)
THEOREM DeliveryTyped == Spec => []TypeOK
BY TypesAlways, TypesImplyTypeOK, PTL

-----------------------------------------------------------------------------
(* The protocol is preserved.  The client's modes. *)

LEMMA WireMeansUp ==
  ASSUME SessionShape, wire # <<>> \/ up # <<>>
  PROVE  conn = "up"
BY DownIsStill

(* The answer that comes first. *)
LEMMA Counts ==
  ASSUME Types
  PROVE  /\ Number(up, {"load"}) \in Nat /\ Number(wire, Histories) \in Nat
         /\ One(Answering) \in {0, 1} /\ One(st.pc = "history") \in {0, 1} /\ st.stale \in Nat
         /\ up \in Seq(Message(Requests)) /\ wire \in Seq(Message(Deliveries))
BY PlacesFinite, ClientFields DEF Types, SocketTypes, One

LEMMA AnswerIsAwaited ==
  ASSUME Types, SessionShape, Answers, wire # <<>>, wire[1].kind \in Histories, st.stale = 0
  PROVE  /\ st.pc = "history" /\ ~Answering
         /\ \A i \in DOMAIN up : up[i].kind # "load"
         /\ \A i \in DOMAIN wire : wire[i].kind \in Histories => i = 1
<1>1. Number(up, {"load"}) + Number(wire, Histories) + One(Answering) = 0 + One(st.pc = "history")
  BY WireMeansUp DEF Answers
<1>2. wire \in Seq(Message(Deliveries)) /\ 1 \in DOMAIN wire /\ up \in Seq(Message(Requests))
  BY Counts, FirstMessage
<1>3. Number(wire, Histories) >= 1
  BY <1>2, NumberOfSome
<1>4. Number(up, {"load"}) = 0 /\ Number(wire, Histories) = 1 /\ One(Answering) = 0 /\ One(st.pc = "history") = 1
  BY <1>1, <1>3, Counts
<1>5. st.pc = "history" /\ ~Answering
  BY <1>4 DEF One
<1>6. \A i \in DOMAIN up : up[i].kind \notin {"load"}
  BY <1>2, <1>4, NumberIsZero
<1>7. \A i \in DOMAIN wire : wire[i].kind \in Histories => i = 1
  BY <1>2, <1>4, NumberOfSome
<1> QED  BY <1>5, <1>6, <1>7

LEMMA ModesFrame ==
  ASSUME Modes, UNCHANGED <<st, conn>>, mw'.load = mw.load, mw'.reload = mw.reload, mw'.again = mw.again
  PROVE  Modes'
BY DEF Modes

LEMMA ModesAfterFailure ==
  ASSUME Types, Modes, NEW stale \in Nat, LoadFailed(stale), conn' = "down" => stale = 0
  PROVE  Modes'
<1>1. /\ mw'.load = FALSE /\ mw'.again = (mw.again /\ mw.reload # 1)
      /\ mw'.reload = IF mw.reload = 0 THEN 0 ELSE mw.reload - 1
      /\ st'.page = "failed" /\ st'.stale = stale /\ st'.pc = IF mw.reload > 1 THEN "retry" ELSE "idle"
  BY LoadFailedDoes, Zenon
<1>2. mw.reload \in Nat
  BY ClientFields
<1>3. mw.again => mw.reload > 0
  BY DEF Modes
<1>4. mw'.again => mw'.reload > 0
  <2> SUFFICES ASSUME mw'.again PROVE mw'.reload > 0
    OBVIOUS
  <2>1. mw.again /\ mw.reload # 1
    <3>1. mw'.again = (mw.again /\ mw.reload # 1)
      BY <1>1, Zenon
    <3> QED  BY <3>1, Zenon
  <2>2. mw.reload > 0
    BY <1>3, <2>1
  <2>3. mw'.reload = IF mw.reload = 0 THEN 0 ELSE mw.reload - 1
    BY <1>1
  <2> QED  BY <1>2, <2>1, <2>2, <2>3
<1>5. mw'.reload > 0 => st'.pc = "retry"
  BY <1>1, <1>2
<1>6. st'.pc \in {"idle", "retry"} /\ st'.page = "failed" /\ st'.stale = stale
  BY <1>1
<1> QED  BY <1>4, <1>5, <1>6 DEF Modes

LEMMA ModesReload ==
  ASSUME Types, Modes, RequestFullReload, conn = "up", conn' = conn, st.page # "closed"
  PROVE  Modes'
<1>1. Attempts \in Nat /\ Attempts > 0
  BY WsDeliveryAssumption
<1>2. CASE /\ mw.reload > 0 /\ mw'.again = TRUE /\ mw'.reload = mw.reload /\ mw'.load = mw.load /\ st' = st
  <2>1. mw'.again => mw'.reload > 0
    BY <1>2
  <2> QED  BY <1>2, <2>1 DEF Modes
<1>3. CASE /\ mw'.load = TRUE /\ mw'.reload = Attempts
           /\ st'.page = "open" /\ st'.pc = "start"
  BY <1>1, <1>3 DEF Modes
<1> QED  BY <1>2, <1>3, RequestFullReloadDoes, Zenon

LEMMA ClosedModes ==
  ASSUME Types, Modes, st.page = "closed"
  PROVE  st.pc = "idle" /\ mw.reload = 0 /\ ~mw.again
<1>1. st.pc = "idle"
  BY ClientFields DEF Modes
<1> QED  BY <1>1, ClientFields DEF Modes

LEMMA ModesConnectionLost ==
  ASSUME Types, Modes, ConnectionLost
  PROVE  Modes'
<1>1. conn' = "down"
  BY ConnectionLostDoes
<1>2. CASE LoadFailed(0)
  <2>1. 0 \in Nat
    OBVIOUS
  <2> QED  BY <1>2, <2>1, ModesAfterFailure
<1>3. CASE /\ st.pc \notin {"history", "ack", "hung"} /\ mw' = mw
           /\ st'.page = st.page /\ st'.pc = st.pc /\ st'.stale = 0
  BY <1>1, <1>3 DEF Modes
<1> QED  BY <1>2, <1>3, ConnectionLostDoes

LEMMA ModesSubscriptionFailed ==
  ASSUME Types, Modes, SubscriptionFailed, UNCHANGED <<log, held>>
  PROVE  Modes'
<1>1. conn' = "closing"
  BY SubscriptionFailedDoes
<1>2. CASE LoadFailed(st.stale)
  BY <1>1, <1>2, ClientFields, ModesAfterFailure
<1>3. CASE st.pc # "ack" /\ UNCHANGED <<mw, st>>
  BY <1>1, <1>3 DEF Modes
<1> QED  BY <1>2, <1>3, SubscriptionFailedDoes

LEMMA ModesClient ==
  ASSUME Types, SessionShape, Modes, Answers, Client
  PROVE  Modes'
<1>0. mw.reload \in Nat /\ st.stale \in Nat
  BY ClientFields
<1>1. CASE OpenRun
  <2>1. st.pc = "idle" /\ mw.reload = 0 /\ ~mw.again
    BY <1>1, OpenRunDoes, ClosedModes
  <2>2. One(st.pc = "history") = 0
    BY <2>1 DEF One
  <2>3. /\ mw'.load = TRUE /\ mw'.reload = 0 /\ ~mw'.again /\ conn' = conn
        /\ st'.page = "open" /\ st'.pc = "start" /\ st'.stale = st.stale + 0
    BY <1>1, <2>1, <2>2, OpenRunDoes, Zenon
  <2>4. st'.stale = st.stale
    BY <1>0, <2>3
  <2> QED  BY <2>3, <2>4 DEF Modes
<1>2. CASE StartSession
  <2>1. st.pc = "idle" /\ mw.reload = 0 /\ ~mw.again
    BY <1>2, StartSessionDoes, ClosedModes
  <2> QED  BY <1>2, <2>1, StartSessionDoes DEF Modes
<1>3. CASE LeaveRun
  <2>1. conn = "down" => One(st.pc = "history") = 0 /\ st.stale = 0
    BY DEF Modes, One
  <2> QED  BY <1>3, <2>1, LeaveRunDoes DEF Modes, NewMiddleware
<1>4. CASE RequestHistory
  BY <1>4, RequestHistoryDoes DEF Modes
<1>5. CASE RetryReload
  <2>1. One(st.pc = "history") = 0
    BY <1>5, RetryReloadDoes DEF One
  <2>2. /\ mw'.load = TRUE /\ mw'.reload = mw.reload /\ mw'.again = mw.again /\ conn' = conn
        /\ st'.page = "open" /\ st'.pc = "start" /\ st'.stale = st.stale + 0
    BY <1>5, <2>1, RetryReloadDoes, Zenon
  <2>3. st'.stale = st.stale
    BY <1>0, <2>2
  <2> QED  BY <2>2, <2>3 DEF Modes
<1>6. CASE Flush
  <2>1. /\ mw'.load = mw.load /\ mw'.reload = mw.reload /\ mw'.again = mw.again /\ conn' = conn
        /\ st'.page = st.page /\ st'.pc = st.pc /\ st'.stale = st.stale
    BY <1>6, FlushDoes
  <2> QED  BY <2>1 DEF Modes
<1>7. CASE Connect
  BY <1>7, ConnectDoes DEF Modes
<1>8. CASE ConnectFails
  <2>1. 0 \in Nat
    OBVIOUS
  <2> QED  BY <1>8, <2>1, ConnectFailsDoes, ModesAfterFailure
<1>9. CASE Drop
  BY <1>9, DropTyped, ModesConnectionLost
<1>10. CASE OnClose
  BY <1>10, OnCloseTyped, ModesConnectionLost
<1>11. CASE Supersede
  <2>1. /\ mw' = mw /\ conn = "closing" /\ conn' = "up"
        /\ st'.page = st.page /\ st'.stale = 0 /\ st'.pc = IF st.pc = "history" THEN "hung" ELSE st.pc
    BY <1>11, SupersedeDoes
  <2> QED  BY <2>1 DEF Modes
<1>12. CASE SubscribeTimeout
  BY <1>12, SubscribeTimeoutDoes, ModesSubscriptionFailed
<1>13. CASE OnEvent
  <2>1. UNCHANGED <<st, conn>> /\ mw'.load = mw.load /\ mw'.reload = mw.reload /\ mw'.again = mw.again
    BY <1>13, OnEventDoes DEF Handled
  <2> QED  BY <2>1, ModesFrame
<1>14. CASE OnFullReload
  <2>1. conn' = conn /\ conn = "up"
    BY <1>14, OnFullReloadDoes, WireMeansUp DEF Handled
  <2> QED  BY <1>14, <2>1, OnFullReloadDoes, ModesFrame, ModesReload
<1>15. CASE OnHistory
  <2>1. conn' = conn /\ conn = "up" /\ mw' = mw
    BY <1>15, OnHistoryDoes, WireMeansUp DEF Handled
  <2>2. CASE st'.page = st.page /\ st'.pc = st.pc
    BY <2>1, <2>2 DEF Modes
  <2>3. CASE st.stale = 0 /\ st'.page = st.page /\ st'.pc = "ack"
    <3>1. wire # <<>> /\ wire[1].kind \in Histories
      BY <1>15, OnHistoryDoes DEF Handled, Histories
    <3>2. st.pc = "history"
      BY <2>3, <3>1, AnswerIsAwaited
    <3> QED  BY <2>1, <2>3, <3>2 DEF Modes
  <2> QED  BY <1>15, <2>2, <2>3, OnHistoryDoes
<1>16. CASE OnNoHistory
  <2>1. conn' = conn /\ conn = "up"
    BY <1>16, OnNoHistoryDoes, WireMeansUp DEF Handled
  <2>2. CASE mw' = mw /\ st'.page = st.page /\ st'.pc = st.pc
    BY <2>1, <2>2 DEF Modes
  <2>3. CASE LoadFailed(0)
    <3>1. 0 \in Nat
      OBVIOUS
    <3> QED  BY <2>3, <3>1, ModesAfterFailure
  <2> QED  BY <1>16, <2>2, <2>3, OnNoHistoryDoes
<1>17. CASE OnAck
  <2>1. conn' = conn /\ conn = "up"
    BY <1>17, OnAckDoes, WireMeansUp DEF Handled
  <2>2. CASE UNCHANGED <<mw, st>>
    BY <2>1, <2>2, ModesFrame
  <2>3. CASE st.pc = "ack" /\ LoadFinished
    <3>1. Attempts \in Nat /\ Attempts > 0
      BY WsDeliveryAssumption
    <3>2. CASE /\ mw'.again = FALSE /\ mw'.reload = Attempts /\ mw'.load = TRUE
               /\ st'.page = "open" /\ st'.pc = "start"
      BY <2>1, <3>1, <3>2 DEF Modes
    <3>3. CASE mw' = NewMiddleware /\ st'.page = st.page /\ st'.pc = "idle"
      <4>1. mw'.again = FALSE /\ mw'.reload = 0
        BY <3>3 DEF NewMiddleware
      <4> QED  BY <2>1, <3>3, <4>1 DEF Modes
    <3> QED  BY <2>3, <3>2, <3>3, LoadFinishedDoes, Zenon
  <2> QED  BY <1>17, <2>2, <2>3, OnAckDoes
<1>18. CASE OnNack
  <2>1. CASE Handled /\ UNCHANGED <<mw, st>>
    BY <2>1, ModesFrame DEF Handled
  <2>2. CASE SubscriptionFailed /\ UNCHANGED <<log, held>>
    BY <2>2, ModesSubscriptionFailed
  <2> QED  BY <1>18, <2>1, <2>2, OnNackDoes
<1> QED
  BY <1>1, <1>2, <1>3, <1>4, <1>5, <1>6, <1>7, <1>8, <1>9, <1>10, <1>11, <1>12, <1>13, <1>14,
     <1>15, <1>16, <1>17, <1>18 DEF Client, Receive

(* Each history load has one answer. *)

Awaited(u, w, a, s) == Number(u, {"load"}) + Number(w, Histories) + One(a) = s.stale + One(s.pc = "history")

LEMMA AnswersAre ==
  /\ Answers <=> (conn = "up" => Awaited(up, wire, Answering, st))
  /\ Answers' <=> (conn' = "up" => Awaited(up', wire', Answering', st'))
<1>1. Answers <=> (conn = "up" => Awaited(up, wire, Answering, st))
  BY DEF Answers, Awaited
<1>2. Answers' <=> (conn' = "up" => Awaited(up', wire', Answering', st'))
  BY DEF Answers, Awaited, Number, Places, One, Histories
<1> QED  BY <1>1, <1>2

LEMMA AnswersFrame ==
  ASSUME Types, Answers, UNCHANGED <<conn, st, up>>, Answering' = Answering,
         \/ wire' = wire
         \/ \E m \in Message(Deliveries) : m.kind \notin Histories /\ wire' = Append(wire, m)
  PROVE  Answers'
<1>1. Number(wire', Histories) = Number(wire, Histories)
  <2>1. CASE wire' = wire
    BY <2>1
  <2>2. ASSUME NEW m \in Message(Deliveries), m.kind \notin Histories, wire' = Append(wire, m)
        PROVE  Number(wire', Histories) = Number(wire, Histories)
    <3>1. Number(wire', Histories) = Number(wire, Histories) + One(m.kind \in Histories)
      BY <2>2, Counts, NumberOfAppend
    <3>2. One(m.kind \in Histories) = 0
      BY <2>2 DEF One
    <3> QED  BY <3>1, <3>2, Counts
  <2> QED  BY <2>1, <2>2
<1> QED  BY <1>1, AnswersAre DEF Awaited

LEMMA AnsweringFrame ==
  ASSUME task'["cmd"].pc = task["cmd"].pc, task'["cmd"].reply = task["cmd"].reply
  PROVE  Answering' = Answering
BY DEF Answering, Histories

LEMMA NotAnswering ==
  ASSUME \/ task["cmd"].pc # "reply" \/ task["cmd"].reply.kind \in {"ack", "nack"},
         \/ task'["cmd"].pc # "reply" \/ task'["cmd"].reply.kind \in {"ack", "nack"}
  PROVE  Answering' = Answering
<1>1. ~Answering /\ ~Answering'
  BY DEF Answering, Histories
<1> QED  BY <1>1 DEF Answering

LEMMA AnswersTaken ==
  ASSUME Types, Answers, NEW kind, Taking(kind), UNCHANGED <<conn, st, wire>>,
         IF kind = "load" THEN ~Answering /\ Answering' ELSE Answering' = Answering
  PROVE  Answers'
<1>1. up \in Seq(Message(Requests)) /\ up # <<>> /\ Head(up).kind = kind /\ up' = Tail(up)
      /\ up' \in Seq(Message(Requests))
  BY Counts DEF Taking
<1>2. Number(up, {"load"}) = Number(up', {"load"}) + One(Head(up).kind \in {"load"})
  BY <1>1, NumberOfTail
<1>3. CASE kind = "load"
  <2>1. One(Head(up).kind \in {"load"}) = 1 /\ One(Answering) = 0 /\ One(Answering') = 1
    BY <1>1, <1>3 DEF One
  <2>2. Number(up, {"load"}) = Number(up', {"load"}) + 1
    BY <1>2, <2>1
  <2>3. Number(up', {"load"}) \in Nat
    BY <1>1, PlacesFinite, Zenon
  <2> QED  BY <2>1, <2>2, <2>3, AnswersAre, Counts DEF Awaited
<1>4. CASE kind # "load"
  <2>1. One(Head(up).kind \in {"load"}) = 0
    BY <1>1, <1>4 DEF One
  <2>2. Number(up', {"load"}) \in Nat
    BY <1>1, PlacesFinite, Zenon
  <2>3. Number(up, {"load"}) = Number(up', {"load"})
    BY <1>2, <2>1, <2>2
  <2> QED  BY <1>4, <2>3, AnswersAre DEF Awaited
<1> QED  BY <1>3, <1>4

LEMMA EventIsNoAnswer ==
  ASSUME Types, NEW s \in 0 .. log, NEW k \in {"event", "reload"}
  PROVE  Msg(k, s) \in Message(Deliveries) /\ Msg(k, s).kind \notin Histories
<1>1. k \in Deliveries /\ k \notin Histories
  BY DEF Deliveries, Histories
<1> QED  BY <1>1, LogIsNat, MsgTyped, Zenon

LEMMA AnswersServer ==
  ASSUME Types, TaskShape, Answers, Server
  PROVE  Answers'
<1> USE DEF Tasks
<1>0. st' = st
  BY DEF Server, client
<1>00. task["cmd"].pc \in InReplay \cup {"flush", "announce"} => task["cmd"].reply.kind \in {"ack", "nack"}
  BY DEF TaskShape, CmdShape
<1>1. ASSUME NEW e \in Emitters, Persist(e) \/ Publish(e) PROVE Answers'
  BY <1>0, <1>1, AnswersFrame, AnsweringFrame DEF Persist, Publish
<1>2. CASE FwdSkip \/ FwdBuffer
  BY <1>0, <1>2, AnswersFrame, AnsweringFrame DEF FwdSkip, FwdBuffer, Receiving
<1>3. CASE FwdTake \/ FwdMark \/ FwdLagged
  BY <1>0, <1>3, AnswersFrame, AnsweringFrame, FwdTakeDoes, FwdMarkDoes, FwdLaggedDoes, Zenon
<1>4. CASE FwdSend
  BY <1>0, <1>4, AnswersFrame, AnsweringFrame, FwdSendDoes, EventIsNoAnswer, TaskTyped
<1>5. ASSUME NEW t \in Tasks, ReplayPage(t) \/ ReplayFails(t) \/ ReplayDone(t) \/ Drain(t) \/ FlushMark(t) \/ BeginFullReload(t)
      PROVE  Answers'
  <2>1. UNCHANGED <<conn, up, wire>>
    BY <1>5 DEF ReplayPage, ReplayFails, ReplayDone, Drain, FlushMark, BeginFullReload
  <2>2. Answering' = Answering
    <3>1. CASE t = "fwd"
      <4>1. task'["cmd"] = task["cmd"]
        BY <1>5, <3>1, ReplayPageDoes, ReplayFailsDoes, ReplayDoneDoes, DrainDoes, FlushMarkDoes, BeginDoes, Zenon DEF Others
      <4> QED  BY <4>1, AnsweringFrame
    <3>2. CASE t = "cmd"
      <4>1. task["cmd"].pc # "reply"
        BY <1>5, <3>2 DEF ReplayPage, ReplayFails, ReplayDone, Drain, FlushMark, BeginFullReload, AtPage
      <4>2. CASE ReplayPage(t)
        BY <3>2, <4>1, <4>2, ReplayPageDoes, NotAnswering DEF JobOf
      <4>3. CASE ReplayFails(t)
        BY <3>2, <4>1, <4>3, ReplayFailsDoes, NotAnswering DEF JobOf
      <4>4. CASE ReplayDone(t)
        BY <3>2, <4>1, <4>4, ReplayDoneDoes, NotAnswering DEF JobOf
      <4>5. CASE FlushMark(t)
        BY <3>2, <4>1, <4>5, FlushMarkDoes, NotAnswering DEF JobOf, With
      <4>6. CASE Drain(t)
        <5>1. task[t].pc = "drain" /\ task[t].reply.kind \in {"ack", "nack"}
          BY <1>00, <3>2, <4>6, DrainDoes DEF InReplay
        <5>2. \/ task'[t] = Leaves(t)
              \/ task'[t] = JobOf("reload", task[t].out, task[t].pos, task[t].max, task[t].more, Msg("nack", 0))
              \/ task'[t] = With(t, "flush", Above(DrainTo(t), sess.buf))
          BY <4>6, DrainDoes, Zenon
        <5>3. task'[t].pc # "reply" \/ task'[t].reply.kind \in {"ack", "nack"}
          BY <3>2, <5>1, <5>2, LeavesIs DEF JobOf, With
        <5> QED  BY <3>2, <4>1, <5>3, NotAnswering
      <4>7. CASE BeginFullReload(t)
        <5>1. task[t].pc = "reload" /\ task[t].reply.kind \in {"ack", "nack"}
          BY <1>00, <3>2, <4>7, BeginDoes DEF InReplay
        <5>2. task'[t] = Leaves(t) \/ task'[t] = With(t, "announce", task[t].out)
          BY <4>7, BeginDoes, Zenon
        <5>3. task'[t].pc # "reply" \/ task'[t].reply.kind \in {"ack", "nack"}
          BY <3>2, <5>1, <5>2, LeavesIs DEF JobOf, With
        <5> QED  BY <3>2, <4>1, <5>3, NotAnswering
      <4> QED  BY <1>5, <4>2, <4>3, <4>4, <4>5, <4>6, <4>7
    <3> QED  BY <3>1, <3>2
  <2> QED  BY <1>0, <2>1, <2>2, AnswersFrame
<1>6. ASSUME NEW t \in Tasks, ReplaySend(t) \/ FlushSend(t) PROVE Answers'
  <2>1. /\ UNCHANGED <<conn, up>> /\ task[t].out # <<>> /\ wire' = Append(wire, Msg("event", Head(task[t].out)))
        /\ Others(t) /\ task[t].pc \in {"send", "flush"} /\ task'[t].pc \in {"send", "flush"}
    <3>1. CASE ReplaySend(t)
      BY <3>1, ReplaySendDoes, JobGives
    <3>2. CASE FlushSend(t)
      BY <3>2, FlushSendDoes, JobGives
    <3> QED  BY <1>6, <3>1, <3>2
  <2>2. Answering' = Answering
    BY <2>1, AnsweringFrame, NotAnswering DEF Others
  <2>3. Head(task[t].out) \in 0 .. log
    BY <2>1, FirstOut
  <2> QED  BY <1>0, <2>1, <2>2, <2>3, AnswersFrame, EventIsNoAnswer
<1>7. ASSUME NEW t \in Tasks, SendFullReload(t) PROVE Answers'
  <2>1. /\ UNCHANGED <<conn, up>> /\ wire' = Append(wire, Msg("reload", 0))
        /\ Others(t) /\ task[t].pc = "announce" /\ task'[t] = Leaves(t)
    BY <1>7, AnnounceDoes
  <2>2. Answering' = Answering
    <3>1. CASE t = "fwd"
      BY <2>1, <3>1, AnsweringFrame DEF Others
    <3>2. CASE t = "cmd"
      BY <1>00, <2>1, <3>2, LeavesIs, NotAnswering
    <3> QED  BY <3>1, <3>2
  <2> QED  BY <1>0, <2>1, <2>2, LogIsNat, AnswersFrame, EventIsNoAnswer
<1>8. CASE Subscribe
  <2>1. Answering' = Answering
    <3>1. PICK p, q : task'["cmd"] = JobOf(p, <<>>, q, 0, FALSE, Msg("ack", 0))
      BY <1>8, SubscribeDoes, Zenon
    <3>2. task["cmd"].pc = "idle" /\ task'["cmd"].reply.kind = "ack"
      BY <1>8, <3>1, SubscribeDoes DEF JobOf, Msg
    <3> QED  BY <3>2, NotAnswering
  <2> QED  BY <1>0, <1>8, <2>1, AnswersTaken DEF Subscribe
<1>9. CASE Unsubscribe
  <2>1. Answering' = Answering
    BY <1>9, AnsweringFrame DEF Unsubscribe
  <2> QED  BY <1>0, <1>9, <2>1, AnswersTaken DEF Unsubscribe
<1>10. CASE ReadHistory
  <2>1. ~Answering
    BY <1>10, ReadHistoryDoes DEF Answering
  <2>2. Answering'
    BY <1>10, ReadHistoryDoes DEF JobOf, Msg, Answering, Histories
  <2> QED  BY <1>0, <1>10, <2>1, <2>2, AnswersTaken, Zenon DEF ReadHistory
<1>11. CASE Reply
  <2>1. /\ UNCHANGED <<conn, up>> /\ task["cmd"].pc = "reply" /\ task'["cmd"] = Idle
        /\ wire' = Append(wire, task["cmd"].reply) /\ task["cmd"].reply \in Message(Deliveries)
    <3>1. task["cmd"].reply \in Message(Deliveries)
      <4>1. task["cmd"].reply \in Message(Replies) /\ task["cmd"].reply.kind # "none"
        BY <1>11, TaskTyped, ReplyDoes DEF TaskShape, CmdShape
      <4> QED  BY <4>1 DEF Message, Replies, Deliveries
    <3> QED  BY <1>11, <3>1, ReplyDoes
  <2>2. Number(wire', Histories) = Number(wire, Histories) + One(task["cmd"].reply.kind \in Histories)
    BY <2>1, Counts, NumberOfAppend
  <2>3. One(Answering) = One(task["cmd"].reply.kind \in Histories) /\ One(Answering') = 0
    <3>1. Answering <=> task["cmd"].reply.kind \in Histories
      BY <2>1 DEF Answering
    <3>2. ~Answering'
      BY <2>1 DEF Answering, Idle
    <3> QED  BY <3>1, <3>2 DEF One
  <2> QED  BY <1>0, <2>1, <2>2, <2>3, AnswersAre, Counts DEF Awaited
<1> QED
  BY <1>1, <1>2, <1>3, <1>4, <1>5, <1>6, <1>7, <1>8, <1>9, <1>10, <1>11 DEF Server, Forwarding, Commands, Replaying

NoLoadAsked == up' = up \/ \E m \in Message(Requests) : m.kind # "load" /\ up' = Append(up, m)
NoAnswerTaken == wire' = wire \/ (wire # <<>> /\ wire' = Tail(wire) /\ wire[1].kind \notin Histories)

LEMMA LoadsSame ==
  ASSUME Types, NoLoadAsked
  PROVE  Number(up', {"load"}) = Number(up, {"load"})
<1>1. CASE up' = up
  BY <1>1
<1>2. ASSUME NEW m \in Message(Requests), m.kind # "load", up' = Append(up, m)
      PROVE  Number(up', {"load"}) = Number(up, {"load"})
  <2>1. Number(up', {"load"}) = Number(up, {"load"}) + One(m.kind \in {"load"})
    BY <1>2, Counts, NumberOfAppend
  <2>2. One(m.kind \in {"load"}) = 0
    BY <1>2 DEF One
  <2> QED  BY <2>1, <2>2, Counts
<1> QED  BY <1>1, <1>2 DEF NoLoadAsked

LEMMA AnswersSame ==
  ASSUME Types, NoAnswerTaken
  PROVE  Number(wire', Histories) = Number(wire, Histories)
<1>1. CASE wire' = wire
  BY <1>1
<1>2. CASE wire # <<>> /\ wire' = Tail(wire) /\ wire[1].kind \notin Histories
  <2>1. Number(wire, Histories) = Number(wire', Histories) + One(Head(wire).kind \in Histories)
    BY <1>2, Counts, NumberOfTail
  <2>2. One(Head(wire).kind \in Histories) = 0
    BY <1>2, FirstMessage DEF One
  <2>3. Number(wire', Histories) \in Nat
    BY <1>2, FirstMessage, PlacesFinite, Zenon
  <2> QED  BY <2>1, <2>2, <2>3
<1> QED  BY <1>1, <1>2 DEF NoAnswerTaken

LEMMA AnswersQuiet ==
  ASSUME Types, Answers, UNCHANGED <<conn, task>>, NoLoadAsked, NoAnswerTaken,
         st'.stale + One(st'.pc = "history") = st.stale + One(st.pc = "history")
  PROVE  Answers'
<1>1. Answering' = Answering
  BY AnsweringFrame
<1>2. Number(up', {"load"}) = Number(up, {"load"}) /\ Number(wire', Histories) = Number(wire, Histories)
  BY LoadsSame, AnswersSame
<1> QED  BY <1>1, <1>2, AnswersAre DEF Awaited

LEMMA AnswersFresh ==
  ASSUME Types, task'["cmd"] = Idle, wire' = <<>>, NEW n, up' = <<>> \/ up' = <<Msg("subscribe", n)>>,
         up' \in Seq(Message(Requests)), st'.stale = 0, st'.pc # "history"
  PROVE  Answers'
<1>1. Number(up', {"load"}) = 0
  <2>1. \A i \in DOMAIN up' : up'[i].kind \notin {"load"}
    BY DEF Msg
  <2> QED  BY <2>1, NumberIsZero
<1>2. Number(wire', Histories) = 0
  BY NumberOfNone
<1>3. One(Answering') = 0 /\ One(st'.pc = "history") = 0
  BY DEF Answering, Idle, One
<1> QED  BY <1>1, <1>2, <1>3, AnswersAre DEF Awaited

LEMMA AnswersDown ==
  ASSUME conn' # "up"
  PROVE  Answers'
BY DEF Answers

LEMMA AskedIs ==
  ASSUME Types, NEW k \in {"subscribe", "unsubscribe"}, NEW s \in 0 .. log, up' = Append(up, Msg(k, s))
  PROVE  NoLoadAsked
<1>1. k \in Requests
  BY DEF Requests
<1> QED  BY <1>1, RequestTyped DEF NoLoadAsked

LEMMA OneLess ==
  ASSUME NEW a \in Nat, NEW b \in Nat, NEW w \in Nat, NEW c \in Nat, NEW d \in Nat, NEW x \in Nat, NEW e \in Nat,
         w = b + 1, x = d + 1, a + w + c = x + e
  PROVE  a + b + c = d + e
OBVIOUS

LEMMA AnswersClient ==
  ASSUME Types, SessionShape, Modes, Answers, Client
  PROVE  Answers'
<1>0. 0 \in 0 .. log /\ mw.reload \in Nat /\ st.stale \in Nat
  BY ClientFields, LogIsNat
<1>1. CASE OpenRun
  <2>1. st'.stale + One(st'.pc = "history") = st.stale + One(st.pc = "history")
    BY <1>1, OpenRunDoes, Counts DEF One
  <2> QED  BY <1>1, <2>1, OpenRunDoes, AnswersQuiet DEF NoLoadAsked, NoAnswerTaken
<1>2. CASE StartSession
  <2>1. NoLoadAsked
    BY <1>0, <1>2, StartSessionDoes, AskedIs
  <2> QED  BY <1>2, <2>1, StartSessionDoes, AnswersQuiet DEF NoAnswerTaken
<1>3. CASE LeaveRun
  <2>1. st'.stale + One(st'.pc = "history") = st.stale + One(st.pc = "history")
    BY <1>3, LeaveRunDoes, Counts DEF One
  <2>2. NoLoadAsked
    <3>1. up' = Append(up, Msg("unsubscribe", 0)) => NoLoadAsked
      BY <1>0, AskedIs
    <3> QED  BY <1>3, <3>1, LeaveRunDoes DEF NoLoadAsked
  <2> QED  BY <1>3, <2>1, <2>2, LeaveRunDoes, AnswersQuiet DEF NoAnswerTaken
<1>4. CASE RequestHistory
  <2>1. /\ UNCHANGED <<task, conn, wire>> /\ st.pc = "start" /\ st'.pc = "history" /\ st'.stale = st.stale
        /\ up' = Append(up, Msg("load", 0))
    BY <1>4, RequestHistoryDoes
  <2>2. Msg("load", 0) \in Message(Requests) /\ Msg("load", 0).kind = "load"
    <3>1. "load" \in Requests
      BY DEF Requests
    <3> QED  BY <1>0, <3>1, RequestTyped
  <2>3. Number(up', {"load"}) = Number(up, {"load"}) + One(Msg("load", 0).kind \in {"load"})
    BY <2>1, <2>2, Counts, NumberOfAppend
  <2>4. One(Msg("load", 0).kind \in {"load"}) = 1 /\ One(st.pc = "history") = 0 /\ One(st'.pc = "history") = 1
    BY <2>1, <2>2 DEF One
  <2>5. Answering' = Answering
    BY <2>1, AnsweringFrame
  <2> QED  BY <2>1, <2>3, <2>4, <2>5, Counts, AnswersAre DEF Awaited
<1>5. CASE RetryReload
  <2>1. st'.stale + One(st'.pc = "history") = st.stale + One(st.pc = "history")
    BY <1>5, RetryReloadDoes, Counts DEF One
  <2> QED  BY <1>5, <2>1, RetryReloadDoes, AnswersQuiet DEF NoLoadAsked, NoAnswerTaken
<1>6. CASE Flush
  <2>1. UNCHANGED <<conn, task, up, wire>> /\ st'.pc = st.pc /\ st'.stale = st.stale
    BY <1>6, FlushDoes
  <2> QED  BY <2>1, AnswersQuiet DEF NoLoadAsked, NoAnswerTaken
<1>7. CASE Connect
  <2>1. /\ FreshServer /\ log' = log /\ held' = held /\ conn' = "up" /\ conn = "down" /\ st' = st
        /\ (up' = <<>> \/ up' = <<Msg("subscribe", tr.last)>>) /\ up' \in Seq(Message(Requests))
    BY <1>7, ConnectDoes
  <2>2. task'["cmd"] = Idle /\ wire' = <<>>
    BY <2>1, FreshServerDoes
  <2>3. st'.stale = 0 /\ st'.pc # "history"
    BY <2>1 DEF Modes
  <2> QED  BY <2>1, <2>2, <2>3, AnswersFresh
<1>8. CASE ConnectFails
  BY <1>8, ConnectFailsDoes, AnswersDown
<1>9. CASE Drop
  BY <1>9, DropTyped, AnswersDown DEF ConnectionLost
<1>10. CASE OnClose
  BY <1>10, OnCloseTyped, AnswersDown DEF ConnectionLost
<1>11. CASE Supersede
  <2>1. /\ FreshServer /\ log' = log /\ held' = held /\ conn' = "up"
        /\ (up' = <<>> \/ up' = <<Msg("subscribe", tr.last)>>) /\ up' \in Seq(Message(Requests))
        /\ st'.stale = 0 /\ st'.pc # "history"
    BY <1>11, SupersedeDoes
  <2>2. task'["cmd"] = Idle /\ wire' = <<>>
    BY <2>1, FreshServerDoes
  <2> QED  BY <2>1, <2>2, AnswersFresh
<1>12. CASE SubscribeTimeout
  BY <1>12, SubscribeTimeoutDoes, SubscriptionFailedDoes, AnswersDown
<1>13. CASE OnEvent
  <2>1. NoAnswerTaken /\ NoLoadAsked /\ UNCHANGED <<conn, task, st>>
    BY <1>13, OnEventDoes DEF Handled, NoAnswerTaken, NoLoadAsked, Histories
  <2> QED  BY <2>1, AnswersQuiet
<1>14. CASE OnFullReload
  <2>1. NoAnswerTaken /\ NoLoadAsked /\ UNCHANGED <<conn, task>>
    BY <1>14, OnFullReloadDoes DEF Handled, NoAnswerTaken, NoLoadAsked, Histories
  <2>2. st'.stale + One(st'.pc = "history") = st.stale + One(st.pc = "history")
    <3>1. CASE st' = st
      BY <3>1
    <3>2. CASE st'.pc = "start" /\ st'.stale = st.stale + One(st.pc = "history")
      BY <3>2, Counts DEF One
    <3> QED  BY <1>14, <3>1, <3>2, OnFullReloadDoes, RequestFullReloadDoes, Zenon
  <2> QED  BY <2>1, <2>2, AnswersQuiet
<1>15. CASE OnHistory
  <2>1. Handled /\ wire[1].kind = "history" /\ wire # <<>> /\ wire' = Tail(wire) /\ UNCHANGED <<conn, task>>
    BY <1>15, OnHistoryDoes DEF Handled
  <2>2. Number(wire, Histories) = Number(wire', Histories) + 1 /\ Number(wire', Histories) \in Nat
    <3>1. Number(wire, Histories) = Number(wire', Histories) + One(Head(wire).kind \in Histories)
      BY <2>1, Counts, NumberOfTail
    <3>2. One(Head(wire).kind \in Histories) = 1
      BY <2>1, FirstMessage DEF One, Histories
    <3>3. Number(wire', Histories) \in Nat
      BY <2>1, FirstMessage, PlacesFinite, Zenon
    <3> QED  BY <3>1, <3>2, <3>3
  <2>3. Answering' = Answering
    BY <2>1, AnsweringFrame
  <2>4. CASE st.stale > 0 /\ up' = up /\ st'.stale = st.stale - 1 /\ st'.pc = st.pc
    <3>1. st.stale = st'.stale + 1 /\ st'.stale \in Nat /\ One(st'.pc = "history") = One(st.pc = "history")
      BY <1>0, <2>4
    <3>2. ASSUME conn' = "up" PROVE Awaited(up', wire', Answering', st')
      <4>1. Number(up, {"load"}) + Number(wire, Histories) + One(Answering) = st.stale + One(st.pc = "history")
        BY <2>1, <3>2 DEF Answers
      <4>2. Number(up', {"load"}) = Number(up, {"load"}) /\ One(Answering') = One(Answering)
        BY <2>3, <2>4
      <4>3. One(Answering) \in Nat /\ One(st.pc = "history") \in Nat
        BY DEF One
      <4>4. Number(up, {"load"}) + Number(wire', Histories) + One(Answering) = st'.stale + One(st.pc = "history")
        BY <2>2, <3>1, <4>1, <4>3, Counts, OneLess, SMTT(60)
      <4> QED  BY <3>1, <4>2, <4>4 DEF Awaited
    <3> QED  BY <3>2, AnswersAre
  <2>5. CASE st.stale = 0 /\ st'.stale = 0 /\ st'.pc = "ack" /\ tr'.last \in 0 .. log /\ up' = Append(up, Msg("subscribe", tr'.last))
    <3>1. NoLoadAsked
      BY <2>5, AskedIs
    <3>2. Number(up', {"load"}) = Number(up, {"load"})
      BY <3>1, LoadsSame
    <3>3. st.pc = "history"
      BY <2>1, <2>5, AnswerIsAwaited DEF Histories
    <3>4. One(st.pc = "history") = 1 /\ One(st'.pc = "history") = 0
      BY <2>5, <3>3 DEF One
    <3> QED  BY <2>1, <2>2, <2>3, <2>5, <3>2, <3>4, Counts, AnswersAre DEF Awaited
  <2>6. tr'.last \in 0 .. log
    BY <1>15, OnHistoryDoes, TransportFields
  <2> QED  BY <1>15, <2>4, <2>5, <2>6, OnHistoryDoes
<1>16. CASE OnNoHistory
  <2>1. Handled /\ wire[1].kind = "noHistory" /\ wire # <<>> /\ wire' = Tail(wire) /\ UNCHANGED <<conn, task>>
    BY <1>16, OnNoHistoryDoes DEF Handled
  <2>2. Number(wire, Histories) = Number(wire', Histories) + 1 /\ Number(wire', Histories) \in Nat
    <3>1. Number(wire, Histories) = Number(wire', Histories) + One(Head(wire).kind \in Histories)
      BY <2>1, Counts, NumberOfTail
    <3>2. One(Head(wire).kind \in Histories) = 1
      BY <2>1, FirstMessage DEF One, Histories
    <3>3. Number(wire', Histories) \in Nat
      BY <2>1, FirstMessage, PlacesFinite, Zenon
    <3> QED  BY <3>1, <3>2, <3>3
  <2>3. Answering' = Answering
    BY <2>1, AnsweringFrame
  <2>4. CASE st.stale > 0 /\ up' = up /\ st'.stale = st.stale - 1 /\ st'.pc = st.pc
    <3>1. st.stale = st'.stale + 1 /\ st'.stale \in Nat /\ One(st'.pc = "history") = One(st.pc = "history")
      BY <1>0, <2>4
    <3>2. ASSUME conn' = "up" PROVE Awaited(up', wire', Answering', st')
      <4>1. Number(up, {"load"}) + Number(wire, Histories) + One(Answering) = st.stale + One(st.pc = "history")
        BY <2>1, <3>2 DEF Answers
      <4>2. Number(up', {"load"}) = Number(up, {"load"}) /\ One(Answering') = One(Answering)
        BY <2>3, <2>4
      <4>3. One(Answering) \in Nat /\ One(st.pc = "history") \in Nat
        BY DEF One
      <4>4. Number(up, {"load"}) + Number(wire', Histories) + One(Answering) = st'.stale + One(st.pc = "history")
        BY <2>2, <3>1, <4>1, <4>3, Counts, OneLess, SMTT(60)
      <4> QED  BY <3>1, <4>2, <4>4 DEF Awaited
    <3> QED  BY <3>2, AnswersAre
  <2>5. CASE st.stale = 0 /\ LoadFailed(0) /\ (up' = up \/ up' = Append(up, Msg("unsubscribe", 0)))
    <3>1. NoLoadAsked
      <4>1. up' = Append(up, Msg("unsubscribe", 0)) => NoLoadAsked
        BY <1>0, AskedIs
      <4> QED  BY <2>5, <4>1 DEF NoLoadAsked
    <3>2. Number(up', {"load"}) = Number(up, {"load"})
      BY <3>1, LoadsSame
    <3>3. st.pc = "history"
      BY <2>1, <2>5, AnswerIsAwaited DEF Histories
    <3>4. st'.stale = 0 /\ st'.pc # "history"
      BY <1>0, <2>5, LoadFailedDoes, Zenon
    <3>5. One(st.pc = "history") = 1 /\ One(st'.pc = "history") = 0
      BY <3>3, <3>4 DEF One
    <3> QED  BY <2>1, <2>2, <2>3, <2>5, <3>2, <3>4, <3>5, Counts, AnswersAre DEF Awaited
  <2> QED  BY <1>16, <2>4, <2>5, OnNoHistoryDoes
<1>17. CASE OnAck
  <2>1. NoAnswerTaken /\ NoLoadAsked /\ UNCHANGED <<conn, task>>
    BY <1>17, OnAckDoes DEF Handled, NoAnswerTaken, NoLoadAsked, Histories
  <2>2. st'.stale + One(st'.pc = "history") = st.stale + One(st.pc = "history")
    <3>1. CASE st' = st
      BY <3>1
    <3>2. CASE st.pc = "ack" /\ st'.pc \in {"start", "idle"} /\ st'.stale = st.stale
      BY <3>2 DEF One
    <3> QED  BY <1>17, <3>1, <3>2, OnAckDoes, LoadFinishedDoes, Zenon
  <2> QED  BY <2>1, <2>2, AnswersQuiet
<1>18. CASE OnNack
  <2>1. CASE Handled /\ wire[1].kind = "nack" /\ UNCHANGED <<mw, st, up>>
    <3>1. NoAnswerTaken /\ NoLoadAsked /\ UNCHANGED <<conn, task, st>>
      BY <2>1 DEF Handled, NoAnswerTaken, NoLoadAsked, Histories
    <3> QED  BY <3>1, AnswersQuiet
  <2>2. CASE SubscriptionFailed /\ UNCHANGED <<log, held>>
    BY <2>2, SubscriptionFailedDoes, AnswersDown
  <2> QED  BY <1>18, <2>1, <2>2, OnNackDoes
<1> QED
  BY <1>1, <1>2, <1>3, <1>4, <1>5, <1>6, <1>7, <1>8, <1>9, <1>10, <1>11, <1>12, <1>13, <1>14,
     <1>15, <1>16, <1>17, <1>18 DEF Client, Receive

(* A session without a subscription and without requests does nothing. *)

LEMMA QuietServer ==
  ASSUME Types, task = NewTasks, ~sess.sub, up = <<>>, Server
  PROVE  UNCHANGED <<task, up, wire, conn, sess>> /\ ghost'.owed = ghost.owed
<1> USE DEF Tasks
<1>1. /\ task["fwd"].pc = "idle" /\ task["cmd"].pc = "idle" /\ \A t \in Tasks : task[t].pc = "idle"
  BY DEF NewTasks, Idle
<1>2. ASSUME NEW e \in Emitters, Persist(e) PROVE UNCHANGED <<task, up, wire, conn, sess>> /\ ghost'.owed = ghost.owed
  BY <1>2 DEF Persist
<1>3. ASSUME NEW e \in Emitters, Publish(e) PROVE UNCHANGED <<task, up, wire, conn, sess>> /\ ghost'.owed = ghost.owed
  <2>1. ghost' = GhostOf(ghost.gone \cup Lost(e), ghost.owed, ghost.excused \cup Overtaken(e))
    BY <1>3, PublishDoes
  <2>2. ghost'.owed = ghost.owed
    BY <2>1 DEF GhostOf
  <2> QED  BY <1>3, <2>2 DEF Publish
<1>4. CASE FwdSkip
  BY <1>4 DEF FwdSkip, Receiving
<1>5. CASE FwdBuffer \/ FwdTake
  BY <1>5, Zenon DEF FwdBuffer, FwdTake, FwdSkip, Receiving, SessionShape, SessTyped
<1>6. CASE FwdSend \/ FwdMark
  BY <1>1, <1>6 DEF FwdSend, FwdMark
<1>7. CASE FwdLagged
  <2>1. UNCHANGED <<conn, up, wire, sess, task>> /\ \E x : ghost' = GhostOf({}, ghost.owed, x)
    BY <1>7, FwdLaggedDoes, Zenon
  <2>2. ghost'.owed = ghost.owed
    BY <2>1 DEF GhostOf
  <2> QED  BY <2>1, <2>2
<1>8. CASE Subscribe \/ Unsubscribe \/ ReadHistory
  BY <1>8 DEF Subscribe, Unsubscribe, ReadHistory, Taking
<1>9. CASE Reply
  BY <1>1, <1>9 DEF Reply
<1>10. ASSUME NEW t \in Tasks, Replaying(t) \/ ReplayFails(t) PROVE FALSE
  BY <1>1, <1>10 DEF Replaying, ReplayFails, ReplayPage, AtPage, ReplaySend, ReplayDone, Drain, FlushSend, FlushMark,
                    BeginFullReload, SendFullReload
<1> QED
  BY <1>2, <1>3, <1>4, <1>5, <1>6, <1>7, <1>8, <1>9, <1>10 DEF Server, Forwarding, Commands

LEMMA UnopenedServer ==
  ASSUME Types, Unopened, Server
  PROVE  Unopened'
<1>1. UNCHANGED <<st, tr, visits>>
  BY DEF Server, client
<1>2. CASE visits = 0
  <2>1. /\ up = <<>> /\ wire = <<>> /\ sess = NewSession /\ task = NewTasks
        /\ st.page = "closed" /\ ~tr.intent /\ tr.att = "none"
    BY <1>2 DEF Unopened
  <2>2. ~sess.sub
    BY <2>1 DEF NewSession
  <2>3. UNCHANGED <<task, up, wire, sess>>
    BY <2>1, <2>2, QuietServer
  <2> QED  BY <1>1, <2>1, <2>3 DEF Unopened
<1>3. CASE visits # 0
  BY <1>1, <1>3 DEF Unopened
<1> QED  BY <1>2, <1>3

LEMMA ClosedKeeps ==
  ASSUME NEW t \in Transport, ~t.intent, t.att = "none"
  PROVE  /\ ~Closed(t).intent /\ Closed(t).att = "none"
         /\ ~Opened(t).intent /\ Opened(t).att = "none" /\ ~Resubscribes(t)
<1>1. ~Resubscribes(t)
  BY DEF Resubscribes
<1>2. Opened(t) = [t EXCEPT !.need = FALSE, !.old = 0]
  BY <1>1 DEF Opened
<1>3. ~Opened(t).intent /\ Opened(t).att = "none"
  BY <1>2 DEF Transport
<1>4. ~Closed(t).intent /\ Closed(t).att = "none"
  <2> DEFINE n == t.need \/ (t.intent /\ ~t.susp)
             u == [t EXCEPT !.need = n]
  <2>1. u \in Transport /\ u.att = "none" /\ ~u.intent
    BY DEF Transport
  <2>2. AttemptFailed(u) = u
    BY <2>1 DEF AttemptFailed
  <2>3. Closed(t) = [u EXCEPT !.old = 0]
    BY <2>2, Zenon DEF Closed
  <2> HIDE DEF u
  <2> QED  BY <2>1, <2>3 DEF Transport
<1> QED  BY <1>1, <1>3, <1>4

LEMMA UnopenedClient ==
  ASSUME Types, Modes, Unopened, Client
  PROVE  Unopened'
<1>0. visits' \in Nat /\ (visits' = visits \/ visits' # 0)
  <2>1. visits' = visits \/ visits' = visits + 1
    <3>1. CASE OpenRun \/ StartSession
      BY <3>1, Zenon DEF OpenRun, StartSession
    <3>2. CASE LeaveRun \/ RequestHistory \/ RetryReload \/ Flush \/ Connect \/ ConnectFails
      BY <3>2 DEF LeaveRun, RequestHistory, RetryReload, Flush, Connect, ConnectFails
    <3>3. CASE Drop \/ OnClose \/ Supersede \/ SubscribeTimeout
      BY <3>3 DEF Drop, OnClose, Supersede, SubscribeTimeout
    <3>4. CASE Receive
      BY <3>4, Zenon DEF Receive, OnEvent, OnFullReload, OnHistory, OnNoHistory, OnAck, OnNack, Delivered
    <3> QED  BY <3>1, <3>2, <3>3, <3>4 DEF Client
  <2> QED  BY <2>1 DEF Unopened
<1> SUFFICES ASSUME visits' = 0 PROVE Unopened'
  BY <1>0 DEF Unopened
<1>1. /\ visits = 0 /\ visits' = visits /\ visits \in Nat /\ up = <<>> /\ wire = <<>> /\ sess = NewSession /\ task = NewTasks
      /\ st.page = "closed" /\ ~tr.intent /\ tr.att = "none"
  BY <1>0 DEF Unopened
<1>2. st.pc = "idle"
  BY <1>1, ClosedModes
<1>3. tr \in Transport /\ mw.buf \in Seq(Numbers)
  BY ClientFields
<1>4. ~(OpenRun \/ StartSession)
  BY <1>1 DEF OpenRun, StartSession
<1>5. ~(LeaveRun \/ RequestHistory \/ RetryReload \/ Flush \/ ConnectFails \/ SubscribeTimeout)
  BY <1>1, <1>2 DEF LeaveRun, RequestHistory, RetryReload, Flush, ConnectFails, SubscribeTimeout
<1>6. ~Receive
  BY <1>1 DEF Receive, OnEvent, OnFullReload, OnHistory, OnNoHistory, OnAck, OnNack, Delivered
<1>7. CASE Connect \/ Supersede
  <2>1. /\ tr' = Opened(tr) /\ FreshServer /\ UNCHANGED <<log, held>> /\ up' = <<>>
    BY <1>1, <1>3, <1>7, ClosedKeeps DEF Connect, Supersede
  <2>2. conn' = "up" /\ up' \in Seq(Message(Requests)) /\ st'.page = st.page
    BY <1>7, ConnectDoes, SupersedeDoes
  <2>3. sess' = NewSession /\ task' = NewTasks /\ wire' = <<>>
    BY <2>1, <2>2, FreshServerDoes
  <2> QED  BY <1>1, <1>3, <2>1, <2>2, <2>3, ClosedKeeps DEF Unopened
<1>8. CASE Drop \/ OnClose
  <2>1. ConnectionLost /\ up' = <<>> /\ UNCHANGED <<log, held>>
    BY <1>1, <1>8, DropTyped, OnCloseTyped
  <2>2. tr' = Closed(tr) /\ st'.page = st.page
    <3>1. tr' = Closed(tr)
      BY <1>2, <2>1 DEF ConnectionLost
    <3>2. st'.page = st.page
      BY <1>2, <2>1, ConnectionLostDoes
    <3> QED  BY <3>1, <3>2
  <2>3. sess' = NewSession /\ task' = NewTasks /\ wire' = <<>>
    <3>1. CASE Drop
      <4>1. FreshServer /\ conn' = "down" /\ up' \in Seq(Message(Requests))
        BY <3>1, DropTyped DEF ConnectionLost
      <4> QED  BY <2>1, <4>1, FreshServerDoes
    <3>2. CASE OnClose
      BY <1>1, <3>2, OnCloseTyped
    <3> QED  BY <1>8, <3>1, <3>2
  <2> QED  BY <1>1, <1>3, <2>1, <2>2, <2>3, ClosedKeeps DEF Unopened
<1> QED  BY <1>4, <1>5, <1>6, <1>7, <1>8 DEF Client

(* What a server's step does to the requests and to cmd_loop. *)

CmdReplays == Replaying("cmd") \/ ReplayFails("cmd")
CmdWorks == task["cmd"].pc \in InReplay \cup {"flush", "announce"}

LEMMA CmdSteps ==
  ASSUME Types, Server
  PROVE  \/ task'["cmd"] = task["cmd"] /\ up' = up
         \/ Subscribe \/ Unsubscribe \/ ReadHistory
         \/ Reply /\ up' = up
         \/ CmdReplays /\ CmdWorks /\ up' = up
<1> USE DEF Tasks
<1>1. ASSUME NEW e \in Emitters, Persist(e) \/ Publish(e) PROVE task'["cmd"] = task["cmd"] /\ up' = up
  BY <1>1 DEF Persist, Publish
<1>2. CASE FwdSkip \/ FwdBuffer
  BY <1>2 DEF FwdSkip, FwdBuffer, Receiving
<1>3. CASE FwdTake \/ FwdSend \/ FwdMark \/ FwdLagged
  <2>1. task'["cmd"] = task["cmd"]
    BY <1>3, FwdTakeDoes, FwdSendDoes, FwdMarkDoes, FwdLaggedDoes, Zenon
  <2>2. up' = up
    BY <1>3, Zenon DEF FwdTake, FwdSend, FwdMark, FwdLagged, Receiving
  <2> QED  BY <2>1, <2>2
<1>4. CASE Reply
  BY <1>4, ReplyDoes
<1>5. ASSUME NEW t \in Tasks, Replaying(t) \/ ReplayFails(t)
      PROVE  Others(t) /\ up' = up /\ task[t].pc \in InReplay \cup {"flush", "announce"}
  <2>1. CASE ReplayPage(t) \/ ReplayFails(t) \/ ReplaySend(t) \/ ReplayDone(t)
    <3>1. Others(t)
      BY <2>1, ReplayPageDoes, ReplayFailsDoes, ReplaySendDoes, ReplayDoneDoes
    <3>2. up' = up /\ task[t].pc \in {"read", "send"}
      BY <2>1 DEF ReplayPage, ReplayFails, ReplaySend, ReplayDone, AtPage
    <3> QED  BY <3>1, <3>2 DEF InReplay
  <2>2. CASE Drain(t) \/ FlushSend(t) \/ FlushMark(t) \/ BeginFullReload(t) \/ SendFullReload(t)
    <3>1. Others(t)
      BY <2>2, DrainDoes, FlushSendDoes, FlushMarkDoes, BeginDoes, AnnounceDoes, Zenon
    <3>2. up' = up /\ task[t].pc \in {"drain", "flush", "reload", "announce"}
      BY <2>2 DEF Drain, FlushSend, FlushMark, BeginFullReload, SendFullReload
    <3> QED  BY <3>1, <3>2 DEF InReplay
  <2> QED  BY <1>5, <2>1, <2>2 DEF Replaying
<1>6. ASSUME Replaying("fwd") \/ ReplayFails("fwd") PROVE task'["cmd"] = task["cmd"] /\ up' = up
  BY <1>5, <1>6 DEF Others
<1>7. ASSUME CmdReplays PROVE CmdReplays /\ CmdWorks /\ up' = up
  BY <1>5, <1>7 DEF CmdReplays, CmdWorks
<1> QED
  BY <1>1, <1>2, <1>3, <1>4, <1>6, <1>7 DEF Server, Forwarding, Commands, CmdReplays

LEMMA SubKept ==
  ASSUME Types, Server
  PROVE  Unsubscribe \/ Subscribe \/ sess'.sub = sess.sub
<1> USE DEF Tasks
<1>1. ASSUME NEW e \in Emitters, Persist(e) \/ Publish(e) PROVE sess'.sub = sess.sub
  BY <1>1 DEF Persist, Publish
<1>2. CASE FwdSkip \/ FwdTake \/ FwdSend \/ ReadHistory \/ Reply
  BY <1>2, Zenon DEF FwdSkip, FwdTake, FwdSend, ReadHistory, Reply
<1>3. CASE FwdBuffer
  <2>1. sess' = [sess EXCEPT !.buf = sess'.buf] /\ sess \in Session
    BY <1>3, FwdBufferDoes, Parts DEF SessionOf, Session
  <2> QED  BY <2>1 DEF Session
<1>4. CASE FwdMark
  BY <1>4, FwdMarkDoes DEF SessionOf
<1>5. CASE FwdLagged
  <2>1. sess' = SessionOf(sess.sub, sess.cp, sess'.rep, sess.buf, sess.pend)
    BY <1>5, FwdLaggedDoes
  <2> QED  BY <2>1 DEF SessionOf
<1>6. ASSUME NEW t \in Tasks, ReplayPage(t) \/ ReplayFails(t) \/ ReplaySend(t) \/ FlushSend(t) \/ SendFullReload(t)
      PROVE  sess'.sub = sess.sub
  BY <1>6 DEF ReplayPage, ReplayFails, ReplaySend, FlushSend, SendFullReload
<1>7. ASSUME NEW t \in Tasks, ReplayDone(t) PROVE sess'.sub = sess.sub
  BY <1>7, ReplayDoneDoes DEF SessionOf
<1>8. ASSUME NEW t \in Tasks, FlushMark(t) PROVE sess'.sub = sess.sub
  BY <1>8, FlushMarkDoes DEF SessionOf
<1>9. ASSUME NEW t \in Tasks, Drain(t) PROVE sess'.sub = sess.sub
  <2>1. PICK c \in 0 .. log, r \in BOOLEAN, b \in {sess.buf, <<>>} :
              sess' = SessionOf(sess.sub, c, r, b, sess.pend)
    BY <1>9, DrainDoes, Zenon
  <2> QED  BY <2>1 DEF SessionOf
<1>10. ASSUME NEW t \in Tasks, BeginFullReload(t) PROVE sess'.sub = sess.sub
  BY <1>10, BeginDoes DEF SessionOf
<1> QED
  BY <1>1, <1>2, <1>3, <1>4, <1>5, <1>6, <1>7, <1>8, <1>9, <1>10 DEF Server, Forwarding, Commands, Replaying

LEMMA UpTyped ==
  ASSUME Types
  PROVE  /\ up \in Seq(Message(Requests)) /\ Len(up) \in Nat /\ DOMAIN up = 1 .. Len(up)
         /\ up # <<>> => /\ Len(up) >= 1 /\ Head(up) = up[1] /\ Len(Tail(up)) = Len(up) - 1
                         /\ (Tail(up) = <<>> <=> Len(up) = 1)
                         /\ \A i \in 1 .. Len(up) - 1 : Tail(up)[i] = up[i + 1]
                         /\ up[1] \in Message(Requests) /\ up[1].s \in 0 .. log
         /\ \A i \in 1 .. Len(up) : up[i] \in Message(Requests)
<1>1. up \in Seq(Message(Requests))
  BY DEF Types, SocketTypes
<1>2. \A m \in Message(Requests) : m.s \in 0 .. log
  BY DEF Message
<1>3. Len(up) \in Nat /\ DOMAIN up = 1 .. Len(up)
  BY <1>1
<1>4. \A i \in 1 .. Len(up) : up[i] \in Message(Requests)
  BY <1>1, <1>3
<1>5. ASSUME up # <<>>
      PROVE  /\ Len(up) >= 1 /\ Head(up) = up[1] /\ Len(Tail(up)) = Len(up) - 1
             /\ \A i \in 1 .. Len(up) - 1 : Tail(up)[i] = up[i + 1]
             /\ up[1] \in Message(Requests)
             /\ (Tail(up) = <<>> <=> Len(up) = 1)
  <2>1. Len(up) >= 1 /\ Head(up) = up[1] /\ Len(Tail(up)) = Len(up) - 1
        /\ \A i \in 1 .. Len(up) - 1 : Tail(up)[i] = up[i + 1]
        /\ Tail(up) \in Seq(Message(Requests))
    BY <1>1, <1>5
  <2>2. Tail(up) = <<>> <=> Len(up) = 1
    <3>1. \A q \in Seq(Message(Requests)) : q # <<>> => Len(q) \in Nat \ {0}
      BY EmptySeq
    <3>2. Len(<<>>) = 0
      OBVIOUS
    <3>3. Len(Tail(up)) = 0 => Tail(up) = <<>>
      BY <2>1, <3>1
    <3>4. Tail(up) = <<>> => Len(Tail(up)) = 0
      BY <3>2, Zenon
    <3> QED  BY <1>3, <2>1, <3>3, <3>4
  <2> QED  BY <1>4, <2>1, <2>2
<1> QED  BY <1>1, <1>2, <1>3, <1>4, <1>5

LEMMA RequestedServer ==
  ASSUME Types, Requested, Server
  PROVE  Requested'
<1>1. st' = st /\ mw' = mw /\ tr' = tr
  BY DEF Server, client
<1>2. Resting' = Resting
  BY <1>1 DEF Resting
<1>3. Resting' /\ up' = <<>> => sess'.sub \/ (ghost'.owed = {} /\ task' = NewTasks)
  <2> SUFFICES ASSUME Resting, up' = <<>> PROVE sess'.sub \/ (ghost'.owed = {} /\ task' = NewTasks)
    BY <1>2
  <2>1. CASE up = <<>>
    <3>1. ~Subscribe /\ ~Unsubscribe
      BY <2>1 DEF Subscribe, Unsubscribe, Taking
    <3>2. CASE sess.sub
      BY <3>1, <3>2, SubKept, Zenon
    <3>3. CASE ~sess.sub
      <4>1. ghost.owed = {} /\ task = NewTasks
        BY <2>1, <3>3 DEF Requested
      <4> QED  BY <2>1, <3>3, <4>1, QuietServer
    <3> QED  BY <3>2, <3>3
  <2>2. CASE up # <<>>
    <3>1. up[1].kind = "subscribe" /\ Head(up) = up[1]
      BY <2>2, UpTyped DEF Requested
    <3>2. Subscribe
      <4>1. up' # up
        BY <2>2
      <4>2. ~Unsubscribe /\ ~ReadHistory
        BY <3>1 DEF Unsubscribe, ReadHistory, Taking
      <4> QED  BY <4>1, <4>2, CmdSteps
    <3>3. PICK c \in 0 .. log : sess' = SessionOf(TRUE, c, TRUE, sess.buf, FALSE)
      BY <3>2, SubscribeDoes, Zenon
    <3> QED  BY <3>3 DEF SessionOf
  <2> QED  BY <2>1, <2>2
<1>4. CASE task'["cmd"] = task["cmd"] /\ up' = up
  <2>1. Answering' = Answering
    BY <1>4, AnsweringFrame
  <2> QED  BY <1>1, <1>2, <1>3, <1>4, <2>1 DEF Requested
<1>5. CASE Subscribe \/ Unsubscribe \/ ReadHistory
  <2>1. task["cmd"].pc = "idle" /\ up # <<>> /\ up' = Tail(up)
    BY <1>5 DEF Subscribe, Unsubscribe, ReadHistory, Taking
  <2>2. st'.pc = "history" => up' = <<>> \/ up'[Len(up')].kind = "load"
    <3> SUFFICES ASSUME st.pc = "history", up' # <<>> PROVE up'[Len(up')].kind = "load"
      BY <1>1
    <3>1. up[Len(up)].kind = "load"
      BY <2>1 DEF Requested
    <3>2. Len(up') = Len(up) - 1 /\ Len(up) # 1 /\ Len(up) >= 1 /\ Len(up) \in Nat
      BY <2>1, UpTyped
    <3>3. Len(up') \in 1 .. Len(up) - 1 /\ Len(up') + 1 = Len(up)
      BY <3>2
    <3>4. up'[Len(up')] = up[Len(up') + 1]
      BY <2>1, <3>3, UpTyped
    <3> QED  BY <3>1, <3>3, <3>4
  <2>3. st'.pc = "history" /\ up' = <<>> => task'["cmd"].pc = "idle" \/ Answering'
    <3> SUFFICES ASSUME st.pc = "history", up' = <<>> PROVE task'["cmd"].pc = "idle" \/ Answering'
      BY <1>1
    <3>1. Len(up) = 1 /\ up[Len(up)].kind = "load" /\ Head(up) = up[1]
      BY <2>1, UpTyped DEF Requested
    <3>2. ReadHistory
      BY <1>5, <3>1 DEF Subscribe, Unsubscribe, Taking
    <3> QED  BY <3>2, ReadHistoryDoes DEF JobOf, Msg, Answering, Histories
  <2>4. Resting' => up' = <<>>
    BY <1>2, <2>1, UpTyped DEF Requested
  <2> QED  BY <1>3, <2>2, <2>3, <2>4 DEF Requested
<1>6. CASE Reply /\ up' = up
  <2>1. task["cmd"].pc = "reply" /\ task'["cmd"].pc = "idle"
    BY <1>6, ReplyDoes DEF Idle
  <2> QED  BY <1>1, <1>2, <1>3, <1>6, <2>1 DEF Requested
<1>7. CASE CmdReplays /\ CmdWorks /\ up' = up
  <2>1. task["cmd"].pc \notin {"idle", "reply"} /\ ~Answering
    BY <1>7 DEF CmdWorks, Answering, InReplay
  <2>2. st'.pc = "history" => up' # <<>> /\ up'[Len(up')].kind = "load"
    BY <1>1, <1>7, <2>1 DEF Requested
  <2>3. Resting' => up' = <<>>
    BY <1>2, <1>7, <2>1 DEF Requested
  <2> QED  BY <1>3, <2>2, <2>3 DEF Requested
<1> QED  BY <1>4, <1>5, <1>6, <1>7, CmdSteps

LEMMA RestingIs ==
  Resting' <=> st'.page = "open" /\ ~mw'.again /\ st'.pc \in {"ack", "idle"}
BY DEF Resting

LEMMA RequestedQuiet ==
  ASSUME Requested, UNCHANGED <<up, task, sess, ghost>>, st'.pc = st.pc, Resting' => Resting,
         Resting' => tr.last <= tr'.last, tr.last \in Nat, tr'.last \in Nat,
         \A i \in DOMAIN up : up[i].s \in Nat
  PROVE  Requested'
<1>1. Answering' = Answering
  BY AnsweringFrame
<1>2. Resting' /\ up' # <<>> => up'[1].s <= tr'.last
  <2> SUFFICES ASSUME Resting', up' # <<>> PROVE up'[1].s <= tr'.last
    OBVIOUS
  <2>1. up[1].s <= tr.last /\ Len(up) = 1
    BY DEF Requested
  <2> QED  BY <2>1
<1> QED  BY <1>1, <1>2 DEF Requested

LEMMA RequestedAway ==
  ASSUME st'.pc # "history", ~Resting'
  PROVE  Requested'
BY DEF Requested

LEMMA RequestedFresh ==
  ASSUME Types, FreshServer, UNCHANGED <<log, held>>, conn' \in {"up", "closing", "down"}, up' \in Seq(Message(Requests)),
         \/ up' = <<>>
         \/ up' = <<Msg("subscribe", tr'.last)>> /\ st'.pc # "history" /\ tr'.last \in Nat
  PROVE  Requested'
<1>1. task' = NewTasks /\ task'["cmd"].pc = "idle" /\ ghost'.owed = {}
  <2>1. task' = NewTasks /\ task'["cmd"] = Idle /\ ghost' = GhostOf({}, {}, ghost.excused \cup Forgotten)
    BY FreshServerDoes, Zenon
  <2> QED  BY <2>1 DEF GhostOf, Idle
<1>2. CASE up' = <<>>
  BY <1>1, <1>2 DEF Requested
<1>3. CASE up' = <<Msg("subscribe", tr'.last)>> /\ st'.pc # "history" /\ tr'.last \in Nat
  <2>1. Len(up') = 1 /\ up'[1].kind = "subscribe" /\ up'[1].s = tr'.last /\ up' # <<>>
    BY <1>3 DEF Msg
  <2> QED  BY <1>1, <1>3, <2>1 DEF Requested
<1> QED  BY <1>2, <1>3

LEMMA LastsAreNat ==
  ASSUME Types
  PROVE  /\ tr.last \in Nat /\ \A i \in DOMAIN up : up[i].s \in Nat
         /\ \A t \in Transport : t.last \in Nat
<1>1. log \in Nat
  BY LogIsNat
<1>2. \A i \in DOMAIN up : up[i] \in Message(Requests)
  BY UpTyped
<1>3. \A m \in Message(Requests) : m.s \in Nat
  BY <1>1 DEF Message
<1> QED  BY <1>1, <1>2, <1>3, ClientFields DEF Transport

LEMMA RequestedClient ==
  ASSUME Types, SessionShape, Modes, Answers, Unopened, Requested, Client
  PROVE  Requested'
<1>0. tr.last \in Nat /\ (\A i \in DOMAIN up : up[i].s \in Nat) /\ (\A t \in Transport : t.last \in Nat)
      /\ up \in Seq(Message(Requests)) /\ 0 \in 0 .. log
  BY LastsAreNat, UpTyped, LogIsNat
<1>1. CASE OpenRun
  BY <1>1, OpenRunDoes, RequestedAway, RestingIs
<1>2. CASE StartSession
  <2>1. /\ up = <<>> /\ task = NewTasks /\ st.page = "closed" /\ UNCHANGED <<sess, task, mw>>
        /\ st'.pc = st.pc /\ up' = Append(up, Msg("subscribe", 0)) /\ tr' \in Transport
    BY <1>2, StartSessionDoes DEF Unopened
  <2>2. st'.pc = "idle"
    BY <2>1, ClosedModes
  <2>3. Len(up') = 1 /\ up'[1].kind = "subscribe" /\ up'[1].s = 0 /\ up' # <<>>
    BY <2>1 DEF Msg
  <2>4. task'["cmd"].pc = "idle" /\ tr'.last >= 0
    BY <1>0, <2>1 DEF NewTasks, Idle
  <2> QED  BY <2>2, <2>3, <2>4 DEF Requested
<1>3. CASE LeaveRun
  BY <1>3, LeaveRunDoes, RequestedAway, RestingIs
<1>4. CASE RequestHistory
  <2>1. st'.pc = "history" /\ up' = Append(up, Msg("load", 0))
    BY <1>4, RequestHistoryDoes
  <2>2. Len(up') = Len(up) + 1 /\ up'[Len(up) + 1].kind = "load" /\ up' # <<>>
    BY <1>0, <2>1 DEF Msg
  <2>3. ~Resting'
    BY <2>1, RestingIs
  <2> QED  BY <2>1, <2>2, <2>3 DEF Requested
<1>5. CASE RetryReload
  BY <1>5, RetryReloadDoes, RequestedAway, RestingIs
<1>6. CASE Flush
  <2>1. /\ UNCHANGED <<up, task, sess, ghost, tr>> /\ st'.pc = st.pc /\ st'.page = st.page /\ mw'.again = mw.again
    BY <1>6, FlushDoes
  <2>2. Resting' => Resting
    BY <2>1 DEF Resting
  <2> QED  BY <1>0, <2>1, <2>2, RequestedQuiet
<1>7. CASE Connect
  <2>1. /\ FreshServer /\ UNCHANGED <<log, held, st>> /\ conn' = "up" /\ conn = "down" /\ tr' \in Transport
        /\ tr'.last = tr.last /\ (up' = <<>> \/ up' = <<Msg("subscribe", tr.last)>>) /\ up' \in Seq(Message(Requests))
    BY <1>7, ConnectDoes
  <2>2. st'.pc # "history"
    BY <2>1 DEF Modes
  <2> QED  BY <1>0, <2>1, <2>2, RequestedFresh
<1>8. CASE ConnectFails
  <2>1. 0 \in Nat
    OBVIOUS
  <2>2. st'.page = "failed" /\ st'.pc \in {"idle", "retry"}
    BY <1>8, <2>1, ConnectFailsDoes, LoadFailedDoes, Zenon
  <2> QED  BY <2>2, RequestedAway, RestingIs
<1>9. CASE Drop
  <2>1. FreshServer /\ UNCHANGED <<log, held>> /\ up' = <<>> /\ conn' = "down" /\ up' \in Seq(Message(Requests))
    BY <1>9, DropTyped DEF ConnectionLost
  <2> QED  BY <2>1, RequestedFresh
<1>10. CASE OnClose
  <2>1. ConnectionLost /\ conn = "closing" /\ UNCHANGED <<sess, task, up, ghost>>
    BY <1>10, OnCloseTyped
  <2>2. CASE LoadFailed(0)
    <3>1. 0 \in Nat
      OBVIOUS
    <3>2. st'.page = "failed" /\ st'.pc \in {"idle", "retry"}
      BY <2>2, <3>1, LoadFailedDoes, Zenon
    <3> QED  BY <3>2, RequestedAway, RestingIs
  <2>3. CASE mw' = mw /\ tr'.last = tr.last /\ st'.page = st.page /\ st'.pc = st.pc
    <3>1. Resting' => Resting
      BY <2>3 DEF Resting
    <3> QED  BY <1>0, <2>1, <2>3, <3>1, RequestedQuiet
  <2> QED  BY <2>1, <2>2, <2>3, ConnectionLostDoes
<1>11. CASE Supersede
  <2>1. /\ FreshServer /\ UNCHANGED <<log, held>> /\ conn' = "up" /\ tr' \in Transport
        /\ tr'.last = tr.last /\ (up' = <<>> \/ up' = <<Msg("subscribe", tr.last)>>) /\ up' \in Seq(Message(Requests))
        /\ st'.pc # "history"
    BY <1>11, SupersedeDoes
  <2> QED  BY <1>0, <2>1, RequestedFresh
<1>12. ASSUME SubscriptionFailed, UNCHANGED <<log, held>> PROVE Requested'
  <2>1. FreshServer /\ up' = <<>> /\ conn' = "closing" /\ up' \in Seq(Message(Requests))
    BY <1>12, SubscriptionFailedDoes
  <2> QED  BY <1>12, <2>1, RequestedFresh
<1>13. CASE OnEvent
  <2>1. /\ UNCHANGED <<up, task, sess, ghost, st>> /\ mw'.again = mw.again /\ tr'.last = MaxOf(tr.last, wire[1].s)
        /\ wire # <<>> /\ tr' \in Transport
    BY <1>13, OnEventDoes DEF Handled
  <2>2. wire[1].s \in Nat
    BY <2>1, FirstMessage, LogIsNat
  <2>3. tr.last <= tr'.last
    BY <1>0, <2>1, <2>2 DEF MaxOf
  <2>4. Resting' => Resting
    BY <2>1 DEF Resting
  <2> QED  BY <1>0, <2>1, <2>3, <2>4, RequestedQuiet
<1>14. CASE OnFullReload
  <2>1. UNCHANGED <<up, task, sess, ghost>> /\ tr' \in Transport
    BY <1>14, OnFullReloadDoes DEF Handled
  <2>2. CASE st.page = "closed" /\ UNCHANGED <<mw, st>>
    BY <2>2, ClosedModes, RequestedAway, RestingIs
  <2>3. CASE RequestFullReload
    <3>1. CASE st'.pc = "start"
      BY <3>1, RequestedAway, RestingIs
    <3>2. CASE mw'.again = TRUE /\ st' = st
      BY <1>0, <2>1, <3>2, RequestedQuiet, RestingIs
    <3> QED  BY <2>3, <3>1, <3>2, RequestFullReloadDoes, Zenon
  <2> QED  BY <1>14, <2>2, <2>3, OnFullReloadDoes
<1>15. CASE OnHistory
  <2>1. UNCHANGED <<task, sess, ghost, mw>> /\ wire # <<>> /\ wire[1].kind \in Histories
    BY <1>15, OnHistoryDoes DEF Handled, Histories
  <2>2. CASE UNCHANGED <<tr, up>> /\ st'.page = st.page /\ st'.pc = st.pc
    <3>1. Resting' => Resting
      BY <2>1, <2>2 DEF Resting
    <3> QED  BY <1>0, <2>1, <2>2, <3>1, RequestedQuiet
  <2>3. CASE st.stale = 0 /\ st'.pc = "ack" /\ up' = Append(up, Msg("subscribe", tr'.last)) /\ tr' \in Transport
    <3>1. st.pc = "history" /\ ~Answering /\ \A i \in DOMAIN up : up[i].kind # "load"
      BY <2>1, <2>3, AnswerIsAwaited
    <3>2. up = <<>>
      BY <3>1, UpTyped DEF Requested
    <3>3. task["cmd"].pc = "idle"
      BY <3>1, <3>2 DEF Requested
    <3>4. Len(up') = 1 /\ up'[1].kind = "subscribe" /\ up'[1].s = tr'.last /\ up' # <<>>
      BY <2>3, <3>2 DEF Msg
    <3> QED  BY <1>0, <2>1, <2>3, <3>3, <3>4 DEF Requested
  <2> QED  BY <1>15, <2>2, <2>3, OnHistoryDoes
<1>16. CASE OnNoHistory
  <2>1. UNCHANGED <<task, sess, ghost>>
    BY <1>16, OnNoHistoryDoes DEF Handled
  <2>2. CASE UNCHANGED <<tr, mw, up>> /\ st'.page = st.page /\ st'.pc = st.pc
    <3>1. Resting' => Resting
      BY <2>1, <2>2 DEF Resting
    <3> QED  BY <1>0, <2>1, <2>2, <3>1, RequestedQuiet
  <2>3. CASE LoadFailed(0)
    <3>1. 0 \in Nat
      OBVIOUS
    <3>2. st'.page = "failed" /\ st'.pc \in {"idle", "retry"}
      BY <2>3, <3>1, LoadFailedDoes, Zenon
    <3> QED  BY <3>2, RequestedAway, RestingIs
  <2> QED  BY <1>16, <2>2, <2>3, OnNoHistoryDoes
<1>17. CASE OnAck
  <2>1. UNCHANGED <<up, task, sess, ghost>> /\ tr'.last = tr.last
    BY <1>17, OnAckDoes DEF Handled
  <2>2. CASE UNCHANGED <<mw, st>>
    <3>1. Resting' => Resting
      BY <2>2 DEF Resting
    <3> QED  BY <1>0, <2>1, <2>2, <3>1, RequestedQuiet
  <2>3. CASE st.pc = "ack" /\ LoadFinished
    <3>1. CASE st'.pc = "start"
      BY <3>1, RequestedAway, RestingIs
    <3>2. CASE ~mw.again /\ st'.page = st.page /\ st'.pc = "idle"
      <4>1. Resting' => Resting
        BY <2>3, <3>2 DEF Resting
      <4>2. Resting' /\ up # <<>> => up[1].s <= tr.last
        BY <4>1 DEF Requested
      <4> QED  BY <2>1, <3>2, <4>1, <4>2 DEF Requested
    <3> QED  BY <2>3, <3>1, <3>2, LoadFinishedDoes, Zenon
  <2> QED  BY <1>17, <2>2, <2>3, OnAckDoes
<1>18. CASE OnNack
  <2>1. CASE Handled /\ UNCHANGED <<mw, st, up>> /\ tr'.last = tr.last
    <3>1. Resting' => Resting
      BY <2>1 DEF Resting
    <3> QED  BY <1>0, <2>1, <3>1, RequestedQuiet DEF Handled
  <2>2. CASE SubscriptionFailed /\ UNCHANGED <<log, held>>
    BY <1>12, <2>2
  <2> QED  BY <1>18, <2>1, <2>2, OnNackDoes
<1>19. CASE SubscribeTimeout
  BY <1>12, <1>19, SubscribeTimeoutDoes
<1> QED
  BY <1>1, <1>2, <1>3, <1>4, <1>5, <1>6, <1>7, <1>8, <1>9, <1>10, <1>11, <1>13, <1>14,
     <1>15, <1>16, <1>17, <1>18, <1>19 DEF Client, Receive

LEMMA ProtocolKept ==
  ASSUME Types, Shape, Protocol, [Next]_vars
  PROVE  Protocol'
<1>1. CASE Server
  <2>1. Modes'
    <3>1. UNCHANGED <<st, mw>> /\ conn' = conn
      <4>1. UNCHANGED <<st, mw>>
        BY <1>1 DEF Server, client
      <4>2. conn' = conn
        BY <1>1, Zenon DEF Server, Forwarding, Commands, Replaying, Persist, Publish, FwdSkip, FwdBuffer, FwdTake, FwdSend,
           FwdMark, FwdLagged, Receiving, Subscribe, Unsubscribe, ReadHistory, Reply, ReplayPage, ReplayFails,
           ReplaySend, ReplayDone, Drain, FlushSend, FlushMark, BeginFullReload, SendFullReload
      <4> QED  BY <4>1, <4>2
    <3> QED  BY <3>1, ModesFrame DEF Protocol
  <2> QED  BY <1>1, <2>1, AnswersServer, UnopenedServer, RequestedServer DEF Protocol, Shape
<1>2. CASE Client
  BY <1>2, ModesClient, AnswersClient, UnopenedClient, RequestedClient DEF Protocol, Shape
<1>3. CASE UNCHANGED vars
  <2>1. Modes' /\ Unopened'
    BY <1>3 DEF Protocol, vars, Modes, Unopened
  <2>2. Answers'
    <3>1. UNCHANGED <<conn, task, up, wire, st>>
      BY <1>3 DEF vars
    <3> QED  BY <3>1, AnswersQuiet DEF Protocol, NoLoadAsked, NoAnswerTaken
  <2>3. Requested'
    <3>1. UNCHANGED <<up, task, sess, ghost, tr, st, mw>>
      BY <1>3 DEF vars
    <3>2. Resting' => Resting
      BY <3>1 DEF Resting
    <3> QED  BY <3>1, <3>2, LastsAreNat, RequestedQuiet DEF Protocol
  <2> QED  BY <2>1, <2>2, <2>3 DEF Protocol
<1> QED  BY <1>1, <1>2, <1>3 DEF Next

LEMMA ProtocolInit == Init => Protocol
<1> SUFFICES ASSUME Init PROVE Protocol
  OBVIOUS
<1>1. /\ conn = "up" /\ up = <<>> /\ wire = <<>> /\ sess = NewSession /\ task = NewTasks
      /\ tr = NewTransport /\ mw = NewMiddleware /\ st = NewStore /\ visits = 0 /\ task["cmd"] = Idle
  BY DEF Init, NewTasks
<1>2. Modes
  BY <1>1 DEF Modes, NewMiddleware, NewStore
<1>3. Answers
  BY <1>1, NumberOfNone DEF Answers, NewStore, One, Answering, Idle
<1>4. Unopened
  BY <1>1 DEF Unopened, NewStore, NewTransport
<1>5. Requested
  BY <1>1 DEF Requested, Resting, NewStore
<1> QED  BY <1>2, <1>3, <1>4, <1>5 DEF Protocol

-----------------------------------------------------------------------------
(* The claims are preserved by the server.  What a server's step sends, and  *)
(* what it does to the history on its way.                                 *)

LEMMA FollowsMore ==
  ASSUME NEW s, NEW S, NEW T, Follows(s, S), S \subseteq T
  PROVE  Follows(s, T)
BY DEF Follows

LEMMA WireTyped ==
  ASSUME Types
  PROVE  /\ wire \in Seq(Message(Deliveries)) /\ Len(wire) \in Nat /\ DOMAIN wire = 1 .. Len(wire)
         /\ \A i \in DOMAIN wire : wire[i] \in Message(Deliveries) /\ wire[i].s \in 0 .. log
                                   /\ wire[i].kind \in Deliveries /\ wire[i] = Msg(wire[i].kind, wire[i].s)
<1>1. wire \in Seq(Message(Deliveries))
  BY DEF Types, SocketTypes
<1>2. Len(wire) \in Nat /\ DOMAIN wire = 1 .. Len(wire) /\ \A i \in DOMAIN wire : wire[i] \in Message(Deliveries)
  BY <1>1
<1>3. \A m \in Message(Deliveries) : m.s \in 0 .. log /\ m.kind \in Deliveries /\ m = Msg(m.kind, m.s)
  BY DEF Message, Msg
<1> QED  BY <1>1, <1>2, <1>3

LEMMA Appended ==
  ASSUME NEW T, NEW s \in Seq(T), NEW e
  PROVE  /\ Len(Append(s, e)) = Len(s) + 1 /\ DOMAIN Append(s, e) = 1 .. (Len(s) + 1)
         /\ \A i \in DOMAIN s : Append(s, e)[i] = s[i]
         /\ Append(s, e)[Len(s) + 1] = e /\ Len(s) \in Nat /\ DOMAIN s = 1 .. Len(s)
         /\ Range(Append(s, e)) = Range(s) \cup {e}
<1>1. /\ Len(Append(s, e)) = Len(s) + 1 /\ DOMAIN Append(s, e) = 1 .. (Len(s) + 1)
      /\ \A i \in DOMAIN s : Append(s, e)[i] = s[i]
      /\ Append(s, e)[Len(s) + 1] = e /\ Len(s) \in Nat /\ DOMAIN s = 1 .. Len(s)
  <2>1. s \in Seq(T \cup {e}) /\ e \in T \cup {e}
    OBVIOUS
  <2> QED  BY <2>1
<1>2. 1 .. (Len(s) + 1) = (1 .. Len(s)) \cup {Len(s) + 1}
  BY <1>1
<1>3. Range(Append(s, e)) = {Append(s, e)[i] : i \in DOMAIN Append(s, e)} /\ Range(s) = {s[i] : i \in DOMAIN s}
  BY DEF Range
<1> QED  BY <1>1, <1>2, <1>3

EventBy(s) ==
  \/ FwdSend /\ s = task["fwd"].max
  \/ \E t \in Tasks : (ReplaySend(t) \/ FlushSend(t)) /\ s = Head(task[t].out)

LEMMA WireServer ==
  ASSUME Types, TaskShape, Server
  PROVE  \/ wire' = wire
         \/ Reply /\ wire' = Append(wire, task["cmd"].reply)
         \/ (\E t \in Tasks : SendFullReload(t)) /\ wire' = Append(wire, Msg("reload", 0))
         \/ \E s \in Numbers : EventBy(s) /\ wire' = Append(wire, Msg("event", s))
<1> USE DEF Tasks
<1>1. ASSUME NEW e \in Emitters, Persist(e) \/ Publish(e) PROVE wire' = wire
  BY <1>1 DEF Persist, Publish
<1>2. CASE FwdSkip \/ FwdBuffer \/ FwdTake \/ FwdMark \/ FwdLagged
  BY <1>2, Zenon DEF FwdSkip, FwdBuffer, FwdTake, FwdMark, FwdLagged, Receiving
<1>3. CASE FwdSend
  <2>1. task["fwd"].pc = "event" /\ wire' = Append(wire, Msg("event", task["fwd"].max))
    BY <1>3, FwdSendDoes
  <2>2. task["fwd"].max \in 0 .. log /\ task["fwd"].max > 0
    BY <2>1, TaskTyped DEF TaskShape, FwdShape
  <2>3. task["fwd"].max \in Numbers
    BY <2>2, LogIsNat DEF Numbers
  <2> QED  BY <1>3, <2>1, <2>3 DEF EventBy
<1>4. CASE Subscribe \/ Unsubscribe \/ ReadHistory
  BY <1>4 DEF Subscribe, Unsubscribe, ReadHistory
<1>5. CASE Reply
  BY <1>5, ReplyDoes
<1>6. ASSUME NEW t \in Tasks, ReplaySend(t) \/ FlushSend(t)
      PROVE  \E s \in Numbers : EventBy(s) /\ wire' = Append(wire, Msg("event", s))
  <2>1. task[t].out # <<>> /\ wire' = Append(wire, Msg("event", Head(task[t].out)))
    BY <1>6, ReplaySendDoes, FlushSendDoes
  <2>2. Head(task[t].out) \in Numbers
    BY <2>1, FirstOut
  <2> QED  BY <1>6, <2>1, <2>2 DEF EventBy
<1>7. ASSUME NEW t \in Tasks, SendFullReload(t)
      PROVE  (\E u \in Tasks : SendFullReload(u)) /\ wire' = Append(wire, Msg("reload", 0))
  BY <1>7, AnnounceDoes
<1>8. ASSUME NEW t \in Tasks,
             ReplayPage(t) \/ ReplayFails(t) \/ ReplayDone(t) \/ Drain(t) \/ FlushMark(t) \/ BeginFullReload(t)
      PROVE  wire' = wire
  BY <1>8 DEF ReplayPage, ReplayFails, ReplayDone, Drain, FlushMark, BeginFullReload
<1>9. Server => \/ \E e \in Emitters : Persist(e) \/ Publish(e)
                \/ FwdSkip \/ FwdBuffer \/ FwdTake \/ FwdMark \/ FwdLagged \/ FwdSend
                \/ Subscribe \/ Unsubscribe \/ ReadHistory \/ Reply
                \/ \E t \in Tasks : \/ ReplaySend(t) \/ FlushSend(t) \/ SendFullReload(t)
                                    \/ ReplayPage(t) \/ ReplayFails(t) \/ ReplayDone(t) \/ Drain(t)
                                    \/ FlushMark(t) \/ BeginFullReload(t)
  BY DEF Server, Forwarding, Commands, Replaying
<1> QED
  BY <1>1, <1>2, <1>3, <1>4, <1>5, <1>6, <1>7, <1>8, <1>9

LEMMA BasesKept ==
  ASSUME Types, task'["cmd"].pc = task["cmd"].pc, task'["cmd"].reply = task["cmd"].reply,
         \/ wire' = wire
         \/ \E k \in {"event", "reload"}, s \in 0 .. log : wire' = Append(wire, Msg(k, s))
  PROVE  \A h : BaseIs(h)' <=> BaseIs(h)
<1>1. CASE wire' = wire
  BY <1>1 DEF BaseIs
<1>2. ASSUME NEW k \in {"event", "reload"}, NEW s \in 0 .. log, wire' = Append(wire, Msg(k, s))
      PROVE  \A h : BaseIs(h)' <=> BaseIs(h)
  <2> DEFINE n == Len(wire) + 1
  <2>1. /\ n \in Nat /\ DOMAIN wire = 1 .. Len(wire) /\ DOMAIN wire' = DOMAIN wire \cup {n}
        /\ \A i \in DOMAIN wire : wire'[i] = wire[i] /\ wire'[n] = Msg(k, s)
        /\ wire'[n] = Msg(k, s)
    <3>1. wire \in Seq(Message(Deliveries))
      BY WireTyped
    <3>2. /\ Len(wire) \in Nat /\ DOMAIN wire = 1 .. Len(wire) /\ DOMAIN wire' = 1 .. (Len(wire) + 1)
          /\ (\A i \in DOMAIN wire : wire'[i] = wire[i]) /\ wire'[Len(wire) + 1] = Msg(k, s)
      BY <1>2, <3>1, Appended
    <3> QED  BY <3>2
  <2>2. wire'[n].kind \notin Histories /\ \A h : Msg("history", h).kind \in Histories
    BY <2>1 DEF Histories, Msg
  <2>3. \A h : wire'[n] # Msg("history", h)
    BY <2>2
  <2> HIDE DEF n
  <2>4. ASSUME NEW h
        PROVE (\E i \in DOMAIN wire' : wire'[i] = Msg("history", h) /\ \A j \in DOMAIN wire' : wire'[j].kind \in Histories => j <= i)
              <=> (\E i \in DOMAIN wire : wire[i] = Msg("history", h) /\ \A j \in DOMAIN wire : wire[j].kind \in Histories => j <= i)
    BY <2>1, <2>2, <2>3
  <2> QED  BY <2>4 DEF BaseIs
<1> QED  BY <1>1, <1>2

LEMMA BaseSent ==
  ASSUME Types, Reply, task["cmd"].reply.kind \in Histories, log' = log
  PROVE  \A h : BaseIs(h)' <=> BaseIs(h)
<1> DEFINE n == Len(wire) + 1
           r == task["cmd"].reply
<1>1. task["cmd"].pc = "reply" /\ wire' = Append(wire, r) /\ task'["cmd"].pc # "reply"
  BY ReplyDoes DEF Idle
<1>2. /\ n \in Nat /\ DOMAIN wire = 1 .. Len(wire) /\ DOMAIN wire' = DOMAIN wire \cup {n}
      /\ wire'[n] = r /\ Len(wire) \in Nat
  BY <1>1, WireTyped, Appended
<1>3. \A j \in DOMAIN wire' : j <= n
  BY <1>2
<1>4. \A i \in DOMAIN wire' : n <= i => i = n
  BY <1>2
<1>5. n \in DOMAIN wire' /\ wire'[n].kind \in Histories
  BY <1>2
<1> HIDE DEF n
<1>6. ASSUME NEW h
      PROVE  (\E i \in DOMAIN wire' : wire'[i] = Msg("history", h) /\ \A j \in DOMAIN wire' : wire'[j].kind \in Histories => j <= i)
             <=> r = Msg("history", h)
  BY <1>2, <1>3, <1>4, <1>5
<1> QED  BY <1>1, <1>6 DEF BaseIs

LEMMA SettledParts ==
  ASSUME Settled
  PROVE  /\ st.page = "open" /\ ~mw.again
         /\ \/ st.pc \in {"ack", "idle"} /\ Resting
            \/ st.pc = "history" /\ Waiting /\ up = <<>>
BY DEF Settled, Waiting, Resting

(* A settled page was settled before the step, with the same history, unless *)
(* the step reads the history.                                               *)
LEMMA SettledBefore ==
  ASSUME Types, TaskShape, Requested, Server, Settled'
  PROVE  \/ st.pc = "history" /\ ReadHistory /\ task'["cmd"].pc = "reply" /\ task'["cmd"].reply = Msg("history", log)
         \/ Settled /\ (st.pc = "history" => \A h : BaseIs(h)' <=> BaseIs(h))
<1>0. UNCHANGED <<st, mw, tr>>
  BY DEF Server, client
<1>1. CASE st.pc \in {"ack", "idle"}
  BY <1>0, <1>1 DEF Settled, Waiting
<1>2. CASE st.pc = "history"
  <2>1. Waiting' /\ up' = <<>> /\ st.page = "open" /\ ~mw.again
    BY <1>0, <1>2 DEF Settled, Waiting
  <2>2. PICK h : BaseIs(h)'
    BY <2>1 DEF Waiting
  <2>3. up = <<>> \/ up[Len(up)].kind = "load"
    BY <1>2 DEF Requested
  <2>4. up = <<>> => task["cmd"].pc = "idle" \/ Answering
    BY <1>2 DEF Requested
  <2>5. ASSUME NEW kind, Taking(kind) PROVE kind = "load"
    <3>1. up # <<>> /\ up[1].kind = kind /\ Tail(up) = <<>> /\ Head(up) = up[1]
      BY <2>1, <2>5, UpTyped DEF Taking
    <3>2. Len(up) = 1
      BY <3>1, UpTyped
    <3> QED  BY <2>3, <3>1, <3>2
  <2>6. CASE ReadHistory
    <3>1. PICK y \in {Msg("history", log), Msg("noHistory", 0)} :
            task'["cmd"] = JobOf("reply", <<>>, 0, 0, FALSE, y)
      BY <2>6, ReadHistoryDoes, Zenon
    <3>2. task'["cmd"].pc = "reply" /\ task'["cmd"].reply = y
      BY <3>1 DEF JobOf
    <3>3. y = Msg("history", h)
      BY <2>2, <3>2 DEF BaseIs
    <3>4. y.kind = "history"
      BY <3>3 DEF Msg
    <3>5. y = Msg("history", log)
      BY <3>4 DEF Msg
    <3> QED  BY <1>2, <2>6, <3>2, <3>5
  <2>7. ASSUME up = <<>>, \A x : BaseIs(x)' <=> BaseIs(x), conn' = conn, log' = log \/ wire' = wire
        PROVE  Settled /\ (st.pc = "history" => \A x : BaseIs(x)' <=> BaseIs(x))
    <3>1. BaseIs(h)
      BY <2>2, <2>7
    <3>2. h \in 0 .. log
      <4>1. CASE task["cmd"].pc = "reply" /\ task["cmd"].reply = Msg("history", h)
        <5>1. task["cmd"].reply \in Message(Replies) /\ task["cmd"].reply.s = h
          BY <4>1, Parts, JobFields DEF Msg
        <5> QED  BY <5>1 DEF Message
      <4>2. ASSUME NEW i \in DOMAIN wire, wire[i] = Msg("history", h) PROVE h \in 0 .. log
        BY <4>2, WireTyped DEF Msg
      <4> QED  BY <3>1, <4>1, <4>2 DEF BaseIs
    <3>3. conn = "up"
      BY <2>1, <2>7 DEF Waiting
    <3>4. Waiting
      BY <1>2, <2>7, <3>1, <3>2, <3>3 DEF Waiting
    <3> QED  BY <2>1, <2>7, <3>4 DEF Settled
  <2>8. conn' = conn
    BY Zenon DEF Server, Persist, Publish, Forwarding, Commands, Replaying, FwdSkip, FwdBuffer, FwdTake, FwdSend, FwdMark,
           FwdLagged, Receiving, Subscribe, Unsubscribe, ReadHistory, Reply, ReplayPage, ReplayFails, ReplaySend,
           ReplayDone, Drain, FlushSend, FlushMark, BeginFullReload, SendFullReload
  <2>9. CASE task'["cmd"] = task["cmd"] /\ up' = up
    <3>1. ~(Reply)
      BY <2>9, ReplyDoes DEF Idle
    <3>2. CASE wire' = wire
      BY <2>1, <2>7, <2>8, <2>9, <3>2, BasesKept
    <3>3. ASSUME NEW k \in {"event", "reload"}, NEW s \in 0 .. log, wire' = Append(wire, Msg(k, s)), log' = log
          PROVE  Settled /\ (st.pc = "history" => \A x : BaseIs(x)' <=> BaseIs(x))
      BY <2>1, <2>7, <2>8, <2>9, <3>3, BasesKept
    <3>4. wire' = wire \/ \E k \in {"event", "reload"}, s \in 0 .. log : wire' = Append(wire, Msg(k, s))
      BY <3>1, WireServer, LogIsNat DEF Numbers
    <3>5. wire' = wire \/ log' = log
      <4>1. ASSUME NEW e \in Emitters, Persist(e) PROVE wire' = wire
        BY <4>1 DEF Persist
      <4>2. (\E e \in Emitters : Persist(e)) \/ log' = log
        BY Zenon DEF Server, Publish, Forwarding, Commands, Replaying, FwdSkip, FwdBuffer, FwdTake, FwdSend, FwdMark,
               FwdLagged, Receiving, Subscribe, Unsubscribe, ReadHistory, Reply, ReplayPage, ReplayFails, ReplaySend,
               ReplayDone, Drain, FlushSend, FlushMark, BeginFullReload, SendFullReload, emitting
      <4> QED  BY <4>1, <4>2
    <3> QED  BY <3>2, <3>3, <3>4, <3>5
  <2>10. CASE Reply /\ up' = up
    <3>1. Answering /\ log' = log
      BY <2>1, <2>4, <2>10, ReplyDoes
    <3>2. \A x : BaseIs(x)' <=> BaseIs(x)
      BY <2>10, <3>1, BaseSent DEF Answering
    <3> QED  BY <2>1, <2>7, <2>8, <2>10, <3>1, <3>2
  <2>11. CASE CmdReplays /\ CmdWorks /\ up' = up
    BY <2>1, <2>4, <2>11 DEF CmdWorks, Answering, InReplay
  <2>12. ~Subscribe /\ ~Unsubscribe
    BY <2>5 DEF Subscribe, Unsubscribe
  <2> QED  BY <2>6, <2>9, <2>10, <2>11, <2>12, CmdSteps
<1>3. st.pc \in {"ack", "idle", "history"}
  BY <1>0 DEF Settled, Waiting
<1> QED  BY <1>1, <1>2, <1>3

(* While a page is settled, what it need not be sent any more only grows. *)

LEMMA LogGrows ==
  ASSUME Types, Server
  PROVE  /\ log' \in Nat /\ log <= log' /\ Numbers \subseteq Numbers' /\ (0 .. log) \subseteq (0 .. log)'
         /\ (\E e \in Emitters : Persist(e)) \/ log' = log
<1>1. (\E e \in Emitters : Persist(e)) \/ log' = log
  BY Zenon DEF Server, Publish, Forwarding, Commands, Replaying, FwdSkip, FwdBuffer, FwdTake, FwdSend, FwdMark,
         FwdLagged, Receiving, Subscribe, Unsubscribe, ReadHistory, Reply, ReplayPage, ReplayFails, ReplaySend,
         ReplayDone, Drain, FlushSend, FlushMark, BeginFullReload, SendFullReload, emitting
<1>2. log \in Nat
  BY LogIsNat
<1>3. log' \in Nat /\ log <= log'
  BY <1>1, <1>2 DEF Persist
<1> QED  BY <1>1, <1>2, <1>3 DEF Numbers

LEMMA ClientStill ==
  ASSUME Server
  PROVE  UNCHANGED <<st, mw, tr>> /\ conn' = conn
BY Zenon DEF Server, client, Persist, Publish, Forwarding, Commands, Replaying, FwdSkip, FwdBuffer, FwdTake, FwdSend, FwdMark,
       FwdLagged, Receiving, Subscribe, Unsubscribe, ReadHistory, Reply, ReplayPage, ReplayFails, ReplaySend,
       ReplayDone, Drain, FlushSend, FlushMark, BeginFullReload, SendFullReload

LEMMA HadServer ==
  ASSUME Types, Server, st.pc = "history" => \A h : BaseIs(h)' <=> BaseIs(h)
  PROVE  Had \subseteq Had'
<1>1. st' = st /\ Numbers \subseteq Numbers' /\ (0 .. log) \subseteq (0 .. log)'
  BY LogGrows, ClientStill
<1>2. CASE st.pc = "history"
  BY <1>1, <1>2 DEF Had
<1>3. CASE st.pc # "history"
  BY <1>1, <1>3 DEF Had, Shown
<1> QED  BY <1>2, <1>3

(* A settled page has asked for nothing but, perhaps, its subscription. *)
LEMMA SettledAsks ==
  ASSUME Types, Requested, Settled
  PROVE  /\ ~Unsubscribe /\ ~ReadHistory
         /\ up # <<>> => st.pc # "history" /\ Resting /\ Len(up) = 1 /\ Tail(up) = <<>> /\ Head(up) = up[1]
                         /\ Head(up).kind = "subscribe" /\ Head(up).s <= tr.last /\ task["cmd"].pc \in {"idle", "reply"}
         /\ Strict <=> st.pc = "history" \/ up # <<>>
<1>1. up # <<>> => st.pc # "history" /\ Resting /\ Len(up) = 1 /\ Tail(up) = <<>> /\ Head(up) = up[1]
                   /\ Head(up).kind = "subscribe" /\ Head(up).s <= tr.last /\ task["cmd"].pc \in {"idle", "reply"}
  <2> SUFFICES ASSUME up # <<>>
               PROVE  st.pc # "history" /\ Resting /\ Len(up) = 1 /\ Tail(up) = <<>> /\ Head(up) = up[1]
                      /\ Head(up).kind = "subscribe" /\ Head(up).s <= tr.last /\ task["cmd"].pc \in {"idle", "reply"}
    OBVIOUS
  <2>1. st.pc # "history" /\ Resting
    BY SettledParts
  <2>2. Len(up) = 1 /\ up[1].kind = "subscribe" /\ up[1].s <= tr.last /\ task["cmd"].pc \in {"idle", "reply"}
    BY <2>1 DEF Requested
  <2>3. Head(up) = up[1] /\ Tail(up) = <<>>
    BY <2>2, UpTyped
  <2> QED  BY <2>1, <2>2, <2>3
<1>2. ~Unsubscribe /\ ~ReadHistory
  BY <1>1 DEF Unsubscribe, ReadHistory, Taking
<1>3. Strict <=> st.pc = "history" \/ up # <<>>
  <2>1. st.pc = "history" => up = <<>>
    BY SettledParts
  <2> QED  BY <1>1, <2>1 DEF Strict, Subscribing
<1> QED  BY <1>1, <1>2, <1>3

LEMMA PendKept ==
  ASSUME Types, Server, ~Subscribe, ~Unsubscribe, \A t \in Tasks : ~BeginFullReload(t)
  PROVE  sess'.pend = sess.pend
<1> USE DEF Tasks
<1>1. ASSUME sess' = sess PROVE sess'.pend = sess.pend
  BY <1>1
<1>2. ASSUME NEW c, NEW r, NEW b, sess' = SessionOf(sess.sub, c, r, b, sess.pend) PROVE sess'.pend = sess.pend
  BY <1>2, SessionGives
<1>3. CASE FwdBuffer
  BY <1>2, <1>3, FwdBufferDoes
<1>4. CASE FwdMark
  BY <1>2, <1>4, FwdMarkDoes
<1>5. CASE FwdLagged
  BY <1>2, <1>5, FwdLaggedDoes
<1>6. ASSUME NEW t \in Tasks, ReplayDone(t) PROVE sess'.pend = sess.pend
  BY <1>2, <1>6, ReplayDoneDoes
<1>7. ASSUME NEW t \in Tasks, FlushMark(t) PROVE sess'.pend = sess.pend
  BY <1>2, <1>7, FlushMarkDoes
<1>8. ASSUME NEW t \in Tasks, Drain(t) PROVE sess'.pend = sess.pend
  <2>1. \E c \in 0 .. log, r \in BOOLEAN, b \in {sess.buf, <<>>} :
          sess' = SessionOf(sess.sub, c, r, b, sess.pend)
    BY <1>8, DrainDoes, Zenon
  <2> QED  BY <1>2, <2>1
<1>9. ASSUME sess' # sess
      PROVE  FwdBuffer \/ FwdMark \/ FwdLagged \/ \E t \in Tasks : ReplayDone(t) \/ FlushMark(t) \/ Drain(t)
  BY <1>9, Zenon DEF Server, Forwarding, Commands, Replaying, Persist, Publish, FwdSkip, FwdTake, FwdSend, ReadHistory, Reply,
              ReplayPage, ReplayFails, ReplaySend, FlushSend, SendFullReload
<1> QED  BY <1>1, <1>3, <1>4, <1>5, <1>6, <1>7, <1>8, <1>9

(* What becomes of a task that has a _full_reload to send. *)
LEMMA FailingKept ==
  ASSUME Types, Server, NEW t \in Tasks, task[t].pc \in {"reload", "announce"}, task'[t] # task[t]
  PROVE  BeginFullReload(t) \/ SendFullReload(t)
<1> USE DEF Tasks
<1>1. task["fwd"].pc \in {"reload", "announce"} => ~(FwdTake \/ FwdSend \/ FwdMark \/ FwdLagged)
  BY Zenon DEF FwdTake, FwdSend, FwdMark, FwdLagged, Receiving
<1>2. task["cmd"].pc \in {"reload", "announce"} => ~(Subscribe \/ ReadHistory \/ Reply)
  BY DEF Subscribe, ReadHistory, Reply, Taking
<1>3. ASSUME NEW u \in Tasks, Replaying(u) \/ ReplayFails(u), u # t PROVE task'[t] = task[t]
  <2>1. Others(u)
    BY <1>3, ReplayPageDoes, ReplayFailsDoes, ReplaySendDoes, ReplayDoneDoes, DrainDoes, FlushSendDoes, FlushMarkDoes,
       BeginDoes, AnnounceDoes, Zenon DEF Replaying
  <2> QED  BY <1>3, <2>1 DEF Others
<1>4. ASSUME Replaying(t) \/ ReplayFails(t) PROVE BeginFullReload(t) \/ SendFullReload(t)
  BY <1>4 DEF Replaying, ReplayPage, ReplayFails, ReplaySend, ReplayDone, Drain, FlushSend, FlushMark, AtPage
<1>5. CASE FwdTake \/ FwdSend \/ FwdMark \/ FwdLagged
  <2>1. task'["cmd"] = task["cmd"]
    BY <1>5, FwdTakeDoes, FwdSendDoes, FwdMarkDoes, FwdLaggedDoes, Zenon
  <2> QED  BY <1>1, <1>5, <2>1
<1>6. CASE Subscribe \/ ReadHistory \/ Reply
  <2>1. task'["fwd"] = task["fwd"]
    BY <1>6, SubscribeDoes, ReadHistoryDoes, ReplyDoes, Zenon
  <2> QED  BY <1>2, <1>6, <2>1
<1>7. ASSUME \/ \E e \in Emitters : Persist(e) \/ Publish(e)
             \/ FwdSkip \/ FwdBuffer \/ Unsubscribe
      PROVE  FALSE
  <2>1. task' = task
    BY <1>7, Zenon DEF Persist, Publish, FwdSkip, FwdBuffer, Unsubscribe
  <2> QED  BY <2>1
<1>8. \/ \E e \in Emitters : Persist(e) \/ Publish(e)
      \/ FwdSkip \/ FwdBuffer \/ Unsubscribe
      \/ Subscribe \/ ReadHistory \/ Reply
      \/ FwdTake \/ FwdSend \/ FwdMark \/ FwdLagged
      \/ \E u \in Tasks : Replaying(u) \/ ReplayFails(u)
  BY DEF Server, Forwarding, Commands
<1> QED  BY <1>3, <1>4, <1>5, <1>6, <1>7, <1>8

LEMMA ReloadingKept ==
  ASSUME Types, TaskShape, Server
  PROVE  /\ Range(wire) \subseteq Range(wire)'
         /\ Reloading => Reloading'
         /\ (\E t \in Tasks : SendFullReload(t)) => Reloading'
<1>1. wire' = wire \/ \E m : wire' = Append(wire, m)
  BY WireServer
<1>2. Range(wire) \subseteq Range(wire)'
  <2>1. ASSUME NEW m, wire' = Append(wire, m) PROVE Range(wire) \subseteq Range(wire)'
    <3>1. Range(wire') = Range(wire) \cup {m}
      BY <2>1, WireTyped, Appended
    <3> QED  BY <3>1 DEF Range
  <2>2. wire' = wire => Range(wire)' = Range(wire)
    BY DEF Range
  <2> QED  BY <1>1, <2>1, <2>2
<1>3. ASSUME NEW t \in Tasks, SendFullReload(t) PROVE Reloading'
  <2>1. wire' = Append(wire, Msg("reload", 0))
    BY <1>3, AnnounceDoes
  <2>2. Range(wire') = Range(wire) \cup {Msg("reload", 0)}
    BY <2>1, WireTyped, Appended
  <2> QED  BY <2>2 DEF Reloading, Range
<1> QED  BY <1>2, <1>3 DEF Reloading

LEMMA DoomedServer ==
  ASSUME Types, TaskShape, Server, ~Subscribe, ~Unsubscribe, Doomed
  PROVE  Doomed'
<1> USE DEF Tasks
<1>1. CASE Reloading
  BY <1>1, ReloadingKept DEF Doomed
<1>2. ASSUME NEW t \in Tasks, task[t].pc = "announce" PROVE Doomed'
  <2>1. CASE task'[t] = task[t]
    BY <1>2, <2>1 DEF Doomed
  <2>2. CASE task'[t] # task[t]
    <3>1. SendFullReload(t)
      BY <1>2, <2>2, FailingKept DEF BeginFullReload
    <3> QED  BY <3>1, ReloadingKept DEF Doomed
  <2> QED  BY <2>1, <2>2
<1>3. ASSUME NEW t \in Tasks, BeginFullReload(t), ~sess.pend PROVE Doomed'
  <2>1. task'[t] = With(t, "announce", task[t].out)
    BY <1>3, BeginDoes, Zenon
  <2>2. task'[t].pc = "announce"
    BY <2>1 DEF With, JobOf
  <2> QED  BY <2>2 DEF Doomed
<1>4. ASSUME NEW t \in Tasks, task[t].pc = "reload", ~sess.pend, \A u \in Tasks : ~BeginFullReload(u) PROVE Doomed'
  <2>1. sess'.pend = sess.pend
    BY <1>4, PendKept
  <2>2. ~SendFullReload(t)
    BY <1>4 DEF SendFullReload
  <2>3. task'[t] = task[t]
    BY <1>4, <2>2, FailingKept
  <2> QED  BY <1>4, <2>1, <2>3 DEF Doomed
<1> QED  BY <1>1, <1>2, <1>3, <1>4 DEF Doomed

LEMMA GhostServer ==
  ASSUME Types, Server
  PROVE  /\ ghost.excused \subseteq ghost'.excused
         /\ Subscribe \/ ghost.owed \subseteq ghost'.owed
<1> USE DEF Tasks
<1>1. ASSUME ghost' = ghost PROVE ghost.excused \subseteq ghost'.excused /\ ghost.owed \subseteq ghost'.owed
  BY <1>1
<1>2. ASSUME NEW g, NEW o, NEW x, ghost' = GhostOf(g, ghost.owed \cup o, ghost.excused \cup x)
      PROVE  ghost.excused \subseteq ghost'.excused /\ ghost.owed \subseteq ghost'.owed
  <2>1. ghost'.owed = ghost.owed \cup o /\ ghost'.excused = ghost.excused \cup x
    BY <1>2 DEF GhostOf
  <2> QED  BY <2>1
<1>3. ghost.owed = ghost.owed \cup {} /\ ghost.excused = ghost.excused \cup {}
  OBVIOUS
<1>4. ASSUME NEW e \in Emitters, Publish(e) PROVE ghost.excused \subseteq ghost'.excused /\ ghost.owed \subseteq ghost'.owed
  <2>1. ghost' = GhostOf(ghost.gone \cup Lost(e), ghost.owed \cup {}, ghost.excused \cup Overtaken(e))
    BY <1>3, <1>4, PublishDoes
  <2> QED  BY <1>2, <2>1, Zenon
<1>5. CASE FwdLagged
  <2>1. \E x : ghost' = GhostOf({}, ghost.owed \cup {}, ghost.excused \cup x)
    BY <1>3, <1>5, FwdLaggedDoes, Zenon
  <2> QED  BY <1>2, <2>1, Zenon
<1>6. CASE Subscribe
  <2>1. ghost' = GhostOf(ghost.gone, {}, ghost.excused)
    BY <1>6, SubscribeDoes
  <2>2. ghost'.excused = ghost.excused
    BY <2>1 DEF GhostOf
  <2> QED  BY <1>6, <2>2
<1>7. ASSUME NEW t \in Tasks, Drain(t) \/ BeginFullReload(t)
      PROVE  ghost.excused \subseteq ghost'.excused /\ ghost.owed \subseteq ghost'.owed
  <2>1. ghost' = ghost \/ ghost' = GhostOf(ghost.gone, ghost.owed \cup Unsent, ghost.excused \cup {})
    BY <1>3, <1>7, DrainDoes, BeginDoes, Zenon
  <2> QED  BY <1>1, <1>2, <2>1, Zenon
<1>8. ASSUME ghost' # ghost
      PROVE  \/ \E e \in Emitters : Publish(e)
             \/ FwdLagged \/ Subscribe \/ \E t \in Tasks : Drain(t) \/ BeginFullReload(t)
  BY <1>8, Zenon DEF Server, Persist, Forwarding, Commands, Replaying, FwdSkip, FwdBuffer, FwdTake, FwdSend, FwdMark,
       Receiving, Unsubscribe, ReadHistory, Reply, ReplayPage, ReplayFails, ReplaySend,
       ReplayDone, FlushSend, FlushMark, SendFullReload
<1> QED  BY <1>1, <1>4, <1>5, <1>6, <1>7, <1>8

LEMMA OutServer ==
  ASSUME Types, TaskShape, Requested, Server, Settled
  PROVE  Out \subseteq Out'
<1>0. ghost.excused \subseteq Out /\ ghost'.excused \subseteq Out'
  BY DEF Out
<1>1. CASE Subscribe
  <2>1. Strict
    BY <1>1, SettledAsks DEF Subscribe, Taking
  <2>2. Out = ghost.excused
    BY <2>1 DEF Out
  <2> QED  BY <1>0, <2>2, GhostServer
<1>2. CASE ~Subscribe
  <2>1. ~Unsubscribe /\ ~ReadHistory
    BY SettledAsks
  <2>2. up' = up
    BY <1>2, <2>1, CmdSteps
  <2>3. Strict' = Strict
    BY <2>2, ClientStill DEF Strict, Subscribing
  <2>4. Doomed => Doomed'
    BY <1>2, <2>1, DoomedServer
  <2>5. ghost.excused \subseteq ghost'.excused /\ ghost.owed \subseteq ghost'.owed
    BY <1>2, GhostServer
  <2> QED  BY <2>3, <2>4, <2>5 DEF Out
<1> QED  BY <1>1, <1>2

LEMMA SafeServer ==
  ASSUME Types, TaskShape, Requested, Server, Settled, st.pc = "history" => \A h : BaseIs(h)' <=> BaseIs(h)
  PROVE  /\ Out \subseteq Out' /\ Got \subseteq Got' /\ Here \subseteq Here' /\ Sent \subseteq Sent' /\ Safe \subseteq Safe'
<1>1. Out \subseteq Out' /\ Had \subseteq Had'
  BY OutServer, HadServer
<1>2. Got \subseteq Got' /\ Here \subseteq Here'
  BY <1>1, ClientStill DEF Got, Here, Range
<1>3. Sent \subseteq Sent'
  BY ReloadingKept, LogGrows DEF Sent
<1> QED  BY <1>1, <1>2, <1>3 DEF Safe

(* The claims about the client, after a server's step. *)

LEMMA TypesNext ==
  ASSUME Types'
  PROVE  /\ log' \in Nat /\ \A d \in Numbers' : d \in Nat /\ d > 0 /\ d <= log' /\ 1 .. (d - 1) \subseteq Numbers' /\ 1 .. d \subseteq Numbers'
         /\ \A c \in (0 .. log)' : 1 .. c \subseteq Numbers' /\ c \in Nat /\ 1 .. (c - 1) \subseteq Numbers'
         /\ sess'.cp \in (0 .. log)' /\ sess'.buf \in Seq(Numbers')
         /\ \A t \in Tasks : task'[t].out \in Seq(Numbers') /\ task'[t].pos \in (0 .. log)' /\ task'[t].max \in (0 .. log)'
                             /\ task'[t].pc \in Steps
         /\ mw'.buf \in Seq(Numbers') /\ tr'.last \in (0 .. log)'
         /\ st'.timeline \in Seq(Numbers') /\ st'.last \in (0 .. log)'
         /\ \A i \in DOMAIN wire' : wire'[i].s \in (0 .. log)'
<1>1. log' \in Nat
  BY DEF Types, ChannelTypes, Seqs
<1>2. \A d \in Numbers' : d \in Nat /\ d > 0 /\ d <= log' /\ 1 .. (d - 1) \subseteq Numbers' /\ 1 .. d \subseteq Numbers'
  BY <1>1 DEF Numbers
<1>3. \A c \in (0 .. log)' : 1 .. c \subseteq Numbers' /\ c \in Nat /\ 1 .. (c - 1) \subseteq Numbers'
  BY <1>1 DEF Numbers
<1>4. sess'.cp \in (0 .. log)' /\ sess'.buf \in Seq(Numbers')
  <2>1. sess' \in Session'
    BY DEF Types, SessionTypes
  <2> QED  BY <2>1 DEF Session
<1>5. \A t \in Tasks : task'[t].out \in Seq(Numbers') /\ task'[t].pos \in (0 .. log)' /\ task'[t].max \in (0 .. log)'
                       /\ task'[t].pc \in Steps
  <2>1. \A t \in Tasks : task'[t] \in Job'
    BY DEF Types, SessionTypes, Tasks
  <2>2. \A j \in Job' : j.out \in Seq(Numbers') /\ j.pos \in (0 .. log)' /\ j.max \in (0 .. log)' /\ j.pc \in Steps
    BY DEF Job, Steps
  <2> QED  BY <2>1, <2>2
<1>6. mw'.buf \in Seq(Numbers') /\ tr'.last \in (0 .. log)' /\ st'.timeline \in Seq(Numbers') /\ st'.last \in (0 .. log)'
  <2>1. mw' \in Middleware' /\ tr' \in Transport' /\ st' \in Store'
    BY DEF Types, ClientTypes
  <2>2. mw'.buf \in Seq(Numbers')
    BY <2>1 DEF Middleware
  <2>3. tr'.last \in (0 .. log)'
    BY <2>1 DEF Transport
  <2>4. st'.timeline \in Seq(Numbers') /\ st'.last \in (0 .. log)'
    BY <2>1 DEF Store
  <2> QED  BY <2>2, <2>3, <2>4
<1>7. \A i \in DOMAIN wire' : wire'[i].s \in (0 .. log)'
  <2>1. wire' \in Seq(Message(Deliveries)')
    BY DEF Types, SocketTypes
  <2>2. \A m \in Message(Deliveries)' : m.s \in (0 .. log)'
    BY DEF Message
  <2> QED  BY <2>1, <2>2
<1> QED  BY <1>1, <1>2, <1>3, <1>4, <1>5, <1>6, <1>7

LEMMA FollowsAll ==
  ASSUME Types', NEW s \in Seq(Numbers'), NEW S, Numbers' \subseteq S
  PROVE  Follows(s, S)
<1>1. \A i \in DOMAIN s : s[i] \in Numbers'
  OBVIOUS
<1> QED  BY <1>1, TypesNext DEF Follows

(* Once every event is in the page's history, or safe, the claims hold. *)
LEMMA AllSent ==
  ASSUME Types', Numbers' \subseteq Safe'
  PROVE  SentAll' /\ Covered'
<1>1. Numbers' \subseteq Pool'
  BY DEF Pool
<1>2. Covered'
  BY <1>1 DEF Covered
<1>3. \A S : Numbers' \subseteq S => Follows(sess'.buf, S) /\ Follows(task'["cmd"].out, S)
  BY TypesNext, FollowsAll, Zenon DEF Tasks
<1>4. Follows(sess.buf, Safe \cup Brings("cmd"))' /\ Follows(task["cmd"].out, Safe)'
  BY <1>3
<1>5. SentAll'
  BY <1>4, TypesNext, Zenon DEF SentAll, Tasks
<1> QED  BY <1>2, <1>5

LEMMA WholeLog ==
  ASSUME Types', st'.pc = "history", Numbers' \subseteq Had', task'["cmd"].pc = "reply"
  PROVE  Claims'
<1>1. Numbers' \subseteq Got' /\ Numbers' \subseteq Here' /\ Numbers' \subseteq Safe'
  BY DEF Got, Here, Safe
<1>2. ~Busy'
  BY DEF Busy, InReplay
<1>3. Follows(mw.buf, Got)'
  BY <1>1, TypesNext, FollowsAll
<1>4. WireOrder'
  <2> SUFFICES ASSUME NEW i \in DOMAIN wire', NEW d \in 1 .. (wire'[i].s - 1) PROVE d \in Here'
    BY DEF WireOrder
  <2>1. wire'[i].s \in (0 .. log)'
    BY TypesNext
  <2> QED  BY <1>1, <2>1, TypesNext
<1>5. 1 .. tr'.last \subseteq Here'
  BY <1>1, TypesNext
<1>6. ClientClaims'
  BY <1>3, <1>4, <1>5 DEF ClientClaims, TimelineOrder
<1>7. SentAll' /\ Covered'
  BY <1>1, AllSent
<1> QED  BY <1>2, <1>6, <1>7 DEF Claims, ServerClaims, BusyClaims

(* The number of an event that is sent follows those that are safe. *)
LEMMA SentInOrder ==
  ASSUME Types, Shape, SentAll, NEW s \in Numbers, EventBy(s)
  PROVE  1 .. (s - 1) \subseteq Safe
<1> USE DEF Tasks
<1>1. CASE FwdSend /\ s = task["fwd"].max
  BY <1>1 DEF FwdSend, SentAll
<1>2. ASSUME NEW t \in Tasks, ReplaySend(t), s = Head(task[t].out) PROVE 1 .. (s - 1) \subseteq Safe
  <2>1. task[t].pc = "send" /\ task[t].out # <<>>
    BY <1>2, ReplaySendDoes
  <2>2. PageShape(task[t]) /\ 1 .. task[t].pos \subseteq Safe /\ task[t].pos \in 0 .. log /\ task[t].pos \in Nat
    BY <2>1, TaskTyped, LogIsNat DEF SentAll, Shape, TaskShape
  <2>3. task[t].out[1] = task[t].pos + 1 /\ s = task[t].out[1]
    BY <1>2, <2>1, <2>2, FirstOut DEF PageShape
  <2>4. s - 1 = task[t].pos
    BY <2>2, <2>3
  <2> QED  BY <2>2, <2>4
<1>3. ASSUME FlushSend("cmd"), s = Head(task["cmd"].out) PROVE 1 .. (s - 1) \subseteq Safe
  <2>1. task["cmd"].pc = "flush" /\ task["cmd"].out # <<>>
    BY <1>3, FlushSendDoes
  <2>2. Follows(task["cmd"].out, Safe)
    BY <2>1 DEF SentAll
  <2>3. 1 \in DOMAIN task["cmd"].out /\ s = task["cmd"].out[1]
    BY <1>3, <2>1, FirstOut
  <2>4. 1 .. (s - 1) \subseteq Safe \cup {task["cmd"].out[j] : j \in 1 .. (1 - 1)}
    BY <2>2, <2>3 DEF Follows
  <2>5. 1 .. (1 - 1) = {}
    OBVIOUS
  <2> QED  BY <2>4, <2>5
<1>4. ~FlushSend("fwd")
  BY DEF FlushSend, Shape, TaskShape, FwdShape
<1> QED  BY <1>1, <1>2, <1>3, <1>4 DEF EventBy

LEMMA WireOrderServer ==
  ASSUME Types, Shape, Requested, Server, Settled, Claims, Here \subseteq Here'
  PROVE  WireOrder'
<1>0. WireOrder
  BY DEF Claims, ClientClaims
<1>1. CASE wire' = wire
  BY <1>0, <1>1 DEF WireOrder
<1>2. ASSUME NEW m, wire' = Append(wire, m), m.kind # "event" \/ Reloading \/ 1 .. (m.s - 1) \subseteq Safe
      PROVE  WireOrder'
  <2>1. wire \in Seq(Message(Deliveries))
    BY WireTyped
  <2>2. /\ DOMAIN wire = 1 .. Len(wire) /\ DOMAIN wire' = 1 .. (Len(wire) + 1) /\ Len(wire) \in Nat
        /\ \A i \in DOMAIN wire : wire'[i] = wire[i]
        /\ wire'[Len(wire) + 1] = m
    BY <1>2, <2>1, Appended
  <2>3. ASSUME NEW i \in DOMAIN wire', wire'[i].kind = "event", \A j \in 1 .. i - 1 : wire'[j].kind # "reload",
               NEW d \in 1 .. (wire'[i].s - 1)
        PROVE  d \in Here' \/ \E j \in 1 .. i - 1 : wire'[j] = Msg("event", d)
    <3>1. CASE i \in DOMAIN wire
      <4>1. \A j \in 1 .. i - 1 : j \in DOMAIN wire /\ wire'[j] = wire[j]
        BY <2>2, <3>1
      <4>2. wire'[i] = wire[i]
        BY <2>2, <3>1
      <4>3. d \in Here \/ \E j \in 1 .. i - 1 : wire[j] = Msg("event", d)
        BY <1>0, <2>3, <3>1, <4>1, <4>2 DEF WireOrder
      <4> QED  BY <4>1, <4>3
    <3>2. CASE i \notin DOMAIN wire
      <4>1. i = Len(wire) + 1 /\ wire'[i] = m
        BY <2>2, <3>2
      <4>2. \A j \in DOMAIN wire : j \in 1 .. i - 1 /\ wire'[j] = wire[j]
        BY <2>2, <4>1
      <4>3. ~Reloading
        <5>1. ASSUME NEW j \in DOMAIN wire, wire[j] = Msg("reload", 0) PROVE FALSE
          BY <2>3, <4>2, <5>1 DEF Msg
        <5> QED  BY <5>1 DEF Reloading, Range
      <4>4. d \in Safe
        BY <1>2, <2>3, <4>1, <4>3
      <4>5. d \in Sent => \E j \in DOMAIN wire : wire[j] = Msg("event", d)
        BY DEF Sent, Range
      <4> QED  BY <4>2, <4>4, <4>5 DEF Safe
    <3> QED  BY <3>1, <3>2
  <2> QED  BY <2>3 DEF WireOrder
<1>3. CASE Reply /\ wire' = Append(wire, task["cmd"].reply)
  <2>1. task["cmd"].reply.kind # "event"
    <3>1. task["cmd"].reply \in Message(Replies)
      BY Parts, JobFields
    <3> QED  BY <3>1 DEF Message, Replies
  <2> QED  BY <1>2, <1>3, <2>1
<1>4. CASE wire' = Append(wire, Msg("reload", 0))
  <2>1. Msg("reload", 0).kind # "event"
    BY DEF Msg
  <2> QED  BY <1>2, <1>4, <2>1
<1>5. ASSUME NEW s \in Numbers, EventBy(s), wire' = Append(wire, Msg("event", s)) PROVE WireOrder'
  <2>1. conn = "up"
    <3>1. FwdSend \/ \E t \in Tasks : ReplaySend(t) \/ FlushSend(t)
      BY <1>5 DEF EventBy
    <3>2. Forwarding \/ Commands
      BY <3>1 DEF Forwarding, Commands, Replaying, Tasks
    <3> QED  BY <3>2, ServerUp DEF Shape
  <2>2. Reloading \/ 1 .. (s - 1) \subseteq Safe
    BY <1>5, <2>1, SentInOrder DEF Claims, ServerClaims
  <2>3. Msg("event", s).s = s
    BY DEF Msg
  <2> QED  BY <1>2, <1>5, <2>2, <2>3
<1> QED  BY <1>1, <1>3, <1>4, <1>5, WireServer DEF Shape

LEMMA ClientClaimsServer ==
  ASSUME Types, Shape, Requested, Server, Settled, Claims, st.pc = "history" => \A h : BaseIs(h)' <=> BaseIs(h)
  PROVE  ClientClaims'
<1>1. Out \subseteq Out' /\ Got \subseteq Got' /\ Here \subseteq Here'
  BY SafeServer DEF Shape
<1>2. WireOrder'
  BY <1>1, WireOrderServer
<1>3. UNCHANGED <<st, mw, tr>>
  BY ClientStill
<1>4. TimelineOrder /\ Follows(mw.buf, Got) /\ 1 .. tr.last \subseteq Here
  BY DEF Claims, ClientClaims
<1>5. TimelineOrder'
  <2>1. \A S, T : Follows(st.timeline, S) /\ S \subseteq T => Follows(st.timeline, T)
    BY FollowsMore
  <2>2. Follows(st.timeline, Out) => Follows(st.timeline, Out)'
    BY <1>1, <1>3, <2>1
  <2> QED  BY <1>3, <1>4, <2>2 DEF TimelineOrder, Shown
<1>6. Follows(mw.buf, Got)'
  <2>1. \A S, T : Follows(mw.buf, S) /\ S \subseteq T => Follows(mw.buf, T)
    BY FollowsMore
  <2> QED  BY <1>1, <1>3, <1>4, <2>1
<1> QED  BY <1>1, <1>2, <1>3, <1>4, <1>5, <1>6 DEF ClientClaims

-----------------------------------------------------------------------------
(* The claims about the server: what has been sent, by the part it concerns. *)

PageSent(j, S) == j.pc \in {"read", "send"} => 1 .. j.pos \subseteq S
FwdSent(j, S) ==
  /\ j.pc = "event" => 1 .. (j.max - 1) \subseteq S
  /\ j.pc = "mark" => 1 .. j.max \subseteq S
  /\ PageSent(j, S)
CmdSent(j, S) ==
  /\ j.pc \in {"drain", "flush"} => 1 .. j.max \subseteq S
  /\ j.pc = "flush" => Follows(j.out, S)
  /\ PageSent(j, S)
JobSent(t, j, S) == IF t = "fwd" THEN FwdSent(j, S) ELSE CmdSent(j, S)

BringsOf(j, c, N) ==
  IF j.pc = "read" \/ (j.pc = "send" /\ j.more) THEN {d \in N : d > j.pos}
  ELSE IF j.pc \in {"send", "flush"} THEN Range(j.out)
  ELSE IF j.pc = "reload" THEN {d \in N : d > c}
  ELSE {}

(* A step of the server while the page is settled and no reload on its way. *)
Serving == Types /\ Types' /\ Shape /\ SentAll /\ Covered /\ Safe \subseteq Safe' /\ Server

LEMMA BringsIs ==
  ASSUME NEW t \in Tasks
  PROVE  /\ Brings(t) = BringsOf(task[t], sess.cp, Numbers)
         /\ Brings(t)' = BringsOf(task'[t], sess'.cp, Numbers')
BY DEF Brings, BringsOf

LEMMA SentAllIs ==
  /\ SentAll <=> /\ sess.sub => 1 .. sess.cp \subseteq Safe
                 /\ \A t \in Tasks : JobSent(t, task[t], Safe)
                 /\ Follows(sess.buf, Safe \cup Brings("cmd"))
  /\ SentAll' <=> /\ sess'.sub => 1 .. sess'.cp \subseteq Safe'
                  /\ \A t \in Tasks : JobSent(t, task'[t], Safe')
                  /\ Follows(sess'.buf, Safe' \cup Brings("cmd")')
BY DEF SentAll, JobSent, FwdSent, CmdSent, PageSent, Tasks

LEMMA JobSentMore ==
  ASSUME NEW t, NEW j, NEW S, NEW T, JobSent(t, j, S), S \subseteq T
  PROVE  JobSent(t, j, T)
BY DEF JobSent, FwdSent, CmdSent, PageSent, Follows

LEMMA IdleSent ==
  \A t \in Tasks : \A S : JobSent(t, Idle, S)
BY DEF JobSent, FwdSent, CmdSent, PageSent, Idle

LEMMA LeavesSent ==
  ASSUME Types, NEW t \in Tasks
  PROVE  /\ \A S : JobSent(t, Leaves(t), S)
         /\ \A c, N : BringsOf(Leaves(t), c, N) = {}
<1>1. Leaves(t).pc \in {"idle", "reply"}
  BY LeavesIs DEF Tasks
<1> QED  BY <1>1 DEF JobSent, FwdSent, CmdSent, PageSent, BringsOf

(* A task that does not move brings what it brought, or that is now safe. *)
LEMMA BringsKept ==
  ASSUME Serving, NEW t \in Tasks, task'[t] = task[t], sess'.cp = sess.cp \/ 1 .. sess'.cp \subseteq Safe'
  PROVE  Brings(t) \subseteq Brings(t)' \cup Safe'
<1>1. Numbers \subseteq Numbers' /\ \A d \in Numbers' : d \in Nat /\ d > 0
  BY LogGrows, TypesNext DEF Serving
<1>2. sess'.cp \in Nat
  BY TypesNext DEF Serving
<1>3. \A d \in Numbers : d > sess'.cp \/ d \in 1 .. sess'.cp
  BY <1>1, <1>2
<1>4. \A d \in Numbers : d > sess.cp => d > sess'.cp \/ d \in Safe'
  BY <1>3
<1> QED  BY <1>1, <1>4, BringsIs DEF BringsOf

LEMMA SentAllKept ==
  ASSUME Serving, sess'.sub => 1 .. sess'.cp \subseteq Safe',
         \A t \in Tasks : task'[t] = task[t] \/ JobSent(t, task'[t], Safe'),
         \/ sess'.buf = sess.buf /\ Brings("cmd") \subseteq Brings("cmd")' \cup Safe'
         \/ sess'.buf = <<>>
         \/ Follows(sess'.buf, Safe' \cup Brings("cmd")')
  PROVE  SentAll'
<1>1. Safe \subseteq Safe' /\ (\A t \in Tasks : JobSent(t, task[t], Safe)) /\ Follows(sess.buf, Safe \cup Brings("cmd"))
  BY SentAllIs DEF Serving
<1>2. \A t \in Tasks : JobSent(t, task'[t], Safe')
  BY <1>1, JobSentMore
<1>3. Follows(sess'.buf, Safe' \cup Brings("cmd")')
  <2>1. CASE sess'.buf = sess.buf /\ Brings("cmd") \subseteq Brings("cmd")' \cup Safe'
    <3>1. Safe \cup Brings("cmd") \subseteq Safe' \cup Brings("cmd")'
      BY <1>1, <2>1
    <3> QED  BY <1>1, <2>1, <3>1, FollowsMore
  <2>2. CASE sess'.buf = <<>>
    <3>1. DOMAIN <<>> = {}
      OBVIOUS
    <3> QED  BY <2>2, <3>1 DEF Follows
  <2> QED  BY <2>1, <2>2
<1> QED  BY <1>2, <1>3, SentAllIs

(* The events of the log and where each of them is. *)
OpenCover == Pool \cup Taken
BufferCover == Pool \cup Taken \cup Range(sess.buf) \cup Brings("cmd")
ReplayCover == Pool \cup (IF sess.pend THEN {} ELSE Brings("fwd"))

LEMMA CoveredIs ==
  /\ Covered <=> /\ Receptive /\ ~sess.rep => Numbers \subseteq OpenCover
                 /\ Receptive /\ sess.rep /\ Len(sess.buf) < BufCap => Numbers \subseteq BufferCover
                 /\ task["fwd"].pc \in InReplay => Numbers \subseteq ReplayCover
  /\ Covered' <=> /\ Receptive' /\ ~sess'.rep => Numbers' \subseteq OpenCover'
                  /\ Receptive' /\ sess'.rep /\ Len(sess'.buf) < BufCap => Numbers' \subseteq BufferCover'
                  /\ task'["fwd"].pc \in InReplay => Numbers' \subseteq ReplayCover'
BY DEF Covered, OpenCover, BufferCover, ReplayCover

LEMMA CoveredKept ==
  ASSUME Serving, Numbers' \subseteq Numbers \cup Pool', Pool \subseteq Pool', Taken \subseteq Taken' \cup Pool',
         Brings("cmd") \subseteq Brings("cmd")' \cup Safe', Brings("fwd") \subseteq Brings("fwd")' \cup Safe',
         Range(sess.buf) \subseteq Range(sess'.buf) \cup Brings("cmd")' \cup Safe',
         sess'.sub = sess.sub, sess'.rep = sess.rep, sess'.pend = sess.pend,
         Len(sess'.buf) < BufCap => Len(sess.buf) < BufCap,
         task'["fwd"].pc \in {"idle", "event", "mark"} => task["fwd"].pc \in {"idle", "event", "mark"},
         task'["fwd"].pc \in InReplay => task["fwd"].pc \in InReplay
  PROVE  Covered'
<1>1. Safe' \subseteq Pool'
  BY DEF Pool
<1>2. OpenCover \subseteq OpenCover' /\ BufferCover \subseteq BufferCover' /\ ReplayCover \subseteq ReplayCover'
  <2>1. OpenCover \subseteq OpenCover'
    BY DEF OpenCover
  <2>2. BufferCover \subseteq BufferCover'
    BY <1>1 DEF BufferCover
  <2>3. ReplayCover \subseteq ReplayCover'
    BY <1>1 DEF ReplayCover
  <2> QED  BY <2>1, <2>2, <2>3
<1>3. Pool' \subseteq OpenCover' /\ Pool' \subseteq BufferCover' /\ Pool' \subseteq ReplayCover'
  BY DEF OpenCover, BufferCover, ReplayCover
<1>4. Receptive' => Receptive
  BY DEF Receptive
<1> QED  BY <1>2, <1>3, <1>4, CoveredIs DEF Serving

(* What is pooled stays so, unless the receiver takes it. *)
LEMMA PoolKept ==
  ASSUME Serving, UNCHANGED <<held, chan>>, ghost.gone \subseteq ghost'.gone \cup Safe'
  PROVE  Pool \subseteq Pool'
BY DEF Serving, Pool, Held, Range

(* One task moves and the session's subscription, buffer and mode stay. *)
LEMMA TurnServes ==
  ASSUME Serving, NEW t \in Tasks, Others(t), UNCHANGED <<log, held, chan>>, ghost'.gone = ghost.gone,
         sess'.sub = sess.sub, sess'.rep = sess.rep, sess'.pend = sess.pend, sess'.buf = sess.buf,
         sess'.cp = sess.cp \/ 1 .. sess'.cp \subseteq Safe',
         JobSent(t, task'[t], Safe'), Brings(t) \subseteq Brings(t)' \cup Safe',
         t = "fwd" => /\ task'[t].pc \in {"idle", "event", "mark"} => task[t].pc \in {"idle", "event", "mark"}
                      /\ task'[t].pc \in InReplay => task[t].pc \in InReplay
                      /\ Taken \subseteq Taken' \cup Safe'
  PROVE  SentAll' /\ Covered'
<1> USE DEF Tasks
<1>1. sess'.sub => 1 .. sess'.cp \subseteq Safe'
  BY SentAllIs DEF Serving
<1>2. \A u \in Tasks : Brings(u) \subseteq Brings(u)' \cup Safe'
  BY BringsKept DEF Others
<1>3. \A u \in Tasks : task'[u] = task[u] \/ JobSent(u, task'[u], Safe')
  BY DEF Others
<1>4. Brings("cmd") \subseteq Brings("cmd")' \cup Safe' /\ Brings("fwd") \subseteq Brings("fwd")' \cup Safe'
  BY <1>2
<1>5. SentAll'
  BY <1>1, <1>3, <1>4, SentAllKept
<1>6. Pool \subseteq Pool' /\ Safe' \subseteq Pool' /\ Numbers' = Numbers /\ Range(sess.buf) = Range(sess'.buf)
  BY PoolKept DEF Pool, Numbers
<1>7. t # "fwd" => task'["fwd"] = task["fwd"] /\ Taken' = Taken
  BY DEF Others, Taken
<1>8. Covered'
  BY <1>4, <1>6, <1>7, CoveredKept
<1> QED  BY <1>5, <1>8

LEMMA ServingFacts ==
  ASSUME Serving
  PROVE  /\ log \in Nat /\ sess.cp \in Nat /\ sess.sub \in BOOLEAN /\ sess.rep \in BOOLEAN /\ sess.pend \in BOOLEAN
         /\ Numbers \subseteq Nat \ {0} /\ Numbers' \subseteq Nat \ {0}
         /\ Safe \subseteq Safe' /\ Safe' \subseteq Pool'
         /\ sess.sub => 1 .. sess.cp \subseteq Safe
         /\ ~sess.sub => sess.cp = 0 /\ ~sess.rep
         /\ ~sess.rep => sess.buf = <<>>
         /\ \A t \in Tasks : JobSent(t, task[t], Safe)
         /\ \A t \in Tasks : task[t].pos \in Nat /\ task[t].max \in Nat
<1>1. log \in Nat /\ sess.cp \in 0 .. log /\ sess.sub \in BOOLEAN /\ sess.rep \in BOOLEAN /\ sess.pend \in BOOLEAN
  BY LogIsNat, SessTyped DEF Serving
<1>2. Numbers \subseteq Nat \ {0} /\ Numbers' \subseteq Nat \ {0}
  BY <1>1, TypesNext DEF Serving, Numbers
<1>3. Safe' \subseteq Pool'
  BY DEF Pool
<1>4. (~sess.sub => sess.cp = 0 /\ ~sess.rep) /\ (~sess.rep => sess.buf = <<>>)
  BY DEF Serving, Shape, SessionShape
<1>5. (sess.sub => 1 .. sess.cp \subseteq Safe) /\ \A t \in Tasks : JobSent(t, task[t], Safe)
  BY SentAllIs DEF Serving
<1>6. \A t \in Tasks : task[t].pos \in Nat /\ task[t].max \in Nat
  BY <1>1, TaskTyped DEF Serving
<1> QED  BY <1>1, <1>2, <1>3, <1>4, <1>5, <1>6 DEF Serving

(* What the checkpoint is moved to is safe if the number given is. *)
LEMMA AdvanceServes ==
  ASSUME Serving, NEW s \in Nat, 1 .. s \subseteq Safe
  PROVE  /\ To(s) = sess.cp \/ 1 .. To(s) \subseteq Safe'
         /\ sess.sub => 1 .. To(s) \subseteq Safe'
<1>1. sess.sub => To(s) = s \/ To(s) = sess.cp
  BY DEF To, MaxOf
<1>2. ~sess.sub => To(s) = sess.cp
  BY DEF To
<1> QED  BY <1>1, <1>2, ServingFacts

LEMMA EventIsSent ==
  ASSUME Serving, NEW s \in Numbers, wire' = Append(wire, Msg("event", s))
  PROVE  s \in Safe'
<1>1. Range(wire') = Range(wire) \cup {Msg("event", s)}
  BY WireTyped, Appended DEF Serving
<1>2. s \in Numbers'
  BY LogGrows DEF Serving
<1> QED  BY <1>1, <1>2 DEF Safe, Sent, Range

LEMMA PersistServes ==
  ASSUME Serving, NEW e \in Emitters, Persist(e)
  PROVE  SentAll' /\ Covered'
<1>1. UNCHANGED <<chan, sess, task, ghost>> /\ log' = log + 1 /\ held[e] = 0 /\ held' = [held EXCEPT ![e] = log + 1]
  BY DEF Persist, channel
<1>2. \A t \in Tasks : Brings(t) \subseteq Brings(t)' \cup Safe'
  BY <1>1, BringsKept
<1>3. Brings("cmd") \subseteq Brings("cmd")' \cup Safe' /\ Brings("fwd") \subseteq Brings("fwd")' \cup Safe'
  BY <1>2 DEF Tasks
<1>4. SentAll'
  BY <1>1, <1>3, ServingFacts, SentAllKept
<1>5. held \in [Emitters -> 0 .. log] /\ log \in Nat
  BY HeldTyped, LogIsNat DEF Serving
<1>6. Held \subseteq Held' /\ log + 1 \in Held'
  <2>1. held'[e] = log + 1 /\ \A f \in Emitters : f # e => held'[f] = held[f]
    BY <1>1, <1>5
  <2> QED  BY <1>1, <1>5, <2>1 DEF Held
<1>7. Pool \subseteq Pool' /\ log + 1 \in Pool'
  BY <1>1, <1>6, ServingFacts DEF Pool, Range
<1>8. Numbers' \subseteq Numbers \cup Pool'
  <2>1. Numbers' \subseteq Numbers \cup {log + 1}
    BY <1>1, <1>5 DEF Numbers
  <2> QED  BY <1>7, <2>1
<1>9. Taken' = Taken /\ Range(sess.buf) = Range(sess'.buf)
  BY <1>1 DEF Taken
<1>10. Covered'
  BY <1>1, <1>3, <1>7, <1>8, <1>9, CoveredKept
<1> QED  BY <1>4, <1>10

LEMMA PublishServes ==
  ASSUME Serving, NEW e \in Emitters, Publish(e), conn = "up"
  PROVE  SentAll' /\ Covered'
<1>1. UNCHANGED <<log, sess, task>>
  BY DEF Publish
<1>2. \A t \in Tasks : Brings(t) \subseteq Brings(t)' \cup Safe'
  BY <1>1, BringsKept
<1>3. Brings("cmd") \subseteq Brings("cmd")' \cup Safe' /\ Brings("fwd") \subseteq Brings("fwd")' \cup Safe'
  BY <1>2 DEF Tasks
<1>4. SentAll'
  BY <1>1, <1>3, ServingFacts, SentAllKept
<1>5. /\ held[e] \in Numbers /\ held'[e] = 0 /\ \A f \in Emitters : f # e => held'[f] = held[f]
      /\ chan' = (IF Overflows(e) THEN Tail(Queue(e)) ELSE Queue(e))
      /\ ghost' = GhostOf(ghost.gone \cup Lost(e), ghost.owed, ghost.excused \cup Overtaken(e))
      /\ chan \in Seq(Numbers) /\ held \in [Emitters -> 0 .. log]
  BY PublishDoes, HeldTyped, Zenon DEF Serving
<1>6. ghost'.gone = ghost.gone \cup Lost(e)
  BY <1>5 DEF GhostOf
<1>7. Range(Queue(e)) = Range(chan) \cup {held[e]} /\ Queue(e) \in Seq(Numbers) /\ Queue(e) # <<>>
  <2>1. Range(Queue(e)) = Range(chan) \cup {held[e]} /\ Len(Queue(e)) = Len(chan) + 1 /\ Len(chan) \in Nat
    BY <1>5, Appended DEF Queue
  <2> QED  BY <1>5, <2>1 DEF Queue
<1>8. Range(Queue(e)) \subseteq Range(Tail(Queue(e))) \cup {Head(Queue(e))}
  <2> DEFINE q == Queue(e)
  <2> HIDE DEF q
  <2>1. ASSUME q \in Seq(Numbers), q # <<>> PROVE Range(q) \subseteq Range(Tail(q)) \cup {Head(q)}
    <3>1. /\ DOMAIN q = 1 .. Len(q) /\ Len(q) \in Nat /\ Head(q) = q[1] /\ DOMAIN Tail(q) = 1 .. (Len(q) - 1)
          /\ \A i \in 1 .. (Len(q) - 1) : Tail(q)[i] = q[i + 1]
      BY <2>1
    <3>2. \A i \in DOMAIN q : i = 1 \/ ((i - 1) \in 1 .. (Len(q) - 1) /\ (i - 1) + 1 = i)
      BY <3>1
    <3>3. \A i \in DOMAIN q : i = 1 \/ \E j \in DOMAIN Tail(q) : Tail(q)[j] = q[i]
      BY <3>1, <3>2
    <3> QED  BY <3>1, <3>3 DEF Range
  <2> QED  BY <1>7, <2>1 DEF q
<1>9. Range(Queue(e)) \subseteq Range(chan') \cup ghost'.gone
  BY <1>5, <1>6, <1>8, Zenon DEF Lost
<1>10. Held \subseteq Held' \cup {held[e]}
  BY <1>5 DEF Held
<1>11. Pool \subseteq Pool'
  <2>1. Safe \subseteq Safe'
    BY ServingFacts
  <2>2. Range(chan) \cup {held[e]} \subseteq Range(chan') \cup ghost'.gone /\ ghost.gone \subseteq ghost'.gone
    BY <1>6, <1>7, <1>9
  <2> QED  BY <1>10, <2>1, <2>2 DEF Pool, Range
<1>12. Taken' = Taken /\ Range(sess.buf) = Range(sess'.buf) /\ Numbers' = Numbers
  BY <1>1 DEF Taken, Numbers
<1>13. Covered'
  BY <1>1, <1>3, <1>11, <1>12, CoveredKept
<1> QED  BY <1>4, <1>13

(* The events before the one received, and not in what follows it, are safe. *)
LEMMA BeforeReceived ==
  ASSUME Serving, NEW s \in Seqs, Receiving(s), NEW d \in Pool, d < s
  PROVE  d \in Safe
<1>1. /\ s \in Numbers /\ s = chan[1] /\ Len(chan) \in Nat \ {0} /\ DOMAIN chan = 1 .. Len(chan)
  BY FirstInChannel, HeldTyped, Zenon DEF Serving
<1>2. ghost.excused \subseteq Safe
  BY DEF Safe, Here, Got, Out
<1>3. Emission /\ (~lagged => ghost.gone = {}) /\ ~lagged
  BY DEF Serving, Shape, SessionShape, Receiving
<1>4. CASE d \in Held
  <2>1. s \in Range(chan)
    BY <1>1 DEF Range
  <2>2. s \notin Held
    BY <1>3, <2>1 DEF Emission
  <2> QED  BY <1>1, <1>2, <1>3, <1>4, <2>2 DEF Emission
<1>5. CASE d \in Range(chan)
  <2>1. PICK j \in DOMAIN chan : chan[j] = d
    BY <1>5 DEF Range
  <2>2. d # s
    <3>1. s \in Nat
      BY <1>1, ServingFacts
    <3> QED  BY <3>1
  <2>3. 1 \in DOMAIN chan /\ 1 < j
    BY <1>1, <2>1, <2>2
  <2>4. chan[j] < chan[1]
    BY <1>1, <2>1
  <2>5. chan[j] \in ghost.excused
    BY <1>3, <2>1, <2>3, <2>4 DEF Emission
  <2> QED  BY <1>2, <2>1, <2>5
<1> QED  BY <1>3, <1>4, <1>5 DEF Pool

LEMMA PoolReceived ==
  ASSUME Serving, NEW s \in Seqs, Receiving(s)
  PROVE  /\ Pool \subseteq Pool' \cup {s} /\ Numbers' = Numbers /\ s \in Numbers
         /\ UNCHANGED <<log, held, wire, up, ghost, conn>>
<1>1. /\ s \in Numbers /\ s = chan[1] /\ Len(chan) \in Nat \ {0} /\ DOMAIN chan = 1 .. Len(chan)
      /\ \A i \in 1 .. Len(chan) - 1 : chan'[i] = chan[i + 1]
      /\ chan' \in Seq(Numbers) /\ Len(chan') = Len(chan) - 1
  BY FirstInChannel, HeldTyped, Zenon DEF Serving
<1>2. UNCHANGED <<log, held, wire, up, ghost, conn>>
  BY DEF Receiving, emitting
<1>3. Range(chan) \subseteq Range(chan') \cup {s}
  <2>1. \A i \in DOMAIN chan : i = 1 \/ ((i - 1) \in 1 .. (Len(chan) - 1) /\ (i - 1) + 1 = i)
    BY <1>1
  <2>2. DOMAIN chan' = 1 .. (Len(chan) - 1)
    BY <1>1
  <2>3. \A i \in DOMAIN chan : i = 1 \/ \E j \in DOMAIN chan' : chan'[j] = chan[i]
    BY <1>1, <2>1, <2>2
  <2> QED  BY <1>1, <2>3 DEF Range
<1>4. Held' = Held
  BY <1>2 DEF Held
<1>5. Pool \subseteq Pool' \cup {s}
  BY <1>2, <1>3, <1>4, ServingFacts DEF Pool, Range
<1> QED  BY <1>1, <1>2, <1>5 DEF Numbers

LEMMA SessionStays ==
  ASSUME Serving, UNCHANGED <<sess, task>>
  PROVE  /\ SentAll'
         /\ Brings("cmd") \subseteq Brings("cmd")' \cup Safe' /\ Brings("fwd") \subseteq Brings("fwd")' \cup Safe'
<1>1. \A t \in Tasks : Brings(t) \subseteq Brings(t)' \cup Safe'
  BY BringsKept
<1>2. Brings("cmd") \subseteq Brings("cmd")' \cup Safe' /\ Brings("fwd") \subseteq Brings("fwd")' \cup Safe'
  BY <1>1 DEF Tasks
<1>3. SentAll'
  BY <1>2, ServingFacts, SentAllKept
<1> QED  BY <1>2, <1>3

LEMMA FwdSkipServes ==
  ASSUME Serving, FwdSkip
  PROVE  SentAll' /\ Covered'
<1>1. PICK s \in Seqs : /\ Receiving(s) /\ UNCHANGED <<sess, task>>
                        /\ \/ ~sess.sub
                           \/ sess.rep /\ Len(sess.buf) >= BufCap
                           \/ ~sess.rep /\ s <= sess.cp
  BY DEF FwdSkip
<1>2. SentAll' /\ Brings("cmd") \subseteq Brings("cmd")' \cup Safe' /\ Brings("fwd") \subseteq Brings("fwd")' \cup Safe'
  BY <1>1, SessionStays
<1>3. Pool \subseteq Pool' \cup {s} /\ Numbers' = Numbers /\ s \in Numbers
  BY <1>1, PoolReceived
<1>4. task["fwd"].pc = "idle" /\ task'["fwd"].pc = "idle"
  BY <1>1 DEF Receiving
<1>5. CASE ~sess.sub
  BY <1>1, <1>2, <1>4, <1>5, CoveredIs DEF Receptive, InReplay
<1>6. CASE sess.rep /\ Len(sess.buf) >= BufCap
  <2>1. ~(Len(sess'.buf) < BufCap)
    <3>1. Len(sess.buf) \in Nat /\ BufCap \in Nat
      BY SessTyped, WsSessionAssumption DEF Serving
    <3> QED  BY <1>1, <1>6, <3>1
  <2> QED  BY <1>1, <1>2, <1>4, <1>6, <2>1, CoveredIs DEF InReplay
<1>7. CASE sess.sub /\ ~sess.rep /\ s <= sess.cp
  <2>1. s \in Safe'
    <3>1. s \in 1 .. sess.cp
      BY <1>3, <1>7, ServingFacts
    <3> QED  BY <1>7, <3>1, ServingFacts
  <2>2. Pool \subseteq Pool'
    BY <1>3, <2>1, ServingFacts
  <2>3. Taken = Taken'
    BY <1>1 DEF Taken
  <2>4. OpenCover \subseteq OpenCover'
    BY <2>2, <2>3 DEF OpenCover
  <2>5. Receptive
    BY <1>4, <1>7 DEF Receptive
  <2> QED  BY <1>1, <1>2, <1>3, <1>4, <1>7, <2>4, <2>5, CoveredIs DEF Serving, InReplay
<1> QED  BY <1>1, <1>2, <1>5, <1>6, <1>7

LEMMA FwdBufferServes ==
  ASSUME Serving, FwdBuffer
  PROVE  SentAll' /\ Covered'
<1>1. PICK s \in Seqs : Receiving(s) /\ s = chan[1]
  BY FwdBufferDoes DEF Serving
<1>2. /\ sess.sub /\ sess.rep /\ Len(sess.buf) < BufCap /\ task["fwd"].pc = "idle" /\ task' = task
      /\ sess' = SessionOf(sess.sub, sess.cp, sess.rep, Append(sess.buf, s), sess.pend)
  BY <1>1, FwdBufferDoes DEF Serving
<1>3. Pool \subseteq Pool' \cup {s} /\ Numbers' = Numbers /\ s \in Numbers
  BY <1>1, PoolReceived
<1>4. /\ sess'.sub = sess.sub /\ sess'.cp = sess.cp /\ sess'.rep = sess.rep /\ sess'.pend = sess.pend
      /\ sess'.buf = Append(sess.buf, s)
  BY <1>2 DEF SessionOf
<1>5. sess.buf \in Seq(Numbers)
  BY SessTyped DEF Serving
<1>6. /\ DOMAIN sess'.buf = 1 .. (Len(sess.buf) + 1) /\ DOMAIN sess.buf = 1 .. Len(sess.buf) /\ Len(sess.buf) \in Nat
      /\ (\A i \in DOMAIN sess.buf : sess'.buf[i] = sess.buf[i]) /\ sess'.buf[Len(sess.buf) + 1] = s
      /\ Range(sess'.buf) = Range(sess.buf) \cup {s}
  BY <1>4, <1>5, Appended
<1>7. Brings("cmd") \subseteq Brings("cmd")' \cup Safe'
  BY <1>2, <1>4, BringsKept DEF Tasks
<1>8. Receptive /\ Taken = {} /\ Taken' = {} /\ ~(task'["fwd"].pc \in InReplay)
  BY <1>2 DEF Receptive, Taken, InReplay
<1>9. Numbers \subseteq BufferCover
  BY <1>2, <1>8, CoveredIs DEF Serving
<1>10. BufferCover \subseteq BufferCover'
  <2>1. Safe' \subseteq Pool'
    BY ServingFacts
  <2> QED  BY <1>3, <1>6, <1>7, <1>8, <2>1 DEF BufferCover
<1>11. Covered'
  BY <1>2, <1>3, <1>4, <1>8, <1>9, <1>10, CoveredIs, Zenon
<1>12. Follows(sess'.buf, Safe' \cup Brings("cmd")')
  <2>1. Follows(sess.buf, Safe \cup Brings("cmd"))
    BY SentAllIs DEF Serving
  <2> SUFFICES ASSUME NEW i \in DOMAIN sess'.buf, NEW d \in 1 .. (sess'.buf[i] - 1)
               PROVE  d \in Safe' \cup Brings("cmd")' \cup {sess'.buf[j] : j \in 1 .. i - 1}
    BY DEF Follows
  <2>2. Safe \cup Brings("cmd") \subseteq Safe' \cup Brings("cmd")'
    BY <1>7, ServingFacts
  <2>3. CASE i \in DOMAIN sess.buf
    <3>1. d \in Safe \cup Brings("cmd") \cup {sess.buf[j] : j \in 1 .. i - 1}
      BY <1>6, <2>1, <2>3 DEF Follows
    <3>2. \A j \in 1 .. i - 1 : sess'.buf[j] = sess.buf[j]
      BY <1>6, <2>3
    <3> QED  BY <2>2, <3>1, <3>2
  <2>4. CASE i = Len(sess.buf) + 1
    <3>1. d \in Numbers /\ d < s
      <4>1. s \in 1 .. log /\ log \in Nat /\ d \in 1 .. (s - 1)
        BY <1>3, <1>6, <2>4, ServingFacts DEF Numbers
      <4> QED  BY <4>1 DEF Numbers
    <3>2. d \in Pool \/ d \in Range(sess.buf) \/ d \in Brings("cmd")
      BY <1>8, <1>9, <3>1 DEF BufferCover
    <3>3. d \in Pool => d \in Safe
      BY <1>1, <3>1, BeforeReceived
    <3>4. d \in Range(sess.buf) => d \in {sess'.buf[j] : j \in 1 .. i - 1}
      BY <1>6, <2>4 DEF Range
    <3> QED  BY <2>2, <3>2, <3>3, <3>4
  <2> QED  BY <1>6, <2>3, <2>4
<1>13. SentAll'
  BY <1>2, <1>4, <1>12, ServingFacts, SentAllKept, Zenon
<1> QED  BY <1>11, <1>13

LEMMA FwdTakeServes ==
  ASSUME Serving, FwdTake
  PROVE  SentAll' /\ Covered'
<1>1. PICK s \in Seqs : Receiving(s) /\ s = chan[1]
  BY FwdTakeDoes DEF Serving
<1>2. /\ sess.sub /\ ~sess.rep /\ task["fwd"].pc = "idle" /\ sess' = sess
      /\ task'["fwd"] = JobOf("event", <<>>, 0, s, FALSE, Msg("none", 0)) /\ task'["cmd"] = task["cmd"]
  BY <1>1, FwdTakeDoes, Zenon DEF Serving
<1>3. task'["fwd"].pc = "event" /\ task'["fwd"].max = s
  BY <1>2 DEF JobOf
<1>4. Pool \subseteq Pool' \cup {s} /\ Numbers' = Numbers /\ s \in Numbers
  BY <1>1, PoolReceived
<1>5. Receptive /\ Taken = {} /\ Taken' = {s} /\ ~(task'["fwd"].pc \in InReplay)
  BY <1>2, <1>3, Zenon DEF Receptive, Taken, InReplay
<1>6. Numbers \subseteq OpenCover
  BY <1>2, <1>5, CoveredIs DEF Serving
<1>7. OpenCover \subseteq OpenCover'
  BY <1>4, <1>5 DEF OpenCover
<1>8. Covered'
  BY <1>2, <1>4, <1>5, <1>6, <1>7, CoveredIs, Zenon
<1>9. 1 .. (s - 1) \subseteq Safe
  <2> SUFFICES ASSUME NEW d \in 1 .. (s - 1) PROVE d \in Safe
    OBVIOUS
  <2>1. d \in Numbers /\ d < s
    <3>1. s \in 1 .. log /\ log \in Nat
      BY <1>4, ServingFacts DEF Numbers
    <3> QED  BY <3>1 DEF Numbers
  <2>2. d \in Pool
    BY <1>5, <1>6, <2>1 DEF OpenCover
  <2> QED  BY <1>1, <2>1, <2>2, BeforeReceived
<1>10. JobSent("fwd", task'["fwd"], Safe')
  BY <1>3, <1>9, ServingFacts DEF JobSent, FwdSent, PageSent
<1>11. Brings("cmd") \subseteq Brings("cmd")' \cup Safe'
  BY <1>2, BringsKept DEF Tasks
<1>12. SentAll'
  BY <1>2, <1>10, <1>11, ServingFacts, SentAllKept, Zenon DEF Tasks
<1> QED  BY <1>8, <1>12

LEMMA FwdSendServes ==
  ASSUME Serving, FwdSend
  PROVE  SentAll' /\ Covered'
<1> DEFINE s == task["fwd"].max
<1>1. /\ UNCHANGED <<log, held, chan, sess, ghost>> /\ task["fwd"].pc = "event"
      /\ wire' = Append(wire, Msg("event", s)) /\ task'["cmd"] = task["cmd"]
  BY FwdSendDoes DEF Serving
<1>2. task'["fwd"].pc = "mark" /\ task'["fwd"].max = s
  <2>1. task'["fwd"] = JobOf("mark", task["fwd"].out, task["fwd"].pos, s, task["fwd"].more, task["fwd"].reply)
    BY FwdSendDoes DEF Serving
  <2> QED  BY <2>1 DEF JobOf
<1>3. s \in Numbers
  <2>1. s \in 0 .. log /\ s > 0 /\ log \in Nat
    BY <1>1, TaskTyped, ServingFacts DEF Serving, Shape, TaskShape, FwdShape, Tasks
  <2> QED  BY <2>1 DEF Numbers
<1>4. s \in Safe'
  BY <1>1, <1>3, EventIsSent
<1>5. 1 .. (s - 1) \subseteq Safe
  BY <1>1, ServingFacts DEF JobSent, FwdSent, Tasks
<1>6. 1 .. s \subseteq Safe'
  <2>1. 1 .. s \subseteq (1 .. (s - 1)) \cup {s}
    BY <1>3, ServingFacts
  <2> QED  BY <1>4, <1>5, <2>1, ServingFacts
<1>7. JobSent("fwd", task'["fwd"], Safe')
  BY <1>2, <1>6 DEF JobSent, FwdSent, PageSent
<1>8. Taken \subseteq Safe' /\ Brings("fwd") = {}
  BY <1>1, <1>4 DEF Taken, Brings
<1>9. Others("fwd") /\ "fwd" \in Tasks
  BY <1>1 DEF Others, Tasks
<1>10. ~(task'["fwd"].pc \in InReplay)
  BY <1>2 DEF InReplay
<1> QED  BY <1>1, <1>7, <1>8, <1>9, <1>10, TurnServes

LEMMA FwdMarkServes ==
  ASSUME Serving, FwdMark
  PROVE  SentAll' /\ Covered'
<1> DEFINE s == task["fwd"].max
<1>1. /\ UNCHANGED <<log, held, chan, wire, ghost>> /\ task["fwd"].pc = "mark"
      /\ sess' = SessionOf(sess.sub, To(s), sess.rep, sess.buf, sess.pend)
      /\ task'["fwd"] = Idle /\ task'["cmd"] = task["cmd"]
  BY FwdMarkDoes DEF Serving
<1>2. sess'.sub = sess.sub /\ sess'.cp = To(s) /\ sess'.rep = sess.rep /\ sess'.buf = sess.buf /\ sess'.pend = sess.pend
  BY <1>1 DEF SessionOf
<1>3. 1 .. s \subseteq Safe /\ s \in Nat
  BY <1>1, ServingFacts DEF JobSent, FwdSent, Tasks
<1>4. sess'.cp = sess.cp \/ 1 .. sess'.cp \subseteq Safe'
  BY <1>2, <1>3, AdvanceServes
<1>5. JobSent("fwd", task'["fwd"], Safe')
  BY <1>1, IdleSent DEF Tasks
<1>6. Taken = {} /\ Brings("fwd") = {}
  BY <1>1 DEF Taken, Brings
<1>7. Others("fwd") /\ "fwd" \in Tasks
  BY <1>1 DEF Others, Tasks
<1>8. ~(task'["fwd"].pc \in InReplay)
  BY <1>1 DEF InReplay, Idle
<1> QED  BY <1>1, <1>2, <1>4, <1>5, <1>6, <1>7, <1>8, TurnServes

LEMMA FwdLaggedServes ==
  ASSUME Serving, FwdLagged
  PROVE  SentAll' /\ Covered'
<1>1. /\ UNCHANGED <<log, held, chan, wire>> /\ task["fwd"].pc = "idle" /\ task'["cmd"] = task["cmd"]
  BY FwdLaggedDoes DEF Serving
<1>2. CASE /\ sess.sub /\ ~sess.rep /\ ~sess.pend
           /\ sess' = SessionOf(sess.sub, sess.cp, TRUE, sess.buf, sess.pend)
           /\ task'["fwd"] = JobOf("read", <<>>, sess.cp, 0, FALSE, Msg("none", 0))
           /\ ghost' = GhostOf({}, ghost.owed, ghost.excused)
  <2>1. sess'.sub = sess.sub /\ sess'.cp = sess.cp /\ sess'.rep = TRUE /\ sess'.buf = sess.buf /\ sess'.pend = sess.pend
    BY <1>2 DEF SessionOf
  <2>2. task'["fwd"].pc = "read" /\ task'["fwd"].pos = sess.cp
    BY <1>2 DEF JobOf
  <2>3. JobSent("fwd", task'["fwd"], Safe')
    BY <1>2, <2>2, ServingFacts, Zenon DEF JobSent, FwdSent, PageSent
  <2>4. SentAll'
    <3>1. sess'.buf = <<>>
      BY <1>2, <2>1, ServingFacts, Zenon
    <3> QED  BY <1>1, <2>1, <2>3, <3>1, ServingFacts, SentAllKept DEF Tasks
  <2>5. Brings("fwd")' = {d \in Numbers' : d > sess.cp}
    BY <2>2, BringsIs DEF BringsOf, Tasks
  <2>6. Numbers' \subseteq ReplayCover'
    <3>1. \A d \in Numbers' : d > sess.cp \/ d \in 1 .. sess.cp
      BY ServingFacts
    <3>2. 1 .. sess.cp \subseteq Pool'
      BY <1>2, ServingFacts
    <3> QED  BY <1>2, <2>1, <2>5, <3>1, <3>2, Zenon DEF ReplayCover
  <2>7. ~Receptive'
    BY <2>2 DEF Receptive
  <2> QED  BY <2>4, <2>6, <2>7, CoveredIs
<1>3. CASE /\ UNCHANGED <<sess, task>>
           /\ ghost' = GhostOf({}, ghost.owed, ghost.excused \cup (IF sess.sub THEN ghost.gone ELSE {}))
  <2>1. SentAll' /\ Brings("cmd") \subseteq Brings("cmd")' \cup Safe' /\ Brings("fwd") \subseteq Brings("fwd")' \cup Safe'
    BY <1>3, SessionStays
  <2>2. CASE ~sess.sub
    BY <1>1, <1>3, <2>1, <2>2, CoveredIs DEF Receptive, InReplay
  <2>3. CASE sess.sub
    <3>1. ghost'.excused = ghost.excused \cup ghost.gone
      BY <1>3, <2>3 DEF GhostOf
    <3>2. ghost.gone \subseteq Safe'
      BY <3>1 DEF Safe, Here, Got, Out
    <3>3. Pool \subseteq Pool' /\ Numbers' = Numbers /\ Taken' = Taken /\ Range(sess.buf) = Range(sess'.buf)
      BY <1>1, <1>3, <3>2, PoolKept DEF Numbers, Taken
    <3>4. Covered'
      BY <1>3, <2>1, <3>3, CoveredKept
    <3> QED  BY <2>1, <3>4
  <2> QED  BY <2>2, <2>3, ServingFacts
<1> QED  BY <1>2, <1>3, FwdLaggedDoes, Zenon DEF Serving

LEMMA TailRange ==
  ASSUME NEW T, NEW q \in Seq(T), q # <<>>
  PROVE  Range(q) \subseteq Range(Tail(q)) \cup {Head(q)}
<1>1. /\ DOMAIN q = 1 .. Len(q) /\ Len(q) \in Nat /\ Head(q) = q[1] /\ DOMAIN Tail(q) = 1 .. (Len(q) - 1)
      /\ \A i \in 1 .. (Len(q) - 1) : Tail(q)[i] = q[i + 1]
  OBVIOUS
<1>2. \A i \in DOMAIN q : i = 1 \/ ((i - 1) \in 1 .. (Len(q) - 1) /\ (i - 1) + 1 = i)
  BY <1>1
<1>3. \A i \in DOMAIN q : i = 1 \/ \E j \in DOMAIN Tail(q) : Tail(q)[j] = q[i]
  BY <1>1, <1>2
<1> QED  BY <1>1, <1>3 DEF Range

LEMMA FollowsTail ==
  ASSUME NEW T, NEW q \in Seq(T), q # <<>>, NEW S, NEW U, Follows(q, S), S \subseteq U, Head(q) \in U
  PROVE  Follows(Tail(q), U)
<1>1. /\ DOMAIN q = 1 .. Len(q) /\ Len(q) \in Nat /\ Head(q) = q[1] /\ DOMAIN Tail(q) = 1 .. (Len(q) - 1)
      /\ \A i \in 1 .. (Len(q) - 1) : Tail(q)[i] = q[i + 1]
  OBVIOUS
<1> SUFFICES ASSUME NEW i \in DOMAIN Tail(q), NEW d \in 1 .. (Tail(q)[i] - 1)
             PROVE  d \in U \cup {Tail(q)[j] : j \in 1 .. i - 1}
  BY Zenon DEF Follows
<1>2. DEFINE k == i + 1
<1>3. k \in DOMAIN q /\ Tail(q)[i] = q[k]
  BY <1>1
<1>4. d \in S \cup {q[j] : j \in 1 .. k - 1}
  BY <1>3 DEF Follows
<1>5. \A j \in 1 .. k - 1 : j = 1 \/ ((j - 1) \in 1 .. i - 1 /\ (j - 1) \in 1 .. (Len(q) - 1) /\ (j - 1) + 1 = j)
  BY <1>1
<1>6. \A j \in 1 .. k - 1 : j = 1 \/ \E n \in 1 .. i - 1 : Tail(q)[n] = q[j]
  BY <1>1, <1>5
<1> QED  BY <1>1, <1>4, <1>6

LEMMA ReplyServes ==
  ASSUME Serving, Reply
  PROVE  SentAll' /\ Covered'
<1>1. /\ UNCHANGED <<log, held, chan, sess, ghost>> /\ task["cmd"].pc = "reply"
      /\ task'["cmd"] = Idle /\ task'["fwd"] = task["fwd"]
  BY ReplyDoes DEF Serving
<1>2. Others("cmd") /\ "cmd" \in Tasks
  BY <1>1 DEF Others, Tasks
<1>3. JobSent("cmd", task'["cmd"], Safe') /\ Brings("cmd") = {}
  BY <1>1, <1>2, IdleSent DEF Brings
<1> QED  BY <1>1, <1>2, <1>3, TurnServes

(* The steps of a replay in which the session stays or moves its checkpoint. *)
LEMMA ReplayTurn ==
  ASSUME Serving, NEW t \in Tasks, Others(t), UNCHANGED <<log, held, chan>>, ghost'.gone = ghost.gone,
         \/ sess' = sess
         \/ \E s \in Nat : 1 .. s \subseteq Safe /\ sess' = SessionOf(sess.sub, To(s), sess.rep, sess.buf, sess.pend),
         task[t].pc \in {"read", "send", "drain", "flush"}, task'[t].pc \in {"send", "drain", "flush", "reload"},
         JobSent(t, task'[t], Safe'), Brings(t) \subseteq Brings(t)' \cup Safe'
  PROVE  SentAll' /\ Covered'
<1>1. /\ sess'.sub = sess.sub /\ sess'.rep = sess.rep /\ sess'.buf = sess.buf /\ sess'.pend = sess.pend
      /\ sess'.cp = sess.cp \/ 1 .. sess'.cp \subseteq Safe'
  <2>1. ASSUME NEW s \in Nat, 1 .. s \subseteq Safe, sess' = SessionOf(sess.sub, To(s), sess.rep, sess.buf, sess.pend)
        PROVE  /\ sess'.sub = sess.sub /\ sess'.rep = sess.rep /\ sess'.buf = sess.buf /\ sess'.pend = sess.pend
               /\ sess'.cp = sess.cp \/ 1 .. sess'.cp \subseteq Safe'
    <3>1. /\ sess'.sub = sess.sub /\ sess'.rep = sess.rep /\ sess'.buf = sess.buf /\ sess'.pend = sess.pend
          /\ sess'.cp = To(s)
      BY <2>1 DEF SessionOf
    <3> QED  BY <2>1, <3>1, AdvanceServes
  <2> QED  BY <2>1
<1>2. t = "fwd" => task[t].pc \in InReplay /\ Taken = {}
  <2>1. t = "fwd" => task[t].pc # "flush"
    BY DEF Serving, Shape, TaskShape, FwdShape
  <2> QED  BY <2>1 DEF InReplay, Taken
<1>3. task'[t].pc \notin {"idle", "event", "mark"}
  OBVIOUS
<1> QED  BY <1>1, <1>2, <1>3, TurnServes

LEMMA ReplayPageServes ==
  ASSUME Serving, NEW t \in Tasks, ReplayPage(t)
  PROVE  SentAll' /\ Covered'
<1>1. /\ UNCHANGED <<log, held, chan, sess, ghost>> /\ AtPage(t) /\ Others(t)
      /\ task'[t] = JobOf("send", PageOf(t), task[t].pos, task[t].max, task[t].pos + PageLength(t) < log, task[t].reply)
  BY ReplayPageDoes DEF Serving
<1>2. /\ task'[t].pc = "send" /\ task'[t].out = PageOf(t) /\ task'[t].pos = task[t].pos
      /\ task'[t].more = (task[t].pos + PageLength(t) < log)
  BY <1>1 DEF JobOf
<1>3. task[t].pc \in {"read", "send"} /\ (task[t].pc = "send" => task[t].more)
  BY <1>1 DEF AtPage
<1>4. 1 .. task[t].pos \subseteq Safe'
  BY <1>3, ServingFacts DEF JobSent, FwdSent, CmdSent, PageSent
<1>5. JobSent(t, task'[t], Safe')
  BY <1>2, <1>4 DEF JobSent, FwdSent, CmdSent, PageSent
<1>6. Brings(t) = {d \in Numbers : d > task[t].pos}
  BY <1>3 DEF Brings
<1>7. Brings(t) \subseteq Brings(t)'
  <2>1. CASE task'[t].more
    BY <1>1, <1>2, <1>6, <2>1, BringsIs DEF BringsOf, Numbers
  <2>2. CASE ~task'[t].more
    <3>1. Brings(t)' = Range(PageOf(t))
      BY <1>2, <2>2, BringsIs DEF BringsOf
    <3>2. /\ PageOf(t) \in Seq(Numbers) /\ Len(PageOf(t)) = PageLength(t) /\ PageLength(t) \in Nat
          /\ \A i \in 1 .. PageLength(t) : PageOf(t)[i] = task[t].pos + i
      BY PageTyped DEF Serving
    <3>3. ASSUME NEW d \in Numbers, d > task[t].pos PROVE d \in Range(PageOf(t))
      <4>1. d \in Nat /\ d <= log /\ log \in Nat /\ task[t].pos \in Nat
        BY ServingFacts DEF Numbers
      <4>2. ~(task[t].pos + PageLength(t) < log)
        BY <1>2, <2>2, Zenon
      <4>3. (d - task[t].pos) \in 1 .. PageLength(t) /\ task[t].pos + (d - task[t].pos) = d
        BY <3>2, <3>3, <4>1, <4>2
      <4>4. PageOf(t)[d - task[t].pos] = d
        BY <3>2, <4>3
      <4>5. DOMAIN PageOf(t) = 1 .. PageLength(t)
        BY <3>2
      <4> QED  BY <4>3, <4>4, <4>5 DEF Range
    <3> QED  BY <1>6, <3>1, <3>3
  <2> QED  BY <2>1, <2>2
<1> QED  BY <1>1, <1>2, <1>3, <1>5, <1>7, ReplayTurn

LEMMA ReplayFailsServes ==
  ASSUME Serving, NEW t \in Tasks, ReplayFails(t)
  PROVE  SentAll' /\ Covered'
<1>1. /\ UNCHANGED <<log, held, chan, sess, ghost>> /\ AtPage(t) /\ Others(t)
      /\ task'[t] = JobOf("reload", task[t].out, task[t].pos, task[t].max, task[t].more, Msg("nack", 0))
  BY ReplayFailsDoes DEF Serving
<1>2. task'[t].pc = "reload"
  BY <1>1 DEF JobOf
<1>3. task[t].pc \in {"read", "send"} /\ (task[t].pc = "send" => task[t].more)
  BY <1>1 DEF AtPage
<1>4. JobSent(t, task'[t], Safe')
  BY <1>2 DEF JobSent, FwdSent, CmdSent, PageSent
<1>5. Brings(t) \subseteq Numbers
  BY <1>3 DEF Brings
<1>6. Brings(t)' = {d \in Numbers : d > sess.cp}
  BY <1>1, <1>2, BringsIs DEF BringsOf, Numbers
<1>7. \A d \in Numbers : d > sess.cp \/ d \in Safe'
  <2>1. \A d \in Numbers : d > sess.cp \/ d \in 1 .. sess.cp
    BY ServingFacts
  <2>2. 1 .. 0 = {}
    OBVIOUS
  <2>3. 1 .. sess.cp \subseteq Safe'
    BY <2>2, ServingFacts
  <2> QED  BY <2>1, <2>3
<1> QED  BY <1>1, <1>2, <1>3, <1>4, <1>5, <1>6, <1>7, ReplayTurn

LEMMA HeadIsSent ==
  ASSUME Serving, NEW t \in Tasks, ReplaySend(t) \/ FlushSend(t)
  PROVE  /\ Head(task[t].out) \in Numbers /\ Head(task[t].out) \in Nat /\ 1 .. Head(task[t].out) \subseteq Safe'
         /\ Head(task[t].out) \in Safe'
         /\ task[t].out \in Seq(Numbers) /\ task[t].out # <<>>
         /\ Range(task[t].out) \subseteq Range(Tail(task[t].out)) \cup Safe'
<1> DEFINE h == Head(task[t].out)
<1>1. task[t].out # <<>> /\ wire' = Append(wire, Msg("event", h))
  BY ReplaySendDoes, FlushSendDoes DEF Serving
<1>2. h \in Numbers /\ task[t].out \in Seq(Numbers)
  BY <1>1, FirstOut, TaskTyped DEF Serving
<1>3. h \in Safe'
  BY <1>1, <1>2, EventIsSent
<1>4. EventBy(h)
  BY DEF EventBy
<1>5. 1 .. (h - 1) \subseteq Safe
  BY <1>2, <1>4, SentInOrder DEF Serving
<1>6. h \in Nat
  BY <1>2, ServingFacts
<1>7. 1 .. h \subseteq (1 .. (h - 1)) \cup {h}
  BY <1>6
<1>8. 1 .. h \subseteq Safe'
  BY <1>3, <1>5, <1>7, ServingFacts
<1>9. Range(task[t].out) \subseteq Range(Tail(task[t].out)) \cup {h}
  BY <1>1, <1>2, TailRange
<1> QED  BY <1>1, <1>2, <1>3, <1>6, <1>8, <1>9

LEMMA ReplaySendServes ==
  ASSUME Serving, NEW t \in Tasks, ReplaySend(t)
  PROVE  SentAll' /\ Covered'
<1> DEFINE h == Head(task[t].out)
<1>1. /\ UNCHANGED <<log, held, chan, sess, ghost>> /\ Others(t) /\ task[t].pc = "send"
      /\ task'[t] = JobOf("send", Tail(task[t].out), h, task[t].max, task[t].more, task[t].reply)
  BY ReplaySendDoes DEF Serving
<1>2. task'[t].pc = "send" /\ task'[t].out = Tail(task[t].out) /\ task'[t].pos = h /\ task'[t].more = task[t].more
  BY <1>1 DEF JobOf
<1>3. h \in Nat /\ 1 .. h \subseteq Safe' /\ Range(task[t].out) \subseteq Range(Tail(task[t].out)) \cup Safe'
  BY HeadIsSent
<1>4. JobSent(t, task'[t], Safe')
  BY <1>2, <1>3 DEF JobSent, FwdSent, CmdSent, PageSent
<1>5. Brings(t) \subseteq Brings(t)' \cup Safe'
  <2>1. CASE task[t].more
    <3>1. Brings(t) \subseteq Numbers
      BY <1>1, <2>1 DEF Brings
    <3>2. Brings(t)' = {d \in Numbers : d > h}
      BY <1>1, <1>2, <2>1, BringsIs, Zenon DEF BringsOf, Numbers
    <3>3. \A d \in Numbers : d > h \/ d \in 1 .. h
      BY <1>3, ServingFacts
    <3> QED  BY <1>3, <3>1, <3>2, <3>3
  <2>2. CASE ~task[t].more
    <3>1. Brings(t) = Range(task[t].out) /\ Brings(t)' = Range(Tail(task[t].out))
      BY <1>1, <1>2, <2>2, BringsIs DEF BringsOf
    <3> QED  BY <1>3, <3>1
  <2> QED  BY <2>1, <2>2
<1> QED  BY <1>1, <1>2, <1>4, <1>5, ReplayTurn

LEMMA NothingBrought ==
  ASSUME NEW t \in Tasks, task[t].pc \in {"send", "flush"}, task[t].out = <<>>, ~task[t].more \/ task[t].pc = "flush"
  PROVE  Brings(t) = {}
<1>1. Range(<<>>) = {}
  <2>1. DOMAIN <<>> = {}
    OBVIOUS
  <2> QED  BY <2>1 DEF Range
<1> QED  BY <1>1 DEF Brings

LEMMA ReplayDoneServes ==
  ASSUME Serving, NEW t \in Tasks, ReplayDone(t)
  PROVE  SentAll' /\ Covered'
<1>1. /\ UNCHANGED <<log, held, chan, ghost>> /\ Others(t)
      /\ task[t].pc = "send" /\ task[t].out = <<>> /\ ~task[t].more
      /\ sess' = SessionOf(sess.sub, To(task[t].pos), sess.rep, sess.buf, sess.pend)
      /\ task'[t] = JobOf("drain", task[t].out, task[t].pos, 0, task[t].more, task[t].reply)
  BY ReplayDoneDoes DEF Serving
<1>2. task'[t].pc = "drain" /\ task'[t].max = 0
  BY <1>1 DEF JobOf
<1>3. 1 .. task[t].pos \subseteq Safe /\ task[t].pos \in Nat
  BY <1>1, ServingFacts DEF JobSent, FwdSent, CmdSent, PageSent
<1>4. 1 .. 0 = {}
  OBVIOUS
<1>5. JobSent(t, task'[t], Safe')
  BY <1>2, <1>4 DEF JobSent, FwdSent, CmdSent, PageSent
<1>6. Brings(t) = {}
  BY <1>1, NothingBrought
<1> QED  BY <1>1, <1>2, <1>3, <1>5, <1>6, ReplayTurn

LEMMA FlushesAreCmd ==
  ASSUME Serving, NEW t \in Tasks, task[t].pc = "flush"
  PROVE  t = "cmd"
BY DEF Serving, Shape, TaskShape, FwdShape, Tasks

LEMMA FlushSendServes ==
  ASSUME Serving, NEW t \in Tasks, FlushSend(t)
  PROVE  SentAll' /\ Covered'
<1> DEFINE h == Head(task[t].out)
<1>1. /\ UNCHANGED <<log, held, chan, sess, ghost>> /\ Others(t) /\ task[t].pc = "flush"
      /\ task'[t] = JobOf("flush", Tail(task[t].out), task[t].pos, MaxOf(task[t].max, h), task[t].more, task[t].reply)
  BY FlushSendDoes DEF Serving
<1>2. task'[t].pc = "flush" /\ task'[t].out = Tail(task[t].out) /\ task'[t].max = MaxOf(task[t].max, h)
  BY <1>1 DEF JobOf
<1>3. /\ h \in Nat /\ 1 .. h \subseteq Safe' /\ h \in Safe' /\ Range(task[t].out) \subseteq Range(Tail(task[t].out)) \cup Safe'
      /\ task[t].out \in Seq(Numbers) /\ task[t].out # <<>>
  BY HeadIsSent
<1>4. t = "cmd"
  BY <1>1, FlushesAreCmd
<1>5. 1 .. task[t].max \subseteq Safe /\ Follows(task[t].out, Safe)
  BY <1>1, <1>4, ServingFacts DEF JobSent, CmdSent
<1>6. Follows(Tail(task[t].out), Safe')
  BY <1>3, <1>5, FollowsTail, ServingFacts
<1>7. 1 .. MaxOf(task[t].max, h) \subseteq Safe'
  BY <1>3, <1>5, ServingFacts DEF MaxOf
<1>8. JobSent(t, task'[t], Safe')
  BY <1>2, <1>4, <1>6, <1>7 DEF JobSent, CmdSent, PageSent
<1>9. Brings(t) = Range(task[t].out) /\ Brings(t)' = Range(Tail(task[t].out))
  BY <1>1, <1>2, BringsIs DEF BringsOf
<1> QED  BY <1>1, <1>2, <1>3, <1>8, <1>9, ReplayTurn

LEMMA FlushMarkServes ==
  ASSUME Serving, NEW t \in Tasks, FlushMark(t)
  PROVE  SentAll' /\ Covered'
<1>1. /\ UNCHANGED <<log, held, chan, ghost>> /\ Others(t)
      /\ task[t].pc = "flush" /\ task[t].out = <<>>
      /\ sess' = SessionOf(sess.sub, To(task[t].max), sess.rep, sess.buf, sess.pend)
      /\ task'[t] = With(t, "drain", task[t].out)
  BY FlushMarkDoes DEF Serving
<1>2. task'[t].pc = "drain" /\ task'[t].max = task[t].max
  BY <1>1 DEF With, JobOf
<1>3. t = "cmd"
  BY <1>1, FlushesAreCmd
<1>4. 1 .. task[t].max \subseteq Safe /\ task[t].max \in Nat
  BY <1>1, <1>3, ServingFacts DEF JobSent, CmdSent
<1>5. JobSent(t, task'[t], Safe')
  BY <1>2, <1>3, <1>4, ServingFacts DEF JobSent, CmdSent, PageSent
<1>6. Brings(t) = {}
  BY <1>1, NothingBrought
<1> QED  BY <1>1, <1>2, <1>4, <1>5, <1>6, ReplayTurn

(* Of a buffer that follows S, what is above a number whose predecessors are in S. *)
LEMMA FollowsAbove ==
  ASSUME NEW D, D \subseteq Nat \ {0}, NEW events \in Seq(D), NEW n \in Nat, NEW S, Follows(events, S), 1 .. n \subseteq S
  PROVE  /\ Above(n, events) \in Seq(D)
         /\ Follows(Above(n, events), S)
         /\ Range(events) \subseteq Range(Above(n, events)) \cup 1 .. n
<1> DEFINE kept == Above(n, events)
<1>1. kept \in Seq(D) /\ KeptOf(kept, events, n, Len(events))
  BY AboveKeeps, Zenon
<1>2. DOMAIN events = 1 .. Len(events) /\ Len(events) \in Nat /\ \A i \in DOMAIN events : events[i] \in Nat \ {0}
  <2>1. DOMAIN events = 1 .. Len(events) /\ Len(events) \in Nat /\ \A i \in DOMAIN events : events[i] \in D
    OBVIOUS
  <2> QED  BY <2>1, Zenon
<1>3. DOMAIN kept = 1 .. Len(kept) /\ Len(kept) \in Nat
  BY <1>1
<1> HIDE DEF kept
<1>4. Follows(kept, S)
  <2> SUFFICES ASSUME NEW i \in DOMAIN kept, NEW d \in 1 .. (kept[i] - 1)
               PROVE  d \in S \cup {kept[j] : j \in 1 .. i - 1}
    BY DEF Follows
  <2>1. PICK m \in 1 .. Len(events) :
           /\ kept[i] = events[m]
           /\ \A j \in 1 .. m - 1 : events[j] > n => \E h \in 1 .. i - 1 : kept[h] = events[j]
    BY <1>1, <1>3, Zenon DEF KeptOf
  <2>2. d \in S \cup {events[j] : j \in 1 .. m - 1}
    BY <1>2, <2>1, Zenon DEF Follows
  <2>3. ASSUME NEW j \in 1 .. m - 1, d = events[j] PROVE d \in S \cup {kept[h] : h \in 1 .. i - 1}
    <3>1. events[j] \in Nat \ {0}
      BY <1>2
    <3>2. CASE events[j] > n
      BY <2>1, <2>3, <3>2
    <3>3. CASE ~(events[j] > n)
      <4>1. d \in 1 .. n
        BY <2>3, <3>1, <3>3
      <4> QED  BY <4>1
    <3> QED  BY <3>2, <3>3
  <2> QED  BY <2>2, <2>3
<1>5. Range(events) \subseteq Range(kept) \cup 1 .. n
  <2> SUFFICES ASSUME NEW m \in 1 .. Len(events) PROVE events[m] \in Range(kept) \cup 1 .. n
    BY <1>2 DEF Range
  <2>1. events[m] > n \/ events[m] \in 1 .. n
    BY <1>2
  <2>2. events[m] > n => \E i \in 1 .. Len(kept) : kept[i] = events[m]
    BY <1>1 DEF KeptOf
  <2> QED  BY <1>3, <2>1, <2>2 DEF Range
<1> QED  BY <1>1, <1>4, <1>5 DEF kept

(* What a full reload announced by cmd_loop owes is every event not yet sent. *)
LEMMA OwedIsSafe ==
  ASSUME Serving, Settled, BusyClaims, Busy, UNCHANGED <<log, up>>, Unsent \subseteq ghost'.owed,
         \/ task'["fwd"].pc = "announce"
         \/ task'["cmd"].pc = "announce"
         \/ ~sess'.pend /\ task'["cmd"].pc = "reload"
  PROVE  Numbers' \subseteq Safe'
<1>1. st'.pc # "history" /\ up' = <<>>
  BY ClientStill DEF BusyClaims, Serving
<1>2. Doomed' /\ ~Strict'
  BY <1>1 DEF Doomed, Strict, Subscribing
<1>3. ghost'.owed \subseteq Safe'
  BY <1>2 DEF Safe, Here, Got, Out
<1>4. 1 .. sess.cp \subseteq Safe'
  <2>1. 1 .. 0 = {}
    OBVIOUS
  <2> QED  BY <2>1, ServingFacts
<1>5. \A d \in Numbers' : d \in 1 .. sess.cp \/ d \in Unsent
  <2>1. log \in Nat /\ sess.cp \in Nat /\ Numbers' = 1 .. log
    BY ServingFacts DEF Numbers
  <2> QED  BY <2>1 DEF Unsent
<1> QED  BY <1>3, <1>4, <1>5

LEMMA DrainServes ==
  ASSUME Serving, Settled, BusyClaims, sess.pend /\ Busy => task["fwd"].pc = "announce", NEW t \in Tasks, Drain(t)
  PROVE  SentAll' /\ Covered'
<1>0. BufCap \in Nat \ {0}
  BY WsSessionAssumption
<1>1. /\ UNCHANGED <<log, held, chan, up>> /\ Others(t) /\ task[t].pc = "drain"
  BY DrainDoes, Zenon DEF Serving
<1>2. Brings(t) = {} /\ (t = "fwd" => sess.buf = <<>> /\ task[t].max = 0)
  BY <1>1 DEF Brings, Serving, Shape, SessionShape, TaskShape, FwdShape, InReplay
<1>3. 1 .. task[t].max \subseteq Safe /\ task[t].max \in Nat
  <2>1. 1 .. 0 = {}
    OBVIOUS
  <2> QED  BY <1>1, <1>2, <2>1, ServingFacts DEF JobSent, CmdSent, Tasks
<1>4. CASE /\ sess.buf = <<>>
           /\ sess' = SessionOf(sess.sub, To(task[t].max), FALSE, sess.buf, sess.pend)
           /\ task'[t] = Leaves(t)
           /\ UNCHANGED ghost
  <2>1. /\ sess'.sub = sess.sub /\ sess'.cp = To(task[t].max) /\ sess'.rep = FALSE /\ sess'.buf = <<>>
        /\ sess'.pend = sess.pend
    BY <1>4 DEF SessionOf
  <2>2. (sess'.cp = sess.cp \/ 1 .. sess'.cp \subseteq Safe') /\ (sess'.sub => 1 .. sess'.cp \subseteq Safe')
    BY <1>3, <2>1, AdvanceServes
  <2>3. SentAll'
    <3>1. JobSent(t, task'[t], Safe')
      BY <1>4, LeavesSent DEF Serving
    <3>2. \A u \in Tasks : task'[u] = task[u] \/ JobSent(u, task'[u], Safe')
      BY <1>1, <3>1 DEF Others
    <3> QED  BY <2>1, <2>2, <3>2, SentAllKept
  <2>4. Pool \subseteq Pool' /\ Numbers' = Numbers
    BY <1>1, <1>4, PoolKept DEF Numbers
  <2>5. CASE t = "fwd"
    <3>1. task'["fwd"].pc = "idle"
      BY <1>4, <2>5, LeavesIs DEF Serving
    <3>2. Numbers \subseteq Pool
      BY <1>1, <1>2, <2>5, CoveredIs DEF Serving, ReplayCover, InReplay
    <3>3. Numbers' \subseteq OpenCover'
      BY <2>4, <3>2 DEF OpenCover
    <3> QED  BY <2>1, <2>3, <3>1, <3>3, CoveredIs DEF InReplay
  <2>6. CASE t = "cmd"
    <3>1. task'["fwd"] = task["fwd"] /\ Taken' = Taken
      BY <1>1, <2>6 DEF Others, Tasks, Taken
    <3>2. Receptive => Numbers \subseteq OpenCover
      <4>1. Range(<<>>) = {} /\ Len(<<>>) = 0
        <5>1. DOMAIN <<>> = {} /\ Len(<<>>) = 0
          OBVIOUS
        <5> QED  BY <5>1 DEF Range
      <4>2. Len(sess.buf) < BufCap /\ BufferCover = OpenCover
        BY <1>0, <1>2, <1>4, <2>6, <4>1 DEF BufferCover, OpenCover
      <4> QED  BY <4>2, CoveredIs DEF Serving
    <3>3. OpenCover \subseteq OpenCover'
      BY <2>4, <3>1 DEF OpenCover
    <3>4. Brings("fwd") \subseteq Brings("fwd")' \cup Safe'
      BY <2>2, <3>1, BringsKept DEF Tasks
    <3>5. ReplayCover \subseteq ReplayCover'
      BY <2>1, <2>4, <3>4, ServingFacts DEF ReplayCover
    <3>6. Receptive' => Receptive
      BY <2>1, <3>1 DEF Receptive
    <3> QED  BY <2>1, <2>3, <2>4, <3>1, <3>2, <3>3, <3>5, <3>6, CoveredIs DEF Serving
  <2> QED  BY <2>5, <2>6 DEF Tasks
<1>5. ASSUME sess.buf # <<>> PROVE t = "cmd" /\ sess.rep
  BY <1>2, <1>5, ServingFacts DEF Tasks
<1>6. CASE /\ Len(sess.buf) >= BufCap
           /\ sess' = SessionOf(sess.sub, sess.cp, FALSE, <<>>, sess.pend)
           /\ task'[t] = JobOf("reload", task[t].out, task[t].pos, task[t].max, task[t].more, Msg("nack", 0))
           /\ ghost' = GhostOf(ghost.gone, ghost.owed \cup Unsent, ghost.excused)
  <2>1. sess.buf # <<>>
    <3>1. Len(<<>>) = 0
      OBVIOUS
    <3> QED  BY <1>0, <1>6, <3>1
  <2>2. t = "cmd" /\ Busy
    BY <1>1, <1>5, <2>1 DEF Busy, InReplay
  <2>3. sess'.pend = sess.pend /\ ghost'.owed = ghost.owed \cup Unsent
    BY <1>6 DEF SessionOf, GhostOf
  <2>4. task'["cmd"].pc = "reload" /\ task'["fwd"] = task["fwd"]
    BY <1>1, <1>6, <2>2 DEF JobOf, Others, Tasks
  <2>5. Numbers' \subseteq Safe'
    BY <1>1, <2>2, <2>3, <2>4, OwedIsSafe, ServingFacts
  <2> QED  BY <2>5, AllSent DEF Serving
<1>7. CASE /\ Len(sess.buf) \in 1 .. BufCap - 1
           /\ sess' = SessionOf(sess.sub, sess.cp, sess.rep, <<>>, sess.pend)
           /\ task'[t] = With(t, "flush", Above(DrainTo(t), sess.buf))
           /\ UNCHANGED ghost
  <2>1. sess.buf # <<>> /\ Len(sess.buf) < BufCap
    <3>1. Len(<<>>) = 0
      OBVIOUS
    <3> QED  BY <1>0, <1>7, <3>1
  <2>2. t = "cmd" /\ sess.rep /\ sess.sub
    BY <1>5, <2>1, ServingFacts
  <2>3. sess'.sub = sess.sub /\ sess'.cp = sess.cp /\ sess'.rep = sess.rep /\ sess'.buf = <<>> /\ sess'.pend = sess.pend
    BY <1>7 DEF SessionOf
  <2>4. task'[t].pc = "flush" /\ task'[t].out = Above(DrainTo(t), sess.buf) /\ task'[t].max = task[t].max
    BY <1>7 DEF With, JobOf
  <2>5. 1 .. DrainTo(t) \subseteq Safe /\ DrainTo(t) \in Nat
    BY <1>3, <2>2, ServingFacts DEF DrainTo, MaxOf
  <2>6. Follows(sess.buf, Safe)
    <3>1. Follows(sess.buf, Safe \cup Brings("cmd"))
      BY SentAllIs DEF Serving
    <3> QED  BY <1>2, <2>2, <3>1, Zenon
  <2>7. /\ Follows(Above(DrainTo(t), sess.buf), Safe)
        /\ Range(sess.buf) \subseteq Range(Above(DrainTo(t), sess.buf)) \cup 1 .. DrainTo(t)
    <3>1. sess.buf \in Seq(Numbers) /\ Numbers \subseteq Nat \ {0}
      BY SessTyped, ServingFacts DEF Serving
    <3> QED  BY <2>5, <2>6, <3>1, FollowsAbove, Zenon
  <2>8. JobSent(t, task'[t], Safe')
    <3>1. Follows(Above(DrainTo(t), sess.buf), Safe')
      BY <2>7, FollowsMore, ServingFacts
    <3> QED  BY <1>3, <2>2, <2>4, <3>1, ServingFacts DEF JobSent, CmdSent, PageSent
  <2>9. Brings(t)' = Range(Above(DrainTo(t), sess.buf))
    BY <2>4, BringsIs DEF BringsOf
  <2>10. task'["fwd"] = task["fwd"] /\ Taken' = Taken
    BY <1>1, <2>2 DEF Others, Tasks, Taken
  <2>11. SentAll'
    <3>1. \A u \in Tasks : task'[u] = task[u] \/ JobSent(u, task'[u], Safe')
      BY <1>1, <2>8 DEF Others
    <3> QED  BY <2>3, <3>1, ServingFacts, SentAllKept
  <2>12. Brings("fwd") \subseteq Brings("fwd")' \cup Safe'
    BY <2>3, <2>10, BringsKept DEF Tasks
  <2>13. Range(sess.buf) \subseteq Range(sess'.buf) \cup Brings("cmd")' \cup Safe'
    BY <2>2, <2>5, <2>7, <2>9, ServingFacts
  <2>14. Pool \subseteq Pool' /\ Numbers' = Numbers
    BY <1>1, <1>7, PoolKept DEF Numbers
  <2>15. Covered'
    BY <1>2, <2>1, <2>2, <2>3, <2>10, <2>12, <2>13, <2>14, CoveredKept
  <2> QED  BY <2>11, <2>15
<1> QED  BY <1>4, <1>6, <1>7, DrainDoes, Zenon DEF Serving

LEMMA BeginServes ==
  ASSUME Serving, Settled, BusyClaims, sess.pend /\ Busy => task["fwd"].pc = "announce", NEW t \in Tasks, BeginFullReload(t)
  PROVE  SentAll' /\ Covered'
<1>1. /\ UNCHANGED <<log, held, chan, up>> /\ Others(t) /\ task[t].pc = "reload"
      /\ sess' = SessionOf(sess.sub, sess.cp, FALSE, <<>>, TRUE)
      /\ task'[t] = (IF sess.pend THEN Leaves(t) ELSE With(t, "announce", task[t].out))
      /\ ghost' = GhostOf(ghost.gone, ghost.owed \cup Unsent, ghost.excused)
  BY BeginDoes, Zenon DEF Serving
<1>2. /\ sess'.sub = sess.sub /\ sess'.cp = sess.cp /\ sess'.rep = FALSE /\ sess'.buf = <<>> /\ sess'.pend = TRUE
  BY <1>1 DEF SessionOf
<1>3. ghost'.gone = ghost.gone /\ ghost'.owed = ghost.owed \cup Unsent
  BY <1>1 DEF GhostOf
<1>4. ~sess.pend => task'[t].pc = "announce"
  BY <1>1 DEF With, JobOf
<1>5. CASE t = "cmd"
  <2>1. Busy /\ task'["fwd"] = task["fwd"]
    BY <1>1, <1>5 DEF Busy, InReplay, Others, Tasks
  <2>2. Numbers' \subseteq Safe'
    BY <1>1, <1>3, <1>4, <1>5, <2>1, OwedIsSafe, ServingFacts, Zenon
  <2> QED  BY <2>2, AllSent DEF Serving
<1>6. CASE t = "fwd"
  <2>1. JobSent(t, task'[t], Safe')
    <3>1. CASE sess.pend
      BY <1>1, <3>1, LeavesSent DEF Serving
    <3>2. CASE ~sess.pend
      BY <1>4, <3>2 DEF JobSent, FwdSent, CmdSent, PageSent
    <3> QED  BY <3>1, <3>2
  <2>2. SentAll'
    <3>1. \A u \in Tasks : task'[u] = task[u] \/ JobSent(u, task'[u], Safe')
      BY <1>1, <2>1 DEF Others
    <3> QED  BY <1>2, <3>1, ServingFacts, SentAllKept
  <2>3. CASE sess.pend
    <3>1. task'["fwd"].pc = "idle"
      BY <1>1, <1>6, <2>3, LeavesIs DEF Serving
    <3>2. Numbers \subseteq Pool
      BY <1>1, <1>6, <2>3, CoveredIs DEF Serving, ReplayCover, InReplay
    <3>3. Pool \subseteq Pool' /\ Numbers' = Numbers
      BY <1>1, <1>3, PoolKept, Zenon DEF Numbers
    <3>4. Numbers' \subseteq OpenCover'
      BY <3>2, <3>3 DEF OpenCover
    <3> QED  BY <1>2, <2>2, <3>1, <3>4, CoveredIs DEF InReplay
  <2>4. CASE ~sess.pend
    <3>1. ~Receptive' /\ task'["fwd"].pc \notin InReplay
      BY <1>4, <1>6, <2>4 DEF Receptive, InReplay
    <3> QED  BY <2>2, <3>1, CoveredIs
  <2> QED  BY <2>3, <2>4
<1> QED  BY <1>5, <1>6 DEF Tasks

LEMMA SubscribeServes ==
  ASSUME Serving, Settled, Requested, ClientClaims, Subscribe
  PROVE  SentAll' /\ Covered'
<1>1. PICK from \in 0 .. log :
        /\ from = MaxOf(sess.cp, Head(up).s)
        /\ sess' = SessionOf(TRUE, from, TRUE, sess.buf, FALSE)
        /\ task'["cmd"] = JobOf(IF sess.rep THEN "reply" ELSE "read", <<>>, from, 0, FALSE, Msg("ack", 0))
  BY SubscribeDoes, Zenon DEF Serving
<1>2. /\ UNCHANGED <<log, held, chan>> /\ task["cmd"].pc = "idle" /\ up # <<>> /\ Head(up).s \in 0 .. log
      /\ task'["fwd"] = task["fwd"] /\ ghost' = GhostOf(ghost.gone, {}, ghost.excused)
  BY SubscribeDoes DEF Serving
<1>3. sess'.sub = TRUE /\ sess'.cp = from /\ sess'.rep = TRUE /\ sess'.buf = sess.buf /\ sess'.pend = FALSE
  BY <1>1 DEF SessionOf
<1>4. task'["cmd"].pc = (IF sess.rep THEN "reply" ELSE "read") /\ task'["cmd"].pos = from
  BY <1>1 DEF JobOf
<1>5. ghost'.gone = ghost.gone
  BY <1>2 DEF GhostOf
<1>6. 1 .. from \subseteq Safe /\ from \in Nat
  <2>1. Head(up).s <= tr.last /\ 1 .. tr.last \subseteq Here
    BY <1>2, SettledAsks DEF Serving, ClientClaims
  <2>2. Head(up).s \in Nat /\ tr.last \in Nat
    BY <1>2, LastsAreNat, ServingFacts DEF Serving
  <2>3. 1 .. Head(up).s \subseteq Safe
    <3>1. 1 .. Head(up).s \subseteq 1 .. tr.last
      BY <2>1, <2>2
    <3> QED  BY <2>1, <3>1 DEF Safe
  <2>4. 1 .. sess.cp \subseteq Safe
    <3>1. 1 .. 0 = {}
      OBVIOUS
    <3> QED  BY <3>1, ServingFacts
  <2> QED  BY <1>1, <2>2, <2>3, <2>4, ServingFacts DEF MaxOf
<1>7. 1 .. from \subseteq Safe'
  BY <1>6, ServingFacts
<1>8. Brings("cmd") = {}
  BY <1>2 DEF Brings
<1>9. SentAll'
  <2>1. JobSent("cmd", task'["cmd"], Safe')
    BY <1>4, <1>7 DEF JobSent, CmdSent, PageSent
  <2> QED  BY <1>2, <1>3, <1>7, <1>8, <2>1, SentAllKept DEF Tasks
<1>10. Brings("fwd") \subseteq Brings("fwd")' \cup Safe'
  BY <1>2, <1>3, <1>7, BringsKept DEF Tasks
<1>11. Pool \subseteq Pool' /\ Numbers' = Numbers /\ Safe' \subseteq Pool' /\ Taken' = Taken
  BY <1>2, <1>5, PoolKept, ServingFacts DEF Numbers, Taken
<1>12. Receptive' /\ Len(sess'.buf) < BufCap => Numbers' \subseteq BufferCover'
  <2>1. CASE sess.rep
    <3>1. Receptive' => Receptive
      BY <1>2, <2>1, ServingFacts DEF Receptive
    <3>2. BufferCover \subseteq BufferCover'
      BY <1>3, <1>8, <1>11 DEF BufferCover
    <3> QED  BY <1>3, <1>11, <2>1, <3>1, <3>2, CoveredIs DEF Serving
  <2>2. CASE ~sess.rep
    <3>1. Brings("cmd")' = {d \in Numbers' : d > from}
      BY <1>4, <2>2, BringsIs DEF BringsOf, Tasks
    <3>2. \A d \in Numbers' : d > from \/ d \in 1 .. from
      BY <1>6, ServingFacts
    <3> QED  BY <1>7, <1>11, <3>1, <3>2 DEF BufferCover
  <2> QED  BY <2>1, <2>2
<1>13. task'["fwd"].pc \in InReplay => Numbers' \subseteq ReplayCover'
  <2>1. ReplayCover \subseteq ReplayCover'
    BY <1>3, <1>10, <1>11 DEF ReplayCover
  <2> QED  BY <1>2, <1>11, <2>1, CoveredIs DEF Serving
<1> QED  BY <1>3, <1>9, <1>12, <1>13, CoveredIs

LEMMA BusyStays ==
  ASSUME Types, Requested, Settled, Server, Busy', ~Subscribe
  PROVE  Busy \/ (task["cmd"].pc = "announce" /\ task'["cmd"] # task["cmd"])
<1>1. ~Unsubscribe /\ ~ReadHistory
  BY SettledAsks
<1>2. ~Reply
  BY ReplyDoes DEF Busy, Idle, InReplay
<1>3. CASE task'["cmd"] = task["cmd"]
  <2>1. task'["cmd"].pc = task["cmd"].pc
    BY <1>3
  <2> QED  BY <2>1 DEF Busy, InReplay
<1>4. CASE CmdWorks
  BY <1>3, <1>4 DEF CmdWorks, Busy
<1> QED  BY <1>1, <1>2, <1>3, <1>4, CmdSteps

LEMMA PendBusyServer ==
  ASSUME Types, TaskShape, Requested, Settled, Server, ~Reloading', sess.pend /\ Busy => task["fwd"].pc = "announce"
  PROVE  sess'.pend /\ Busy' => task'["fwd"].pc = "announce"
<1> USE DEF Tasks
<1>0. ~Unsubscribe /\ \A t \in Tasks : ~SendFullReload(t)
  BY SettledAsks, ReloadingKept
<1>1. CASE Subscribe
  <2>1. \E from : sess' = SessionOf(TRUE, from, TRUE, sess.buf, FALSE)
    BY <1>1, SubscribeDoes, Zenon
  <2>2. PICK from : sess' = SessionOf(TRUE, from, TRUE, sess.buf, FALSE)
    BY <2>1, Zenon
  <2>3. sess'.pend = FALSE
    BY <2>2 DEF SessionOf
  <2> QED  BY <2>3
<1>2. ASSUME NEW t \in Tasks, BeginFullReload(t) PROVE sess'.pend /\ Busy' => task'["fwd"].pc = "announce"
  <2>1. /\ Others(t) /\ task[t].pc = "reload"
        /\ task'[t] = (IF sess.pend THEN Leaves(t) ELSE With(t, "announce", task[t].out))
    BY <1>2, BeginDoes, Zenon
  <2>2. ~sess.pend => task'[t].pc = "announce"
    BY <2>1 DEF With, JobOf
  <2>3. CASE t = "cmd"
    <3>1. ~Busy'
      BY <2>1, <2>2, <2>3, LeavesIs DEF Busy, InReplay
    <3> QED  BY <3>1
  <2>4. CASE t = "fwd"
    <3>1. Busy' = Busy
      BY <2>1, <2>4 DEF Busy, Others
    <3> QED  BY <2>1, <2>2, <2>4, <3>1
  <2> QED  BY <2>3, <2>4
<1>3. CASE ~Subscribe /\ \A t \in Tasks : ~BeginFullReload(t)
  <2>1. sess'.pend = sess.pend
    BY <1>0, <1>3, PendKept
  <2>2. task["fwd"].pc = "announce" => task'["fwd"] = task["fwd"]
    BY <1>0, <1>3, FailingKept
  <2>3. task["cmd"].pc = "announce" => task'["cmd"] = task["cmd"]
    BY <1>0, <1>3, FailingKept
  <2>4. Busy' => Busy
    BY <1>3, <2>3, BusyStays
  <2> QED  BY <2>1, <2>2, <2>4
<1> QED  BY <1>1, <1>2, <1>3

LEMMA BusyServer ==
  ASSUME Types, TaskShape, Requested, Settled, BusyClaims, Server
  PROVE  BusyClaims'
<1> SUFFICES ASSUME Busy' PROVE st'.pc # "history" /\ up' = <<>>
  BY DEF BusyClaims
<1>0. st' = st
  BY ClientStill
<1>1. CASE Subscribe
  <2>1. up' = Tail(up) /\ up # <<>>
    BY <1>1, SubscribeDoes
  <2> QED  BY <1>0, <2>1, SettledAsks
<1>2. CASE ~Subscribe
  <2>1. Busy => up' = <<>> /\ st.pc # "history"
    <3>1. Busy => up = <<>> /\ st.pc # "history"
      BY DEF BusyClaims
    <3>2. ~Unsubscribe /\ ~ReadHistory
      BY SettledAsks
    <3>3. up' = up
      BY <1>2, <3>2, CmdSteps
    <3> QED  BY <3>1, <3>3
  <2>2. ~(task["cmd"].pc = "announce" /\ task'["cmd"] # task["cmd"])
    <3> SUFFICES ASSUME task["cmd"].pc = "announce", task'["cmd"] # task["cmd"] PROVE FALSE
      OBVIOUS
    <3>1. SendFullReload("cmd")
      BY FailingKept DEF Tasks, BeginFullReload
    <3>2. task'["cmd"] = Leaves("cmd")
      BY <3>1, AnnounceDoes DEF Tasks
    <3> QED  BY <3>2, LeavesIs DEF Busy, InReplay, Tasks
  <2> QED  BY <1>0, <1>2, <2>1, <2>2, BusyStays
<1> QED  BY <1>1, <1>2

LEMMA ServerClaimsServer ==
  ASSUME Types, Types', Shape, Requested, Settled, Claims, Server, st.pc = "history" => \A h : BaseIs(h)' <=> BaseIs(h)
  PROVE  ServerClaims'
<1> SUFFICES ASSUME conn' = "up", ~Reloading'
             PROVE  SentAll' /\ Covered' /\ (sess'.pend /\ Busy' => task'["fwd"].pc = "announce")
  BY DEF ServerClaims
<1>1. conn = "up" /\ ~Reloading
  BY ClientStill, ReloadingKept DEF Shape
<1>2. SentAll /\ Covered /\ (sess.pend /\ Busy => task["fwd"].pc = "announce") /\ ClientClaims /\ BusyClaims
  BY <1>1 DEF Claims, ServerClaims
<1>3. sess'.pend /\ Busy' => task'["fwd"].pc = "announce"
  BY <1>2, PendBusyServer DEF Shape
<1>4. Serving
  BY <1>2, SafeServer DEF Serving, Shape
<1>5. ~Unsubscribe /\ ~ReadHistory /\ \A t \in Tasks : ~SendFullReload(t)
  BY SettledAsks, ReloadingKept DEF Shape
<1>6. ASSUME NEW e \in Emitters, Persist(e) \/ Publish(e) PROVE SentAll' /\ Covered'
  BY <1>1, <1>4, <1>6, PersistServes, PublishServes
<1>7. CASE FwdSkip \/ FwdBuffer \/ FwdTake \/ FwdSend \/ FwdMark \/ FwdLagged
  <2>1. CASE FwdSkip
    BY <1>3, <1>4, <2>1, FwdSkipServes
  <2>2. CASE FwdBuffer
    BY <1>3, <1>4, <2>2, FwdBufferServes
  <2>3. CASE FwdTake
    BY <1>3, <1>4, <2>3, FwdTakeServes
  <2>4. CASE FwdSend
    BY <1>3, <1>4, <2>4, FwdSendServes
  <2>5. CASE FwdMark
    BY <1>3, <1>4, <2>5, FwdMarkServes
  <2>6. CASE FwdLagged
    BY <1>3, <1>4, <2>6, FwdLaggedServes
  <2> QED  BY <1>7, <2>1, <2>2, <2>3, <2>4, <2>5, <2>6
<1>8. CASE Subscribe \/ Reply
  <2>1. CASE Subscribe
    BY <1>2, <1>3, <1>4, <2>1, SubscribeServes
  <2>2. CASE Reply
    BY <1>3, <1>4, <2>2, ReplyServes
  <2> QED  BY <1>8, <2>1, <2>2
<1>9. ASSUME NEW t \in Tasks, Replaying(t) \/ ReplayFails(t) PROVE SentAll' /\ Covered'
  <2>1. CASE ReplayPage(t) \/ ReplayFails(t) \/ ReplaySend(t) \/ ReplayDone(t)
    <3>1. CASE ReplayPage(t)
      BY <1>4, <3>1, ReplayPageServes
    <3>2. CASE ReplayFails(t)
      BY <1>4, <3>2, ReplayFailsServes
    <3>3. CASE ReplaySend(t)
      BY <1>4, <3>3, ReplaySendServes
    <3>4. CASE ReplayDone(t)
      BY <1>4, <3>4, ReplayDoneServes
    <3> QED  BY <2>1, <3>1, <3>2, <3>3, <3>4
  <2>2. CASE FlushSend(t) \/ FlushMark(t)
    <3>1. CASE FlushSend(t)
      BY <1>4, <3>1, FlushSendServes
    <3>2. CASE FlushMark(t)
      BY <1>4, <3>2, FlushMarkServes
    <3> QED  BY <2>2, <3>1, <3>2
  <2>3. CASE Drain(t) \/ BeginFullReload(t)
    <3>1. CASE Drain(t)
      BY <1>2, <1>4, <3>1, DrainServes
    <3>2. CASE BeginFullReload(t)
      BY <1>2, <1>4, <3>2, BeginServes
    <3> QED  BY <2>3, <3>1, <3>2
  <2> QED  BY <1>5, <1>9, <2>1, <2>2, <2>3 DEF Replaying
<1>10. \/ \E e \in Emitters : Persist(e) \/ Publish(e)
       \/ FwdSkip \/ FwdBuffer \/ FwdTake \/ FwdSend \/ FwdMark \/ FwdLagged
       \/ Subscribe \/ Reply
       \/ \E t \in Tasks : Replaying(t) \/ ReplayFails(t)
  BY <1>5 DEF Server, Forwarding, Commands, Tasks
<1> QED  BY <1>3, <1>6, <1>7, <1>8, <1>9, <1>10

LEMMA ClaimsServer ==
  ASSUME Types, Types', Shape, Requested, Claims, Server
  PROVE  Claims'
<1>1. CASE ~Settled'
  BY <1>1 DEF Claims, ClientClaims, ServerClaims, BusyClaims
<1>2. CASE Settled'
  <2>1. CASE /\ st.pc = "history" /\ ReadHistory /\ task'["cmd"].pc = "reply"
             /\ task'["cmd"].reply = Msg("history", log)
    <3>1. st'.pc = "history" /\ log' = log /\ log \in Nat
      BY <2>1, ClientStill, ReadHistoryDoes, LogIsNat
    <3>2. BaseIs(log)'
      BY <2>1, <3>1 DEF BaseIs
    <3>3. Numbers' \subseteq Had'
      BY <3>1, <3>2 DEF Had, Numbers
    <3> QED  BY <2>1, <3>1, <3>3, WholeLog
  <2>2. CASE Settled /\ (st.pc = "history" => \A h : BaseIs(h)' <=> BaseIs(h))
    <3>1. ClientClaims'
      BY <2>2, ClientClaimsServer
    <3>2. ServerClaims'
      BY <2>2, ServerClaimsServer
    <3>3. BusyClaims'
      BY <2>2, BusyServer DEF Claims, Shape
    <3> QED  BY <3>1, <3>2, <3>3 DEF Claims
  <2> QED  BY <1>2, <2>1, <2>2, SettledBefore DEF Shape
<1> QED  BY <1>1, <1>2

-----------------------------------------------------------------------------
(* The claims are preserved by the client.  A page that is not settled makes *)
(* none; of the others, what it shows and what is still on its way, after   *)
(* a message is taken from the wire, and after each thing the client does.  *)

LEMMA Unsettled ==
  ASSUME ~Settled'
  PROVE  Claims'
BY DEF Claims, ClientClaims, ServerClaims, BusyClaims

LEMMA SettledIs ==
  Settled' <=> st'.page = "open" /\ ~mw'.again /\ (st'.pc \in {"ack", "idle"} \/ Waiting')
BY DEF Settled

LEMMA AwayUnsettled ==
  ASSUME st'.page # "open" \/ mw'.again \/ st'.pc \notin {"ack", "idle", "history"}
         \/ (st'.pc = "history" /\ (up' # <<>> \/ conn' # "up"))
  PROVE  Claims'
<1>1. ~Settled'
  BY DEF Settled, Waiting
<1> QED  BY <1>1, Unsettled

LEMMA OutSame ==
  ASSUME UNCHANGED <<ghost, up, task, sess>>, Reloading' <=> Reloading, st'.pc = "history" <=> st.pc = "history"
  PROVE  Out' = Out /\ (Doomed' <=> Doomed)
<1>1. Doomed' <=> Doomed
  BY DEF Doomed
<1>2. Strict' <=> Strict
  BY DEF Strict, Subscribing
<1> QED  BY <1>1, <1>2 DEF Out

LEMMA HadSame ==
  ASSUME log' = log, st'.pc = "history" <=> st.pc = "history", st.pc # "history" => Shown' = Shown,
         st.pc = "history" => \A h : BaseIs(h)' <=> BaseIs(h)
  PROVE  Had' = Had
<1>1. Numbers' = Numbers /\ (0 .. log)' = 0 .. log
  BY DEF Numbers
<1>2. CASE st.pc = "history"
  BY <1>1, <1>2 DEF Had
<1>3. CASE st.pc # "history"
  BY <1>3 DEF Had
<1> QED  BY <1>2, <1>3

LEMMA ServerClaimsStay ==
  ASSUME Types, UNCHANGED <<log, held, chan, sess, task, conn, ghost>>, Safe \subseteq Safe', Reloading' <=> Reloading,
         Settled, ServerClaims
  PROVE  ServerClaims'
<1> SUFFICES ASSUME conn' = "up", ~Reloading'
             PROVE  SentAll' /\ Covered' /\ (sess'.pend /\ Busy' => task'["fwd"].pc = "announce")
  BY DEF ServerClaims
<1>1. SentAll /\ Covered /\ (sess.pend /\ Busy => task["fwd"].pc = "announce")
  BY DEF ServerClaims
<1>2. /\ Brings("cmd")' = Brings("cmd") /\ Brings("fwd")' = Brings("fwd") /\ Numbers' = Numbers
      /\ (Busy' <=> Busy) /\ Taken' = Taken /\ Receptive' = Receptive /\ Held' = Held
  BY DEF Brings, Numbers, Busy, Taken, Receptive, InReplay, Held
<1>3. Pool \subseteq Pool'
  BY <1>2 DEF Pool
<1>4. SentAll'
  <2>1. \A t \in Tasks : JobSent(t, task'[t], Safe')
    BY <1>1, SentAllIs, JobSentMore
  <2>2. Follows(sess'.buf, Safe' \cup Brings("cmd")')
    BY <1>1, <1>2, SentAllIs, FollowsMore
  <2>3. sess'.sub => 1 .. sess'.cp \subseteq Safe'
    BY <1>1, SentAllIs
  <2> QED  BY <2>1, <2>2, <2>3, SentAllIs
<1>5. Covered'
  <2>1. OpenCover \subseteq OpenCover' /\ BufferCover \subseteq BufferCover' /\ ReplayCover \subseteq ReplayCover'
    BY <1>2, <1>3 DEF OpenCover, BufferCover, ReplayCover
  <2>2. (Receptive /\ ~sess.rep => Numbers \subseteq OpenCover)
        /\ (Receptive /\ sess.rep /\ Len(sess.buf) < BufCap => Numbers \subseteq BufferCover)
        /\ (task["fwd"].pc \in InReplay => Numbers \subseteq ReplayCover)
    BY <1>1, CoveredIs
  <2> QED  BY <1>2, <2>1, <2>2, CoveredIs
<1> QED  BY <1>1, <1>2, <1>4, <1>5

LEMMA BusyClaimsStay ==
  ASSUME UNCHANGED <<task, up>>, st'.pc = "history" => st.pc = "history", Settled, BusyClaims
  PROVE  BusyClaims'
<1>1. Busy' <=> Busy
  BY DEF Busy, InReplay
<1> QED  BY <1>1 DEF BusyClaims

(* The first message is taken from the wire. *)
LEMMA Popped ==
  ASSUME Types, Handled
  PROVE  /\ Range(wire) = Range(wire') \cup {wire[1]}
         /\ wire[1].kind # "reload" => (Reloading' <=> Reloading)
         /\ Sent \subseteq Sent' \cup (IF wire[1].kind = "event" THEN {wire[1].s} ELSE {})
         /\ wire[1].kind = "event" => wire[1].s \in Numbers
<1>1. /\ wire # <<>> /\ wire' = Tail(wire) /\ log' = log
      /\ Len(wire) \in Nat \ {0} /\ DOMAIN wire = 1 .. Len(wire) /\ DOMAIN wire' = 1 .. Len(wire) - 1
      /\ \A i \in 1 .. Len(wire) - 1 : i + 1 \in DOMAIN wire /\ wire'[i] = wire[i + 1]
      /\ 1 \in DOMAIN wire
      /\ wire[1].kind = "event" => wire[1].s \in Numbers
  BY FirstMessage DEF Handled
<1>2. Range(wire') \subseteq Range(wire)
  BY <1>1 DEF Range
<1>3. ASSUME NEW m \in Range(wire) PROVE m \in Range(wire') \cup {wire[1]}
  <2>1. PICK i \in DOMAIN wire : m = wire[i]
    BY DEF Range
  <2>2. CASE i = 1
    BY <2>1, <2>2
  <2>3. CASE i # 1
    <3>1. i - 1 \in 1 .. Len(wire) - 1 /\ (i - 1) + 1 = i
      BY <1>1, <2>3
    <3>2. wire'[i - 1] = m /\ i - 1 \in DOMAIN wire'
      BY <1>1, <2>1, <3>1
    <3> QED  BY <3>2 DEF Range
  <2> QED  BY <2>2, <2>3
<1>4. Range(wire) = Range(wire') \cup {wire[1]}
  BY <1>1, <1>2, <1>3, Zenon DEF Range
<1>5. wire[1].kind # "reload" => (Reloading' <=> Reloading)
  <2>1. Msg("reload", 0).kind = "reload"
    BY DEF Msg
  <2> QED  BY <1>4, <2>1 DEF Reloading
<1>6. Sent \subseteq Sent' \cup (IF wire[1].kind = "event" THEN {wire[1].s} ELSE {})
  <2>1. \A d : Msg("event", d).kind = "event" /\ Msg("event", d).s = d
    BY DEF Msg
  <2>2. Numbers' = Numbers
    BY <1>1 DEF Numbers
  <2> QED  BY <1>4, <2>1, <2>2 DEF Sent
<1> QED  BY <1>1, <1>4, <1>5, <1>6

LEMMA BaseShift ==
  ASSUME Types, Handled, wire[1].kind \notin Histories \/ \E g : BaseIs(g)'
  PROVE  \A h : BaseIs(h)' <=> BaseIs(h)
<1>1. /\ wire # <<>> /\ wire' = Tail(wire) /\ log' = log /\ task' = task
      /\ Len(wire) \in Nat \ {0} /\ DOMAIN wire = 1 .. Len(wire) /\ DOMAIN wire' = 1 .. Len(wire) - 1
      /\ \A i \in DOMAIN wire' : i + 1 \in DOMAIN wire /\ wire'[i] = wire[i + 1]
      /\ 1 \in DOMAIN wire
  BY FirstMessage DEF Handled
<1>2. CASE task["cmd"].pc = "reply"
  BY <1>1, <1>2 DEF BaseIs
<1>3. CASE task["cmd"].pc # "reply"
  <2> DEFINE Base(h) == \E i \in DOMAIN wire : wire[i] = Msg("history", h) /\ \A j \in DOMAIN wire : wire[j].kind \in Histories => j <= i
             Next1(h) == \E i \in DOMAIN wire' : wire'[i] = Msg("history", h) /\ \A j \in DOMAIN wire' : wire'[j].kind \in Histories => j <= i
  <2>1. \A h : (BaseIs(h) <=> Base(h)) /\ (BaseIs(h)' <=> Next1(h))
    BY <1>1, <1>3 DEF BaseIs
  <2>2. \A h : Msg("history", h).kind \in Histories
    BY DEF Msg, Histories
  <2>3. \A i \in DOMAIN wire : i = 1 \/ (i - 1 \in DOMAIN wire' /\ wire'[i - 1] = wire[i])
    <3> SUFFICES ASSUME NEW i \in DOMAIN wire, i # 1 PROVE i - 1 \in DOMAIN wire' /\ wire'[i - 1] = wire[i]
      OBVIOUS
    <3>1. i - 1 \in DOMAIN wire' /\ (i - 1) + 1 = i
      BY <1>1
    <3> QED  BY <1>1, <3>1
  <2>4. ASSUME NEW h, Next1(h) PROVE Base(h)
    <3>1. PICK i \in DOMAIN wire' : wire'[i] = Msg("history", h) /\ \A j \in DOMAIN wire' : wire'[j].kind \in Histories => j <= i
      BY <2>4
    <3>2. i + 1 \in DOMAIN wire /\ wire[i + 1] = Msg("history", h)
      BY <1>1, <3>1
    <3>3. ASSUME NEW j \in DOMAIN wire, wire[j].kind \in Histories PROVE j <= i + 1
      <4>1. CASE j = 1
        BY <1>1, <4>1
      <4>2. CASE j # 1
        <5>1. j - 1 \in DOMAIN wire' /\ wire'[j - 1] = wire[j]
          BY <2>3, <4>2
        <5>2. j - 1 <= i
          BY <3>1, <3>3, <5>1
        <5> QED  BY <1>1, <5>2
      <4> QED  BY <4>1, <4>2
    <3> QED  BY <3>2, <3>3
  <2>5. ASSUME NEW h, Base(h) PROVE Next1(h)
    <3>1. PICK i \in DOMAIN wire : wire[i] = Msg("history", h) /\ \A j \in DOMAIN wire : wire[j].kind \in Histories => j <= i
      BY <2>5
    <3>2. i # 1
      <4>1. CASE wire[1].kind \notin Histories
        BY <2>2, <3>1, <4>1
      <4>2. CASE \E g : BaseIs(g)'
        <5>1. PICK g : Next1(g)
          BY <2>1, <4>2
        <5>2. PICK k \in DOMAIN wire' : wire'[k] = Msg("history", g)
          BY <5>1
        <5>3. k + 1 \in DOMAIN wire /\ wire[k + 1].kind \in Histories
          BY <1>1, <2>2, <5>2
        <5>4. k + 1 <= i /\ k \in Nat /\ k >= 1
          BY <1>1, <3>1, <5>3
        <5> QED  BY <1>1, <5>4
      <4> QED  BY <4>1, <4>2
    <3>3. i - 1 \in DOMAIN wire' /\ wire'[i - 1] = Msg("history", h)
      BY <2>3, <3>1, <3>2
    <3>4. ASSUME NEW j \in DOMAIN wire', wire'[j].kind \in Histories PROVE j <= i - 1
      <4>1. j + 1 \in DOMAIN wire /\ wire[j + 1].kind \in Histories
        BY <1>1, <3>4
      <4>2. j + 1 <= i
        BY <3>1, <4>1
      <4> QED  BY <1>1, <4>2
    <3> QED  BY <3>3, <3>4
  <2> HIDE DEF Base, Next1
  <2> QED  BY <2>1, <2>4, <2>5
<1> QED  BY <1>2, <1>3

LEMMA WireOrderShift ==
  ASSUME Types, Handled, WireOrder, wire[1].kind # "reload", Here \subseteq Here', wire[1].kind = "event" => wire[1].s \in Here'
  PROVE  WireOrder'
<1>1. /\ wire # <<>> /\ wire' = Tail(wire)
      /\ Len(wire) \in Nat \ {0} /\ DOMAIN wire = 1 .. Len(wire) /\ DOMAIN wire' = 1 .. Len(wire) - 1
      /\ \A i \in DOMAIN wire' : i + 1 \in DOMAIN wire /\ wire'[i] = wire[i + 1]
      /\ 1 \in DOMAIN wire
  BY FirstMessage DEF Handled
<1> SUFFICES ASSUME NEW i \in DOMAIN wire', wire'[i].kind = "event", \A j \in 1 .. i - 1 : wire'[j].kind # "reload",
                    NEW d \in 1 .. (wire'[i].s - 1)
             PROVE  d \in Here' \/ \E j \in 1 .. i - 1 : wire'[j] = Msg("event", d)
  BY DEF WireOrder
<1>2. i + 1 \in DOMAIN wire /\ wire[i + 1] = wire'[i] /\ i \in Nat \ {0}
  BY <1>1
<1>3. \A j \in 1 .. i : j = 1 \/ (j - 1 \in 1 .. i - 1 /\ j - 1 \in DOMAIN wire' /\ wire'[j - 1] = wire[j])
  <2> SUFFICES ASSUME NEW j \in 1 .. i, j # 1 PROVE j - 1 \in 1 .. i - 1 /\ j - 1 \in DOMAIN wire' /\ wire'[j - 1] = wire[j]
    OBVIOUS
  <2>1. j - 1 \in 1 .. i - 1 /\ j - 1 \in DOMAIN wire' /\ (j - 1) + 1 = j
    BY <1>1, <1>2
  <2> QED  BY <1>1, <2>1
<1>4. \A j \in 1 .. (i + 1) - 1 : wire[j].kind # "reload"
  <2>1. (i + 1) - 1 = i
    BY <1>2
  <2> QED  BY <1>3, <2>1
<1>5. d \in Here \/ \E j \in 1 .. (i + 1) - 1 : wire[j] = Msg("event", d)
  BY <1>2, <1>4 DEF WireOrder
<1>6. CASE d \in Here
  BY <1>6
<1>7. ASSUME NEW j \in 1 .. (i + 1) - 1, wire[j] = Msg("event", d) PROVE d \in Here' \/ \E k \in 1 .. i - 1 : wire'[k] = Msg("event", d)
  <2>1. j \in 1 .. i
    BY <1>2
  <2>2. CASE j = 1
    BY <1>7, <2>2 DEF Msg
  <2>3. CASE j # 1
    BY <1>3, <1>7, <2>1, <2>3
  <2> QED  BY <2>2, <2>3
<1> QED  BY <1>5, <1>6, <1>7

(* After a message was taken the claims are those about the client. *)
LEMMA HandledClaims ==
  ASSUME Types, Types', Claims, Settled, Handled, wire[1].kind # "reload", UNCHANGED up,
         st'.pc = "history" => st.pc = "history", Here \subseteq Here', wire[1].kind = "event" => wire[1].s \in Here',
         TimelineOrder', Follows(mw'.buf, Got'), 1 .. tr'.last \subseteq Here'
  PROVE  Claims'
<1>1. Safe \subseteq Safe' /\ (Reloading' <=> Reloading)
  BY Popped DEF Safe
<1>2. WireOrder'
  BY WireOrderShift DEF Claims, ClientClaims
<1>3. ClientClaims'
  BY <1>2 DEF ClientClaims
<1>4. ServerClaims'
  BY <1>1, ServerClaimsStay DEF Claims, Handled
<1>5. BusyClaims'
  BY BusyClaimsStay DEF Claims, Handled
<1> QED  BY <1>3, <1>4, <1>5 DEF Claims

(* The page is as settled as it was. *)
LEMMA StaysSettled ==
  ASSUME Types, Handled, UNCHANGED up, wire[1].kind # "reload", Settled',
         st'.page = st.page, st'.pc = st.pc, mw'.again = mw.again, st'.timeline = st.timeline
  PROVE  /\ Settled /\ Out' = Out /\ Had' = Had /\ Got' = Got
         /\ (st.pc = "history" => \A h : BaseIs(h)' <=> BaseIs(h))
<1>1. st.pc = "history" => \A h : BaseIs(h)' <=> BaseIs(h)
  <2> SUFFICES ASSUME st.pc = "history" PROVE \A h : BaseIs(h)' <=> BaseIs(h)
    OBVIOUS
  <2>1. Waiting'
    BY SettledIs
  <2>2. \E g : BaseIs(g)'
    BY <2>1 DEF Waiting
  <2> QED  BY <2>2, BaseShift
<1>2. Settled
  <2>1. CASE st.pc \in {"ack", "idle"}
    BY <2>1, SettledIs DEF Settled
  <2>2. CASE st.pc \notin {"ack", "idle"}
    <3>1. Waiting'
      BY <2>2, SettledIs
    <3>2. (0 .. log)' = 0 .. log
      BY DEF Handled
    <3>3. Waiting
      BY <1>1, <3>1, <3>2 DEF Waiting, Handled
    <3> QED  BY <3>3, SettledIs DEF Settled
  <2> QED  BY <2>1, <2>2
<1>3. Out' = Out
  BY Popped, OutSame DEF Handled
<1>4. Shown' = Shown /\ log' = log
  BY DEF Shown, Handled
<1>5. Had' = Had
  BY <1>1, <1>4, HadSame
<1> QED  BY <1>1, <1>2, <1>3, <1>5 DEF Got

LEMMA TimelineOrderStays ==
  ASSUME TimelineOrder, Out \subseteq Out', st'.pc # "history" => st.pc # "history", st'.timeline = st.timeline, st'.last = st.last
  PROVE  TimelineOrder'
<1>1. Shown' = Shown
  BY DEF Shown
<1> SUFFICES ASSUME st'.pc # "history" PROVE Follows(st'.timeline, Out') /\ (st'.last = 0 \/ st'.last \in Shown')
  BY DEF TimelineOrder
<1>2. Follows(st.timeline, Out) /\ (st.last = 0 \/ st.last \in Shown)
  BY DEF TimelineOrder
<1> QED  BY <1>1, <1>2, FollowsMore

LEMMA Prefixed ==
  ASSUME NEW n \in Nat, NEW m \in Nat, NEW S, 1 .. n \subseteq S, 1 .. m \subseteq S
  PROVE  1 .. MaxOf(n, m) \subseteq S
BY DEF MaxOf

LEMMA FollowsAppend ==
  ASSUME NEW T, NEW s \in Seq(T), NEW e, NEW S, Follows(s, S), 1 .. (e - 1) \subseteq S \cup Range(s)
  PROVE  Follows(Append(s, e), S)
<1>1. /\ Len(s) \in Nat /\ DOMAIN s = 1 .. Len(s) /\ DOMAIN Append(s, e) = 1 .. (Len(s) + 1)
      /\ \A i \in DOMAIN s : Append(s, e)[i] = s[i]
      /\ Append(s, e)[Len(s) + 1] = e
  BY Appended
<1> DEFINE q == Append(s, e)
<1> HIDE DEF q
<1>2. /\ DOMAIN q = 1 .. (Len(s) + 1) /\ q[Len(s) + 1] = e /\ \A i \in DOMAIN s : q[i] = s[i]
  BY <1>1 DEF q
<1> SUFFICES ASSUME NEW i \in DOMAIN q PROVE 1 .. (q[i] - 1) \subseteq S \cup {q[j] : j \in 1 .. i - 1}
  BY DEF Follows, q
<1>3. \A j \in 1 .. i - 1 : j \in DOMAIN s /\ q[j] = s[j]
  BY <1>1, <1>2
<1>4. {q[j] : j \in 1 .. i - 1} = {s[j] : j \in 1 .. i - 1}
  BY <1>3
<1>5. CASE i \in DOMAIN s
  BY <1>2, <1>4, <1>5 DEF Follows
<1>6. CASE i \notin DOMAIN s
  <2>1. i = Len(s) + 1 /\ 1 .. i - 1 = DOMAIN s
    BY <1>1, <1>2, <1>6
  <2>2. {s[j] : j \in 1 .. i - 1} = Range(s)
    BY <2>1 DEF Range
  <2> QED  BY <1>2, <1>4, <2>1, <2>2
<1> QED  BY <1>5, <1>6

LEMMA FollowsConcat ==
  ASSUME NEW T, NEW s \in Seq(T), NEW q \in Seq(T), NEW S, Follows(s, S), Follows(q, S \cup Range(s))
  PROVE  Follows(s \o q, S) /\ Range(s \o q) = Range(s) \cup Range(q)
<1> DEFINE r == s \o q
<1>1. /\ Len(s) \in Nat /\ Len(q) \in Nat /\ DOMAIN s = 1 .. Len(s) /\ DOMAIN q = 1 .. Len(q)
      /\ DOMAIN r = 1 .. (Len(s) + Len(q))
      /\ \A i \in 1 .. Len(s) : r[i] = s[i]
      /\ \A i \in 1 .. Len(q) : r[Len(s) + i] = q[i]
  OBVIOUS
<1> HIDE DEF r
<1>2. \A i \in DOMAIN r : i \in DOMAIN s \/ \E k \in DOMAIN q : i = Len(s) + k
  <2> SUFFICES ASSUME NEW i \in DOMAIN r, i \notin DOMAIN s PROVE \E k \in DOMAIN q : i = Len(s) + k
    OBVIOUS
  <2>1. i - Len(s) \in DOMAIN q /\ i = Len(s) + (i - Len(s))
    BY <1>1
  <2> QED  BY <2>1
<1>3. Range(r) = Range(s) \cup Range(q)
  <2>1. Range(r) \subseteq Range(s) \cup Range(q)
    BY <1>1, <1>2 DEF Range
  <2>2. \A i \in DOMAIN s : i \in DOMAIN r /\ r[i] = s[i]
    BY <1>1
  <2>3. \A k \in DOMAIN q : Len(s) + k \in DOMAIN r /\ r[Len(s) + k] = q[k]
    BY <1>1
  <2>4. Range(s) \subseteq Range(r) /\ Range(q) \subseteq Range(r)
    BY <2>2, <2>3 DEF Range
  <2> QED  BY <2>1, <2>4
<1>4. Follows(r, S)
  <2> SUFFICES ASSUME NEW i \in DOMAIN r PROVE 1 .. (r[i] - 1) \subseteq S \cup {r[j] : j \in 1 .. i - 1}
    BY DEF Follows
  <2>1. CASE i \in DOMAIN s
    <3>1. \A j \in 1 .. i - 1 : r[j] = s[j]
      BY <1>1, <2>1
    <3>2. {r[j] : j \in 1 .. i - 1} = {s[j] : j \in 1 .. i - 1}
      BY <3>1
    <3> QED  BY <1>1, <2>1, <3>2 DEF Follows
  <2>2. ASSUME NEW k \in DOMAIN q, i = Len(s) + k PROVE 1 .. (r[i] - 1) \subseteq S \cup {r[j] : j \in 1 .. i - 1}
    <3>1. r[i] = q[k]
      BY <1>1, <2>2
    <3>2. 1 .. (q[k] - 1) \subseteq (S \cup Range(s)) \cup {q[j] : j \in 1 .. k - 1}
      BY DEF Follows
    <3>3. \A j \in DOMAIN s : j \in 1 .. i - 1 /\ r[j] = s[j]
      BY <1>1, <2>2
    <3>4. Range(s) \subseteq {r[j] : j \in 1 .. i - 1}
      BY <3>3 DEF Range
    <3>5. \A j \in 1 .. k - 1 : Len(s) + j \in 1 .. i - 1 /\ r[Len(s) + j] = q[j]
      BY <1>1, <2>2
    <3>6. {q[j] : j \in 1 .. k - 1} \subseteq {r[j] : j \in 1 .. i - 1}
      BY <3>5
    <3> QED  BY <3>1, <3>2, <3>4, <3>6, Zenon
  <2> QED  BY <1>2, <2>1, <2>2
<1> QED  BY <1>3, <1>4 DEF r

(* OnEvent: the middleware buffers an event, and all before it are there. *)
LEMMA ClaimsOnEvent ==
  ASSUME Types, Types', Claims, OnEvent
  PROVE  Claims'
<1>1. /\ Handled /\ wire[1].kind = "event" /\ up' = up /\ st' = st /\ tr'.last = MaxOf(tr.last, wire[1].s)
      /\ mw'.again = mw.again /\ mw'.buf = IF st.page = "closed" THEN mw.buf ELSE Append(mw.buf, wire[1].s)
  BY OnEventDoes
<1>2. CASE ~Settled'
  BY <1>2, Unsettled
<1>3. CASE Settled'
  <2>1. Settled /\ Out' = Out /\ Had' = Had /\ Got' = Got
    BY <1>1, <1>3, StaysSettled
  <2>2. mw'.buf = Append(mw.buf, wire[1].s)
    BY <1>1, <1>3, SettledIs
  <2>3. mw.buf \in Seq(Numbers) /\ tr.last \in Nat /\ wire[1].s \in Nat /\ wire[1].s \in Numbers
    BY <1>1, ClientFields, LastsAreNat, FirstMessage DEF Numbers, Handled
  <2>4. Range(mw'.buf) = Range(mw.buf) \cup {wire[1].s}
    BY <2>2, <2>3, Appended
  <2>5. Here' = Here \cup {wire[1].s}
    BY <2>1, <2>4 DEF Here
  <2>6. TimelineOrder /\ Follows(mw.buf, Got) /\ WireOrder /\ 1 .. tr.last \subseteq Here
    BY <2>1 DEF Claims, ClientClaims
  <2>7. 1 .. (wire[1].s - 1) \subseteq Here
    <3>1. 1 \in DOMAIN wire /\ 1 .. 1 - 1 = {}
      BY <1>1, FirstMessage DEF Handled
    <3>2. \A d \in 1 .. (wire[1].s - 1) : d \in Here \/ \E j \in 1 .. 1 - 1 : wire[j] = Msg("event", d)
      BY <1>1, <2>6, <3>1 DEF WireOrder
    <3> QED  BY <3>1, <3>2
  <2>8. Follows(mw'.buf, Got')
    <3>1. 1 .. (wire[1].s - 1) \subseteq Got \cup Range(mw.buf)
      BY <2>7 DEF Here
    <3> QED  BY <2>1, <2>2, <2>3, <2>6, <3>1, FollowsAppend
  <2>9. 1 .. tr'.last \subseteq Here'
    <3>1. 1 .. wire[1].s \subseteq Here' /\ 1 .. tr.last \subseteq Here'
      BY <2>3, <2>5, <2>6, <2>7
    <3> QED  BY <1>1, <2>3, <3>1, Prefixed, Zenon
  <2>10. TimelineOrder'
    BY <1>1, <2>1, <2>6, TimelineOrderStays
  <2> QED  BY <1>1, <2>1, <2>5, <2>8, <2>9, <2>10, HandledClaims
<1> QED  BY <1>2, <1>3

(* A message that leaves the page as it is. *)
LEMMA ClaimsIgnored ==
  ASSUME Types, Types', Claims, Handled, UNCHANGED <<up, mw>>, wire[1].kind \notin {"event", "reload"}, tr'.last = tr.last,
         st'.page = st.page, st'.pc = st.pc, st'.timeline = st.timeline, st'.last = st.last
  PROVE  Claims'
<1>1. CASE ~Settled'
  BY <1>1, Unsettled
<1>2. CASE Settled'
  <2>1. Settled /\ Out' = Out /\ Had' = Had /\ Got' = Got
    BY <1>2, StaysSettled
  <2>2. TimelineOrder /\ Follows(mw.buf, Got) /\ WireOrder /\ 1 .. tr.last \subseteq Here
    BY <2>1 DEF Claims, ClientClaims
  <2>3. Here' = Here
    BY <2>1 DEF Here
  <2>4. TimelineOrder'
    BY <2>1, <2>2, TimelineOrderStays
  <2> QED  BY <2>1, <2>2, <2>3, <2>4, HandledClaims
<1> QED  BY <1>1, <1>2

(* OnHistory: the answer that the page waits for is the history the server read. *)
LEMMA HistoryAwaited ==
  ASSUME Types, Shape, Protocol, OnHistory, st.stale = 0
  PROVE  /\ st.pc = "history" /\ up = <<>> /\ conn = "up" /\ task["cmd"].pc = "idle"
         /\ \A h : BaseIs(h) <=> h = wire[1].s
         /\ wire[1].s \in 0 .. log /\ wire[1].kind = "history" /\ Handled
<1>1. Handled /\ wire[1].kind = "history" /\ wire # <<>>
  BY OnHistoryDoes DEF Handled
<1>2. /\ st.pc = "history" /\ ~Answering /\ \A i \in DOMAIN up : up[i].kind # "load"
      /\ \A i \in DOMAIN wire : wire[i].kind \in Histories => i = 1
  <2>1. wire[1].kind \in Histories
    BY <1>1 DEF Histories
  <2> QED  BY <1>1, <2>1, AnswerIsAwaited DEF Shape, Protocol
<1>3. up = <<>>
  <2> SUFFICES ASSUME up # <<>> PROVE FALSE
    OBVIOUS
  <2>1. Len(up) \in DOMAIN up
    BY UpTyped
  <2>2. up[Len(up)].kind = "load"
    BY <1>2 DEF Protocol, Requested
  <2> QED  BY <1>2, <2>1, <2>2
<1>4. task["cmd"].pc = "idle"
  BY <1>2, <1>3 DEF Protocol, Requested
<1>5. conn = "up"
  BY <1>1, WireMeansUp DEF Shape
<1>6. 1 \in DOMAIN wire /\ wire[1] = Msg("history", wire[1].s) /\ wire[1].s \in 0 .. log
  BY <1>1, FirstMessage
<1>7. ASSUME NEW h PROVE BaseIs(h) <=> h = wire[1].s
  <2>1. Msg("history", h).kind \in Histories /\ Msg("history", h).s = h
    BY DEF Msg, Histories
  <2>2. BaseIs(h) <=> \E i \in DOMAIN wire : wire[i] = Msg("history", h) /\ \A j \in DOMAIN wire : wire[j].kind \in Histories => j <= i
    BY <1>4 DEF BaseIs
  <2>3. \A i \in DOMAIN wire : wire[i] = Msg("history", h) => i = 1
    BY <1>2, <2>1
  <2>4. \A j \in DOMAIN wire : wire[j].kind \in Histories => j <= 1
    BY <1>2
  <2> QED  BY <1>6, <2>1, <2>2, <2>3, <2>4
<1> QED  BY <1>1, <1>2, <1>3, <1>4, <1>5, <1>6, <1>7

LEMMA ClaimsOnHistory ==
  ASSUME Types, Types', Shape, Protocol, Claims, OnHistory
  PROVE  Claims'
<1>1. CASE st.stale > 0
  <2>1. st.stale # 0
    BY <1>1
  <2>2. /\ Handled /\ wire[1].kind = "history" /\ mw' = mw /\ UNCHANGED <<tr, up>>
        /\ st'.page = st.page /\ st'.pc = st.pc /\ st'.timeline = st.timeline /\ st'.last = st.last
    BY <2>1, OnHistoryDoes
  <2> QED  BY <2>2, ClaimsIgnored
<1>2. CASE st.stale = 0 /\ ~Settled'
  BY <1>2, Unsettled
<1>3. CASE st.stale = 0 /\ Settled'
  <2> DEFINE s == wire[1].s
  <2>1. /\ st.pc = "history" /\ up = <<>> /\ conn = "up" /\ task["cmd"].pc = "idle"
        /\ (\A h : BaseIs(h) <=> h = s) /\ s \in 0 .. log /\ wire[1].kind = "history" /\ Handled
    BY <1>3, HistoryAwaited
  <2>2. /\ mw' = mw /\ st'.page = st.page /\ st'.pc = "ack" /\ st'.timeline = [i \in 1 .. s |-> i]
        /\ st'.last = s /\ tr'.last = MaxOf(tr.last, s) /\ up' = Append(up, Msg("subscribe", tr'.last))
    <3>1. ~(st.stale > 0)
      BY <1>3
    <3> QED  BY <3>1, OnHistoryDoes
  <2> HIDE DEF s
  <2>3. s \in Nat /\ log \in Nat /\ 1 .. s \subseteq Numbers /\ tr.last \in Nat /\ \A d \in Nat : d <= s <=> d \in 0 .. s
    BY <2>1, LogIsNat, LastsAreNat DEF Numbers
  <2>4. Settled
    <3>1. Waiting
      BY <2>1 DEF Waiting
    <3> QED  BY <1>3, <2>2, <3>1, SettledIs DEF Settled
  <2>5. Shown' = 1 .. s
    BY <2>2 DEF Shown, Range
  <2>6. Had = 1 .. s
    <3>1. Had = {d \in Numbers : \E h \in 0 .. log : BaseIs(h) /\ d <= h}
      BY <2>1 DEF Had
    <3>2. Had = {d \in Numbers : d <= s}
      BY <2>1, <3>1
    <3> QED  BY <2>3, <3>2 DEF Numbers
  <2>7. Had' = 1 .. s
    BY <2>2, <2>5 DEF Had
  <2>8. Out' = Out
    <3>1. Strict
      BY <2>1 DEF Strict
    <3>2. Strict'
      <4>1. Head(up').kind = "subscribe" /\ up' # <<>>
        BY <2>1, <2>2 DEF Msg
      <4> QED  BY <4>1 DEF Strict, Subscribing
    <3> QED  BY <2>1, <3>1, <3>2 DEF Out, Handled
  <2>9. Got' = Got /\ Here' = Here
    BY <2>2, <2>6, <2>7, <2>8 DEF Got, Here
  <2>10. TimelineOrder /\ Follows(mw.buf, Got) /\ WireOrder /\ 1 .. tr.last \subseteq Here
    BY <2>4 DEF Claims, ClientClaims
  <2>11. TimelineOrder'
    <3>1. Follows(st'.timeline, Out')
      BY <2>2, <2>3 DEF Follows
    <3>2. st'.last = 0 \/ st'.last \in Shown'
      BY <2>2, <2>3, <2>5
    <3> QED  BY <3>1, <3>2 DEF TimelineOrder
  <2>12. WireOrder'
    BY <2>1, <2>9, <2>10, WireOrderShift
  <2>13. 1 .. tr'.last \subseteq Here'
    <3>1. 1 .. s \subseteq Here'
      BY <2>7 DEF Here, Got
    <3> QED  BY <2>2, <2>3, <2>9, <2>10, <3>1, Prefixed, Zenon
  <2>14. ClientClaims'
    BY <2>2, <2>9, <2>10, <2>11, <2>12, <2>13 DEF ClientClaims
  <2>15. ServerClaims'
    <3>1. Safe \subseteq Safe' /\ (Reloading' <=> Reloading)
      BY <2>1, <2>9, Popped DEF Safe
    <3> QED  BY <2>1, <2>4, <3>1, ServerClaimsStay DEF Claims, Handled
  <2>16. BusyClaims'
    <3>1. ~Busy'
      BY <2>1 DEF Busy, InReplay, Handled
    <3> QED  BY <3>1 DEF BusyClaims
  <2> QED  BY <2>14, <2>15, <2>16 DEF Claims
<1>4. st.stale > 0 \/ st.stale = 0
  BY ClientFields
<1> QED  BY <1>1, <1>2, <1>3, <1>4

LEMMA ClaimsOnNoHistory ==
  ASSUME Types, Types', Claims, OnNoHistory
  PROVE  Claims'
<1>1. CASE st.stale > 0
  <2>1. st.stale # 0
    BY <1>1
  <2>2. /\ Handled /\ wire[1].kind = "noHistory" /\ UNCHANGED <<tr, mw, up>>
        /\ st'.page = st.page /\ st'.pc = st.pc /\ st'.timeline = st.timeline /\ st'.last = st.last
    BY <2>1, OnNoHistoryDoes
  <2> QED  BY <2>2, ClaimsIgnored
<1>2. CASE ~(st.stale > 0)
  <2>1. LoadFailed(0) /\ 0 \in Nat
    BY <1>2, OnNoHistoryDoes
  <2>2. st'.page = "failed"
    BY <2>1, LoadFailedDoes, Zenon
  <2> QED  BY <2>2, AwayUnsettled
<1> QED  BY <1>1, <1>2

(* What the page showed up to its last number is there or out of the claim. *)
LEMMA LastIsShown ==
  ASSUME Types, TimelineOrder, st.pc # "history"
  PROVE  1 .. st.last \subseteq Out \cup Shown
<1>1. st.last \in Nat
  BY ClientFields
<1>2. CASE st.last = 0
  BY <1>2
<1>3. CASE st.last \in Shown
  <2>1. PICK i \in DOMAIN st.timeline : st.timeline[i] = st.last
    BY <1>3 DEF Shown, Range
  <2>2. 1 .. (st.last - 1) \subseteq Out \cup {st.timeline[j] : j \in 1 .. i - 1}
    BY <2>1 DEF TimelineOrder, Follows
  <2>3. {st.timeline[j] : j \in 1 .. i - 1} \subseteq Shown
    <3>1. \A j \in 1 .. i - 1 : j \in DOMAIN st.timeline
      BY ClientFields
    <3> QED  BY <3>1 DEF Shown, Range
  <2>4. 1 .. st.last \subseteq 1 .. (st.last - 1) \cup {st.last}
    BY <1>1
  <2> QED  BY <1>3, <2>2, <2>3, <2>4
<1> QED  BY <1>2, <1>3 DEF TimelineOrder

(* OnAck: the buffered events that the history did not bring are shown. *)
LEMMA ClaimsLoadFinished ==
  ASSUME Types, Types', Claims, Handled, wire[1].kind = "ack", UNCHANGED up, tr'.last = tr.last, st.pc = "ack", LoadFinished
  PROVE  Claims'
<1>1. CASE ~Settled'
  BY <1>1, Unsettled
<1>2. CASE Settled'
  <2>1. /\ ~mw.again /\ mw' = NewMiddleware /\ st'.page = st.page /\ st'.pc = "idle"
        /\ st'.timeline = st.timeline \o Released
        /\ st'.last = st.last \/ \E i \in DOMAIN Released : st'.last = Released[i]
    <3>1. st'.pc # "start"
      BY <1>2, SettledIs DEF Waiting
    <3> QED  BY <3>1, LoadFinishedDoes, Zenon
  <2>2. Settled
    BY <1>2, <2>1, SettledIs DEF Settled
  <2>3. TimelineOrder /\ Follows(mw.buf, Got) /\ WireOrder /\ 1 .. tr.last \subseteq Here
    BY <2>2 DEF Claims, ClientClaims
  <2>4. Out' = Out
    BY <2>1, Popped, OutSame DEF Handled
  <2>5. Had = Shown /\ Had' = Shown'
    BY <2>1 DEF Had
  <2>6. /\ Numbers \subseteq Nat \ {0} /\ st.last \in Nat /\ mw.buf \in Seq(Numbers) /\ st.timeline \in Seq(Numbers)
    BY ClientFields, LogIsNat DEF Numbers
  <2>7. 1 .. st.last \subseteq Got
    BY <2>3, <2>5, LastIsShown DEF Got
  <2>8. /\ Released \in Seq(Numbers) /\ Follows(Released, Got)
        /\ Range(mw.buf) \subseteq Range(Released) \cup 1 .. st.last
    BY <2>3, <2>6, <2>7, FollowsAbove, Zenon DEF Released
  <2>9. Follows(st'.timeline, Out) /\ Shown' = Shown \cup Range(Released)
    <3>1. Follows(Released, Out \cup Range(st.timeline))
      BY <2>5, <2>8 DEF Got, Shown
    <3>2. Follows(st.timeline, Out)
      BY <2>3 DEF TimelineOrder
    <3> QED  BY <2>1, <2>6, <2>8, <3>1, <3>2, FollowsConcat DEF Shown
  <2>10. Here \subseteq Here'
    <3>1. Here \subseteq Out \cup Shown \cup Range(Released) \cup 1 .. st.last
      BY <2>5, <2>8 DEF Here, Got
    <3>2. Here \subseteq Out \cup Shown \cup Range(Released)
      BY <2>5, <2>7, <3>1 DEF Got
    <3> QED  BY <2>4, <2>5, <2>9, <3>2 DEF Here, Got
  <2>11. TimelineOrder'
    <3>1. st.last = 0 \/ st.last \in Shown
      BY <2>3 DEF TimelineOrder
    <3>2. st'.last = 0 \/ st'.last \in Shown'
      BY <2>1, <2>9, <3>1 DEF Range
    <3> QED  BY <2>4, <2>9, <3>2 DEF TimelineOrder
  <2>12. Follows(mw'.buf, Got')
    BY <2>1 DEF Follows, NewMiddleware
  <2> QED  BY <2>1, <2>2, <2>3, <2>10, <2>11, <2>12, HandledClaims
<1> QED  BY <1>1, <1>2

LEMMA ClaimsOnAck ==
  ASSUME Types, Types', Claims, OnAck
  PROVE  Claims'
<1>1. Handled /\ wire[1].kind = "ack" /\ up' = up /\ tr'.last = tr.last
  BY OnAckDoes
<1>2. CASE UNCHANGED <<mw, st>>
  BY <1>1, <1>2, ClaimsIgnored
<1>3. CASE st.pc = "ack" /\ LoadFinished
  BY <1>1, <1>3, ClaimsLoadFinished
<1> QED  BY <1>2, <1>3, OnAckDoes

(* A server that starts anew knows nothing, and forgets a reload it had announced: *)
(* what that owed the page is excused.                                             *)
LEMMA RenewedClaims ==
  ASSUME Types, Types', Shape, Claims, FreshServer, UNCHANGED <<log, held>>, conn' \in {"up", "closing", "down"},
         up' \in Seq(Message(Requests)), mw' = mw, tr'.last = tr.last,
         st'.page = st.page, st'.pc = st.pc, st'.timeline = st.timeline, st'.last = st.last,
         st.pc # "history"
  PROVE  Claims'
<1>1. CASE ~Settled'
  BY <1>1, Unsettled
<1>2. CASE Settled'
  <2>1. /\ sess' = SessionOf(FALSE, 0, FALSE, <<>>, FALSE)
        /\ task'["fwd"] = Idle /\ task'["cmd"] = Idle
        /\ chan' = <<>> /\ wire' = <<>>
        /\ ghost' = GhostOf({}, {}, ghost.excused \cup Forgotten)
    BY FreshServerDoes, Zenon
  <2>2. Settled
    BY <1>2, SettledIs DEF Settled, Waiting
  <2>3. TimelineOrder /\ Follows(mw.buf, Got) /\ WireOrder /\ 1 .. tr.last \subseteq Here
    BY <2>2 DEF Claims, ClientClaims
  <2>4. ghost'.excused = ghost.excused \cup Forgotten
    BY <2>1 DEF GhostOf
  <2>5. Doomed => Undelivered
    <3>1. DOMAIN task = Tasks
      BY TaskTyped DEF Types, SessionTypes, Tasks
    <3> QED  BY <3>1 DEF Doomed, Undelivered, Failing, Reloading, Tasks
  <2>6. Out \subseteq Out'
    BY <2>4, <2>5 DEF Out, Forgotten
  <2>7. Shown' = Shown
    BY DEF Shown
  <2>8. Got \subseteq Got'
    BY <2>6, <2>7 DEF Got, Had
  <2>9. Here \subseteq Here'
    BY <2>8 DEF Here
  <2>10. ClientClaims'
    <3>1. TimelineOrder'
      BY <2>3, <2>6, TimelineOrderStays
    <3>2. Follows(mw'.buf, Got')
      BY <2>3, <2>8, FollowsMore
    <3>3. WireOrder'
      BY <2>1 DEF WireOrder
    <3>4. 1 .. tr'.last \subseteq Here'
      BY <2>3, <2>9
    <3> QED  BY <3>1, <3>2, <3>3, <3>4 DEF ClientClaims
  <2>11. /\ sess'.sub = FALSE /\ sess'.buf = <<>> /\ sess'.pend = FALSE
         /\ task'["fwd"].pc = "idle" /\ task'["cmd"].pc = "idle"
    <3>1. sess'.sub = FALSE /\ sess'.buf = <<>> /\ sess'.pend = FALSE
      BY <2>1 DEF SessionOf
    <3>2. Idle.pc = "idle"
      BY DEF Idle
    <3>3. task'["fwd"].pc = "idle" /\ task'["cmd"].pc = "idle"
      BY <2>1, <3>2
    <3> QED  BY <3>1, <3>3
  <2>12. SentAll'
    <3>1. \A t \in Tasks : JobSent(t, task'[t], Safe')
      BY <2>1, IdleSent DEF Tasks
    <3>2. Follows(sess'.buf, Safe' \cup Brings("cmd")')
      BY <2>11 DEF Follows
    <3> QED  BY <2>11, <3>1, <3>2, SentAllIs
  <2>13. Covered'
    <3>1. ~Receptive' /\ task'["fwd"].pc \notin InReplay
      BY <2>11 DEF Receptive, InReplay
    <3> QED  BY <3>1, CoveredIs
  <2>14. ~Busy'
    BY <2>11 DEF Busy, InReplay
  <2> QED  BY <2>10, <2>11, <2>12, <2>13, <2>14 DEF Claims, ServerClaims, BusyClaims
<1> QED  BY <1>1, <1>2

LEMMA ClaimsConnect ==
  ASSUME Types, Types', Shape, Protocol, Claims, Connect
  PROVE  Claims'
<1>1. /\ UNCHANGED <<log, held, mw, st>> /\ conn = "down" /\ conn' = "up" /\ FreshServer
      /\ tr'.last = tr.last /\ up' \in Seq(Message(Requests))
  BY ConnectDoes
<1>2. st.pc # "history"
  BY <1>1 DEF Protocol, Modes
<1> QED  BY <1>1, <1>2, RenewedClaims

LEMMA ClaimsDrop ==
  ASSUME Types, Types', Shape, Claims, Drop
  PROVE  Claims'
<1>1. FreshServer /\ ConnectionLost /\ up' \in Seq(Message(Requests)) /\ UNCHANGED <<log, held>>
  BY DropTyped
<1>2. CASE LoadFailed(0)
  <2>1. st'.page = "failed"
    BY <1>2, LoadFailedDoes, Zenon
  <2> QED  BY <2>1, AwayUnsettled
<1>3. CASE ~LoadFailed(0)
  <2>1. /\ conn' = "down" /\ st.pc \notin {"history", "ack", "hung"} /\ mw' = mw /\ tr'.last = tr.last
        /\ st'.page = st.page /\ st'.pc = st.pc /\ st'.timeline = st.timeline /\ st'.last = st.last
    BY <1>1, <1>3, ConnectionLostDoes
  <2> QED  BY <1>1, <2>1, RenewedClaims
<1> QED  BY <1>2, <1>3

LEMMA ClaimsSupersede ==
  ASSUME Types, Types', Shape, Claims, Supersede
  PROVE  Claims'
<1>1. /\ UNCHANGED <<log, held, mw>> /\ conn' = "up" /\ FreshServer /\ tr'.last = tr.last
      /\ up' \in Seq(Message(Requests)) /\ st'.page = st.page
      /\ st'.pc = IF st.pc = "history" THEN "hung" ELSE st.pc
      /\ st'.timeline = st.timeline /\ st'.last = st.last
  BY SupersedeDoes
<1>2. CASE st.pc = "history"
  <2>1. st'.pc = "hung"
    BY <1>1, <1>2
  <2> QED  BY <2>1, AwayUnsettled
<1>3. CASE st.pc # "history"
  BY <1>1, <1>3, RenewedClaims
<1> QED  BY <1>2, <1>3

LEMMA ClaimsSubscriptionFailed ==
  ASSUME Types, Types', Shape, Claims, SubscriptionFailed, UNCHANGED <<log, held>>
  PROVE  Claims'
<1>1. conn' = "closing" /\ FreshServer /\ up' \in Seq(Message(Requests)) /\ tr'.last = tr.last
  BY SubscriptionFailedDoes
<1>2. CASE LoadFailed(st.stale)
  <2>1. st'.page = "failed"
    BY <1>2, LoadFailedDoes, ClientFields, Zenon
  <2> QED  BY <2>1, AwayUnsettled
<1>3. CASE UNCHANGED <<mw, st>>
  <2>1. CASE st.pc = "history"
    <3>1. st'.pc = "history" /\ conn' # "up"
      BY <1>1, <1>3, <2>1
    <3> QED  BY <3>1, AwayUnsettled
  <2>2. CASE st.pc # "history"
    BY <1>1, <1>3, <2>2, RenewedClaims
  <2> QED  BY <2>1, <2>2
<1> QED  BY <1>2, <1>3, SubscriptionFailedDoes

LEMMA ClaimsOnNack ==
  ASSUME Types, Types', Shape, Claims, OnNack
  PROVE  Claims'
<1>1. CASE Handled /\ wire[1].kind = "nack" /\ UNCHANGED <<mw, st, up>> /\ tr'.last = tr.last
  BY <1>1, ClaimsIgnored
<1>2. CASE SubscriptionFailed /\ UNCHANGED <<log, held>>
  BY <1>2, ClaimsSubscriptionFailed
<1> QED  BY <1>1, <1>2, OnNackDoes

(* The page and the wire stay, or the socket of an idle page is closed. *)
LEMMA ClaimsOnClose ==
  ASSUME Types, Types', Shape, Claims, OnClose
  PROVE  Claims'
<1>1. ConnectionLost /\ conn = "closing" /\ UNCHANGED <<log, held, chan, lagged, sess, task, up, wire, ghost>>
  BY OnCloseTyped
<1>2. CASE LoadFailed(0)
  <2>1. st'.page = "failed"
    BY <1>2, LoadFailedDoes, Zenon
  <2> QED  BY <2>1, AwayUnsettled
<1>3. CASE ~LoadFailed(0) /\ ~Settled'
  BY <1>3, Unsettled
<1>4. CASE ~LoadFailed(0) /\ Settled'
  <2>1. /\ conn' = "down" /\ st.pc \notin {"history", "ack", "hung"} /\ mw' = mw /\ tr'.last = tr.last
        /\ st'.page = st.page /\ st'.pc = st.pc /\ st'.timeline = st.timeline /\ st'.last = st.last
    BY <1>1, <1>4, ConnectionLostDoes
  <2>2. Settled
    BY <1>4, <2>1, SettledIs DEF Settled, Waiting
  <2>3. TimelineOrder /\ Follows(mw.buf, Got) /\ WireOrder /\ 1 .. tr.last \subseteq Here
    BY <2>2 DEF Claims, ClientClaims
  <2>4. Reloading' <=> Reloading
    BY <1>1 DEF Reloading
  <2>5. Out' = Out
    BY <1>1, <2>1, <2>4, OutSame
  <2>6. Got' = Got /\ Here' = Here
    <3>1. Shown' = Shown
      BY <2>1 DEF Shown
    <3>2. Had' = Had
      BY <2>1, <3>1 DEF Had
    <3> QED  BY <2>1, <2>5, <3>2 DEF Got, Here
  <2>7. ClientClaims'
    <3>1. TimelineOrder'
      BY <2>1, <2>3, <2>5, TimelineOrderStays
    <3>2. WireOrder'
      BY <1>1, <2>3, <2>6 DEF WireOrder
    <3> QED  BY <2>1, <2>3, <2>6, <3>1, <3>2 DEF ClientClaims
  <2>8. ServerClaims'
    BY <2>1 DEF ServerClaims
  <2>9. BusyClaims'
    BY <1>1, <2>1, <2>2, BusyClaimsStay DEF Claims
  <2> QED  BY <2>7, <2>8, <2>9 DEF Claims
<1> QED  BY <1>2, <1>3, <1>4

(* Flush: the batch is shown, or its one event is shown already. *)
LEMMA ClaimsFlush ==
  ASSUME Types, Types', Protocol, Claims, Flush
  PROVE  Claims'
<1>1. /\ UNCHANGED <<log, held, chan, lagged, sess, task, conn, up, wire, faults, ghost, tr>>
      /\ ~mw.load /\ mw.buf # <<>> /\ mw'.buf = <<>> /\ mw'.again = mw.again
      /\ st'.page = st.page /\ st'.pc = st.pc
      /\ IF Len(mw.buf) = 1 /\ Head(mw.buf) <= st.last
           THEN st'.timeline = st.timeline /\ st'.last = st.last
           ELSE /\ st'.timeline = st.timeline \o mw.buf
                /\ st'.last = st.last \/ \E i \in DOMAIN mw.buf : st'.last = mw.buf[i]
  BY FlushDoes, Zenon
<1>2. CASE ~Settled'
  BY <1>2, Unsettled
<1>3. CASE Settled'
  <2>1. st.pc = "idle" /\ st'.pc = "idle"
    <3>1. st.pc \notin {"start", "history", "ack"}
      BY <1>1 DEF Protocol, Modes
    <3> QED  BY <1>1, <1>3, <3>1, SettledIs DEF Waiting
  <2>2. Settled
    BY <1>1, <1>3, <2>1, SettledIs DEF Settled
  <2>3. TimelineOrder /\ Follows(mw.buf, Got) /\ WireOrder /\ 1 .. tr.last \subseteq Here
    BY <2>2 DEF Claims, ClientClaims
  <2>4. Reloading' <=> Reloading
    BY <1>1 DEF Reloading
  <2>5. Out' = Out
    BY <1>1, <2>1, <2>4, OutSame
  <2>6. Had = Shown /\ Had' = Shown'
    BY <2>1 DEF Had
  <2>7. mw.buf \in Seq(Numbers) /\ st.timeline \in Seq(Numbers) /\ st.last \in Nat /\ Numbers \subseteq Nat \ {0}
    BY ClientFields, LogIsNat DEF Numbers
  <2>8. 1 .. st.last \subseteq Out \cup Shown
    BY <2>1, <2>3, LastIsShown
  <2>9. TimelineOrder' /\ Out \cup Shown \cup Range(mw.buf) \subseteq Out' \cup Shown'
    <3>1. CASE Len(mw.buf) = 1 /\ Head(mw.buf) <= st.last
      <4>1. st'.timeline = st.timeline /\ st'.last = st.last
        BY <1>1, <3>1
      <4>2. DOMAIN mw.buf = 1 .. 1 /\ mw.buf[1] \in 1 .. st.last
        <5>1. DOMAIN mw.buf = 1 .. 1 /\ Head(mw.buf) = mw.buf[1]
          BY <1>1, <2>7, <3>1
        <5>2. mw.buf[1] \in Nat \ {0}
          <6>1. 1 \in DOMAIN mw.buf /\ mw.buf[1] \in Numbers
            BY <2>7, <5>1
          <6> QED  BY <2>7, <6>1, Zenon
        <5> QED  BY <2>7, <3>1, <5>1, <5>2
      <4>3. Range(mw.buf) \subseteq 1 .. st.last
        BY <4>2 DEF Range
      <4>4. TimelineOrder'
        BY <2>1, <2>3, <2>5, <4>1, TimelineOrderStays
      <4> QED  BY <2>5, <2>8, <4>1, <4>3, <4>4 DEF Shown
    <3>2. CASE ~(Len(mw.buf) = 1 /\ Head(mw.buf) <= st.last)
      <4>1. st'.timeline = st.timeline \o mw.buf /\ (st'.last = st.last \/ \E i \in DOMAIN mw.buf : st'.last = mw.buf[i])
        BY <1>1, <3>2, Zenon
      <4>2. Follows(mw.buf, Out \cup Range(st.timeline)) /\ Follows(st.timeline, Out) /\ (st.last = 0 \/ st.last \in Shown)
        BY <2>1, <2>3, <2>6 DEF Got, Shown, TimelineOrder
      <4>3. Follows(st'.timeline, Out) /\ Shown' = Shown \cup Range(mw.buf)
        BY <2>7, <4>1, <4>2, FollowsConcat DEF Shown
      <4>4. st'.last = 0 \/ st'.last \in Shown'
        BY <4>1, <4>2, <4>3 DEF Range
      <4> QED  BY <2>5, <4>3, <4>4 DEF TimelineOrder
    <3> QED  BY <3>1, <3>2
  <2>10. Here \subseteq Here'
    BY <2>6, <2>9 DEF Here, Got
  <2>11. ClientClaims'
    <3>1. WireOrder'
      BY <1>1, <2>3, <2>10 DEF WireOrder
    <3>2. Follows(mw'.buf, Got')
      BY <1>1 DEF Follows
    <3>3. 1 .. tr'.last \subseteq Here'
      BY <1>1, <2>3, <2>10
    <3> QED  BY <2>9, <3>1, <3>2, <3>3 DEF ClientClaims
  <2>12. ServerClaims'
    <3>1. Sent' = Sent
      BY <1>1 DEF Sent, Numbers
    <3>2. Safe \subseteq Safe'
      BY <2>10, <3>1 DEF Safe
    <3> QED  BY <1>1, <2>2, <2>4, <3>2, ServerClaimsStay DEF Claims
  <2>13. BusyClaims'
    BY <1>1, <2>1, <2>2, BusyClaimsStay DEF Claims
  <2> QED  BY <2>11, <2>12, <2>13 DEF Claims
<1> QED  BY <1>2, <1>3

(* A run that is created has no events yet. *)
LEMMA ClaimsStartSession ==
  ASSUME Types, Types', Protocol, StartSession
  PROVE  Claims'
<1>1. UNCHANGED <<log, task, sess>> /\ visits = 0 /\ log = 0
  BY StartSessionDoes
<1>2. Numbers' = {} /\ (0 .. log)' = {0} /\ 1 .. 0 = {}
  BY <1>1 DEF Numbers
<1>3. task' = NewTasks
  BY <1>1 DEF Protocol, Unopened
<1>4. task'["cmd"].pc = "idle" /\ ~Busy'
  <2>1. task'["cmd"] = Idle
    BY <1>3 DEF NewTasks
  <2>2. Idle.pc = "idle"
    BY DEF Idle
  <2>3. task'["cmd"].pc = "idle"
    BY <2>1, <2>2
  <2> QED  BY <2>3 DEF Busy, InReplay
<1>5. SentAll' /\ Covered'
  BY <1>2, AllSent
<1>6. /\ st'.timeline \in Seq(Numbers') /\ mw'.buf \in Seq(Numbers')
      /\ st'.last = 0 /\ tr'.last = 0 /\ \A i \in DOMAIN wire' : wire'[i].s = 0
  BY <1>2, TypesNext
<1>7. Follows(st'.timeline, Out') /\ Follows(mw'.buf, Got')
  BY <1>2, <1>6, FollowsAll
<1>8. WireOrder'
  <2>1. 1 .. (0 - 1) = {}
    OBVIOUS
  <2> QED  BY <1>6, <2>1 DEF WireOrder
<1> QED  BY <1>2, <1>4, <1>5, <1>6, <1>7, <1>8 DEF Claims, ClientClaims, TimelineOrder, ServerClaims, BusyClaims

LEMMA ClaimsOnFullReload ==
  ASSUME Types, OnFullReload
  PROVE  Claims'
<1>1. CASE st.page = "closed" /\ UNCHANGED <<mw, st>>
  <2>1. st'.page # "open"
    BY <1>1
  <2> QED  BY <2>1, AwayUnsettled
<1>2. CASE RequestFullReload
  <2>1. CASE mw'.again
    BY <2>1, AwayUnsettled
  <2>2. CASE st'.pc = "start"
    BY <2>2, AwayUnsettled
  <2> QED  BY <1>2, <2>1, <2>2, RequestFullReloadDoes, Zenon
<1> QED  BY <1>1, <1>2, OnFullReloadDoes

LEMMA ClaimsClient ==
  ASSUME Types, Types', Shape, Protocol, Claims, Client
  PROVE  Claims'
<1>1. CASE OpenRun
  <2>1. st'.pc = "start"
    BY <1>1, OpenRunDoes
  <2> QED  BY <2>1, AwayUnsettled
<1>2. CASE StartSession
  BY <1>2, ClaimsStartSession
<1>3. CASE LeaveRun
  <2>1. st'.page = "closed"
    BY <1>3, LeaveRunDoes
  <2> QED  BY <2>1, AwayUnsettled
<1>4. CASE RequestHistory
  <2>1. st'.pc = "history" /\ up' = Append(up, Msg("load", 0)) /\ up \in Seq(Message(Requests))
    BY <1>4, RequestHistoryDoes, UpTyped
  <2>2. up' # <<>>
    BY <2>1
  <2> QED  BY <2>1, <2>2, AwayUnsettled
<1>5. CASE RetryReload
  <2>1. st'.pc = "start"
    BY <1>5, RetryReloadDoes
  <2> QED  BY <2>1, AwayUnsettled
<1>6. CASE Flush
  BY <1>6, ClaimsFlush
<1>7. CASE Connect
  BY <1>7, ClaimsConnect
<1>8. CASE ConnectFails
  <2>1. LoadFailed(0) /\ 0 \in Nat
    BY <1>8, ConnectFailsDoes
  <2>2. st'.page = "failed"
    BY <2>1, LoadFailedDoes, Zenon
  <2> QED  BY <2>2, AwayUnsettled
<1>9. CASE Drop
  BY <1>9, ClaimsDrop
<1>10. CASE OnClose
  BY <1>10, ClaimsOnClose
<1>11. CASE Supersede
  BY <1>11, ClaimsSupersede
<1>12. CASE SubscribeTimeout
  BY <1>12, SubscribeTimeoutDoes, ClaimsSubscriptionFailed
<1>13. CASE OnEvent
  BY <1>13, ClaimsOnEvent
<1>14. CASE OnFullReload
  BY <1>14, ClaimsOnFullReload
<1>15. CASE OnHistory
  BY <1>15, ClaimsOnHistory
<1>16. CASE OnNoHistory
  BY <1>16, ClaimsOnNoHistory
<1>17. CASE OnAck
  BY <1>17, ClaimsOnAck
<1>18. CASE OnNack
  BY <1>18, ClaimsOnNack
<1> QED  BY <1>1, <1>2, <1>3, <1>4, <1>5, <1>6, <1>7, <1>8, <1>9, <1>10, <1>11, <1>12, <1>13, <1>14, <1>15, <1>16, <1>17, <1>18
         DEF Client, Receive

LEMMA ClaimsStutter ==
  ASSUME Claims, UNCHANGED vars
  PROVE  Claims'
<1> SUFFICES ASSUME Settled' PROVE ClientClaims' /\ ServerClaims' /\ BusyClaims'
  BY Unsettled DEF Claims
<1>1. UNCHANGED <<log, held, chan, lagged, sess, task, conn, up, wire, ghost, tr, mw, st>>
  BY DEF vars
<1>2. \A h : BaseIs(h)' <=> BaseIs(h)
  BY <1>1 DEF BaseIs
<1>3. Settled
  BY <1>1, <1>2 DEF Settled, Waiting
<1>4. Numbers' = Numbers /\ Shown' = Shown /\ (Reloading' <=> Reloading) /\ (0 .. log)' = 0 .. log
  BY <1>1 DEF Numbers, Shown, Reloading
<1>5. Out' = Out /\ Had' = Had
  BY <1>1, <1>2, <1>4, OutSame, HadSame
<1>6. Got' = Got /\ Here' = Here /\ Sent' = Sent /\ Safe' = Safe
  BY <1>1, <1>4, <1>5 DEF Got, Here, Sent, Safe
<1>7. ClientClaims'
  BY <1>1, <1>3, <1>4, <1>5, <1>6 DEF Claims, ClientClaims, TimelineOrder, WireOrder
<1>8. /\ Brings("cmd")' = Brings("cmd") /\ Brings("fwd")' = Brings("fwd")
      /\ (Busy' <=> Busy) /\ Taken' = Taken /\ Receptive' = Receptive /\ Held' = Held
  BY <1>1, <1>4 DEF Brings, Busy, Taken, Receptive, InReplay, Held
<1>9. SentAll' <=> SentAll
  BY <1>1, <1>6, <1>8, Zenon DEF SentAll
<1>10. Covered' <=> Covered
  <2>1. Pool' = Pool
    BY <1>1, <1>6, <1>8 DEF Pool
  <2> QED  BY <1>1, <1>4, <1>8, <2>1 DEF Covered, InReplay
<1>11. ServerClaims' /\ BusyClaims'
  BY <1>1, <1>3, <1>4, <1>8, <1>9, <1>10 DEF Claims, ServerClaims, BusyClaims
<1> QED  BY <1>7, <1>11

-----------------------------------------------------------------------------
(* The invariant, and what it says of a loaded page. *)

LEMMA InvariantKept ==
  ASSUME Invariant, [Next]_vars
  PROVE  Invariant'
<1>1. Types /\ Shape /\ Protocol /\ Claims
  BY DEF Invariant
<1>2. Types' /\ Shape' /\ Protocol'
  BY <1>1, TypesKept, ShapeKept, ProtocolKept DEF Shape
<1>3. ASSUME Server PROVE Claims'
  BY <1>1, <1>2, <1>3, ClaimsServer DEF Protocol
<1>4. ASSUME Client PROVE Claims'
  BY <1>1, <1>2, <1>4, ClaimsClient
<1>5. ASSUME UNCHANGED vars PROVE Claims'
  BY <1>1, <1>5, ClaimsStutter
<1>6. Claims'
  BY <1>3, <1>4, <1>5 DEF Next
<1> QED  BY <1>2, <1>6 DEF Invariant

LEMMA InvariantInit == Init => Invariant
<1> SUFFICES ASSUME Init PROVE Invariant
  OBVIOUS
<1>1. Claims
  <2>1. st.page = "closed"
    BY DEF Init, NewStore
  <2>2. ~Settled
    BY <2>1 DEF Settled
  <2> QED  BY <2>2 DEF Claims, ClientClaims, ServerClaims, BusyClaims
<1> QED  BY <1>1, InitTyped, ShapeInit, ProtocolInit DEF Invariant

LEMMA InvariantAlways == Spec => []Invariant
<1>1. Init => Invariant
  BY InvariantInit
<1>2. Invariant /\ [Next]_vars => Invariant'
  BY InvariantKept
<1> QED  BY <1>1, <1>2, PTL DEF Spec

(* Of a loaded page nothing is out but what the history variable excuses. *)
LEMMA LoadedIsSettled ==
  ASSUME Invariant, Loaded
  PROVE  /\ TimelineOrder /\ 1 .. tr.last \subseteq Here
         /\ Out = ghost.excused /\ Got = Out \cup Shown /\ st.pc # "history" /\ Types
<1>1. Types /\ Shape /\ Protocol /\ Claims
  BY DEF Invariant
<1>2. st.page = "open" /\ st.pc = "idle" /\ ~sess.pend /\ ~Failing
  BY DEF Loaded
<1>3. ~mw.again
  <2>1. mw.reload \in Nat /\ ~(mw.reload > 0)
    BY <1>1, <1>2, ClientFields DEF Protocol, Modes
  <2> QED  BY <1>1, <2>1 DEF Protocol, Modes
<1>4. Settled /\ Resting
  BY <1>2, <1>3 DEF Settled, Resting
<1>5. ghost.owed = {} \/ Strict
  <2>1. \A t \in Tasks : task[t].pc # "reload"
    <3>1. DOMAIN task = Tasks
      BY <1>1 DEF Types, SessionTypes, Tasks
    <3> QED  BY <1>2, <3>1 DEF Failing
  <2>2. ghost.owed # {} => ~sess.sub
    BY <1>1, <1>2, <2>1 DEF Shape, SessionShape, Tasks
  <2>3. CASE up = <<>>
    BY <1>1, <1>4, <2>2, <2>3 DEF Protocol, Requested
  <2>4. CASE up # <<>>
    <3>1. up[1].kind = "subscribe" /\ Head(up) = up[1]
      BY <1>1, <1>4, <2>4, UpTyped DEF Protocol, Requested
    <3> QED  BY <2>4, <3>1 DEF Strict, Subscribing
  <2> QED  BY <2>3, <2>4
<1>6. Out = ghost.excused
  BY <1>5 DEF Out
<1>7. Got = Out \cup Shown
  BY <1>2 DEF Got, Had
<1> QED  BY <1>1, <1>2, <1>4, <1>6, <1>7 DEF Claims, ClientClaims

(* No event is missing from a loaded page below the highest that it shows,  *)
(* through any number of reconnections, overflows of the channel and of the *)
(* replay buffer, failed replays and full reloads, except for the events    *)
(* the history variable names.                                              *)
THEOREM DeliveryHasNoHole == Spec => []NoHole
<1>1. Invariant => NoHole
  <2> SUFFICES ASSUME Invariant, Loaded PROVE Due(1 .. st.last) \subseteq Shown
    BY DEF NoHole
  <2>1. 1 .. st.last \subseteq Out \cup Shown
    BY LoadedIsSettled, LastIsShown
  <2> QED  BY <2>1, LoadedIsSettled DEF Due
<1> QED  BY <1>1, InvariantAlways, PTL

(* A loaded page shows no event ahead of one that precedes it in the log,   *)
(* although a_forward and cmd_loop write to one socket and a replay, the    *)
(* replay buffer and live events reach it by different paths.               *)
THEOREM DeliveryIsInOrder == Spec => []InOrder
<1>1. Invariant => InOrder
  <2> SUFFICES ASSUME Invariant, Loaded, NEW i \in DOMAIN st.timeline
               PROVE  Due(1 .. st.timeline[i] - 1) \subseteq {st.timeline[j] : j \in 1 .. i - 1}
    BY DEF InOrder
  <2>1. Follows(st.timeline, ghost.excused)
    BY LoadedIsSettled DEF TimelineOrder
  <2>2. 1 .. (st.timeline[i] - 1) \subseteq ghost.excused \cup {st.timeline[j] : j \in 1 .. i - 1}
    BY <2>1 DEF Follows
  <2> QED  BY <2>2 DEF Due
<1> QED  BY <1>1, InvariantAlways, PTL

(* What the transport tells the next connection not to send again has       *)
(* reached the page: a socket lost between the arrival of an event and its  *)
(* application loses no event.                                              *)
THEOREM CheckpointIsHonest == Spec => []CheckpointHonest
<1>1. Invariant => CheckpointHonest
  <2> SUFFICES ASSUME Invariant, Loaded PROVE Due(1 .. tr.last) \subseteq Shown \cup Range(mw.buf)
    BY DEF CheckpointHonest
  <2> QED  BY LoadedIsSettled DEF Due, Here
<1> QED  BY <1>1, InvariantAlways, PTL
=============================================================================
