--------------------------- MODULE Strings_proofs ---------------------------
(* Proofs about the functions of safestringlib, for memories of any size and *)
(* any contents.  The moves: what a plan of word and byte steps does to a    *)
(* memory is shown by induction on its steps, from the invariant that the    *)
(* cells a step still has to read are those of the memory before the call.   *)
(* The failures: every function's checks and loop, one lemma each; and the   *)
(* tokenizer, whose calls keep an invariant of their own.  The copies: how   *)
(* far each loop runs, and what it has stored there.  The queries are in     *)
(* StringQueries_proofs.                                                     *)
EXTENDS Strings, SequenceTheorems, FiniteSetTheorems, WellFoundedInduction, TLAPS

(* A set of numbers has a least one.                                       *)
LEMMA LeastNumber ==
  ASSUME NEW s, s \subseteq Nat, s # {}
  PROVE  \E x \in s : \A y \in s : x <= y
<1> DEFINE R == OpToRel(<, Nat)
<1>1. IsWellFoundedOn(R, Nat)
  BY NatLessThanWellFounded
<1>2. \A y, x \in Nat : y < x => <<y, x>> \in R
  BY DEF OpToRel
<1> HIDE DEF R
<1>3. PICK x \in s : \A y \in s : ~(<<y, x>> \in R)
  BY <1>1, WFMin
<1>4. ASSUME NEW y \in s PROVE x <= y
  <2>1. x \in Nat /\ y \in Nat
    OBVIOUS
  <2>2. ~(y < x)
    BY <2>1, <1>2, <1>3, Zenon
  <2> QED BY <2>1, <2>2
<1> QED BY <1>3, <1>4

LEMMA MinIs ==
  ASSUME NEW s, s \subseteq Nat, s # {}
  PROVE  Min(s) \in s /\ \A y \in s : Min(s) <= y
<1>1. \E x \in s : \A y \in s : x <= y
  BY LeastNumber
<1> QED BY <1>1, Zenon DEF Min

LEMMA MaxIs ==
  ASSUME NEW n \in Nat, NEW s, s \subseteq 0..n, s # {}
  PROVE  Max(s) \in s /\ \A y \in s : Max(s) >= y
<1> DEFINE below == {n - y : y \in s}
<1>1. below \subseteq Nat /\ below # {}
  <2>1. ASSUME NEW y \in s PROVE n - y \in Nat
    OBVIOUS
  <2> QED BY <2>1
<1>2. PICK d \in below : \A e \in below : d <= e
  BY <1>1, LeastNumber
<1>3. PICK x \in s : d = n - x
  BY <1>2
<1>4. ASSUME NEW y \in s PROVE x >= y
  <2>1. n - y \in below
    OBVIOUS
  <2>2. n - x <= n - y
    BY <1>2, <1>3, <2>1
  <2> QED BY <2>2
<1>5. \E z \in s : \A y \in s : z >= y
  BY <1>4
<1> QED BY <1>5, Zenon DEF Max

-----------------------------------------------------------------------------
(* The cells that a step of a plan stores into, and the memory that the    *)
(* steps of s leave behind if every one reads what was there at first.     *)
Chunk(plan, n) == plan[n].d .. plan[n].d + plan[n].n - 1
AtOnce(m, plan, shift, s) ==
  [c \in DOMAIN m |-> IF \E n \in s : c \in Chunk(plan, n) THEN m[c + shift] ELSE m[c]]

(* No step reads what an earlier one has overwritten.                      *)
ReadsFirst(m, plan, shift, len) ==
  /\ DOMAIN plan = 1..len
  /\ \A n \in 1..len :
       /\ plan[n].d \in Int /\ plan[n].n \in Nat /\ plan[n].s = plan[n].d + shift
       /\ \A c \in Chunk(plan, n) :
            /\ c + shift \in DOMAIN m
            /\ \A k \in 1..n - 1 : c + shift \notin Chunk(plan, k)

LEMMA OneMore ==
  ASSUME NEW m, DOMAIN m \subseteq Int, NEW plan, NEW shift \in Int, NEW len \in Nat,
         ReadsFirst(m, plan, shift, len),
         NEW s \in SUBSET (1..len), NEW x \in s, \A y \in s : x >= y
  PROVE  AtOnce(m, plan, shift, s)
           = Loaded(AtOnce(m, plan, shift, s \ {x}), plan[x].d, plan[x].s, plan[x].n)
<1> DEFINE before == AtOnce(m, plan, shift, s \ {x})
<1>1. DOMAIN before = DOMAIN m
  BY DEF AtOnce
<1>2. /\ x \in 1..len /\ plan[x].d \in Int /\ plan[x].n \in Nat /\ plan[x].s = plan[x].d + shift
  BY DEF ReadsFirst
<1>3. ASSUME NEW c \in DOMAIN m, c \in Chunk(plan, x)
      PROVE  before[plan[x].s + (c - plan[x].d)] = m[c + shift]
  <2>1. c \in Int /\ plan[x].s + (c - plan[x].d) = c + shift
    BY <1>2
  <2>2. c + shift \in DOMAIN m /\ \A k \in 1..x - 1 : c + shift \notin Chunk(plan, k)
    BY <1>2, <1>3 DEF ReadsFirst
  <2>3. ASSUME NEW k \in s \ {x} PROVE k \in 1..x - 1
    OBVIOUS
  <2>4. ~\E n \in s \ {x} : c + shift \in Chunk(plan, n)
    BY <2>2, <2>3
  <2> QED BY <2>1, <2>2, <2>4 DEF AtOnce
<1>4. ASSUME NEW c \in DOMAIN m
      PROVE  AtOnce(m, plan, shift, s)[c]
               = IF c \in Chunk(plan, x) THEN before[plan[x].s + (c - plan[x].d)] ELSE before[c]
  BY <1>3 DEF AtOnce
<1> HIDE DEF before
<1>5. Loaded(before, plan[x].d, plan[x].s, plan[x].n)
        = [c \in DOMAIN m |-> IF c \in Chunk(plan, x) THEN before[plan[x].s + (c - plan[x].d)]
                              ELSE before[c]]
  BY <1>1 DEF Loaded, Chunk
<1>6. AtOnce(m, plan, shift, s) = [c \in DOMAIN m |-> AtOnce(m, plan, shift, s)[c]]
  BY DEF AtOnce
<1> QED BY <1>4, <1>5, <1>6 DEF before

(* Such a plan moves all cells at once.                                    *)
LEMMA MovedAtOnce ==
  ASSUME NEW m, DOMAIN m \subseteq Int, m = [c \in DOMAIN m |-> m[c]],
         NEW plan, NEW shift \in Int, NEW len \in Nat, ReadsFirst(m, plan, shift, len)
  PROVE  Moved(m, plan) = AtOnce(m, plan, shift, 1..len)
<1> DEFINE After(f) == [s \in SUBSET (1..len) |->
                          IF s = {} THEN m
                          ELSE Loaded(f[s \ {Max(s)}], plan[Max(s)].d, plan[Max(s)].s, plan[Max(s)].n)]
           whole == [s \in SUBSET (1..len) |-> AtOnce(m, plan, shift, s)]
           after == CHOOSE f : f = After(f)
<1>1. AtOnce(m, plan, shift, {}) = m
  BY DEF AtOnce
<1>2. ASSUME NEW s \in SUBSET (1..len), s # {}
      PROVE  /\ Max(s) \in s /\ s \ {Max(s)} \in SUBSET (1..len)
             /\ AtOnce(m, plan, shift, s)
                  = Loaded(AtOnce(m, plan, shift, s \ {Max(s)}), plan[Max(s)].d, plan[Max(s)].s,
                           plan[Max(s)].n)
  <2>1. s \subseteq 0..len
    OBVIOUS
  <2>2. Max(s) \in s /\ \A y \in s : Max(s) >= y
    BY <1>2, <2>1, MaxIs
  <2> DEFINE x == Max(s)
  <2> HIDE DEF x
  <2>3. x \in s /\ \A y \in s : x >= y
    BY <2>2 DEF x
  <2>4. AtOnce(m, plan, shift, s)
          = Loaded(AtOnce(m, plan, shift, s \ {x}), plan[x].d, plan[x].s, plan[x].n)
    BY <2>3, OneMore
  <2> QED BY <2>2, <2>4 DEF x
<1>3. whole = After(whole)
  <2>1. ASSUME NEW s \in SUBSET (1..len) PROVE whole[s] = After(whole)[s]
    BY <1>1, <1>2
  <2> QED BY <2>1
<1>4. after = After(after)
  <2> HIDE DEF After, whole
  <2> QED BY <1>3
<1> DEFINE bad == {n \in 0..len : after[1..n] # AtOnce(m, plan, shift, 1..n)}
<1>5. bad = {}
  <2> SUFFICES ASSUME bad # {} PROVE FALSE
    OBVIOUS
  <2>1. bad \subseteq Nat
    OBVIOUS
  <2> HIDE DEF after
  <2>2. PICK n \in bad : \A k \in bad : n <= k
    BY <2>1, LeastNumber, Zenon
  <2>3. n \in 0..len /\ after[1..n] # AtOnce(m, plan, shift, 1..n)
    OBVIOUS
  <2>4. 1..n \in SUBSET (1..len)
    BY <2>3
  <2>5. CASE n = 0
    <3>1. 1..n = {}
      BY <2>5
    <3> QED BY <1>1, <1>4, <2>3, <2>4, <3>1
  <2>6. CASE n > 0
    <3>1. 1..n # {} /\ 1..n - 1 \in SUBSET (1..len) /\ n - 1 \in 0..len /\ n - 1 < n
      BY <2>3, <2>6
    <3>2. Max(1..n) = n
      <4>1. n \in 1..n /\ 1..n \subseteq 0..n /\ n \in Nat
        BY <2>3, <2>6
      <4>2. Max(1..n) \in 1..n /\ \A y \in 1..n : Max(1..n) >= y
        BY <3>1, <4>1, MaxIs
      <4> QED BY <4>1, <4>2
    <3>3. (1..n) \ {n} = 1..n - 1
      BY <2>3
    <3>4. after[1..n - 1] = AtOnce(m, plan, shift, 1..n - 1)
      BY <2>2, <2>3, <3>1
    <3>5. after[1..n] = Loaded(after[1..n - 1], plan[n].d, plan[n].s, plan[n].n)
      BY <1>4, <2>4, <3>1, <3>2, <3>3
    <3> QED BY <1>2, <2>3, <2>4, <3>1, <3>2, <3>3, <3>4, <3>5
  <2> QED BY <2>3, <2>5, <2>6
<1>6. after[1..len] = AtOnce(m, plan, shift, 1..len)
  <2>1. len \in 0..len
    OBVIOUS
  <2> HIDE DEF after
  <2> QED BY <1>5, <2>1
<1>7. Moved(m, plan) = after[1..len]
  <2>1. DOMAIN plan = 1..len
    BY DEF ReadsFirst
  <2> QED BY <2>1 DEF Moved, FoldLeft, MapThenFoldSet
<1> QED BY <1>6, <1>7

-----------------------------------------------------------------------------
LEMMA Sizes ==
  /\ WordSize \in Nat /\ WordSize > 0 /\ Unroll \in Nat /\ Unroll > 0
  /\ RSIZE_MAX_MEM \in Nat
BY SafeMemAssumption

(* Division by a positive number, and that its result is the only one.     *)
LEMMA Division ==
  ASSUME NEW n \in Int, NEW w \in Int, w > 0
  PROVE  /\ n \div w \in Int
         /\ n % w \in 0..w - 1
         /\ n = w * (n \div w) + (n % w)
<1>1. n \div w \in Int /\ n % w \in 0..w - 1
  BY SMT
<1>2. n = w * (n \div w) + (n % w)
  BY SMTT(30)
<1> QED BY <1>1, <1>2

LEMMA DivisionIs ==
  ASSUME NEW n \in Int, NEW w \in Int, w > 0, NEW q \in Int, NEW r \in 0..w - 1,
         n = w * q + r
  PROVE  n \div w = q /\ n % w = r
<1> DEFINE p == n \div w
           t == n % w
<1>1. p \in Int /\ t \in 0..w - 1 /\ n = w * p + t
  BY Division
<1> HIDE DEF p, t
<1>2. CASE p < q
  <2>1. w * (p + 1) <= w * q
    BY <1>1, <1>2, SMT
  <2>2. w * (p + 1) = w * p + w
    BY <1>1, SMT
  <2> QED BY <1>1, <2>1, <2>2, SMT
<1>3. CASE q < p
  <2>1. w * (q + 1) <= w * p
    BY <1>1, <1>3, SMT
  <2>2. w * (q + 1) = w * q + w
    BY <1>1, SMT
  <2> QED BY <1>1, <2>1, <2>2, SMT
<1>4. CASE p = q
  BY <1>1, <1>4, SMT DEF p, t
<1> QED BY <1>1, <1>2, <1>3, <1>4, SMT DEF p, t

(* The unrolled loops store every cell once.                               *)
LEMMA StoresAll ==
  ASSUME NEW len \in Nat
  PROVE  Stores(len) = len
<1>1. len \div Unroll \in Int /\ len % Unroll \in Int
      /\ len = Unroll * (len \div Unroll) + (len % Unroll)
  BY Sizes, Division
<1>2. (len \div Unroll) * Unroll = Unroll * (len \div Unroll)
  BY <1>1, Sizes, SMT
<1> QED BY <1>1, <1>2 DEF Stores

(* The memory from address 0 on, and the n cells from p on in it.          *)
IsMemory(m) == DOMAIN m \subseteq Int /\ m = [c \in DOMAIN m |-> m[c]]
Within(m, p, n) == \A k \in 0..n - 1 : p + k \in DOMAIN m

(* What is moved at once over all of [dest, dest + len) is the simultaneous *)
(* assignment.                                                             *)
LEMMA CoveringIsLoaded ==
  ASSUME NEW m, IsMemory(m), NEW plan, NEW len \in Nat, NEW steps \in Nat,
         NEW dest \in Int, NEW src \in Int,
         ReadsFirst(m, plan, src - dest, steps),
         \A c \in Int : c \in dest..dest + len - 1 <=> \E n \in 1..steps : c \in Chunk(plan, n)
  PROVE  Moved(m, plan) = Loaded(m, dest, src, len)
<1> DEFINE shift == src - dest
<1>1. shift \in Int
  OBVIOUS
<1>2. Moved(m, plan) = AtOnce(m, plan, shift, 1..steps)
  <2> HIDE DEF shift
  <2>1. ReadsFirst(m, plan, shift, steps)
    BY DEF shift
  <2> QED BY <1>1, <2>1, MovedAtOnce DEF IsMemory
<1>3. ASSUME NEW c \in DOMAIN m
      PROVE  /\ c \in Int /\ c + shift = src + (c - dest)
             /\ c \in dest..dest + len - 1 <=> \E n \in 1..steps : c \in Chunk(plan, n)
  BY DEF IsMemory
<1> QED BY <1>2, <1>3 DEF AtOnce, Loaded

LEMMA CellsMoved ==
  ASSUME NEW m, IsMemory(m), NEW dest \in Int, NEW src \in Int, NEW len \in Nat, Within(m, src, len)
  PROVE  Moved(m, CellPlan(dest, src, len)) = Loaded(m, dest, src, len)
<1> DEFINE plan == CellPlan(dest, src, len)
           Shifted(n) == IF dest < src THEN n - 1 ELSE len - n
<1>1. Stores(len) = len
  BY StoresAll
<1>2. /\ DOMAIN plan = 1..len
      /\ \A n \in 1..len : plan[n] = [d |-> dest + Shifted(n), s |-> src + Shifted(n), n |-> 1]
  BY <1>1 DEF CellPlan
<1> HIDE DEF plan
<1>3. ASSUME NEW n \in 1..len
      PROVE  Chunk(plan, n) = {dest + Shifted(n)} /\ Shifted(n) \in 0..len - 1 /\ dest + Shifted(n) \in Int
  <2>1. Shifted(n) \in 0..len - 1
    OBVIOUS
  <2>2. plan[n].d = dest + Shifted(n) /\ plan[n].n = 1
    BY <1>2
  <2> DEFINE at == dest + Shifted(n)
  <2>3. at \in Int
    BY <2>1
  <2>4. Chunk(plan, n) = at..at + 1 - 1
    BY <2>2 DEF Chunk
  <2> HIDE DEF at
  <2>5. at..at + 1 - 1 = {at}
    BY <2>3
  <2> QED BY <2>1, <2>3, <2>4, <2>5 DEF at
<1>4. ReadsFirst(m, plan, src - dest, len)
  <2>1. ASSUME NEW n \in 1..len
        PROVE  /\ plan[n].d \in Int /\ plan[n].n \in Nat /\ plan[n].s = plan[n].d + (src - dest)
               /\ \A c \in Chunk(plan, n) :
                    /\ c + (src - dest) \in DOMAIN m
                    /\ \A k \in 1..n - 1 : c + (src - dest) \notin Chunk(plan, k)
    <3>1. plan[n].d = dest + Shifted(n) /\ plan[n].s = src + Shifted(n) /\ plan[n].n = 1
      BY <1>2
    <3>2. Shifted(n) \in 0..len - 1
      BY <1>3
    <3>3. ASSUME NEW c \in Chunk(plan, n) PROVE c + (src - dest) = src + Shifted(n)
      BY <1>3, <3>2
    <3>4. src + Shifted(n) \in DOMAIN m
      BY <3>2 DEF Within
    <3>5. ASSUME NEW k \in 1..n - 1 PROVE src + Shifted(n) \notin Chunk(plan, k)
      <4>1. k \in 1..len /\ src + Shifted(n) # dest + Shifted(k)
        OBVIOUS
      <4> QED BY <1>3, <4>1
    <3> HIDE DEF Shifted
    <3> QED BY <3>1, <3>2, <3>3, <3>4, <3>5
  <2> QED BY <1>2, <2>1 DEF ReadsFirst
<1>5. ASSUME NEW c \in Int
      PROVE  c \in dest..dest + len - 1 <=> \E n \in 1..len : c \in Chunk(plan, n)
  <2>1. ASSUME c \in dest..dest + len - 1 PROVE \E n \in 1..len : c \in Chunk(plan, n)
    <3> DEFINE n == IF dest < src THEN c - dest + 1 ELSE len - (c - dest)
    <3>1. n \in 1..len /\ c = dest + Shifted(n)
      BY <2>1
    <3> QED BY <1>3, <3>1
  <2>2. ASSUME NEW n \in 1..len, c \in Chunk(plan, n) PROVE c \in dest..dest + len - 1
    <3>1. c = dest + Shifted(n) /\ Shifted(n) \in 0..len - 1
      BY <1>3, <2>2
    <3> HIDE DEF Shifted
    <3> QED BY <3>1
  <2> QED BY <2>1, <2>2
<1>6. Moved(m, plan) = Loaded(m, dest, src, len)
  BY <1>4, <1>5, CoveringIsLoaded
<1> QED BY <1>6 DEF plan

-----------------------------------------------------------------------------
(* Where the n-th step of mem_prim_move is, counted from the end it begins  *)
(* at, and how many cells it moves.                                        *)
StepAt(head, words, n) ==
  IF n <= head THEN n - 1
  ELSE IF n <= head + words THEN head + (n - head - 1) * WordSize
  ELSE head + words * WordSize + (n - head - words - 1)
StepSize(head, words, n) == IF n > head /\ n <= head + words THEN WordSize ELSE 1

LEMMA Multiples ==
  ASSUME NEW x \in Int, NEW y \in Int, x < y
  PROVE  x * WordSize + WordSize <= y * WordSize
<1>1. (x + 1) * WordSize <= y * WordSize
  BY Sizes, SMT
<1>2. (x + 1) * WordSize = x * WordSize + WordSize
  BY Sizes, SMT
<1> QED BY <1>1, <1>2

LEMMA ProductIsNat ==
  ASSUME NEW x \in Nat
  PROVE  x * WordSize \in Nat
BY Sizes, SMT

(* The steps follow each other without a gap.                              *)
LEMMA StepsFollow ==
  ASSUME NEW head \in Nat, NEW words \in Nat, NEW tail \in Nat,
         NEW len, len = head + words * WordSize + tail,
         NEW n \in 1..head + words + tail
  PROVE  /\ StepAt(head, words, n) \in Nat /\ StepSize(head, words, n) \in Nat \ {0}
         /\ StepAt(head, words, n) + StepSize(head, words, n) <= len
         /\ \A k \in 1..n - 1 : StepAt(head, words, k) + StepSize(head, words, k) <= StepAt(head, words, n)
<1> DEFINE all == words * WordSize
           x == (n - head - 1) * WordSize
<1>1. all \in Nat
  BY ProductIsNat
<1>2. CASE n <= head
  <2>1. StepAt(head, words, n) = n - 1 /\ StepSize(head, words, n) = 1
    BY <1>2 DEF StepAt, StepSize
  <2>2. \A k \in 1..n - 1 : StepAt(head, words, k) = k - 1 /\ StepSize(head, words, k) = 1
    BY <1>2 DEF StepAt, StepSize
  <2> HIDE DEF all
  <2>3. len = head + all + tail
    BY DEF all
  <2> QED BY <1>1, <1>2, <2>1, <2>2, <2>3
<1>3. CASE n > head /\ n <= head + words
  <2>1. StepAt(head, words, n) = head + x /\ StepSize(head, words, n) = WordSize
    BY <1>3 DEF StepAt, StepSize
  <2>2. x \in Nat
    BY <1>3, n - head - 1 \in Nat, ProductIsNat
  <2>3. x + WordSize <= all
    BY <1>3, n - head - 1 \in Int, n - head - 1 < words, Multiples
  <2>4. ASSUME NEW k \in 1..n - 1
        PROVE  StepAt(head, words, k) + StepSize(head, words, k) <= head + x
    <3>1. CASE k <= head
      <4>1. StepAt(head, words, k) = k - 1 /\ StepSize(head, words, k) = 1
        BY <3>1 DEF StepAt, StepSize
      <4> HIDE DEF x
      <4> QED BY <2>2, <3>1, <4>1
    <3>2. CASE k > head
      <4> DEFINE y == (k - head - 1) * WordSize
      <4>1. StepAt(head, words, k) = head + y /\ StepSize(head, words, k) = WordSize
        BY <1>3, <3>2 DEF StepAt, StepSize
      <4>2. y + WordSize <= x
        BY <3>2, k - head - 1 \in Int, n - head - 1 \in Int, k - head - 1 < n - head - 1, Multiples
      <4>3. y \in Int
        BY <3>2, k - head - 1 \in Nat, ProductIsNat
      <4> HIDE DEF x, y
      <4> QED BY <2>2, <4>1, <4>2, <4>3, Sizes
    <3> QED BY <3>1, <3>2
  <2>5. len = head + all + tail
    OBVIOUS
  <2> HIDE DEF x, all
  <2> QED BY <1>1, <2>1, <2>2, <2>3, <2>4, <2>5, Sizes
<1>4. CASE n > head + words
  <2>1. StepAt(head, words, n) = head + all + (n - head - words - 1) /\ StepSize(head, words, n) = 1
    BY <1>4 DEF StepAt, StepSize
  <2>2. ASSUME NEW k \in 1..n - 1
        PROVE  StepAt(head, words, k) + StepSize(head, words, k) <= head + all + (n - head - words - 1)
    <3>1. CASE k <= head
      <4>1. StepAt(head, words, k) = k - 1 /\ StepSize(head, words, k) = 1
        BY <3>1 DEF StepAt, StepSize
      <4> HIDE DEF all
      <4> QED BY <1>1, <1>4, <3>1, <4>1
    <3>2. CASE k > head /\ k <= head + words
      <4> DEFINE y == (k - head - 1) * WordSize
      <4>1. StepAt(head, words, k) = head + y /\ StepSize(head, words, k) = WordSize
        BY <3>2 DEF StepAt, StepSize
      <4>2. y + WordSize <= all
        BY <3>2, k - head - 1 \in Int, k - head - 1 < words, Multiples
      <4>3. y \in Int
        BY <3>2, k - head - 1 \in Nat, ProductIsNat
      <4> HIDE DEF all, y
      <4> QED BY <1>1, <1>4, <4>1, <4>2, <4>3, Sizes
    <3>3. CASE k > head + words
      <4>1. StepAt(head, words, k) = head + all + (k - head - words - 1) /\ StepSize(head, words, k) = 1
        BY <3>3 DEF StepAt, StepSize
      <4> HIDE DEF all
      <4> QED BY <1>1, <1>4, <3>3, <4>1
    <3> QED BY <3>1, <3>2, <3>3
  <2>3. len = head + all + tail
    OBVIOUS
  <2> HIDE DEF all
  <2> QED BY <1>1, <1>4, <2>1, <2>2, <2>3
<1> QED BY <1>2, <1>3, <1>4

(* Every cell has its step.                                                *)
LEMMA StepsCover ==
  ASSUME NEW head \in Nat, NEW words \in Nat, NEW tail \in Nat,
         NEW len, len = head + words * WordSize + tail, NEW c \in Nat, c < len
  PROVE  \E n \in 1..head + words + tail :
           c \in StepAt(head, words, n) .. StepAt(head, words, n) + StepSize(head, words, n) - 1
<1> DEFINE all == words * WordSize
<1>1. all \in Nat
  BY ProductIsNat
<1>2. CASE c < head
  <2>1. StepAt(head, words, c + 1) = c /\ StepSize(head, words, c + 1) = 1
    BY <1>2 DEF StepAt, StepSize
  <2>2. c + 1 \in 1..head + words + tail
    BY <1>2
  <2> QED BY <2>1, <2>2
<1>3. CASE c >= head /\ c < head + all
  <2> DEFINE q == (c - head) \div WordSize
             r == (c - head) % WordSize
  <2>1. q \in Int /\ r \in 0..WordSize - 1 /\ c - head = WordSize * q + r
    BY c - head \in Int, Sizes, Division
  <2> HIDE DEF q, r
  <2>2. q >= 0
    <3> SUFFICES ASSUME q < 0 PROVE FALSE
      BY <2>1
    <3>1. q * WordSize + WordSize <= 0 * WordSize
      BY <2>1, 0 \in Int, Multiples
    <3>2. q * WordSize = WordSize * q /\ 0 * WordSize = 0 /\ WordSize * q \in Int
      BY <2>1, Sizes, SMT
    <3> HIDE DEF all
    <3> QED BY <1>1, <1>3, <2>1, <3>1, <3>2, Sizes
  <2>3. q < words
    <3> SUFFICES ASSUME words <= q PROVE FALSE
      BY <2>1
    <3>1. words * WordSize <= q * WordSize
      BY <2>1, Sizes, SMT
    <3>2. q * WordSize = WordSize * q /\ WordSize * q \in Int
      BY <2>1, Sizes, SMT
    <3>3. all <= WordSize * q
      BY <3>1, <3>2
    <3> HIDE DEF all
    <3> QED BY <1>1, <1>3, <2>1, <3>2, <3>3, Sizes
  <2> DEFINE n == head + 1 + q
  <2>4. n \in 1..head + words + tail /\ n > head /\ n <= head + words /\ n - head - 1 = q
    BY <2>1, <2>2, <2>3
  <2>5. StepAt(head, words, n) = head + q * WordSize /\ StepSize(head, words, n) = WordSize
    BY <2>4 DEF StepAt, StepSize
  <2>6. q * WordSize = WordSize * q /\ WordSize * q \in Int
    BY <2>1, Sizes, SMT
  <2>7. c \in head + q * WordSize .. head + q * WordSize + WordSize - 1
    BY <2>1, <2>6, Sizes
  <2> HIDE DEF n
  <2> QED BY <2>4, <2>5, <2>7
<1>4. CASE c >= head + all
  <2> DEFINE n == c - head - all + head + words + 1
  <2> HIDE DEF all
  <2>1. n \in Int /\ n > head + words /\ n <= head + words + tail
    BY <1>1, <1>4 DEF all
  <2>2. StepAt(head, words, n) = head + all + (n - head - words - 1) /\ StepSize(head, words, n) = 1
    BY <2>1 DEF StepAt, StepSize, all
  <2>3. head + all + (n - head - words - 1) = c
    BY <1>1, <2>1
  <2> HIDE DEF n
  <2> QED BY <2>1, <2>2, <2>3
<1> QED BY <1>1, <1>2, <1>3, <1>4

-----------------------------------------------------------------------------
(* How many single bytes, words, and bytes again mem_prim_move takes.      *)
Lead(dest, src, len) == AlignBytes(dest, src, len, dest < src)
Middle(dest, src, len) == (len - Lead(dest, src, len)) \div WordSize
Rest(dest, src, len) == (len - Lead(dest, src, len)) % WordSize
Steps(dest, src, len) == Lead(dest, src, len) + Middle(dest, src, len) + Rest(dest, src, len)

(* Where a boundary is reached, both pointers are on one.                  *)
LEMMA HeadAligns ==
  ASSUME NEW dest \in Int, NEW src \in Int, NEW len \in Nat
  PROVE  LET head == Lead(dest, src, len)
             Mark(p) == IF dest < src THEN p + head ELSE p + len - head
         IN  /\ head \in 0..len
             /\ head = len \/ (Mark(dest) % WordSize = 0 /\ Mark(src) % WordSize = 0)
<1> DEFINE Low(p) == (IF dest < src THEN p ELSE p + len) % WordSize
           head == Lead(dest, src, len)
<1>1. Low(dest) \in 0..WordSize - 1 /\ Low(src) \in 0..WordSize - 1
  BY Sizes, Division, dest + len \in Int, src + len \in Int
<1>2. head = IF Low(dest) = 0 /\ Low(src) = 0 THEN 0
             ELSE IF Low(dest) # Low(src) \/ (IF dest < src THEN len < WordSize ELSE len <= WordSize)
                  THEN len
             ELSE IF dest < src THEN WordSize - Low(src) ELSE Low(src)
  BY DEF Lead, AlignBytes
<1>3. CASE Low(dest) = 0 /\ Low(src) = 0
  <2>1. head = 0
    BY <1>2, <1>3
  <2>2. IF dest < src THEN (dest + 0) % WordSize = 0 /\ (src + 0) % WordSize = 0
        ELSE (dest + len - 0) % WordSize = 0 /\ (src + len - 0) % WordSize = 0
    <3>1. dest + 0 = dest /\ src + 0 = src /\ (dest + len) - 0 = dest + len /\ (src + len) - 0 = src + len
      OBVIOUS
    <3> QED BY <1>3, <3>1
  <2> HIDE DEF head
  <2> QED BY <2>1, <2>2 DEF head
<1>4. CASE /\ ~(Low(dest) = 0 /\ Low(src) = 0)
           /\ Low(dest) # Low(src) \/ (IF dest < src THEN len < WordSize ELSE len <= WordSize)
  <2>1. head = len
    BY <1>2, <1>4
  <2> HIDE DEF head
  <2> QED BY <2>1 DEF head
<1>5. CASE /\ Low(dest) = Low(src) /\ Low(src) # 0
           /\ IF dest < src THEN len >= WordSize ELSE len > WordSize
  <2> DEFINE low == Low(src)
             OnBoundary(p) == IF dest < src THEN (p + head) % WordSize = 0
                              ELSE (p + len - head) % WordSize = 0
  <2>1. head = IF dest < src THEN WordSize - low ELSE low
    BY <1>2, <1>5, Sizes
  <2>2. low \in 1..WordSize - 1
    BY <1>1, <1>5
  <2>3. ASSUME NEW p \in {dest, src} PROVE OnBoundary(p)
    <3>0. p \in Int /\ Low(p) = low
      BY <1>5
    <3> DEFINE all == IF dest < src THEN p ELSE p + len
               q == all \div WordSize
    <3>1. all \in Int /\ all % WordSize = low
      BY <3>0
    <3> HIDE DEF all, low
    <3>2. q \in Int /\ all = WordSize * q + low
      BY <3>1, Sizes, Division
    <3> HIDE DEF q
    <3>3. WordSize * q + WordSize = WordSize * (q + 1) + 0 /\ WordSize * q = WordSize * q + 0
          /\ WordSize * q \in Int
      BY <3>2, Sizes, SMT
    <3>4. (WordSize * q + WordSize) % WordSize = 0 /\ (WordSize * q) % WordSize = 0
      <4>1. 0 \in 0..WordSize - 1 /\ q + 1 \in Int /\ WordSize * q + WordSize \in Int
        BY <3>2, <3>3, Sizes
      <4>2. (WordSize * q + WordSize) % WordSize = 0
        <5> DEFINE whole == WordSize * q + WordSize
                   next == q + 1
        <5>1. whole \in Int /\ whole = WordSize * next + 0 /\ next \in Int
          BY <3>3, <4>1
        <5> HIDE DEF whole, next
        <5>2. whole % WordSize = 0
          BY <4>1, <5>1, Sizes, DivisionIs
        <5> QED BY <5>2 DEF whole
      <4>3. (WordSize * q) % WordSize = 0
        <5> DEFINE whole == WordSize * q
        <5>1. whole \in Int /\ whole = WordSize * q + 0
          BY <3>3
        <5> HIDE DEF whole
        <5>2. whole % WordSize = 0
          BY <3>2, <4>1, <5>1, Sizes, DivisionIs
        <5> QED BY <5>2 DEF whole
      <4> QED BY <4>2, <4>3
    <3>5. CASE dest < src
      <4>1. p = all
        BY <3>5 DEF all
      <4>2. p + head = WordSize * q + WordSize
        BY <2>1, <2>2, <3>2, <3>3, <3>5, <4>1, Sizes
      <4> QED BY <3>4, <3>5, <4>2
    <3>6. CASE ~(dest < src)
      <4>1. p + len = all
        BY <3>6 DEF all
      <4>2. p + len - head = WordSize * q
        <5>1. head = low
          BY <2>1, <3>6
        <5> QED BY <2>2, <3>2, <3>3, <4>1, <5>1
      <4> QED BY <3>4, <3>6, <4>2
    <3> QED BY <3>5, <3>6
  <2>4. OnBoundary(dest) /\ OnBoundary(src)
    BY <2>3
  <2>5. head \in 0..len
    <3> HIDE DEF low, head
    <3> QED BY <1>5, <2>1, <2>2, Sizes
  <2> HIDE DEF head
  <2> QED BY <2>4, <2>5 DEF head
<1> QED BY <1>1, <1>3, <1>4, <1>5, Sizes

LEMMA StepsType ==
  ASSUME NEW dest \in Int, NEW src \in Int, NEW len \in Nat
  PROVE  /\ Lead(dest, src, len) \in Nat /\ Middle(dest, src, len) \in Nat /\ Rest(dest, src, len) \in Nat
         /\ len = Lead(dest, src, len) + Middle(dest, src, len) * WordSize + Rest(dest, src, len)
<1> DEFINE head == Lead(dest, src, len)
           rest == len - head
           q == rest \div WordSize
           r == rest % WordSize
<1>1. head \in 0..len
  BY HeadAligns
<1> HIDE DEF head
<1>2. rest \in Nat
  BY <1>1
<1>3. q \in Int /\ r \in 0..WordSize - 1 /\ rest = WordSize * q + r
  BY <1>2, Sizes, Division
<1>4. Middle(dest, src, len) = q /\ Rest(dest, src, len) = r
  BY DEF Middle, Rest, head
<1> HIDE DEF q, r
<1>5. q * WordSize = WordSize * q /\ q * WordSize \in Int
  BY <1>3, Sizes, SMT
<1>6. q >= 0
  <2> SUFFICES ASSUME q < 0 PROVE FALSE
    BY <1>3
  <2>1. q * WordSize + WordSize <= 0 * WordSize
    BY <1>3, 0 \in Int, Multiples
  <2> HIDE DEF rest
  <2> QED BY <1>2, <1>3, <1>5, <2>1, Sizes
<1>7. len = head + q * WordSize + r
  BY <1>1, <1>3, <1>5
<1> QED BY <1>1, <1>3, <1>4, <1>6, <1>7 DEF head

-----------------------------------------------------------------------------
(* The plan of mem_prim_move in closed form.                               *)
Reach(dest, src, len, n) ==
  LET at == StepAt(Lead(dest, src, len), Middle(dest, src, len), n)
  IN  IF dest < src THEN at
      ELSE len - at - StepSize(Lead(dest, src, len), Middle(dest, src, len), n)

LEMMA MovePlanIs ==
  ASSUME NEW dest \in Int, NEW src \in Int, NEW len \in Nat
  PROVE  LET head == Lead(dest, src, len)
             words == Middle(dest, src, len)
             plan == MovePlan(dest, src, len)
         IN  /\ DOMAIN plan = 1..Steps(dest, src, len)
             /\ \A n \in 1..Steps(dest, src, len) :
                  /\ plan[n].d = dest + Reach(dest, src, len, n)
                  /\ plan[n].s = src + Reach(dest, src, len, n)
                  /\ plan[n].n = StepSize(head, words, n)
<1> DEFINE head == Lead(dest, src, len)
           words == Middle(dest, src, len)
           tail == Rest(dest, src, len)
           Singles(from, k) == [n \in 1..k |-> [at |-> from + n - 1, n |-> 1]]
           first == Singles(0, head)
           second == [n \in 1..words |-> [at |-> head + (n - 1) * WordSize, n |-> WordSize]]
           third == Singles(head + words * WordSize, tail)
           pair == first \o second
           chunks == pair \o third
           Offset(c) == IF dest < src THEN c.at ELSE len - c.at - c.n
           Piece == [at : Int, n : Int]
<1>1. head \in Nat /\ words \in Nat /\ tail \in Nat
  BY StepsType
<1>2. MovePlan(dest, src, len)
        = [n \in DOMAIN chunks |->
             [d |-> dest + Offset(chunks[n]), s |-> src + Offset(chunks[n]), n |-> chunks[n].n]]
  BY DEF MovePlan, Lead, Middle, Rest
<1> HIDE DEF head, words, tail
<1>3. /\ first \in Seq(Piece) /\ Len(first) = head
      /\ \A n \in 1..head : first[n] = [at |-> 0 + n - 1, n |-> 1]
  BY <1>1
<1>4. /\ second \in Seq(Piece) /\ Len(second) = words
      /\ \A n \in 1..words : second[n] = [at |-> head + (n - 1) * WordSize, n |-> WordSize]
  <2>1. \A n \in 1..words : (n - 1) * WordSize \in Int /\ head + (n - 1) * WordSize \in Int
    BY <1>1, Sizes, SMT
  <2>2. \A n \in 1..words : [at |-> head + (n - 1) * WordSize, n |-> WordSize] \in Piece
    BY <2>1, Sizes
  <2>3. second \in [1..words -> Piece]
    BY <2>2
  <2> QED BY <1>1, <2>3
<1>5. /\ third \in Seq(Piece) /\ Len(third) = tail
      /\ \A n \in 1..tail : third[n] = [at |-> head + words * WordSize + n - 1, n |-> 1]
  <2>1. words * WordSize \in Int
    BY <1>1, ProductIsNat
  <2> DEFINE from == head + words * WordSize
  <2>2. from \in Int
    BY <1>1, <2>1
  <2> HIDE DEF from
  <2>3. \A n \in 1..tail : [at |-> from + n - 1, n |-> 1] \in Piece
    BY <1>1, <2>2
  <2>4. third = [n \in 1..tail |-> [at |-> from + n - 1, n |-> 1]]
    BY DEF from
  <2>5. third \in [1..tail -> Piece]
    BY <2>3, <2>4
  <2>6. third \in Seq(Piece) /\ Len(third) = tail
    BY <1>1, <2>5
  <2>7. \A n \in 1..tail : third[n] = [at |-> head + words * WordSize + n - 1, n |-> 1]
    BY <2>4 DEF from
  <2> QED BY <2>6, <2>7
<1> HIDE DEF first, second, third, Piece
<1>6. /\ pair \in Seq(Piece) /\ Len(pair) = head + words
      /\ \A n \in 1..head + words : pair[n] = IF n <= head THEN first[n] ELSE second[n - head]
  BY <1>3, <1>4, ConcatProperties
<1> HIDE DEF pair
<1>7. /\ chunks \in Seq(Piece) /\ Len(chunks) = head + words + tail
      /\ \A n \in 1..head + words + tail :
           chunks[n] = IF n <= head + words THEN pair[n] ELSE third[n - (head + words)]
  <2>1. third \in Seq(Piece) /\ Len(third) = tail
    BY <1>5
  <2>2. /\ chunks \in Seq(Piece) /\ Len(chunks) = Len(pair) + Len(third)
        /\ \A n \in 1..Len(pair) + Len(third) :
             chunks[n] = IF n <= Len(pair) THEN pair[n] ELSE third[n - Len(pair)]
    BY <1>6, <2>1, ConcatProperties
  <2> QED BY <1>6, <2>1, <2>2
<1> HIDE DEF chunks
<1>8. ASSUME NEW n \in 1..head + words + tail
      PROVE  chunks[n] = [at |-> StepAt(head, words, n), n |-> StepSize(head, words, n)]
  <2>1. CASE n <= head
    <3>1. chunks[n] = first[n] /\ n \in 1..head
      BY <1>1, <1>6, <1>7, <2>1
    <3>2. StepAt(head, words, n) = 0 + n - 1 /\ StepSize(head, words, n) = 1
      BY <1>1, <2>1 DEF StepAt, StepSize
    <3> QED BY <1>3, <3>1, <3>2
  <2>2. CASE n > head /\ n <= head + words
    <3>0. n \in 1..head + words /\ n - head \in 1..words /\ ~(n <= head)
      BY <1>1, <2>2
    <3>1. chunks[n] = second[n - head] /\ n - head \in 1..words
      BY <1>6, <1>7, <2>2, <3>0
    <3>2. second[n - head] = [at |-> head + ((n - head) - 1) * WordSize, n |-> WordSize]
      BY <1>4, <3>1
    <3>3. StepAt(head, words, n) = head + (n - head - 1) * WordSize /\ StepSize(head, words, n) = WordSize
      BY <1>1, <2>2 DEF StepAt, StepSize
    <3> QED BY <3>1, <3>2, <3>3
  <2>3. CASE n > head + words
    <3>1. chunks[n] = third[n - (head + words)] /\ n - (head + words) \in 1..tail
      BY <1>1, <1>7, <2>3
    <3>2. StepAt(head, words, n) = head + words * WordSize + (n - head - words - 1) /\ StepSize(head, words, n) = 1
      BY <1>1, <2>3 DEF StepAt, StepSize
    <3>3. words * WordSize \in Int
      BY <1>1, ProductIsNat
    <3>4. third[n - (head + words)]
            = [at |-> head + words * WordSize + (n - (head + words)) - 1, n |-> 1]
      BY <1>5, <3>1
    <3>5. head + words * WordSize + (n - (head + words)) - 1
            = head + words * WordSize + (n - head - words - 1)
      BY <1>1, <3>3
    <3> QED BY <3>1, <3>2, <3>4, <3>5
  <2> QED BY <1>1, <2>1, <2>2, <2>3
<1>9. DOMAIN chunks = 1..head + words + tail
  BY <1>1, <1>7
<1>10. Steps(dest, src, len) = head + words + tail
  BY DEF Steps, head, words, tail
<1>11. ASSUME NEW n \in 1..head + words + tail
       PROVE  Offset(chunks[n]) = Reach(dest, src, len, n)
  <2>1. chunks[n] = [at |-> StepAt(head, words, n), n |-> StepSize(head, words, n)]
    BY <1>8
  <2>2. chunks[n].at = StepAt(head, words, n) /\ chunks[n].n = StepSize(head, words, n)
    BY <2>1
  <2> QED BY <2>2 DEF Reach, head, words
<1> QED BY <1>2, <1>8, <1>9, <1>10, <1>11 DEF head, words

(* mem_prim_move's plan reads every cell before it is overwritten, and     *)
(* stores every cell once.                                                 *)
LEMMA ReachIs ==
  ASSUME NEW dest \in Int, NEW src \in Int, NEW len \in Nat,
         NEW n \in 1..Steps(dest, src, len)
  PROVE  LET size == StepSize(Lead(dest, src, len), Middle(dest, src, len), n)
             reach == Reach(dest, src, len, n)
         IN  /\ reach \in Nat /\ size \in Nat \ {0} /\ reach + size <= len
             /\ \A k \in 1..n - 1 :
                  LET there == Reach(dest, src, len, k)
                      its == StepSize(Lead(dest, src, len), Middle(dest, src, len), k)
                  IN  IF dest < src THEN there + its <= reach ELSE reach + size <= there
<1> DEFINE head == Lead(dest, src, len)
           words == Middle(dest, src, len)
           tail == Rest(dest, src, len)
<1>1. /\ head \in Nat /\ words \in Nat /\ tail \in Nat
      /\ len = head + words * WordSize + tail
  BY StepsType
<1>2. Steps(dest, src, len) = head + words + tail
  BY DEF Steps
<1>3. \A k \in 1..Steps(dest, src, len) :
        Reach(dest, src, len, k) = IF dest < src THEN StepAt(head, words, k)
                                   ELSE len - StepAt(head, words, k) - StepSize(head, words, k)
  BY DEF Reach
<1> HIDE DEF head, words, tail
<1>4. /\ StepAt(head, words, n) \in Nat /\ StepSize(head, words, n) \in Nat \ {0}
      /\ StepAt(head, words, n) + StepSize(head, words, n) <= len
      /\ \A k \in 1..n - 1 : StepAt(head, words, k) + StepSize(head, words, k) <= StepAt(head, words, n)
  BY <1>1, <1>2, StepsFollow
<1>5. ASSUME NEW k \in 1..n - 1
      PROVE  StepAt(head, words, k) \in Nat /\ StepSize(head, words, k) \in Nat /\ k \in 1..Steps(dest, src, len)
  <2>1. k \in 1..head + words + tail
    BY <1>1, <1>2
  <2> QED BY <1>1, <1>2, <2>1, StepsFollow
<1>6. /\ Reach(dest, src, len, n) \in Nat
      /\ Reach(dest, src, len, n) + StepSize(head, words, n) <= len
  BY <1>3, <1>4
<1>7. ASSUME NEW k \in 1..n - 1
      PROVE  IF dest < src THEN Reach(dest, src, len, k) + StepSize(head, words, k) <= Reach(dest, src, len, n)
             ELSE Reach(dest, src, len, n) + StepSize(head, words, n) <= Reach(dest, src, len, k)
  BY <1>3, <1>4, <1>5
<1> QED BY <1>4, <1>6, <1>7 DEF head, words
LEMMA StepsIsNat ==
  ASSUME NEW dest \in Int, NEW src \in Int, NEW len \in Nat
  PROVE  Steps(dest, src, len) \in Nat
<1>1. Lead(dest, src, len) \in Nat /\ Middle(dest, src, len) \in Nat /\ Rest(dest, src, len) \in Nat
  BY StepsType
<1> QED BY <1>1 DEF Steps

(* What the n-th step of mem_prim_move stores into.                        *)
LEMMA ChunkIs ==
  ASSUME NEW dest \in Int, NEW src \in Int, NEW len \in Nat,
         NEW n \in 1..Steps(dest, src, len)
  PROVE  LET plan == MovePlan(dest, src, len)
             reach == Reach(dest, src, len, n)
             size == StepSize(Lead(dest, src, len), Middle(dest, src, len), n)
         IN  /\ plan[n].d = dest + reach /\ plan[n].s = src + reach /\ plan[n].n = size
             /\ Chunk(plan, n) = dest + reach .. dest + reach + size - 1
<1> DEFINE plan == MovePlan(dest, src, len)
           reach == Reach(dest, src, len, n)
           size == StepSize(Lead(dest, src, len), Middle(dest, src, len), n)
<1>1. plan[n].d = dest + reach /\ plan[n].s = src + reach /\ plan[n].n = size
  BY MovePlanIs
<1> HIDE DEF plan, reach, size
<1> QED BY <1>1 DEF Chunk, plan, reach, size

LEMMA ChunksCover ==
  ASSUME NEW dest \in Int, NEW src \in Int, NEW len \in Nat, NEW c \in Int
  PROVE  c \in dest..dest + len - 1
           <=> \E n \in 1..Steps(dest, src, len) : c \in Chunk(MovePlan(dest, src, len), n)
<1> DEFINE head == Lead(dest, src, len)
           words == Middle(dest, src, len)
           tail == Rest(dest, src, len)
           plan == MovePlan(dest, src, len)
<1>1. /\ head \in Nat /\ words \in Nat /\ tail \in Nat
      /\ len = head + words * WordSize + tail
  BY StepsType
<1>2. Steps(dest, src, len) = head + words + tail
  BY DEF Steps
<1>3. ASSUME NEW n \in 1..Steps(dest, src, len)
      PROVE  /\ Reach(dest, src, len, n) \in Nat /\ StepSize(head, words, n) \in Nat
             /\ Reach(dest, src, len, n) + StepSize(head, words, n) <= len
             /\ Chunk(plan, n) = dest + Reach(dest, src, len, n)
                                   .. dest + Reach(dest, src, len, n) + StepSize(head, words, n) - 1
             /\ Reach(dest, src, len, n) = IF dest < src THEN StepAt(head, words, n)
                                           ELSE len - StepAt(head, words, n) - StepSize(head, words, n)
  <2>1. Reach(dest, src, len, n) = IF dest < src THEN StepAt(head, words, n)
                                   ELSE len - StepAt(head, words, n) - StepSize(head, words, n)
    BY DEF Reach
  <2>2. /\ Reach(dest, src, len, n) \in Nat /\ StepSize(head, words, n) \in Nat
        /\ Reach(dest, src, len, n) + StepSize(head, words, n) <= len
    BY ReachIs
  <2>3. Chunk(plan, n) = dest + Reach(dest, src, len, n)
                           .. dest + Reach(dest, src, len, n) + StepSize(head, words, n) - 1
    BY ChunkIs
  <2> QED BY <2>1, <2>2, <2>3
<1> HIDE DEF head, words, tail, plan
<1>4. ASSUME c \in dest..dest + len - 1
      PROVE  \E n \in 1..Steps(dest, src, len) : c \in Chunk(plan, n)
  <2> DEFINE k == IF dest < src THEN c - dest ELSE len - 1 - (c - dest)
  <2>1. k \in Nat /\ k < len
    BY <1>4
  <2>2. PICK n \in 1..head + words + tail :
          k \in StepAt(head, words, n) .. StepAt(head, words, n) + StepSize(head, words, n) - 1
    <3> HIDE DEF k
    <3> QED BY <1>1, <2>1, StepsCover
  <2>3. n \in 1..Steps(dest, src, len)
    BY <1>2
  <2>4. StepAt(head, words, n) \in Int /\ StepSize(head, words, n) \in Int
    BY <1>1, StepsFollow
  <2> DEFINE at == StepAt(head, words, n)
             size == StepSize(head, words, n)
             reach == Reach(dest, src, len, n)
  <2>5. at \in Int /\ size \in Nat /\ reach = IF dest < src THEN at ELSE len - at - size
    BY <1>3, <2>3, <2>4
  <2>6. k \in at..at + size - 1
    BY <2>2
  <2> HIDE DEF at, size, reach
  <2>7. c \in dest + reach .. dest + reach + size - 1
    <3>1. CASE dest < src
      BY <2>5, <2>6, <3>1
    <3>2. CASE ~(dest < src)
      BY <2>5, <2>6, <3>2
    <3> QED BY <3>1, <3>2
  <2>8. c \in Chunk(plan, n)
    BY <1>3, <2>3, <2>7 DEF reach, size
  <2> QED BY <2>3, <2>8
<1>5. ASSUME NEW n \in 1..Steps(dest, src, len), c \in Chunk(plan, n)
      PROVE  c \in dest..dest + len - 1
  BY <1>3, <1>5
<1> QED BY <1>4, <1>5 DEF plan

LEMMA MoveReadsFirst ==
  ASSUME NEW m, NEW dest \in Int, NEW src \in Int, NEW len \in Nat, Within(m, src, len)
  PROVE  ReadsFirst(m, MovePlan(dest, src, len), src - dest, Steps(dest, src, len))
<1> DEFINE plan == MovePlan(dest, src, len)
           steps == Steps(dest, src, len)
           reach(n) == Reach(dest, src, len, n)
           size(n) == StepSize(Lead(dest, src, len), Middle(dest, src, len), n)
<1>1. DOMAIN plan = 1..steps
  BY MovePlanIs
<1>2. ASSUME NEW n \in 1..steps
      PROVE  /\ reach(n) \in Nat /\ size(n) \in Nat \ {0} /\ reach(n) + size(n) <= len
             /\ \A k \in 1..n - 1 : IF dest < src THEN reach(k) + size(k) <= reach(n)
                                    ELSE reach(n) + size(n) <= reach(k)
  BY ReachIs
<1>3. ASSUME NEW n \in 1..steps
      PROVE  /\ plan[n].d = dest + reach(n) /\ plan[n].s = src + reach(n) /\ plan[n].n = size(n)
             /\ Chunk(plan, n) = dest + reach(n) .. dest + reach(n) + size(n) - 1
  BY ChunkIs
<1>4. steps \in Nat
  BY StepsIsNat
<1> HIDE DEF plan, steps, reach, size
<1>5. ASSUME NEW n \in 1..steps
      PROVE  /\ plan[n].d \in Int /\ plan[n].n \in Nat /\ plan[n].s = plan[n].d + (src - dest)
             /\ \A c \in Chunk(plan, n) :
                  /\ c + (src - dest) \in DOMAIN m
                  /\ \A k \in 1..n - 1 : c + (src - dest) \notin Chunk(plan, k)
  <2>1. plan[n].d \in Int /\ plan[n].n \in Nat /\ plan[n].s = plan[n].d + (src - dest)
    BY <1>2, <1>3
  <2>2. ASSUME NEW c \in Chunk(plan, n)
        PROVE  /\ c + (src - dest) \in DOMAIN m
               /\ \A k \in 1..n - 1 : c + (src - dest) \notin Chunk(plan, k)
    <3> DEFINE at == c - dest
    <3>1. c \in Int /\ at \in 0..len - 1 /\ at >= reach(n) /\ at < reach(n) + size(n)
      BY <1>2, <1>3
    <3>2. c + (src - dest) = src + at
      BY <3>1
    <3>3. src + at \in DOMAIN m
      <4> HIDE DEF at
      <4> QED BY <3>1 DEF Within
    <3>4. ASSUME NEW k \in 1..n - 1 PROVE src + at \notin Chunk(plan, k)
      <4>1. k \in 1..steps
        BY <1>4
      <4>2. /\ Chunk(plan, k) = dest + reach(k) .. dest + reach(k) + size(k) - 1
            /\ reach(k) \in Nat /\ size(k) \in Nat
            /\ IF dest < src THEN reach(k) + size(k) <= reach(n) ELSE reach(n) + size(n) <= reach(k)
        BY <1>2, <1>3, <4>1
      <4> DEFINE low == reach(k)
                 high == low + size(k) - 1
      <4>3. reach(n) \in Nat /\ size(n) \in Nat /\ at \in Int
        BY <1>2, <3>1
      <4>4. low \in Nat /\ high \in Int /\ (IF dest < src THEN high < at ELSE at < low)
        <5>1. CASE dest < src
          BY <3>1, <4>2, <4>3, <5>1
        <5>2. CASE ~(dest < src)
          BY <3>1, <4>2, <4>3, <5>2
        <5> QED BY <5>1, <5>2
      <4>5. dest + high = dest + low + size(k) - 1
        BY <4>2
      <4>6. Chunk(plan, k) = dest + low .. dest + high
        BY <4>2, <4>5
      <4> HIDE DEF low, high
      <4> HIDE DEF at
      <4> QED BY <4>3, <4>4, <4>6
    <3> QED BY <3>2, <3>3, <3>4
  <2> QED BY <2>1, <2>2
<1>6. ReadsFirst(m, plan, src - dest, steps)
  BY <1>1, <1>5 DEF ReadsFirst
<1> QED BY <1>6 DEF plan, steps

LEMMA MoveIsLoaded ==
  ASSUME NEW m, IsMemory(m), NEW dest \in Int, NEW src \in Int, NEW len \in Nat, Within(m, src, len)
  PROVE  mem_prim_move(m, dest, src, len) = Loaded(m, dest, src, len)
<1>1. ReadsFirst(m, MovePlan(dest, src, len), src - dest, Steps(dest, src, len))
  BY MoveReadsFirst
<1>2. \A c \in Int : c \in dest..dest + len - 1
        <=> \E n \in 1..Steps(dest, src, len) : c \in Chunk(MovePlan(dest, src, len), n)
  BY ChunksCover
<1>3. Steps(dest, src, len) \in Nat
  BY StepsIsNat
<1> QED BY <1>1, <1>2, <1>3, CoveringIsLoaded DEF mem_prim_move

-----------------------------------------------------------------------------
(* Words only where both pointers are on a boundary, and every cell once.  *)
LEMMA PlanIsAligned ==
  ASSUME NEW dest \in Int, NEW src \in Int, NEW len \in Nat
  PROVE  LET plan == MovePlan(dest, src, len)
         IN  \A n \in DOMAIN plan : plan[n].n > 1 =>
               plan[n].d % WordSize = 0 /\ plan[n].s % WordSize = 0
<1> DEFINE plan == MovePlan(dest, src, len)
           head == Lead(dest, src, len)
           words == Middle(dest, src, len)
           tail == Rest(dest, src, len)
           Mark(p) == IF dest < src THEN p + head ELSE p + len - head
<1>1. /\ head \in Nat /\ words \in Nat /\ tail \in Nat
      /\ len = head + words * WordSize + tail
  BY StepsType
<1>2. head = len \/ (Mark(dest) % WordSize = 0 /\ Mark(src) % WordSize = 0)
  BY HeadAligns
<1>3. DOMAIN plan = 1..head + words + tail
  BY MovePlanIs DEF Steps
<1>4. \A n \in 1..head + words + tail :
        /\ plan[n].d = dest + Reach(dest, src, len, n)
        /\ plan[n].s = src + Reach(dest, src, len, n)
        /\ plan[n].n = StepSize(head, words, n)
        /\ Reach(dest, src, len, n) = IF dest < src THEN StepAt(head, words, n)
                                      ELSE len - StepAt(head, words, n) - StepSize(head, words, n)
  BY MovePlanIs DEF Steps, Reach
<1> HIDE DEF plan, head, words, tail
<1> SUFFICES ASSUME NEW n \in 1..head + words + tail, plan[n].n > 1
             PROVE  plan[n].d % WordSize = 0 /\ plan[n].s % WordSize = 0
  BY <1>3 DEF plan
<1>5. n > head /\ n <= head + words /\ StepSize(head, words, n) = WordSize
  BY <1>1, <1>4 DEF StepSize
<1> DEFINE k == n - head - 1
           gone == k * WordSize
<1>6. k \in Nat /\ k < words /\ StepAt(head, words, n) = head + gone
  BY <1>1, <1>5 DEF StepAt
<1>7. gone \in Nat /\ gone + WordSize <= words * WordSize /\ words * WordSize \in Nat
  <2> HIDE DEF k
  <2>1. gone \in Nat /\ words * WordSize \in Nat
    BY <1>1, <1>6, ProductIsNat
  <2>2. gone + WordSize <= words * WordSize
    BY <1>1, <1>6, Multiples
  <2> QED BY <2>1, <2>2
<1>8. head # len
  <2> DEFINE all == words * WordSize
  <2>1. all \in Nat /\ gone + WordSize <= all /\ len = head + all + tail /\ gone \in Nat
    BY <1>1, <1>7
  <2> HIDE DEF all, gone
  <2> QED BY <1>1, <2>1, Sizes
<1>9. ASSUME NEW p \in {dest, src} PROVE (p + Reach(dest, src, len, n)) % WordSize = 0
  <2> DEFINE q == Mark(p) \div WordSize
  <2>1. p \in Int /\ Mark(p) \in Int /\ Mark(p) % WordSize = 0
    BY <1>1, <1>2, <1>8
  <2>2. q \in Int /\ Mark(p) = WordSize * q + 0
    <3> DEFINE mark == Mark(p)
    <3>1. mark \in Int /\ mark % WordSize = 0 /\ q = mark \div WordSize
      BY <2>1
    <3> HIDE DEF mark
    <3>2. mark \div WordSize \in Int /\ mark = WordSize * (mark \div WordSize) + (mark % WordSize)
      BY <3>1, Sizes, Division
    <3>3. q \in Int /\ mark = WordSize * q + 0
      BY <3>1, <3>2
    <3> QED BY <3>3 DEF mark
  <2> HIDE DEF q
  <2> DEFINE it == IF dest < src THEN q + k ELSE q - k - 1
  <2>3. it \in Int
    BY <1>6, <2>2
  <2>4. WordSize * (q + k) = WordSize * q + gone
        /\ WordSize * (q - k - 1) = WordSize * q - gone - WordSize
    <3> HIDE DEF k
    <3> QED BY <1>6, <2>2, Sizes, SMT
  <2>5. WordSize * q \in Int
    BY <2>2, Sizes, SMT
  <2> HIDE DEF k, gone
  <2>6. p + Reach(dest, src, len, n) = WordSize * it + 0
    <3>1. CASE dest < src
      <4>1. p + head = WordSize * q /\ Reach(dest, src, len, n) = head + gone
        BY <1>4, <1>6, <2>2, <2>5, <3>1
      <4>2. WordSize * it = WordSize * q + gone
        BY <2>4, <3>1
      <4> HIDE DEF it
      <4> QED BY <1>1, <1>7, <2>1, <2>5, <4>1, <4>2
    <3>2. CASE ~(dest < src)
      <4>1. p + len - head = WordSize * q
        BY <2>2, <2>5, <3>2
      <4>2. Reach(dest, src, len, n) = len - (head + gone) - WordSize
        BY <1>4, <1>5, <1>6, <3>2
      <4>3. WordSize * it = WordSize * q - gone - WordSize
        BY <2>4, <3>2
      <4> HIDE DEF it
      <4> QED BY <1>1, <1>7, <2>1, <2>5, <4>1, <4>2, <4>3, Sizes
    <3> QED BY <3>1, <3>2
  <2>7. 0 \in 0..WordSize - 1 /\ p + Reach(dest, src, len, n) \in Int
    <3>1. WordSize * it \in Int
      <4> HIDE DEF it
      <4> QED BY <2>3, Sizes, SMT
    <3> HIDE DEF it
    <3> QED BY <2>6, <3>1, Sizes
  <2> DEFINE at == p + Reach(dest, src, len, n)
  <2>8. at = WordSize * it + 0 /\ at \in Int
    BY <2>6, <2>7
  <2> HIDE DEF it, at
  <2>9. at % WordSize = 0
    BY <2>3, <2>7, <2>8, Sizes, DivisionIs
  <2> QED BY <2>9 DEF at
<1> QED BY <1>4, <1>9

LEMMA PlanStoresOnce ==
  ASSUME NEW dest \in Int, NEW src \in Int, NEW len \in Nat
  PROVE  LET plan == MovePlan(dest, src, len)
         IN  \A a \in dest..dest + len - 1 :
               Cardinality({n \in DOMAIN plan : a \in plan[n].d .. plan[n].d + plan[n].n - 1}) = 1
<1> DEFINE plan == MovePlan(dest, src, len)
           steps == Steps(dest, src, len)
           reach(n) == Reach(dest, src, len, n)
           size(n) == StepSize(Lead(dest, src, len), Middle(dest, src, len), n)
<1>1. DOMAIN plan = 1..steps
  BY MovePlanIs
<1>2. ASSUME NEW n \in 1..steps
      PROVE  /\ reach(n) \in Nat /\ size(n) \in Nat \ {0} /\ reach(n) + size(n) <= len
             /\ \A k \in 1..n - 1 : IF dest < src THEN reach(k) + size(k) <= reach(n)
                                    ELSE reach(n) + size(n) <= reach(k)
  BY ReachIs
<1>3. ASSUME NEW n \in 1..steps
      PROVE  Chunk(plan, n) = dest + reach(n) .. dest + reach(n) + size(n) - 1
  BY ChunkIs
<1>4. steps \in Nat
  BY StepsIsNat
<1>5. \A a \in Int : a \in dest..dest + len - 1 <=> \E n \in 1..steps : a \in Chunk(plan, n)
  BY ChunksCover
<1> HIDE DEF plan, steps, reach, size
<1>6. ASSUME NEW n \in 1..steps, NEW k \in 1..n - 1
      PROVE  Chunk(plan, n) \cap Chunk(plan, k) = {}
  <2>1. k \in 1..steps
    BY <1>4
  <2>2. /\ reach(k) \in Nat /\ size(k) \in Nat /\ reach(n) \in Nat /\ size(n) \in Nat
        /\ reach(k) + size(k) <= reach(n) \/ reach(n) + size(n) <= reach(k)
    BY <1>2, <2>1
  <2>3. /\ Chunk(plan, n) = dest + reach(n) .. dest + reach(n) + size(n) - 1
        /\ Chunk(plan, k) = dest + reach(k) .. dest + reach(k) + size(k) - 1
    BY <1>3, <2>1
  <2> QED BY <2>2, <2>3
<1>7. ASSUME NEW a \in dest..dest + len - 1
      PROVE  Cardinality({n \in DOMAIN plan : a \in Chunk(plan, n)}) = 1
  <2>1. PICK n \in 1..steps : a \in Chunk(plan, n)
    BY <1>5
  <2>2. ASSUME NEW k \in 1..steps, a \in Chunk(plan, k) PROVE k = n
    <3>1. CASE k < n
      <4>1. k \in 1..n - 1
        BY <1>4, <3>1
      <4> QED BY <1>6, <2>1, <2>2, <4>1
    <3>2. CASE n < k
      <4>1. n \in 1..k - 1
        BY <1>4, <3>2
      <4> QED BY <1>6, <2>1, <2>2, <4>1
    <3> QED BY <1>4, <3>1, <3>2
  <2>3. {k \in DOMAIN plan : a \in Chunk(plan, k)} = {n}
    BY <1>1, <2>1, <2>2
  <2> QED BY <2>3, FS_Singleton
<1> QED BY <1>7 DEF Chunk, plan
-----------------------------------------------------------------------------
(* The wide move: every step of the plan is one cell.                      *)
LEMMA MultipleIs ==
  ASSUME NEW x \in Int
  PROVE  x * WordSize \in Int /\ (x * WordSize) % WordSize = 0 /\ (x * WordSize) \div WordSize = x
<1> DEFINE y == x * WordSize
<1>1. y \in Int /\ y = WordSize * x + 0
  <2>1. y \in Int /\ y = WordSize * x /\ WordSize * x \in Int
    BY Sizes, SMT
  <2> HIDE DEF y
  <2> QED BY <2>1
<1>2. 0 \in 0..WordSize - 1
  BY Sizes
<1> HIDE DEF y
<1>3. y % WordSize = 0 /\ y \div WordSize = x
  BY <1>1, <1>2, Sizes, DivisionIs
<1> QED BY <1>1, <1>3 DEF y

LEMMA MultipleSum ==
  ASSUME NEW x \in Int, NEW y \in Int
  PROVE  /\ x * WordSize + y * WordSize = (x + y) * WordSize
         /\ x * WordSize - y * WordSize = (x - y) * WordSize
         /\ x * WordSize < y * WordSize <=> x < y
<1>1. x * WordSize + y * WordSize = (x + y) * WordSize
  BY Sizes, SMT
<1>2. x * WordSize - y * WordSize = (x - y) * WordSize
  BY Sizes, SMT
<1>3. x * WordSize \in Int /\ y * WordSize \in Int
  BY MultipleIs
<1>4. ASSUME x < y PROVE x * WordSize < y * WordSize
  <2>1. x * WordSize + WordSize <= y * WordSize
    BY <1>4, Multiples
  <2> QED BY <1>3, <2>1, Sizes
<1>5. ASSUME y < x PROVE y * WordSize < x * WordSize
  <2>1. y * WordSize + WordSize <= x * WordSize
    BY <1>5, Multiples
  <2> QED BY <1>3, <2>1, Sizes
<1>6. x * WordSize < y * WordSize <=> x < y
  <2>1. CASE x < y
    BY <1>4, <2>1
  <2>2. CASE y < x
    BY <1>3, <1>5, <2>2
  <2>3. CASE x = y
    BY <1>3, <2>3
  <2> QED BY <2>1, <2>2, <2>3
<1> QED BY <1>1, <1>2, <1>6

LEMMA WidePlanIs ==
  ASSUME NEW dest \in Int, NEW src \in Int, NEW len \in Nat
  PROVE  LET plan == MovePlan(dest * WordSize, src * WordSize, len * WordSize)
         IN  /\ DOMAIN plan = 1..len
             /\ \A n \in 1..len :
                  LET at == IF dest < src THEN n - 1 ELSE len - n
                  IN  /\ plan[n].d = (dest + at) * WordSize
                      /\ plan[n].s = (src + at) * WordSize
                      /\ plan[n].n = WordSize
<1> DEFINE d == dest * WordSize
           s == src * WordSize
           l == len * WordSize
           plan == MovePlan(d, s, l)
<1>1. d \in Int /\ s \in Int /\ l \in Nat
  BY MultipleIs, ProductIsNat
<1>2. d % WordSize = 0 /\ s % WordSize = 0 /\ (d + l) % WordSize = 0 /\ (s + l) % WordSize = 0
      /\ l \div WordSize = len /\ l % WordSize = 0
  <2>1. d + l = (dest + len) * WordSize /\ s + l = (src + len) * WordSize
    BY MultipleSum
  <2>2. dest + len \in Int /\ src + len \in Int
    OBVIOUS
  <2>3. (d + l) % WordSize = 0 /\ (s + l) % WordSize = 0
    <3> DEFINE x == dest + len
               y == src + len
    <3>1. x \in Int /\ y \in Int /\ d + l = x * WordSize /\ s + l = y * WordSize
      BY <2>1, <2>2
    <3> HIDE DEF x, y, d, s, l
    <3> QED BY <3>1, MultipleIs
  <2> QED BY <2>3, MultipleIs
<1>3. d < s <=> dest < src
  BY MultipleSum
<1> HIDE DEF d, s, l
<1>4. Lead(d, s, l) = 0
  BY <1>2 DEF Lead, AlignBytes
<1>5. Middle(d, s, l) = len /\ Rest(d, s, l) = 0
  <2>1. l - 0 = l
    BY <1>1
  <2> QED BY <1>2, <1>4, <2>1 DEF Middle, Rest
<1>6. Steps(d, s, l) = len
  <2>1. 0 + len + 0 = len
    OBVIOUS
  <2> QED BY <1>4, <1>5, <2>1 DEF Steps
<1>7. /\ DOMAIN plan = 1..len
      /\ \A n \in 1..len : /\ plan[n].d = d + Reach(d, s, l, n)
                           /\ plan[n].s = s + Reach(d, s, l, n)
                           /\ plan[n].n = StepSize(0, len, n)
  <2>1. /\ DOMAIN plan = 1..Steps(d, s, l)
        /\ \A n \in 1..Steps(d, s, l) :
             /\ plan[n].d = d + Reach(d, s, l, n)
             /\ plan[n].s = s + Reach(d, s, l, n)
             /\ plan[n].n = StepSize(Lead(d, s, l), Middle(d, s, l), n)
    BY <1>1, MovePlanIs
  <2> HIDE DEF plan
  <2> QED BY <1>4, <1>5, <1>6, <2>1
<1> HIDE DEF plan
<1>8. ASSUME NEW n \in 1..len
      PROVE  LET at == IF dest < src THEN n - 1 ELSE len - n
             IN  /\ plan[n].d = (dest + at) * WordSize
                 /\ plan[n].s = (src + at) * WordSize
                 /\ plan[n].n = WordSize
  <2> DEFINE at == IF dest < src THEN n - 1 ELSE len - n
             gone == (n - 1) * WordSize
  <2>1. StepAt(0, len, n) = gone /\ StepSize(0, len, n) = WordSize
    <3>1. n > 0 /\ n <= 0 + len /\ n - 0 - 1 = n - 1 /\ ~(n <= 0)
      OBVIOUS
    <3>2. gone \in Int
      BY n - 1 \in Int, MultipleIs
    <3> HIDE DEF gone
    <3>3. 0 + gone = gone
      BY <3>2
    <3> QED BY <3>1, <3>3 DEF StepAt, StepSize, gone
  <2>2. Reach(d, s, l, n) = IF dest < src THEN gone ELSE l - gone - WordSize
    <3> HIDE DEF gone
    <3> QED BY <1>3, <1>4, <1>5, <2>1 DEF Reach
  <2>3. Reach(d, s, l, n) = at * WordSize
    <3>1. l - gone = (len - (n - 1)) * WordSize
      BY n - 1 \in Int, MultipleSum DEF l
    <3>2. (len - (n - 1)) * WordSize - WordSize = (len - (n - 1) - 1) * WordSize
      BY Sizes, SMT
    <3>3. len - (n - 1) - 1 = len - n
      OBVIOUS
    <3> QED BY <2>2, <3>1, <3>2, <3>3
  <2>4. at \in Int
    OBVIOUS
  <2> HIDE DEF at
  <2>5. d + at * WordSize = (dest + at) * WordSize /\ s + at * WordSize = (src + at) * WordSize
    BY <2>4, MultipleSum DEF d, s
  <2> QED BY <1>7, <2>1, <2>3, <2>5 DEF at
<1> QED BY <1>7, <1>8 DEF plan, d, s, l

LEMMA WideIsLoaded ==
  ASSUME NEW m, IsMemory(m), NEW dest \in Int, NEW src \in Int, NEW len \in Nat, Within(m, src, len)
  PROVE  WideMoved(m, dest, src, len) = Loaded(m, dest, src, len)
<1> DEFINE plan == MovePlan(dest * WordSize, src * WordSize, len * WordSize)
           at(n) == IF dest < src THEN n - 1 ELSE len - n
           cells == [n \in DOMAIN plan |->
                       [d |-> plan[n].d \div WordSize, s |-> plan[n].s \div WordSize,
                        n |-> plan[n].n \div WordSize]]
<1>1. /\ DOMAIN plan = 1..len
      /\ \A n \in 1..len : /\ plan[n].d = (dest + at(n)) * WordSize
                           /\ plan[n].s = (src + at(n)) * WordSize
                           /\ plan[n].n = WordSize
  BY WidePlanIs
<1> HIDE DEF plan
<1>2. ASSUME NEW n \in 1..len
      PROVE  /\ plan[n].d \div WordSize = dest + at(n)
             /\ plan[n].s \div WordSize = src + at(n)
             /\ plan[n].n \div WordSize = 1
  <2>1. dest + at(n) \in Int /\ src + at(n) \in Int /\ 1 \in Int
    OBVIOUS
  <2>2. plan[n].d \div WordSize = dest + at(n)
    <3> DEFINE x == dest + at(n)
    <3>1. x \in Int /\ plan[n].d = x * WordSize
      BY <1>1, <2>1
    <3> HIDE DEF x
    <3>2. plan[n].d \div WordSize = x
      BY <3>1, MultipleIs
    <3> QED BY <3>2 DEF x
  <2>3. plan[n].s \div WordSize = src + at(n)
    <3> DEFINE x == src + at(n)
    <3>1. x \in Int /\ plan[n].s = x * WordSize
      BY <1>1, <2>1
    <3> HIDE DEF x
    <3>2. plan[n].s \div WordSize = x
      BY <3>1, MultipleIs
    <3> QED BY <3>2 DEF x
  <2>4. plan[n].n \div WordSize = 1
    <3>1. plan[n].n = 1 * WordSize
      BY <1>1, Sizes
    <3> QED BY <2>1, <3>1, MultipleIs
  <2> QED BY <2>2, <2>3, <2>4
<1>3. CellPlan(dest, src, len) = [n \in 1..len |-> [d |-> dest + at(n), s |-> src + at(n), n |-> 1]]
  BY StoresAll DEF CellPlan
<1>4. cells = CellPlan(dest, src, len)
  <2> HIDE DEF at
  <2> QED BY <1>1, <1>2, <1>3
<1>5. WideMoved(m, dest, src, len) = Moved(m, cells)
  BY DEF WideMoved, plan
<1> QED BY <1>4, <1>5, CellsMoved

-----------------------------------------------------------------------------
(* mem_prim_set stores what its three parts store together.                *)
LEMMA StoredTwice ==
  ASSUME NEW m, DOMAIN m \subseteq Int, NEW p \in Int, NEW k \in Nat, NEW n \in Nat, NEW value
  PROVE  Stored(Stored(m, p, k, value), p + k, n, value) = Stored(m, p, k + n, value)
<1>1. \A c \in DOMAIN m : c \in p..p + (k + n) - 1 <=> c \in p..p + k - 1 \/ c \in p + k .. p + k + n - 1
  OBVIOUS
<1> QED BY <1>1 DEF Stored

LEMMA SetIsStored ==
  ASSUME NEW m, DOMAIN m \subseteq Int, NEW dest \in Int, NEW len \in Nat, NEW value
  PROVE  mem_prim_set(m, dest, len, value) = Stored(m, dest, len, value)
<1> DEFINE low == dest % WordSize
           gap == (WordSize - low) % WordSize
           head == Min({len, gap})
           rest == len - head
           q == rest \div WordSize
           tail == rest % WordSize
           all == q * WordSize
<1>1. gap \in Nat
  <2>1. low \in 0..WordSize - 1
    BY Sizes, Division
  <2> HIDE DEF low
  <2>2. WordSize - low \in Int
    BY <2>1, Sizes
  <2> QED BY <2>2, Sizes, Division
<1> HIDE DEF gap
<1>2. head \in 0..len
  <2>1. {len, gap} \subseteq Nat /\ {len, gap} # {} /\ len \in {len, gap}
    BY <1>1
  <2>2. head \in {len, gap} /\ \A y \in {len, gap} : head <= y
    <3>1. PICK both : both = {len, gap}
      OBVIOUS
    <3>2. Min(both) \in both /\ \A y \in both : Min(both) <= y
      BY <2>1, <3>1, MinIs
    <3> QED BY <3>1, <3>2
  <2> HIDE DEF head
  <2> QED BY <1>1, <2>1, <2>2
<1> HIDE DEF head
<1>3. rest \in Nat
  BY <1>2
<1>4. q \in Int /\ tail \in 0..WordSize - 1 /\ rest = WordSize * q + tail
  <2> HIDE DEF rest
  <2> QED BY <1>3, Sizes, Division
<1>5. q \in Nat
  <2> SUFFICES ASSUME q < 0 PROVE FALSE
    BY <1>4
  <2> HIDE DEF q, tail
  <2>1. q * WordSize + WordSize <= 0 * WordSize
    BY <1>4, 0 \in Int, Multiples
  <2>2. q * WordSize = WordSize * q /\ WordSize * q \in Int
    BY <1>4, Sizes, SMT
  <2> HIDE DEF rest
  <2> QED BY <1>3, <1>4, <2>1, <2>2, Sizes
<1>6. Stores(q) = q
  BY <1>5, StoresAll
<1>7. mem_prim_set(m, dest, len, value)
        = Stored(Stored(Stored(m, dest, head, value), dest + head, all, value),
                 dest + head + all, tail, value)
  BY <1>6 DEF mem_prim_set, head, gap
<1> HIDE DEF q, tail
<1>8. all \in Nat /\ len = head + all + tail
  <2>1. all \in Nat /\ all = WordSize * q
    BY <1>5, ProductIsNat, Sizes, SMT
  <2> HIDE DEF all
  <2> QED BY <1>2, <1>4, <2>1
<1> HIDE DEF all
<1>9. Stored(Stored(m, dest, head, value), dest + head, all, value) = Stored(m, dest, head + all, value)
  BY <1>2, <1>8, StoredTwice
<1>10. dest + head + all = dest + (head + all) /\ head + all \in Nat /\ tail \in Nat
  BY <1>2, <1>4, <1>8
<1>11. Stored(Stored(m, dest, head + all, value), dest + (head + all), tail, value)
         = Stored(m, dest, head + all + tail, value)
  BY <1>10, StoredTwice
<1> QED BY <1>7, <1>8, <1>9, <1>10, <1>11

-----------------------------------------------------------------------------
(* A call that returns EOK has met no constraint violation.                *)
LEMMA CheckedIs ==
  ASSUME NEW m, NEW dest, NEW dmax, NEW checks, NEW result,
         DOMAIN checks \subseteq Nat, \A n \in DOMAIN checks : checks[n][2] # EOK,
         Checked(m, dest, dmax, checks, result).rc = EOK
  PROVE  /\ Checked(m, dest, dmax, checks, result) = result
         /\ \A n \in DOMAIN checks : ~checks[n][1]
<1> DEFINE hit == {n \in DOMAIN checks : checks[n][1]}
           failed == [rc |-> checks[Min(hit)][2],
                      mem |-> IF checks[Min(hit)][3] THEN Stored(m, dest, dmax, 0) ELSE m]
<1>1. hit \subseteq Nat
  OBVIOUS
<1>2. Checked(m, dest, dmax, checks, result) = IF hit = {} THEN result ELSE failed
  BY DEF Checked
<1>3. CASE hit # {}
  <2>1. Min(hit) \in hit
    <3> HIDE DEF hit
    <3> QED BY <1>1, <1>3, MinIs
  <2>2. Min(hit) \in DOMAIN checks
    BY <2>1
  <2>3. failed.rc # EOK
    <3> HIDE DEF hit
    <3>1. failed.rc = checks[Min(hit)][2]
      OBVIOUS
    <3> QED BY <2>2, <3>1
  <2> HIDE DEF hit, failed
  <2> QED BY <1>2, <1>3, <2>3
<1>4. CASE hit = {}
  BY <1>2, <1>4
<1> QED BY <1>3, <1>4

LEMMA CopyChecksAre ==
  ASSUME NEW dest, NEW dmax, NEW src, NEW smax, NEW max
  PROVE  LET checks == CopyChecks(dest, dmax, src, smax, max)
             all == checks \o OverlapCheck(dest, dmax, src, smax)
         IN  /\ DOMAIN checks = 1..6 /\ \A n \in 1..6 : checks[n][2] # EOK
             /\ DOMAIN all = 1..7 /\ \A n \in 1..7 : all[n][2] # EOK
             /\ all[7] = <<Overlap(dest, dmax, src, smax), ESOVRLP, TRUE>>
<1> DEFINE c1 == <<dest = NULL, ESNULLP, FALSE>>
           c2 == <<dmax = 0, ESZEROL, FALSE>>
           c3 == <<dmax > max, ESLEMAX, FALSE>>
           c4 == <<smax = 0, ESZEROL, TRUE>>
           c5 == <<smax > dmax, ESLEMAX, TRUE>>
           c6 == <<src = NULL, ESNULLP, TRUE>>
           c7 == <<Overlap(dest, dmax, src, smax), ESOVRLP, TRUE>>
           any == {c1, c2, c3, c4, c5, c6, c7}
           checks == CopyChecks(dest, dmax, src, smax, max)
           last == OverlapCheck(dest, dmax, src, smax)
           all == checks \o last
<1>1. \A c \in any : c[2] # EOK
  <2>1. c1[2] = ESNULLP /\ c2[2] = ESZEROL /\ c3[2] = ESLEMAX /\ c4[2] = ESZEROL /\ c5[2] = ESLEMAX
        /\ c6[2] = ESNULLP /\ c7[2] = ESOVRLP
    OBVIOUS
  <2> HIDE DEF c1, c2, c3, c4, c5, c6, c7
  <2> QED BY <2>1 DEF EOK, ESNULLP, ESZEROL, ESLEMAX, ESOVRLP
<1>2. checks = <<c1, c2, c3>> \o <<c4, c5, c6>> /\ last = <<c7>>
  BY DEF CopyChecks, DestChecks, OverlapCheck
<1> HIDE DEF c1, c2, c3, c4, c5, c6, c7
<1>3. <<c1, c2, c3>> \in Seq(any) /\ <<c4, c5, c6>> \in Seq(any) /\ <<c7>> \in Seq(any)
      /\ Len(<<c1, c2, c3>>) = 3 /\ Len(<<c4, c5, c6>>) = 3 /\ Len(<<c7>>) = 1
  OBVIOUS
<1> HIDE DEF any, checks, last
<1>4. checks \in Seq(any) /\ Len(checks) = 6
  <2>1. /\ checks \in Seq(any) /\ Len(checks) = Len(<<c1, c2, c3>>) + Len(<<c4, c5, c6>>)
    BY <1>2, <1>3, ConcatProperties
  <2> QED BY <1>3, <2>1
<1>5. all \in Seq(any) /\ Len(all) = 7 /\ all[7] = c7
  <2>1. last \in Seq(any) /\ Len(last) = 1 /\ last[1] = c7
    BY <1>2, <1>3
  <2>2. /\ all \in Seq(any) /\ Len(all) = Len(checks) + Len(last)
        /\ \A n \in 1..Len(checks) + Len(last) :
             all[n] = IF n <= Len(checks) THEN checks[n] ELSE last[n - Len(checks)]
    BY <1>4, <2>1, ConcatProperties
  <2>3. Len(all) = 7 /\ 7 \in 1..Len(checks) + Len(last) /\ ~(7 <= Len(checks)) /\ 7 - Len(checks) = 1
    BY <1>4, <2>1, <2>2
  <2> QED BY <2>1, <2>2, <2>3
<1> HIDE DEF all
<1>6. /\ DOMAIN checks = 1..6 /\ DOMAIN all = 1..7
      /\ \A n \in 1..6 : checks[n] \in any
      /\ \A n \in 1..7 : all[n] \in any
  <2>1. ASSUME NEW s \in Seq(any) PROVE DOMAIN s = 1..Len(s) /\ \A n \in 1..Len(s) : s[n] \in any
    OBVIOUS
  <2>2. DOMAIN checks = 1..6 /\ \A n \in 1..6 : checks[n] \in any
    BY <1>4, <2>1
  <2>3. DOMAIN all = 1..7 /\ \A n \in 1..7 : all[n] \in any
    BY <1>5, <2>1
  <2> QED BY <2>2, <2>3
<1> QED BY <1>1, <1>5, <1>6 DEF checks, last, all, c7
-----------------------------------------------------------------------------
(* Every call is made on a memory of its family and on addresses in it.    *)
ArgsIn(memories) ==
  /\ mem \in memories
  /\ D \in DOMAIN mem \cup {NULL} /\ N \in 0..Cardinality(DOMAIN mem)
  /\ D = NULL \/ D + N - 1 \in DOMAIN mem \cup {-1}
  /\ S \in DOMAIN mem \cup {NULL} /\ L \in Nat
CallsInv ==
  /\ family = "mem" => ArgsIn(MoveMemories)
  /\ family = "copy" => ArgsIn(CopyMemories) /\ L <= RSIZE_MAX_STR
  /\ family = "query" => ArgsIn(QueryMemories) /\ L <= RSIZE_MAX_STR
  /\ family = "class" => ArgsIn(ClassMemories)

LEMMA MemoryIs ==
  ASSUME NEW m \in MoveMemories \cup CopyMemories \cup QueryMemories \cup ClassMemories
                     \cup TokenMemories
  PROVE  /\ IsMemory(m) /\ Cardinality(DOMAIN m) \in Nat
         /\ DOMAIN m = 0..Cardinality(DOMAIN m) - 1
<1>1. IsFiniteSet(DOMAIN m) /\ m \in [0 .. Cardinality(DOMAIN m) - 1 -> Int]
  BY MemoriesAssumption
<1>2. Cardinality(DOMAIN m) \in Nat
  BY <1>1, FS_CardinalityType
<1>3. DOMAIN m = 0..Cardinality(DOMAIN m) - 1 /\ m = [c \in DOMAIN m |-> m[c]]
  BY <1>1
<1>4. DOMAIN m \subseteq Int
  BY <1>2, <1>3
<1> QED BY <1>2, <1>3, <1>4 DEF IsMemory

LEMMA CallIs ==
  ASSUME NEW kind, NEW memories, NEW lengths, NEW outs, lengths \subseteq Nat,
         Call(kind, memories, lengths, outs)
  PROVE  family' = kind /\ ArgsIn(memories)' /\ L' \in lengths
<1> DEFINE dds(m) == {dd \in (DOMAIN m \cup {NULL}) \X (0 .. Cardinality(DOMAIN m)) :
                        dd[1] = NULL \/ dd[1] + dd[2] - 1 \in DOMAIN m \cup {-1}}
<1>1. family' = kind
  BY DEF Call
<1>2. PICK m \in memories :
        \E l \in lengths, o \in outs :
          \E s \in DOMAIN m \cup {NULL}, dd \in dds(m) :
            /\ mem' = m
            /\ args' = [dest |-> dd[1], dmax |-> dd[2], src |-> s, slen |-> l, out |-> o]
  BY DEF Call, DestArgs
<1> HIDE DEF dds
<1>3. PICK l \in lengths, o \in outs, s \in DOMAIN m \cup {NULL}, dd \in dds(m) :
        /\ mem' = m
        /\ args' = [dest |-> dd[1], dmax |-> dd[2], src |-> s, slen |-> l, out |-> o]
  BY <1>2
<1>4. /\ dd[1] \in DOMAIN m \cup {NULL} /\ dd[2] \in 0..Cardinality(DOMAIN m)
      /\ dd[1] = NULL \/ dd[1] + dd[2] - 1 \in DOMAIN m \cup {-1}
  BY DEF dds
<1>5. D' = dd[1] /\ N' = dd[2] /\ S' = s /\ L' = l
  BY <1>3 DEF D, N, S, L
<1> QED BY <1>1, <1>3, <1>4, <1>5 DEF ArgsIn

Calls == CallMem \/ CallCopy \/ CallQuery \/ CallClass

LEMMA CallsMadeIn ==
  Calls => CallsInv' /\ family' \in {"mem", "copy", "query", "class"}
<1>1. ASSUME CallMem PROVE family' = "mem" /\ ArgsIn(MoveMemories)'
  <2> DEFINE some == CHOOSE x \in MoveMemories : TRUE
             lengths == 0 .. Cardinality(DOMAIN some)
  <2>1. MoveMemories # {}
    BY <1>1 DEF CallMem, Call
  <2>2. some \in MoveMemories
    BY <2>1
  <2> HIDE DEF some
  <2>3. lengths \subseteq Nat
    BY <2>2, MemoryIs
  <2>4. Call("mem", MoveMemories, lengths, {0})
    BY <1>1 DEF CallMem, some
  <2> HIDE DEF lengths
  <2> QED BY <2>3, <2>4, CallIs
<1>2. ASSUME CallCopy PROVE family' = "copy" /\ ArgsIn(CopyMemories)' /\ L' <= RSIZE_MAX_STR
  <2>1. Lengths \subseteq Nat
    BY LengthsAssumption, SafeStrAssumption
  <2>2. family' = "copy" /\ ArgsIn(CopyMemories)' /\ L' \in Lengths
    BY <1>2, <2>1, CallIs DEF CallCopy
  <2> QED BY <2>2, LengthsAssumption, SafeStrAssumption
<1>3. ASSUME CallQuery PROVE family' = "query" /\ ArgsIn(QueryMemories)' /\ L' <= RSIZE_MAX_STR
  <2>1. Spans \subseteq Nat
    BY LengthsAssumption, SafeStrAssumption
  <2>2. family' = "query" /\ ArgsIn(QueryMemories)' /\ L' \in Spans
    BY <1>3, <2>1, CallIs DEF CallQuery
  <2> QED BY <2>2, LengthsAssumption, SafeStrAssumption
<1>4. ASSUME CallClass PROVE family' = "class" /\ ArgsIn(ClassMemories)'
  BY <1>4, {0} \subseteq Nat, CallIs DEF CallClass
<1> QED BY <1>1, <1>2, <1>3, <1>4 DEF CallsInv, Calls

LEMMA OtherFamilies ==
  ASSUME StringsNext, ~Calls
  PROVE  family' \in {"format", "handler", "token", "tokend", "text", "path", "number", "print",
                      "wtoken"}
<1>1. ASSUME CallFormat \/ SetHandler PROVE family' \in {"format", "handler"}
  BY <1>1 DEF CallFormat, SetHandler
<1>2. ASSUME FirstToken \/ NextToken PROVE family' \in {"token", "tokend"}
  <2>1. ASSUME NEW orig, NEW size, NEW got, NEW m, NEW dest, NEW dmax, NEW ptr,
               Tokenize(orig, size, got, m, dest, dmax, ptr)
        PROVE  family' \in {"token", "tokend"}
    BY <2>1 DEF Tokenize
  <2> QED BY <1>2, <2>1 DEF FirstToken, NextToken
<1>3. ASSUME CallConversion \/ CallSplit \/ CallNumber \/ CallPrint
      PROVE  family' \in {"text", "path", "number", "print"}
  BY <1>3 DEF CallConversion, CallSplit, CallNumber, CallPrint
<1>4. ASSUME StartTokens \/ RestartTokens \/ ContinueTokens PROVE family' = "wtoken"
  BY <1>4 DEF StartTokens, RestartTokens, ContinueTokens, Tokenized
<1> QED BY <1>1, <1>2, <1>3, <1>4 DEF StringsNext, Next, Calls

LEMMA CallsAlways == StringsSpec => []CallsInv
<1>1. Init => CallsInv
  BY DEF Init, CallsInv
<1>2. CallsInv /\ [StringsNext]_vars => CallsInv'
  <2> SUFFICES ASSUME CallsInv, [StringsNext]_vars PROVE CallsInv'
    OBVIOUS
  <2>1. CASE Calls
    BY <2>1, CallsMadeIn
  <2>2. CASE StringsNext /\ ~Calls
    BY <2>2, OtherFamilies DEF CallsInv
  <2>3. CASE UNCHANGED vars
    BY <2>3 DEF vars, CallsInv, ArgsIn, D, N, S, L
  <2> QED BY <2>1, <2>2, <2>3
<1> QED BY <1>1, <1>2, PTL DEF StringsSpec

-----------------------------------------------------------------------------
(* What a call of the memory functions does.                               *)
LEMMA WhenMoving ==
  ASSUME ArgsIn(MoveMemories), Moving
  PROVE  /\ IsMemory(mem) /\ D \in Nat /\ N \in Nat /\ S \in Nat /\ L \in Nat
         /\ Within(mem, S, L)
<1>1. /\ Cardinality(DOMAIN mem) \in Nat /\ DOMAIN mem = 0..Cardinality(DOMAIN mem) - 1 /\ IsMemory(mem)
  BY MemoryIs DEF ArgsIn
<1>2. D \in Nat /\ N \in Nat /\ S \in Nat /\ L \in Nat /\ L > 0
  BY <1>1 DEF ArgsIn, Moving
<1>3. S + L - 1 \in DOMAIN mem
  <2>1. S + L - 1 \in DOMAIN mem \cup {-1}
    BY DEF Moving, Readable
  <2>2. S + L - 1 # -1
    BY <1>2
  <2> QED BY <2>1, <2>2
<1>4. ASSUME NEW k \in 0..L - 1 PROVE S + k \in DOMAIN mem
  BY <1>1, <1>2, <1>3
<1> QED BY <1>1, <1>2, <1>4 DEF Within

LEMMA MoveHolds ==
  ASSUME ArgsIn(MoveMemories)
  PROVE  MoveIsSimultaneous
<1> SUFFICES ASSUME Moving
             PROVE  \A r \in {mem_prim_move(mem, D, S, L), mem_prim_move8(mem, D, S, L),
                        mem_prim_move16(mem, D, S, L), mem_prim_move32(mem, D, S, L),
                        WideMoved(mem, D, S, L)} : r = Loaded(mem, D, S, L)
  BY DEF MoveIsSimultaneous
<1>1. IsMemory(mem) /\ D \in Int /\ S \in Int /\ L \in Nat /\ Within(mem, S, L)
  BY WhenMoving
<1>2. Moved(mem, CellPlan(D, S, L)) = Loaded(mem, D, S, L)
  BY <1>1, CellsMoved
<1>3. mem_prim_move(mem, D, S, L) = Loaded(mem, D, S, L)
  BY <1>1, MoveIsLoaded
<1>4. WideMoved(mem, D, S, L) = Loaded(mem, D, S, L)
  BY <1>1, WideIsLoaded
<1> QED BY <1>2, <1>3, <1>4 DEF mem_prim_move8, mem_prim_move16, mem_prim_move32

LEMMA AlignmentHolds ==
  ASSUME ArgsIn(MoveMemories)
  PROVE  WordsAreAligned
<1> DEFINE plan == MovePlan(D, S, L)
<1> SUFFICES ASSUME Moving
             PROVE  /\ \A i \in DOMAIN plan : plan[i].n > 1 =>
                          plan[i].d % WordSize = 0 /\ plan[i].s % WordSize = 0
                    /\ \A a \in D .. D + L - 1 :
                          Cardinality({i \in DOMAIN plan :
                              a \in plan[i].d .. plan[i].d + plan[i].n - 1}) = 1
  BY DEF WordsAreAligned
<1>1. D \in Int /\ S \in Int /\ L \in Nat
  BY WhenMoving
<1>2. \A i \in DOMAIN plan : plan[i].n > 1 => plan[i].d % WordSize = 0 /\ plan[i].s % WordSize = 0
  BY <1>1, PlanIsAligned
<1>3. \A a \in D .. D + L - 1 :
        Cardinality({i \in DOMAIN plan : a \in plan[i].d .. plan[i].d + plan[i].n - 1}) = 1
  BY <1>1, PlanStoresOnce
<1> QED BY <1>2, <1>3

LEMMA SetHolds ==
  ASSUME CallsInv
  PROVE  SetFillsExactly
<1> SUFFICES ASSUME family = "mem", D # NULL
             PROVE  \A r \in {mem_prim_set(mem, D, N, 99), mem_prim_set16(mem, D, N, 99),
                  mem_prim_set32(mem, D, N, 99)} : r = Stored(mem, D, N, 99)
  BY DEF SetFillsExactly
<1>1. DOMAIN mem \subseteq Int /\ D \in Int /\ N \in Nat
  <2>1. ArgsIn(MoveMemories)
    BY DEF CallsInv
  <2>2. /\ Cardinality(DOMAIN mem) \in Nat /\ DOMAIN mem = 0..Cardinality(DOMAIN mem) - 1
    BY <2>1, MemoryIs DEF ArgsIn
  <2> QED BY <2>1, <2>2 DEF ArgsIn
<1>2. mem_prim_set(mem, D, N, 99) = Stored(mem, D, N, 99)
  BY <1>1, SetIsStored
<1>3. Stores(N) = N
  BY <1>1, StoresAll
<1> QED BY <1>2, <1>3 DEF mem_prim_set16, mem_prim_set32

(* What EOK says of a memmove*_s and of a memcpy*_s.                       *)
LEMMA CheckedMove ==
  ASSUME NEW m, NEW dest, NEW dmax, NEW src, NEW smax, NEW max, NEW result,
         Checked(m, dest, dmax, CopyChecks(dest, dmax, src, smax, max), result).rc = EOK
  PROVE  Checked(m, dest, dmax, CopyChecks(dest, dmax, src, smax, max), result) = result
<1> DEFINE checks == CopyChecks(dest, dmax, src, smax, max)
<1>1. DOMAIN checks = 1..6 /\ \A n \in 1..6 : checks[n][2] # EOK
  BY CopyChecksAre
<1> HIDE DEF checks
<1>2. DOMAIN checks \subseteq Nat /\ \A n \in DOMAIN checks : checks[n][2] # EOK
  BY <1>1
<1>3. Checked(m, dest, dmax, checks, result).rc = EOK
  BY DEF checks
<1>4. Checked(m, dest, dmax, checks, result) = result
  BY <1>2, <1>3, CheckedIs
<1> QED BY <1>4 DEF checks

LEMMA CheckedCopy ==
  ASSUME NEW m, NEW dest, NEW dmax, NEW src, NEW smax, NEW max, NEW result,
         Checked(m, dest, dmax,
                 CopyChecks(dest, dmax, src, smax, max) \o OverlapCheck(dest, dmax, src, smax),
                 result).rc = EOK
  PROVE  /\ Checked(m, dest, dmax,
                    CopyChecks(dest, dmax, src, smax, max) \o OverlapCheck(dest, dmax, src, smax),
                    result) = result
         /\ ~Overlap(dest, dmax, src, smax)
<1> DEFINE checks == CopyChecks(dest, dmax, src, smax, max) \o OverlapCheck(dest, dmax, src, smax)
<1>1. /\ DOMAIN checks = 1..7 /\ \A n \in 1..7 : checks[n][2] # EOK
      /\ checks[7] = <<Overlap(dest, dmax, src, smax), ESOVRLP, TRUE>>
  BY CopyChecksAre
<1> HIDE DEF checks
<1>2. DOMAIN checks \subseteq Nat /\ \A n \in DOMAIN checks : checks[n][2] # EOK
  BY <1>1
<1>3. Checked(m, dest, dmax, checks, result).rc = EOK
  BY DEF checks
<1>4. Checked(m, dest, dmax, checks, result) = result /\ \A n \in DOMAIN checks : ~checks[n][1]
  BY <1>2, <1>3, CheckedIs
<1>5. ~checks[7][1]
  BY <1>1, <1>4
<1>6. ~Overlap(dest, dmax, src, smax)
  BY <1>1, <1>5
<1> QED BY <1>4, <1>6 DEF checks

LEMMA CopiesHold ==
  ASSUME ArgsIn(MoveMemories)
  PROVE  MemoryCopiesAreExact
<1> SUFFICES ASSUME Moving
             PROVE  /\ \A r \in MemCopies : r.rc = EOK =>
                          D = S \/ (D .. D + N - 1) \cap (S .. S + L - 1) = {}
                    /\ \A r \in MemCopies \cup MemMoves : r.rc = EOK => r.mem = Loaded(mem, D, S, L)
  BY DEF MemoryCopiesAreExact
<1>1. D \in Nat /\ N \in Nat /\ S \in Nat /\ L \in Nat /\ L > 0 /\ L <= N
  BY WhenMoving DEF Moving
<1>2. \A r \in {mem_prim_move(mem, D, S, L), mem_prim_move8(mem, D, S, L),
                mem_prim_move16(mem, D, S, L), mem_prim_move32(mem, D, S, L),
                WideMoved(mem, D, S, L)} : r = Loaded(mem, D, S, L)
  BY MoveHolds DEF MoveIsSimultaneous
<1> DEFINE copied == Done(Loaded(mem, D, S, L))
<1>3. copied.mem = Loaded(mem, D, S, L)
  BY DEF Done
<1>4. ~Overlap(D, N, S, L) => D = S \/ (D .. D + N - 1) \cap (S .. S + L - 1) = {}
  <2> DEFINE dest == D
             src == S
             dmax == N
             len == L
  <2>1. dest \in Nat /\ dmax \in Nat /\ src \in Nat /\ len \in Nat /\ len > 0 /\ len <= dmax
    BY <1>1
  <2> HIDE DEF dest, src, dmax, len
  <2>2. ~Overlap(dest, dmax, src, len)
          => dest = src \/ (dest .. dest + dmax - 1) \cap (src .. src + len - 1) = {}
    BY <2>1 DEF Overlap
  <2> QED BY <2>2 DEF dest, src, dmax, len
<1>5. ASSUME NEW r \in MemCopies, r.rc = EOK
      PROVE  ~Overlap(D, N, S, L) /\ r = copied
  <2>1. PICK max : r = Checked(mem, D, N, CopyChecks(D, N, S, L, max) \o OverlapCheck(D, N, S, L), copied)
    BY <1>2 DEF MemCopies, memcpy_s, memcpy16_s, memcpy32_s, wmemcpy_s
  <2> HIDE DEF copied
  <2> QED BY <1>5, <2>1, CheckedCopy
<1>6. ASSUME NEW r \in MemMoves, r.rc = EOK
      PROVE  r = copied
  <2>1. PICK max : r = Checked(mem, D, N, CopyChecks(D, N, S, L, max), copied)
    BY <1>2 DEF MemMoves, memmove_s, memmove16_s, memmove32_s, wmemmove_s
  <2> HIDE DEF copied
  <2> QED BY <1>6, <2>1, CheckedMove
<1> HIDE DEF copied
<1>7. \A r \in MemCopies : r.rc = EOK => D = S \/ (D .. D + N - 1) \cap (S .. S + L - 1) = {}
  BY <1>4, <1>5
<1>8. \A r \in MemCopies \cup MemMoves : r.rc = EOK => r.mem = Loaded(mem, D, S, L)
  BY <1>3, <1>5, <1>6
<1> QED BY <1>7, <1>8

(* The moves and fills of mem_primitives_lib.c, and the functions of        *)
(* safestringlib over them, have the effect of one simultaneous assignment  *)
(* whatever the word size, the alignment and the overlap of the objects.   *)
THEOREM MemoryAlwaysExact == StringsSpec => []MemoryIsExact
<1>1. CallsInv => MemoryIsExact
  <2> SUFFICES ASSUME CallsInv PROVE MemoryIsExact
    OBVIOUS
  <2>1. CASE family = "mem"
    <3>1. ArgsIn(MoveMemories)
      BY <2>1 DEF CallsInv
    <3> QED BY <3>1, MoveHolds, AlignmentHolds, SetHolds, CopiesHold DEF MemoryIsExact
  <2>2. CASE family # "mem"
    <3>1. ~Moving
      BY <2>2 DEF Moving
    <3> QED BY <2>2, <3>1 DEF MemoryIsExact, MoveIsSimultaneous, WordsAreAligned, SetFillsExactly,
               MemoryCopiesAreExact
  <2> QED BY <2>1, <2>2
<1> QED BY <1>1, CallsAlways, PTL

-----------------------------------------------------------------------------
(* What a call may do to memory: nothing outside dest[0 .. dmax), and where  *)
(* it fails nothing but to clear the whole.                                *)
StaysIn(m, cells, k) == \A a \in DOMAIN m \ cells : k[a] = m[a]
Contained(m, dest, dmax, r) ==
  /\ StaysIn(m, dest..dest + dmax - 1, r.mem)
  /\ r.rc # EOK => r.mem \in {m, Stored(m, dest, dmax, 0)}

Passes(checks) == \A n \in DOMAIN checks : ~checks[n][1]

LEMMA CheckedContained ==
  ASSUME NEW m, NEW dest, NEW dmax, NEW checks, NEW result,
         Passes(checks) => Contained(m, dest, dmax, result)
  PROVE  Contained(m, dest, dmax, Checked(m, dest, dmax, checks, result))
<1> DEFINE hit == {n \in DOMAIN checks : checks[n][1]}
           kept == IF checks[Min(hit)][3] THEN Stored(m, dest, dmax, 0) ELSE m
           failed == [rc |-> checks[Min(hit)][2], mem |-> kept]
<1>1. Checked(m, dest, dmax, checks, result) = IF hit = {} THEN result ELSE failed
  BY DEF Checked
<1>2. hit = {} => Passes(checks)
  BY DEF Passes
<1>3. kept \in {m, Stored(m, dest, dmax, 0)}
  OBVIOUS
<1> HIDE DEF hit, kept
<1>4. failed.mem = kept
  OBVIOUS
<1>5. Contained(m, dest, dmax, failed)
  BY <1>3, <1>4 DEF Contained, StaysIn, Stored
<1> HIDE DEF failed
<1> QED BY <1>1, <1>2, <1>5

(* The checks of a call, as far as the results need them.                  *)
LEMMA PassesBoth ==
  ASSUME NEW x, NEW y, NEW s \in Seq(x), NEW t \in Seq(y)
  PROVE  s \o t \in Seq(x \cup y) /\ (Passes(s \o t) => Passes(s) /\ Passes(t))
<1> DEFINE all == x \cup y
           both == s \o t
<1>1. s \in Seq(all) /\ t \in Seq(all)
  OBVIOUS
<1> HIDE DEF all, both
<1>2. /\ both \in Seq(all) /\ Len(both) = Len(s) + Len(t)
      /\ \A n \in 1..Len(s) + Len(t) :
           both[n] = IF n <= Len(s) THEN s[n] ELSE t[n - Len(s)]
  BY <1>1, ConcatProperties DEF both
<1>3. /\ DOMAIN s = 1..Len(s) /\ DOMAIN t = 1..Len(t) /\ Len(s) \in Nat /\ Len(t) \in Nat
      /\ DOMAIN both = 1..Len(s) + Len(t)
  BY <1>1, <1>2
<1>4. ASSUME Passes(both), NEW n \in DOMAIN s PROVE ~s[n][1]
  <2>1. n \in DOMAIN both /\ both[n] = s[n]
    BY <1>2, <1>3
  <2> QED BY <1>4, <2>1 DEF Passes
<1>5. ASSUME Passes(both), NEW n \in DOMAIN t PROVE ~t[n][1]
  <2>1. Len(s) + n \in DOMAIN both /\ ~(Len(s) + n <= Len(s)) /\ Len(s) + n - Len(s) = n
    BY <1>3
  <2>2. both[Len(s) + n] = t[n]
    BY <1>2, <1>3, <2>1
  <2> QED BY <1>4, <1>5, <2>1, <2>2 DEF Passes
<1> QED BY <1>2, <1>4, <1>5 DEF Passes, both, all

LEMMA PassesOne ==
  ASSUME NEW c1
  PROVE  <<c1>> \in Seq({c1}) /\ (Passes(<<c1>>) => ~c1[1])
<1>1. <<c1>> \in Seq({c1}) /\ 1 \in DOMAIN <<c1>> /\ <<c1>>[1] = c1
  OBVIOUS
<1> QED BY <1>1 DEF Passes

LEMMA PassesTwo ==
  ASSUME NEW c1, NEW c2
  PROVE  <<c1, c2>> \in Seq({c1, c2}) /\ (Passes(<<c1, c2>>) => ~c1[1] /\ ~c2[1])
<1> DEFINE s == <<c1, c2>>
<1>1. s \in Seq({c1, c2}) /\ 1 \in DOMAIN s /\ 2 \in DOMAIN s /\ s[1] = c1 /\ s[2] = c2
  OBVIOUS
<1> HIDE DEF s
<1>2. Passes(s) => ~c1[1] /\ ~c2[1]
  BY <1>1 DEF Passes
<1> QED BY <1>1, <1>2 DEF s

LEMMA PassesThree ==
  ASSUME NEW c1, NEW c2, NEW c3
  PROVE  /\ <<c1, c2, c3>> \in Seq({c1, c2, c3})
         /\ Passes(<<c1, c2, c3>>) => ~c1[1] /\ ~c2[1] /\ ~c3[1]
<1> DEFINE s == <<c1, c2, c3>>
<1>1. /\ s \in Seq({c1, c2, c3}) /\ 1 \in DOMAIN s /\ 2 \in DOMAIN s /\ 3 \in DOMAIN s
      /\ s[1] = c1 /\ s[2] = c2 /\ s[3] = c3
  OBVIOUS
<1> HIDE DEF s
<1>2. Passes(s) => ~c1[1] /\ ~c2[1] /\ ~c3[1]
  BY <1>1 DEF Passes
<1> QED BY <1>1, <1>2 DEF s

LEMMA DestPasses ==
  ASSUME NEW dest, NEW dmax, NEW max
  PROVE  \E x : /\ DestChecks(dest, dmax, max) \in Seq(x)
                /\ Passes(DestChecks(dest, dmax, max)) => dest # NULL /\ dmax # 0
<1> DEFINE c1 == <<dest = NULL, ESNULLP, FALSE>>
           c2 == <<dmax = 0, ESZEROL, FALSE>>
           c3 == <<dmax > max, ESLEMAX, FALSE>>
<1>1. (c1[1] <=> dest = NULL) /\ (c2[1] <=> dmax = 0)
  OBVIOUS
<1>2. DestChecks(dest, dmax, max) = <<c1, c2, c3>>
  BY DEF DestChecks
<1> HIDE DEF c1, c2, c3
<1>3. <<c1, c2, c3>> \in Seq({c1, c2, c3}) /\ (Passes(<<c1, c2, c3>>) => ~c1[1] /\ ~c2[1])
  BY PassesThree
<1> DEFINE x == {c1, c2, c3}
           checks == DestChecks(dest, dmax, max)
<1>4. checks \in Seq(x) /\ (Passes(checks) => dest # NULL /\ dmax # 0)
  BY <1>1, <1>2, <1>3
<1> HIDE DEF x, checks
<1>5. \E y : checks \in Seq(y) /\ (Passes(checks) => dest # NULL /\ dmax # 0)
  BY <1>4
<1> QED BY <1>5 DEF checks

LEMMA SourcePasses ==
  ASSUME NEW dest, NEW dmax, NEW src
  PROVE  LET checks == StrDestChecks(dest, dmax) \o NullSrcCheck(src)
         IN  \E x : checks \in Seq(x) /\ (Passes(checks) => dest # NULL /\ dmax # 0 /\ src # NULL)
<1> DEFINE s == StrDestChecks(dest, dmax)
           c == <<src = NULL, ESNULLP, TRUE>>
           t == NullSrcCheck(src)
<1>1. PICK x : s \in Seq(x) /\ (Passes(s) => dest # NULL /\ dmax # 0)
  BY DestPasses DEF StrDestChecks
<1>2. c[1] <=> src = NULL
  OBVIOUS
<1>3. t = <<c>>
  BY DEF NullSrcCheck
<1> HIDE DEF s, c, t
<1>4. t \in Seq({c}) /\ (Passes(t) => src # NULL)
  BY <1>2, <1>3, PassesOne
<1>5. s \o t \in Seq(x \cup {c}) /\ (Passes(s \o t) => Passes(s) /\ Passes(t))
  BY <1>1, <1>4, PassesBoth
<1>6. \E y : s \o t \in Seq(y) /\ (Passes(s \o t) => dest # NULL /\ dmax # 0 /\ src # NULL)
  BY <1>1, <1>4, <1>5
<1> QED BY <1>6 DEF s, t

LEMMA LengthPasses ==
  ASSUME NEW dest, NEW dmax, NEW src, NEW slen, Passes(LengthChecks(dest, dmax, src, slen))
  PROVE  dest # NULL /\ dmax # 0 /\ src # NULL /\ slen # 0
<1> DEFINE s == StrDestChecks(dest, dmax) \o NullSrcCheck(src)
           c1 == <<slen = 0, ESZEROL, TRUE>>
           c2 == <<slen > RSIZE_MAX_STR, ESLEMAX, TRUE>>
<1>1. PICK x : s \in Seq(x) /\ (Passes(s) => dest # NULL /\ dmax # 0 /\ src # NULL)
  BY SourcePasses
<1>2. c1[1] <=> slen = 0
  OBVIOUS
<1>3. Passes(s \o <<c1, c2>>)
  BY DEF LengthChecks
<1> HIDE DEF s, c1, c2
<1>4. <<c1, c2>> \in Seq({c1, c2}) /\ (Passes(<<c1, c2>>) => ~c1[1])
  BY PassesTwo
<1>5. Passes(s) /\ Passes(<<c1, c2>>)
  BY <1>1, <1>3, <1>4, PassesBoth
<1> QED BY <1>1, <1>2, <1>4, <1>5

LEMMA FieldPasses ==
  ASSUME NEW dest, NEW dmax, NEW src, NEW slen, Passes(FieldChecks(dest, dmax, src, slen))
  PROVE  dest # NULL /\ dmax # 0 /\ src # NULL /\ slen # 0 /\ ~(slen > dmax)
<1> DEFINE s == StrDestChecks(dest, dmax) \o NullSrcCheck(src)
           c1 == <<slen = 0, ESZEROL, TRUE>>
           c2 == <<slen > dmax, ESLEMAX, TRUE>>
<1>1. PICK x : s \in Seq(x) /\ (Passes(s) => dest # NULL /\ dmax # 0 /\ src # NULL)
  BY SourcePasses
<1>2. (c1[1] <=> slen = 0) /\ (c2[1] <=> slen > dmax)
  OBVIOUS
<1>3. Passes(s \o <<c1, c2>>)
  BY DEF FieldChecks
<1> HIDE DEF s, c1, c2
<1>4. <<c1, c2>> \in Seq({c1, c2}) /\ (Passes(<<c1, c2>>) => ~c1[1] /\ ~c2[1])
  BY PassesTwo
<1>5. Passes(s) /\ Passes(<<c1, c2>>)
  BY <1>1, <1>3, <1>4, PassesBoth
<1> QED BY <1>1, <1>2, <1>4, <1>5

LEMMA CopyPasses ==
  ASSUME NEW dest, NEW dmax, NEW src, NEW smax, NEW max
  PROVE  LET checks == CopyChecks(dest, dmax, src, smax, max)
             Sound == dest # NULL /\ dmax # 0 /\ smax # 0 /\ ~(smax > dmax) /\ src # NULL
         IN  /\ Passes(checks) => Sound
             /\ Passes(checks \o OverlapCheck(dest, dmax, src, smax)) => Sound
<1> DEFINE s == DestChecks(dest, dmax, max)
           c1 == <<smax = 0, ESZEROL, TRUE>>
           c2 == <<smax > dmax, ESLEMAX, TRUE>>
           c3 == <<src = NULL, ESNULLP, TRUE>>
           c4 == <<Overlap(dest, dmax, src, smax), ESOVRLP, TRUE>>
           checks == CopyChecks(dest, dmax, src, smax, max)
           last == OverlapCheck(dest, dmax, src, smax)
           Sound == dest # NULL /\ dmax # 0 /\ smax # 0 /\ ~(smax > dmax) /\ src # NULL
<1>1. PICK x : s \in Seq(x) /\ (Passes(s) => dest # NULL /\ dmax # 0)
  BY DestPasses
<1>2. (c1[1] <=> smax = 0) /\ (c2[1] <=> smax > dmax) /\ (c3[1] <=> src = NULL)
  OBVIOUS
<1>3. checks = s \o <<c1, c2, c3>> /\ last = <<c4>>
  BY DEF CopyChecks, OverlapCheck
<1> HIDE DEF s, c1, c2, c3, c4, checks, last
<1>4. /\ <<c1, c2, c3>> \in Seq({c1, c2, c3})
      /\ Passes(<<c1, c2, c3>>) => ~c1[1] /\ ~c2[1] /\ ~c3[1]
  BY PassesThree
<1>5. PICK y : checks \in Seq(y) /\ (Passes(checks) => Passes(s) /\ Passes(<<c1, c2, c3>>))
  BY <1>1, <1>3, <1>4, PassesBoth
<1>6. Passes(checks) => Sound
  BY <1>1, <1>2, <1>4, <1>5
<1>7. last \in Seq({c4})
  BY <1>3, PassesOne
<1>8. Passes(checks \o last) => Passes(checks)
  BY <1>5, <1>7, PassesBoth
<1> QED BY <1>6, <1>8 DEF checks, last

LEMMA CatPasses ==
  ASSUME NEW dest, NEW dmax, NEW src, NEW slen, Passes(CatChecks(dest, dmax, src, slen))
  PROVE  dest # NULL /\ src # NULL /\ dmax # 0
<1> DEFINE c1 == <<dest = NULL, ESNULLP, FALSE>>
           c2 == <<src = NULL, ESNULLP, FALSE>>
           c3 == <<slen > RSIZE_MAX_STR, ESLEMAX, FALSE>>
           c4 == <<dmax = 0, ESZEROL, FALSE>>
           c5 == <<dmax > RSIZE_MAX_STR, ESLEMAX, FALSE>>
           checks == <<c1, c2, c3, c4, c5>>
<1>1. (c1[1] <=> dest = NULL) /\ (c2[1] <=> src = NULL) /\ (c4[1] <=> dmax = 0)
  OBVIOUS
<1>2. Passes(checks)
  BY DEF CatChecks
<1> HIDE DEF c1, c2, c3, c4, c5
<1>3. /\ 1 \in DOMAIN checks /\ 2 \in DOMAIN checks /\ 4 \in DOMAIN checks
      /\ checks[1] = c1 /\ checks[2] = c2 /\ checks[4] = c4
  OBVIOUS
<1> HIDE DEF checks
<1>4. ~checks[1][1] /\ ~checks[2][1] /\ ~checks[4][1]
  BY <1>2, <1>3 DEF Passes
<1> QED BY <1>1, <1>3, <1>4

(* What a store, a load and a loop of the string functions change.         *)
LEMMA StaysStored ==
  ASSUME NEW m, NEW cells, NEW k, StaysIn(m, cells, k), DOMAIN k = DOMAIN m,
         NEW p, NEW n, NEW value, p..p + n - 1 \subseteq cells
  PROVE  StaysIn(m, cells, Stored(k, p, n, value)) /\ DOMAIN Stored(k, p, n, value) = DOMAIN m
BY DEF StaysIn, Stored

LEMMA StaysLoaded ==
  ASSUME NEW m, NEW cells, NEW d, NEW s, NEW n, d..d + n - 1 \subseteq cells
  PROVE  StaysIn(m, cells, Loaded(m, d, s, n)) /\ DOMAIN Loaded(m, d, s, n) = DOMAIN m
BY DEF StaysIn, Loaded

LEMMA DoneContained ==
  ASSUME NEW m, NEW dest, NEW dmax, NEW k, StaysIn(m, dest..dest + dmax - 1, k)
  PROVE  Contained(m, dest, dmax, Done(k))
<1>1. Done(k).mem = k /\ Done(k).rc = EOK
  BY DEF Done
<1> QED BY <1>1 DEF Contained

LEMMA ErrorContained ==
  ASSUME NEW m, NEW dest, NEW dmax, NEW code
  PROVE  Contained(m, dest, dmax, handle_error(m, dest, dmax, code))
<1>1. handle_error(m, dest, dmax, code).mem = Stored(m, dest, dmax, 0)
  BY DEF handle_error
<1>2. StaysIn(m, dest..dest + dmax - 1, Stored(m, dest, dmax, 0))
  BY DEF StaysIn, Stored
<1> QED BY <1>1, <1>2 DEF Contained

LEMMA SameContained ==
  ASSUME NEW m, NEW dest, NEW dmax, NEW r, r.mem = m
  PROVE  Contained(m, dest, dmax, r)
BY DEF Contained, StaysIn

(* A text: its last cell is 0.                                             *)
IsText(m) == \E n \in Nat : DOMAIN m = 0..n /\ m[n] = 0

LEMMA TextIs ==
  ASSUME NEW m \in CopyMemories \cup QueryMemories \cup ClassMemories \cup TokenMemories
  PROVE  IsText(m) /\ IsMemory(m) /\ Cardinality(DOMAIN m) \in Nat
         /\ DOMAIN m = 0..Cardinality(DOMAIN m) - 1
<1>1. /\ IsMemory(m) /\ Cardinality(DOMAIN m) \in Nat
      /\ DOMAIN m = 0..Cardinality(DOMAIN m) - 1
  BY MemoryIs
<1>2. DOMAIN m # {} /\ m[Cardinality(DOMAIN m) - 1] = 0
  BY MemoriesAssumption
<1> DEFINE n == Cardinality(DOMAIN m) - 1
<1>3. n \in Nat
  BY <1>1, <1>2
<1>4. DOMAIN m = 0..n /\ m[n] = 0
  BY <1>1, <1>2
<1> HIDE DEF n
<1>5. IsText(m)
  BY <1>3, <1>4 DEF IsText
<1> QED BY <1>1, <1>5

LEMMA LengthIs ==
  ASSUME NEW m, IsText(m), NEW p \in DOMAIN m
  PROVE  LET len == Length(m, p)
         IN  /\ p \in Nat /\ len \in Nat /\ p + len \in DOMAIN m /\ m[p + len] = 0
             /\ \A k \in 0..len - 1 : p + k \in DOMAIN m /\ m[p + k] # 0
<1>1. PICK n \in Nat : DOMAIN m = 0..n /\ m[n] = 0
  BY DEF IsText
<1>2. Max(DOMAIN m) = n
  <2> DEFINE all == DOMAIN m
  <2>1. all \subseteq 0..n /\ all # {} /\ n \in all
    BY <1>1
  <2> HIDE DEF all
  <2>2. Max(all) \in all /\ \A y \in all : Max(all) >= y
    BY <2>1, MaxIs
  <2>3. Max(all) = n
    <3> DEFINE x == Max(all)
    <3>1. x \in 0..n /\ x >= n
      BY <2>1, <2>2
    <3> HIDE DEF x
    <3>2. x = n
      BY <3>1
    <3> QED BY <3>2 DEF x
  <2> QED BY <2>3 DEF all
<1> DEFINE zeros == {i \in 0 .. n - p : m[p + i] = 0}
<1>3. Length(m, p) = Min(zeros)
  BY <1>2 DEF Length
<1>4. p \in 0..n /\ n - p \in zeros
  BY <1>1
<1>5. zeros \subseteq Nat /\ zeros # {}
  BY <1>4
<1>6. Min(zeros) \in zeros /\ \A y \in zeros : Min(zeros) <= y
  <2> HIDE DEF zeros
  <2> QED BY <1>5, MinIs
<1> DEFINE len == Min(zeros)
<1>7. len \in 0..n - p /\ m[p + len] = 0
  BY <1>6
<1>8. ASSUME NEW k \in 0..len - 1 PROVE p + k \in DOMAIN m /\ m[p + k] # 0
  <2>1. len \in Int /\ \A y \in zeros : len <= y
    BY <1>6, <1>7
  <2>2. k \notin zeros
    <3> HIDE DEF len, zeros
    <3> QED BY <2>1
  <2>3. k \in 0..n - p
    <3> HIDE DEF len
    <3> QED BY <1>4, <1>7
  <2> HIDE DEF len
  <2> QED BY <1>1, <1>4, <2>2, <2>3
<1>9. p + len \in DOMAIN m
  <2> HIDE DEF len
  <2> QED BY <1>1, <1>4, <1>7
<1> HIDE DEF len
<1> QED BY <1>3, <1>4, <1>7, <1>8, <1>9 DEF len

LEMMA LeastOfTwo ==
  ASSUME NEW a \in Nat, NEW b \in Nat
  PROVE  Min({a, b}) \in Nat /\ Min({a, b}) \in {a, b} /\ Min({a, b}) <= a /\ Min({a, b}) <= b
<1> DEFINE s == {a, b}
<1>1. s \subseteq Nat /\ s # {} /\ a \in s /\ b \in s
  OBVIOUS
<1> HIDE DEF s
<1>2. Min(s) \in s /\ \A y \in s : Min(s) <= y
  BY <1>1, MinIs
<1> QED BY <1>1, <1>2 DEF s

LEMMA LeastOfThree ==
  ASSUME NEW a \in Nat, NEW b \in Nat, NEW c \in Nat
  PROVE  LET n == Min({a, b, c})
         IN  n \in Nat /\ n \in {a, b, c} /\ n <= a /\ n <= b /\ n <= c
<1> DEFINE s == {a, b, c}
<1>1. s \subseteq Nat /\ s # {} /\ a \in s /\ b \in s /\ c \in s
  OBVIOUS
<1> HIDE DEF s
<1>2. Min(s) \in s /\ \A y \in s : Min(s) <= y
  BY <1>1, MinIs
<1> QED BY <1>1, <1>2 DEF s

LEMMA LeastOfFour ==
  ASSUME NEW a \in Nat, NEW b \in Nat, NEW c \in Nat, NEW d \in Nat
  PROVE  LET n == Min({a, b, c, d})
         IN  n \in Nat /\ n \in {a, b, c, d} /\ n <= a /\ n <= b /\ n <= c /\ n <= d
<1> DEFINE s == {a, b, c, d}
<1>1. s \subseteq Nat /\ s # {} /\ a \in s /\ b \in s /\ c \in s /\ d \in s
  OBVIOUS
<1> HIDE DEF s
<1>2. Min(s) \in s /\ \A y \in s : Min(s) <= y
  BY <1>1, MinIs
<1> QED BY <1>1, <1>2 DEF s

(* n cells copied to `to` and k cells behind them set.                     *)
LEMMA CopiedContained ==
  ASSUME NEW m, NEW dest \in Int, NEW dmax \in Nat, NEW to \in Int, NEW src, NEW n \in Nat,
         NEW k \in Nat, NEW value, dest <= to, to + n + k <= dest + dmax
  PROVE  Contained(m, dest, dmax, Done(Stored(Loaded(m, to, src, n), to + n, k, value)))
<1> DEFINE inside == dest..dest + dmax - 1
<1>1. to..to + n - 1 \subseteq inside /\ to + n .. to + n + k - 1 \subseteq inside
  OBVIOUS
<1> HIDE DEF inside
<1>2. StaysIn(m, inside, Loaded(m, to, src, n)) /\ DOMAIN Loaded(m, to, src, n) = DOMAIN m
  BY <1>1 DEF StaysIn, Loaded
<1>3. StaysIn(m, inside, Stored(Loaded(m, to, src, n), to + n, k, value))
  BY <1>1, <1>2, StaysStored
<1> QED BY <1>3, DoneContained DEF inside

LEMMA CopyLoopContained ==
  ASSUME NEW m, NEW dest \in Int, NEW dmax \in Nat, NEW to \in Int, NEW room \in Nat,
         NEW src \in Int, NEW slen \in Nat, dest <= to, to + room <= dest + dmax,
         Bump(dest, to, src) \in Nat, Length(m, src) \in Nat
  PROVE  Contained(m, dest, dmax, CopyLoop(m, dest, dmax, to, room, src, slen))
<1> DEFINE bump == Bump(dest, to, src)
           len == Length(m, src)
           n == Min({room, bump, slen, len})
           copied == Done(Stored(Loaded(m, to, src, n), to + n, room - n, 0))
<1>1. n \in Nat /\ n <= room
  <2> HIDE DEF bump, len
  <2>1. bump \in Nat /\ len \in Nat
    BY DEF bump, len
  <2> QED BY <2>1, LeastOfFour
<1>2. CopyLoop(m, dest, dmax, to, room, src, slen)
        = IF n = room THEN handle_error(m, dest, dmax, ESNOSPC)
          ELSE IF n = bump THEN handle_error(m, dest, dmax, ESOVRLP)
          ELSE copied
  BY DEF CopyLoop
<1> HIDE DEF n
<1>3. Contained(m, dest, dmax, copied)
  <2>1. room - n \in Nat /\ to + n + (room - n) <= dest + dmax
    BY <1>1
  <2> QED BY <1>1, <2>1, CopiedContained
<1> HIDE DEF copied, bump
<1> QED BY <1>2, <1>3, ErrorContained

LEMMA BumpIs ==
  ASSUME NEW dest \in Int, NEW src \in Int
  PROVE  Bump(dest, dest, src) \in Nat
BY DEF Bump

(* A copy from the beginning of dest.                                      *)
LEMMA CopyContained ==
  ASSUME NEW m, IsText(m), NEW dest \in DOMAIN m, NEW dmax \in Nat, NEW src \in DOMAIN m,
         NEW room \in Nat, room <= dmax, NEW slen \in Nat
  PROVE  Contained(m, dest, dmax, CopyLoop(m, dest, dmax, dest, room, src, slen))
<1>1. dest \in Nat /\ src \in Nat /\ Length(m, src) \in Nat
  BY LengthIs
<1>2. Bump(dest, dest, src) \in Nat
  BY <1>1, BumpIs
<1> QED BY <1>1, <1>2, CopyLoopContained

(* A call on a text: dest and src are in it or NULL.                       *)
OnText(m, dest, dmax, src) ==
  /\ IsText(m) /\ dmax \in Nat
  /\ dest \in DOMAIN m \cup {NULL} /\ src \in DOMAIN m \cup {NULL}

LEMMA PlainContained ==
  ASSUME NEW m, NEW dest, NEW dmax, NEW r, Contained(m, dest, dmax, r)
  PROVE  /\ Contained(m, dest, dmax, Plain(r))
         /\ \A end : Contained(m, dest, dmax, Plain(WithEnd(r, end)))
<1>1. Plain(r).mem = r.mem /\ Plain(r).rc = r.rc
  BY DEF Plain
<1>2. \A end : Plain(WithEnd(r, end)).mem = r.mem /\ Plain(WithEnd(r, end)).rc = r.rc
  BY DEF Plain, WithEnd
<1> QED BY <1>1, <1>2 DEF Contained

LEMMA CopyFunctionsContained ==
  ASSUME NEW m, NEW dest, NEW dmax, NEW src, OnText(m, dest, dmax, src)
  PROVE  /\ Contained(m, dest, dmax, strcpy_s(m, dest, dmax, src))
         /\ Contained(m, dest, dmax, wcscpy_s(m, dest, dmax, src))
         /\ Contained(m, dest, dmax, Plain(stpcpy_s(m, dest, dmax, src)))
<1> DEFINE checks == StrDestChecks(dest, dmax) \o NullSrcCheck(src)
           loop == CopyLoop(m, dest, dmax, dest, dmax, src, RSIZE_MAX_STR)
           len == Length(m, dest)
<1>1. /\ Passes(checks) => dest \in DOMAIN m /\ src \in DOMAIN m
      /\ IsText(m) /\ dmax \in Nat /\ dmax <= dmax /\ RSIZE_MAX_STR \in Nat
  BY SourcePasses, SafeStrAssumption DEF OnText
<1>2. Passes(checks) => Contained(m, dest, dmax, loop)
  <2> HIDE DEF checks, loop
  <2> SUFFICES ASSUME Passes(checks) PROVE Contained(m, dest, dmax, loop)
    OBVIOUS
  <2> QED BY <1>1, CopyContained DEF loop
<1> HIDE DEF loop
<1>3. Contained(m, dest, dmax, strcpy_s(m, dest, dmax, src))
  <2> DEFINE result == IF dest = src THEN Done(m) ELSE loop
  <2>1. Contained(m, dest, dmax, Done(m))
    BY SameContained DEF Done
  <2>2. Passes(checks) => Contained(m, dest, dmax, result)
    BY <1>2, <2>1
  <2>3. strcpy_s(m, dest, dmax, src) = Checked(m, dest, dmax, checks, result)
    BY DEF strcpy_s, loop
  <2> HIDE DEF checks, result
  <2> QED BY <2>2, <2>3, CheckedContained
<1>4. Contained(m, dest, dmax, wcscpy_s(m, dest, dmax, src))
  <2> DEFINE onto == [rc |-> IF Length(m, src) > dmax THEN ESLEMAX ELSE EOK, mem |-> m]
             result == IF dest = src THEN onto ELSE loop
  <2>1. Contained(m, dest, dmax, onto)
    <3>1. onto.mem = m
      OBVIOUS
    <3> HIDE DEF onto
    <3> QED BY <3>1, SameContained
  <2>2. wcscpy_s(m, dest, dmax, src) = Checked(m, dest, dmax, checks, result)
    BY DEF wcscpy_s, loop
  <2> HIDE DEF checks, onto
  <2>3. Passes(checks) => Contained(m, dest, dmax, result)
    BY <1>2, <2>1
  <2> HIDE DEF result
  <2> QED BY <2>2, <2>3, CheckedContained
<1>5. Contained(m, dest, dmax, Plain(stpcpy_s(m, dest, dmax, src)))
  <2> DEFINE cleared == Done(Stored(m, dest + len, dmax - len, 0))
             result == IF dest # src THEN loop
                       ELSE IF len >= dmax THEN handle_error(m, dest, dmax, ESNOSPC)
                       ELSE cleared
  <2>1. stpcpy_s(m, dest, dmax, src) = WithEnd(Checked(m, dest, dmax, checks, result), dest + dmax)
    BY DEF stpcpy_s, loop
  <2>2. ASSUME Passes(checks), ~(len >= dmax) PROVE Contained(m, dest, dmax, cleared)
    <3>1. dest \in Nat /\ len \in Nat
      BY <1>1, <2>2, LengthIs
    <3> HIDE DEF len, checks
    <3>2. dest + len .. dest + len + (dmax - len) - 1 \subseteq dest..dest + dmax - 1
      BY <1>1, <2>2, <3>1
    <3>3. StaysIn(m, dest..dest + dmax - 1, Stored(m, dest + len, dmax - len, 0))
      BY <3>2 DEF StaysIn, Stored
    <3> QED BY <3>3, DoneContained
  <2> HIDE DEF checks, cleared, len
  <2>3. Passes(checks) => Contained(m, dest, dmax, result)
    BY <1>2, <2>2, ErrorContained
  <2> HIDE DEF result
  <2>4. Contained(m, dest, dmax, Checked(m, dest, dmax, checks, result))
    BY <2>3, CheckedContained
  <2> QED BY <2>1, <2>4, PlainContained
<1> QED BY <1>3, <1>4, <1>5

LEMMA LimitedCopiesContained ==
  ASSUME NEW m, NEW dest, NEW dmax, NEW src, OnText(m, dest, dmax, src), NEW slen \in Nat
  PROVE  /\ Contained(m, dest, dmax, strncpy_s(m, dest, dmax, src, slen))
         /\ Contained(m, dest, dmax, wcsncpy_s(m, dest, dmax, src, slen))
<1> DEFINE checks == LengthChecks(dest, dmax, src, slen)
           loop(room) == CopyLoop(m, dest, dmax, dest, room, src, slen)
<1>1. /\ Passes(checks) => dest \in DOMAIN m /\ src \in DOMAIN m /\ dmax # 0
      /\ IsText(m) /\ dmax \in Nat
  BY LengthPasses DEF OnText
<1> HIDE DEF checks
<1>2. ASSUME Passes(checks), NEW room \in Nat, room <= dmax
      PROVE  Contained(m, dest, dmax, loop(room))
  BY <1>1, <1>2, CopyContained
<1> HIDE DEF loop
<1>3. Contained(m, dest, dmax, wcsncpy_s(m, dest, dmax, src, slen))
  <2>1. Passes(checks) => Contained(m, dest, dmax, loop(dmax))
    BY <1>1, <1>2
  <2>2. wcsncpy_s(m, dest, dmax, src, slen) = Checked(m, dest, dmax, checks, loop(dmax))
    BY DEF wcsncpy_s, checks, loop
  <2> QED BY <2>1, <2>2, CheckedContained
<1>4. Contained(m, dest, dmax, strncpy_s(m, dest, dmax, src, slen))
  <2> DEFINE truncating == slen = RSIZE_MAX_STR
             room == IF truncating THEN dmax - 1 ELSE dmax
             cut == Min({room, Bump(dest, dest, src), Length(m, src)})
             short == Done(Stored(Loaded(m, dest, src, room), dest + room, 1, 0))
             result == IF truncating /\ cut = room THEN short ELSE loop(room)
  <2>1. strncpy_s(m, dest, dmax, src, slen) = Checked(m, dest, dmax, checks, result)
    BY DEF strncpy_s, checks, loop
  <2> HIDE DEF cut
  <2>2. ASSUME Passes(checks) PROVE room \in Nat /\ room <= dmax /\ (truncating => room + 1 = dmax)
    BY <1>1, <2>2
  <2>3. ASSUME Passes(checks), truncating PROVE Contained(m, dest, dmax, short)
    <3>1. dest \in Int /\ room \in Nat /\ dest + room + 1 <= dest + dmax /\ dest <= dest
      <4>1. dest \in Nat
        BY <1>1, <2>3, LengthIs
      <4> QED BY <1>1, <2>2, <2>3, <4>1
    <3> HIDE DEF room, truncating
    <3> QED BY <1>1, <3>1, CopiedContained
  <2> HIDE DEF room, short, truncating
  <2>4. Passes(checks) => Contained(m, dest, dmax, result)
    BY <1>2, <2>2, <2>3
  <2> HIDE DEF result
  <2> QED BY <2>1, <2>4, CheckedContained
<1> QED BY <1>3, <1>4

LEMMA AppendContained ==
  ASSUME NEW m, NEW dest, NEW dmax, NEW src, OnText(m, dest, dmax, src), NEW slen \in Nat
  PROVE  Contained(m, dest, dmax, Append_s(m, dest, dmax, src, slen))
<1> DEFINE checks == CatChecks(dest, dmax, src, slen)
           end == Length(m, dest)
           bump == IF dest < src THEN src - dest ELSE dmax
           n == Min({end, bump, dmax - 1})
           loop == CopyLoop(m, dest, dmax, dest + end, dmax - end, src, slen)
           result == IF n = end THEN loop
                     ELSE handle_error(m, dest, dmax, IF n = bump THEN ESOVRLP ELSE ESUNTERM)
<1>1. /\ Passes(checks) => dest \in DOMAIN m /\ src \in DOMAIN m /\ dmax # 0
      /\ IsText(m) /\ dmax \in Nat
  BY CatPasses DEF OnText
<1>2. Append_s(m, dest, dmax, src, slen) = Checked(m, dest, dmax, checks, result)
  BY DEF Append_s
<1> HIDE DEF checks
<1>3. ASSUME Passes(checks), n = end PROVE Contained(m, dest, dmax, loop)
  <2>1. dest \in Nat /\ src \in Nat /\ end \in Nat /\ Length(m, src) \in Nat
    BY <1>1, <1>3, LengthIs
  <2>2. bump \in Nat /\ dmax - 1 \in Nat
    BY <1>1, <1>3, <2>1
  <2> HIDE DEF end, bump
  <2>3. end <= bump /\ end <= dmax - 1
    BY <1>3, <2>1, <2>2, LeastOfThree
  <2>4. Bump(dest, dest + end, src) \in Nat
    BY <2>1, <2>3 DEF Bump, bump
  <2>5. /\ dest + end \in Int /\ dmax - end \in Nat /\ dest <= dest + end
        /\ dest + end + (dmax - end) <= dest + dmax
    BY <1>1, <2>1, <2>2, <2>3
  <2> QED BY <1>1, <2>1, <2>4, <2>5, CopyLoopContained
<1> HIDE DEF n, loop, bump, end
<1>4. Passes(checks) => Contained(m, dest, dmax, result)
  BY <1>3, ErrorContained
<1> HIDE DEF result
<1> QED BY <1>2, <1>4, CheckedContained

(* The functions on fields of fixed width.                                 *)
LEMMA FieldsContained ==
  ASSUME NEW m, NEW dest, NEW dmax, NEW src, OnText(m, dest, dmax, src), NEW slen \in Nat
  PROVE  /\ Contained(m, dest, dmax, strcpyfld_s(m, dest, dmax, src, slen))
         /\ Contained(m, dest, dmax, strcpyfldin_s(m, dest, dmax, src, slen))
         /\ Contained(m, dest, dmax, strcpyfldout_s(m, dest, dmax, src, slen))
<1> DEFINE checks == FieldChecks(dest, dmax, src, slen)
           loop(count) == FieldLoop(m, dest, dmax, src, count)
<1>1. /\ Passes(checks) => dest \in DOMAIN m /\ src \in DOMAIN m /\ dmax # 0 /\ slen <= dmax
      /\ IsText(m) /\ dmax \in Nat
  BY FieldPasses DEF OnText
<1> HIDE DEF checks
<1>2. ASSUME Passes(checks), NEW count \in Nat, count <= dmax
      PROVE  Contained(m, dest, dmax, loop(count))
  <2> DEFINE copied == Done(Stored(Loaded(m, dest, src, count), dest + count, dmax - count, 0))
  <2>1. dest \in Int
    BY <1>1, <1>2, LengthIs
  <2>2. dmax - count \in Nat /\ dest + count + (dmax - count) <= dest + dmax /\ dest <= dest
    BY <1>1, <1>2, <2>1
  <2>3. Contained(m, dest, dmax, copied)
    BY <1>1, <2>1, <2>2, CopiedContained
  <2> HIDE DEF copied
  <2> QED BY <2>3, ErrorContained DEF FieldLoop, copied
<1>3. ASSUME Passes(checks) PROVE Length(m, src) \in Nat /\ dest \in Nat /\ src \in Nat
  BY <1>1, <1>3, LengthIs
<1> HIDE DEF loop
<1>4. Contained(m, dest, dmax, strcpyfld_s(m, dest, dmax, src, slen))
  <2>1. Passes(checks) => Contained(m, dest, dmax, loop(slen))
    BY <1>1, <1>2
  <2>2. strcpyfld_s(m, dest, dmax, src, slen) = Checked(m, dest, dmax, checks, loop(slen))
    BY DEF strcpyfld_s, checks, loop
  <2> QED BY <2>1, <2>2, CheckedContained
<1>5. Contained(m, dest, dmax, strcpyfldin_s(m, dest, dmax, src, slen))
  <2> DEFINE len == Length(m, src)
             ends == IF dest > src /\ dest - src = len THEN len + 1 ELSE len
             count == Min({dmax, ends})
  <2>1. Passes(checks) => ends \in Nat
    BY <1>3
  <2>2. strcpyfldin_s(m, dest, dmax, src, slen) = Checked(m, dest, dmax, checks, loop(count))
    BY DEF strcpyfldin_s, checks, loop
  <2> HIDE DEF ends
  <2>3. Passes(checks) => count \in Nat /\ count <= dmax
    BY <1>1, <2>1, LeastOfTwo
  <2> HIDE DEF count
  <2>4. Passes(checks) => Contained(m, dest, dmax, loop(count))
    BY <1>2, <2>3
  <2> QED BY <2>2, <2>4, CheckedContained
<1>6. Contained(m, dest, dmax, strcpyfldout_s(m, dest, dmax, src, slen))
  <2> DEFINE count == Min({dmax - 1, slen})
  <2>1. strcpyfldout_s(m, dest, dmax, src, slen) = Checked(m, dest, dmax, checks, loop(count))
    BY DEF strcpyfldout_s, checks, loop
  <2>2. Passes(checks) => count \in Nat /\ count <= dmax
    <3> SUFFICES ASSUME Passes(checks) PROVE count \in Nat /\ count <= dmax
      OBVIOUS
    <3>1. dmax - 1 \in Nat
      BY <1>1
    <3>2. count \in Nat /\ count <= dmax - 1
      BY <3>1, LeastOfTwo
    <3> HIDE DEF count
    <3> QED BY <1>1, <3>2
  <2> HIDE DEF count
  <2>3. Passes(checks) => Contained(m, dest, dmax, loop(count))
    BY <1>2, <2>2
  <2> QED BY <2>1, <2>3, CheckedContained
<1> QED BY <1>4, <1>5, <1>6

(* The functions that edit a string in place.                              *)
LEMMA LeadingIs ==
  ASSUME NEW m, IsText(m), NEW p \in DOMAIN m
  PROVE  /\ Leading(m, p) \in 0..Length(m, p) /\ m[p + Leading(m, p)] \notin Blank
         /\ \A k \in 0..Leading(m, p) - 1 : m[p + k] \in Blank
<1> DEFINE len == Length(m, p)
           s == {i \in 0 .. len : m[p + i] \notin Blank}
<1>1. len \in Nat /\ m[p + len] = 0
  BY LengthIs
<1>2. len \in s /\ s \subseteq Nat /\ s # {}
  <2>1. 0 \notin Blank
    BY DEF Blank
  <2> HIDE DEF len
  <2> QED BY <1>1, <2>1
<1>3. Leading(m, p) = Min(s)
  BY DEF Leading
<1> DEFINE lead == Min(s)
<1>4. lead \in s /\ \A y \in s : lead <= y
  <2> HIDE DEF s
  <2> QED BY <1>2, MinIs
<1> HIDE DEF lead, len
<1>5. lead \in 0..len /\ m[p + lead] \notin Blank
  BY <1>4
<1>6. ASSUME NEW k \in 0..lead - 1 PROVE m[p + k] \in Blank
  <2>1. k \in 0..len /\ ~(lead <= k)
    BY <1>1, <1>5
  <2> QED BY <1>4, <2>1
<1> QED BY <1>3, <1>5, <1>6 DEF len, lead

LEMMA MaxOfTwo ==
  ASSUME NEW a \in Nat, NEW b \in Nat
  PROVE  Max({a, b}) \in {a, b} /\ Max({a, b}) >= a /\ Max({a, b}) >= b
<1> DEFINE s == {a, b}
           top == a + b
<1>1. s \subseteq 0..top /\ s # {} /\ a \in s /\ b \in s /\ top \in Nat
  OBVIOUS
<1> HIDE DEF s, top
<1>2. Max(s) \in s /\ \A y \in s : Max(s) >= y
  BY <1>1, MaxIs
<1> QED BY <1>1, <1>2 DEF s

(* ShiftLeft changes the string only, and puts its first character that is  *)
(* not blank first.                                                        *)
LEMMA ShiftLeftIs ==
  ASSUME NEW m, IsText(m), NEW dest \in DOMAIN m
  PROVE  LET len == Length(m, dest)
             lead == Leading(m, dest)
         IN  /\ StaysIn(m, dest..dest + len - 1, ShiftLeft(m, dest))
             /\ DOMAIN ShiftLeft(m, dest) = DOMAIN m
             /\ lead < len => ShiftLeft(m, dest)[dest] \notin Blank
<1> DEFINE len == Length(m, dest)
           lead == Leading(m, dest)
           free == Max({lead, len - lead})
           moved == Loaded(m, dest, dest + lead, len - lead)
           inside == dest..dest + len - 1
<1>1. dest \in Nat /\ len \in Nat /\ lead \in 0..len /\ m[dest + lead] \notin Blank
  BY LengthIs, LeadingIs
<1>2. ShiftLeft(m, dest) = IF lead \in {0, len} THEN m
                           ELSE Stored(moved, dest + free, len - free, 32)
  BY DEF ShiftLeft
<1> HIDE DEF len, lead
<1>3. CASE lead \in {0, len}
  <2>1. lead < len => m[dest] \notin Blank
    BY <1>1, <1>3
  <2> QED BY <1>2, <1>3, <2>1 DEF StaysIn, len, lead
<1>4. CASE lead \notin {0, len}
  <2>1. free \in {lead, len - lead} /\ free >= lead /\ free >= len - lead
    BY <1>1, <1>4, MaxOfTwo
  <2> HIDE DEF free
  <2>2. free \in 1..len - 1
    BY <1>1, <1>4, <2>1
  <2>3. dest..dest + (len - lead) - 1 \subseteq inside /\ dest + free .. dest + free + (len - free) - 1 \subseteq inside
    BY <1>1, <2>2
  <2>4. moved[dest] = m[dest + lead] /\ DOMAIN moved = DOMAIN m /\ StaysIn(m, inside, moved)
    <3>1. dest \in dest..dest + (len - lead) - 1 /\ dest + lead + (dest - dest) = dest + lead
      BY <1>1, <1>4
    <3> HIDE DEF inside
    <3> QED BY <2>3, <3>1 DEF Loaded, StaysIn
  <2> HIDE DEF moved
  <2>5. Stored(moved, dest + free, len - free, 32)[dest] = moved[dest]
    <3>1. dest \notin dest + free .. dest + free + (len - free) - 1
      BY <1>1, <2>2
    <3> QED BY <2>4, <3>1 DEF Stored
  <2>6. /\ StaysIn(m, inside, Stored(moved, dest + free, len - free, 32))
        /\ DOMAIN Stored(moved, dest + free, len - free, 32) = DOMAIN m
    <3> HIDE DEF inside
    <3> QED BY <2>3, <2>4 DEF StaysIn, Stored
  <2> QED BY <1>1, <1>2, <1>4, <2>4, <2>5, <2>6 DEF len, lead
<1> QED BY <1>3, <1>4

LEMMA TrimmedContained ==
  ASSUME NEW m, NEW dest, NEW dmax, NEW result, IsText(m), dmax \in Nat, dest \in DOMAIN m \cup {NULL},
         dest \in DOMAIN m /\ Length(m, dest) <= dmax => Contained(m, dest, dmax, result)
  PROVE  Contained(m, dest, dmax, Trimmed(m, dest, dmax, result))
<1> DEFINE checks == StrDestChecks(dest, dmax)
           first == Done(Stored(m, dest, 1, 0))
           inner == IF m[dest] = 0 \/ dmax <= RSIZE_MIN_STR THEN first
                    ELSE IF Length(m, dest) > dmax THEN handle_error(m, dest, dmax, ESUNTERM)
                    ELSE result
<1>1. Trimmed(m, dest, dmax, result) = Checked(m, dest, dmax, checks, inner)
  BY DEF Trimmed
<1>2. Passes(checks) => dest # NULL /\ dmax # 0
  BY DestPasses DEF StrDestChecks
<1> HIDE DEF checks
<1>3. ASSUME Passes(checks) PROVE Contained(m, dest, dmax, inner)
  <2>1. dest \in DOMAIN m /\ dmax # 0
    BY <1>2, <1>3
  <2>2. dest \in Nat /\ Length(m, dest) \in Nat
    BY <2>1, LengthIs
  <2>3. Contained(m, dest, dmax, first)
    <3>1. dest..dest + 1 - 1 \subseteq dest..dest + dmax - 1
      BY <2>1, <2>2
    <3>2. StaysIn(m, dest..dest + dmax - 1, Stored(m, dest, 1, 0))
      BY <3>1 DEF StaysIn, Stored
    <3> QED BY <3>2, DoneContained
  <2>4. CASE Length(m, dest) <= dmax
    <3>1. ~(Length(m, dest) > dmax)
      BY <2>2, <2>4
    <3> HIDE DEF first
    <3> QED BY <2>1, <2>3, <2>4, <3>1
  <2>5. CASE ~(Length(m, dest) <= dmax)
    <3>1. Length(m, dest) > dmax
      BY <2>2, <2>5
    <3> HIDE DEF first
    <3> QED BY <2>3, <3>1, ErrorContained
  <2> QED BY <2>4, <2>5
<1> HIDE DEF inner
<1> QED BY <1>1, <1>3, CheckedContained

LEMMA EditsContained ==
  ASSUME NEW m, NEW dest, NEW dmax, IsText(m), dmax \in Nat, dest \in DOMAIN m \cup {NULL}
  PROVE  /\ Contained(m, dest, dmax, strzero_s(m, dest, dmax))
         /\ Contained(m, dest, dmax, strtolowercase_s(m, dest, dmax))
         /\ Contained(m, dest, dmax, strtouppercase_s(m, dest, dmax))
         /\ Contained(m, dest, dmax, strljustify_s(m, dest, dmax))
         /\ Contained(m, dest, dmax, [rc |-> EOK, mem |-> strnterminate_s(m, dest, dmax).mem])
<1> DEFINE checks == StrDestChecks(dest, dmax)
           inside == dest..dest + dmax - 1
           len == Length(m, dest)
<1>1. Passes(checks) => dest \in DOMAIN m /\ dmax # 0
  BY DestPasses DEF StrDestChecks
<1>2. ASSUME dest # NULL PROVE dest \in DOMAIN m /\ dest \in Nat /\ len \in Nat
  BY <1>2, LengthIs
<1>3. Contained(m, dest, dmax, strzero_s(m, dest, dmax))
  <2>1. StaysIn(m, inside, Stored(m, dest, dmax, 0))
    BY DEF StaysIn, Stored
  <2> DEFINE result == Done(Stored(m, dest, dmax, 0))
  <2>2. Contained(m, dest, dmax, result)
    BY <2>1, DoneContained
  <2> HIDE DEF result, checks
  <2> QED BY <2>2, CheckedContained DEF strzero_s, result, checks
<1>4. ASSUME NEW letters, NEW by
      PROVE  Contained(m, dest, dmax, Checked(m, dest, dmax, checks, Done(Mapped(m, dest, dmax, letters, by))))
  <2> DEFINE n == Min({dmax, len})
             result == Done(Mapped(m, dest, dmax, letters, by))
  <2>1. ASSUME Passes(checks) PROVE Contained(m, dest, dmax, result)
    <3>1. n \in Nat /\ n <= dmax /\ dest \in Nat
      <4>1. len \in Nat /\ dest \in Nat
        BY <1>1, <2>1, LengthIs
      <4> HIDE DEF len
      <4> QED BY <4>1, LeastOfTwo
    <3>2. Mapped(m, dest, dmax, letters, by)
            = [a \in DOMAIN m |-> IF a \in dest .. dest + n - 1 /\ m[a] \in letters
                                  THEN m[a] + by ELSE m[a]]
      BY DEF Mapped
    <3> HIDE DEF n
    <3>3. dest..dest + n - 1 \subseteq inside
      BY <3>1
    <3> HIDE DEF inside
    <3>4. StaysIn(m, inside, Mapped(m, dest, dmax, letters, by))
      BY <3>2, <3>3 DEF StaysIn
    <3> QED BY <3>4, DoneContained DEF inside
  <2> HIDE DEF result, checks
  <2> QED BY <2>1, CheckedContained DEF result
<1>5. Contained(m, dest, dmax, strtolowercase_s(m, dest, dmax))
  BY <1>4 DEF strtolowercase_s
<1>6. Contained(m, dest, dmax, strtouppercase_s(m, dest, dmax))
  <2>1. strtouppercase_s(m, dest, dmax)
          = Checked(m, dest, dmax, checks, Done(Mapped(m, dest, dmax, Lower, -32)))
    BY DEF strtouppercase_s
  <2> HIDE DEF checks
  <2> QED BY <1>4, <2>1
<1>7. Contained(m, dest, dmax, [rc |-> EOK, mem |-> strnterminate_s(m, dest, dmax).mem])
  <2> DEFINE n == Min({dmax - 1, len})
             r == strnterminate_s(m, dest, dmax)
             answer == [rc |-> EOK, mem |-> r.mem]
  <2>1. answer.rc = EOK /\ answer.mem = r.mem
    OBVIOUS
  <2>2. CASE dest = NULL \/ dmax = 0 \/ dmax > RSIZE_MAX_STR
    <3>1. r.mem = m
      BY <2>2 DEF strnterminate_s
    <3> HIDE DEF answer, r
    <3>2. Contained(m, dest, dmax, answer)
      BY <2>1, <3>1, SameContained
    <3> QED BY <3>2 DEF answer, r
  <2>3. CASE ~(dest = NULL \/ dmax = 0 \/ dmax > RSIZE_MAX_STR)
    <3>1. r.mem = Stored(m, dest + n, 1, 0)
      BY <2>3 DEF strnterminate_s
    <3>2. n \in Nat /\ n <= dmax - 1 /\ dest \in Nat
      <4>1. len \in Nat /\ dest \in Nat /\ dmax - 1 \in Nat
        BY <1>2, <2>3
      <4> HIDE DEF len
      <4> QED BY <4>1, LeastOfTwo
    <3> HIDE DEF n, r
    <3>3. dest + n .. dest + n + 1 - 1 \subseteq inside
      BY <3>2
    <3> HIDE DEF inside
    <3>4. StaysIn(m, inside, r.mem)
      BY <3>1, <3>3 DEF StaysIn, Stored
    <3> HIDE DEF answer
    <3> QED BY <2>1, <3>4 DEF Contained, inside, answer, r
  <2> QED BY <2>2, <2>3
<1>8. Contained(m, dest, dmax, strljustify_s(m, dest, dmax))
  <2> DEFINE lead == Leading(m, dest)
             shifted == ShiftLeft(m, dest)
             left == IF lead \in {0, len} THEN m ELSE Stored(shifted, dest + len - lead, 1, 0)
  <2>1. strljustify_s(m, dest, dmax) = Trimmed(m, dest, dmax, Done(left))
    BY DEF strljustify_s
  <2>2. ASSUME dest \in DOMAIN m, len <= dmax PROVE StaysIn(m, inside, left)
    <3>1. dest \in Nat /\ len \in Nat /\ lead \in 0..len
      BY <2>2, LengthIs, LeadingIs
    <3>2. StaysIn(m, dest..dest + len - 1, shifted) /\ DOMAIN shifted = DOMAIN m
      BY <2>2, ShiftLeftIs
    <3> HIDE DEF shifted, len, lead
    <3>3. dest..dest + len - 1 \subseteq inside
      BY <2>2, <3>1
    <3>4. CASE lead \in {0, len}
      BY <3>4 DEF StaysIn
    <3>5. CASE lead \notin {0, len}
      <4>1. dest + len - lead .. dest + len - lead + 1 - 1 \subseteq inside
        BY <2>2, <3>1, <3>5
      <4> HIDE DEF inside
      <4>2. StaysIn(m, inside, Stored(shifted, dest + len - lead, 1, 0))
        BY <3>2, <3>3, <4>1 DEF StaysIn, Stored
      <4> QED BY <3>5, <4>2
    <3> QED BY <3>4, <3>5
  <2> HIDE DEF left, inside
  <2>3. dest \in DOMAIN m /\ len <= dmax => Contained(m, dest, dmax, Done(left))
    BY <2>2, DoneContained DEF inside
  <2> QED BY <2>1, <2>3, TrimmedContained
<1> QED BY <1>3, <1>5, <1>6, <1>7, <1>8

(* strremovews_s on a string that is not all blank.                        *)
LEMMA RemoveContained ==
  ASSUME NEW m, NEW dest \in DOMAIN m, NEW dmax \in Nat, IsText(m),
         Leading(m, dest) < Length(m, dest)
  PROVE  Contained(m, dest, dmax, strremovews_s(m, dest, dmax))
<1> DEFINE len == Length(m, dest)
           shifted == ShiftLeft(m, dest)
           kept == {a \in 0 .. dest + len - 1 : shifted[a] \notin Blank}
           from == IF kept = {} THEN 0 ELSE Max(kept) + 1
           inside == dest..dest + dmax - 1
           both == Stored(shifted, from, dest + len - from, 0)
<1>1. dest \in Nat /\ len \in Nat /\ Leading(m, dest) \in 0..len
  BY LengthIs, LeadingIs
<1>2. /\ StaysIn(m, dest..dest + len - 1, shifted) /\ DOMAIN shifted = DOMAIN m
      /\ shifted[dest] \notin Blank
  BY ShiftLeftIs
<1>3. strremovews_s(m, dest, dmax) = Trimmed(m, dest, dmax, Done(both))
  BY DEF strremovews_s
<1> HIDE DEF shifted
<1>4. dest \in kept /\ len > 0
  <2> HIDE DEF len
  <2>1. len > 0
    BY <1>1 DEF len
  <2> QED BY <1>1, <1>2, <2>1
<1>5. from \in dest + 1 .. dest + len
  <2> DEFINE top == dest + len - 1
  <2>1. kept \subseteq 0..top /\ kept # {} /\ top \in Nat
    <3> HIDE DEF len
    <3> QED BY <1>1, <1>4
  <2> HIDE DEF top
  <2>2. Max(kept) \in kept /\ \A y \in kept : Max(kept) >= y
    <3> HIDE DEF kept
    <3> QED BY <2>1, MaxIs
  <2> DEFINE most == Max(kept)
  <2>3. most \in 0..top /\ most >= dest /\ from = most + 1
    BY <1>4, <2>1, <2>2
  <2> HIDE DEF most, from, len
  <2> QED BY <1>1, <2>3 DEF top
<1> HIDE DEF kept, from
<1>6. ASSUME len <= dmax PROVE StaysIn(m, inside, both)
  <2> HIDE DEF len
  <2>1. from .. from + (dest + len - from) - 1 \subseteq inside /\ dest..dest + len - 1 \subseteq inside
    BY <1>1, <1>5, <1>6
  <2> HIDE DEF inside
  <2> QED BY <1>2, <2>1 DEF StaysIn, Stored, len
<1> HIDE DEF both, inside
<1>7. dest \in DOMAIN m /\ len <= dmax => Contained(m, dest, dmax, Done(both))
  BY <1>6, DoneContained DEF inside
<1> QED BY <1>3, <1>7, TrimmedContained

(* The memory functions of a call.                                         *)
LEMMA MovesContained ==
  ASSUME family = "mem", ArgsIn(MoveMemories), Readable(L)
  PROVE  \A r \in MemCopies \cup MemMoves : Contained(mem, D, N, r)
<1> DEFINE moves == {mem_prim_move(mem, D, S, L), mem_prim_move8(mem, D, S, L),
                     mem_prim_move16(mem, D, S, L), mem_prim_move32(mem, D, S, L),
                     WideMoved(mem, D, S, L)}
           checks(max) == CopyChecks(D, N, S, L, max)
           last == OverlapCheck(D, N, S, L)
           Sound == D # NULL /\ N # 0 /\ L # 0 /\ ~(L > N) /\ S # NULL
<1>1. N \in Nat /\ L \in Nat /\ D \in Int
  <2>1. /\ Cardinality(DOMAIN mem) \in Nat /\ DOMAIN mem = 0..Cardinality(DOMAIN mem) - 1
    BY MemoryIs DEF ArgsIn
  <2> QED BY <2>1 DEF ArgsIn, NULL
<1>2. Sound => D..D + L - 1 \subseteq D..D + N - 1
  <2> DEFINE d == D
             n == N
             l == L
  <2>1. n \in Nat /\ l \in Nat /\ d \in Int
    BY <1>1
  <2> HIDE DEF d, n, l
  <2>2. ~(l > n) => d..d + l - 1 \subseteq d..d + n - 1
    BY <2>1
  <2> QED BY <2>2 DEF d, n, l
<1>3. ASSUME Sound, NEW move \in moves PROVE Contained(mem, D, N, Done(move))
  <2>1. L > 0 /\ L <= N
    BY <1>1, <1>3
  <2>2. Moving
    BY <1>3, <2>1 DEF Moving
  <2>3. move = Loaded(mem, D, S, L)
    BY <2>2, MoveHolds DEF MoveIsSimultaneous
  <2>4. StaysIn(mem, D..D + N - 1, move)
    BY <1>2, <1>3, <2>3, StaysLoaded
  <2> HIDE DEF moves
  <2> QED BY <2>4, DoneContained
<1>4. ASSUME NEW max, NEW move \in moves
      PROVE  /\ Contained(mem, D, N, Checked(mem, D, N, checks(max), Done(move)))
             /\ Contained(mem, D, N, Checked(mem, D, N, checks(max) \o last, Done(move)))
  <2>1. Passes(checks(max)) => Sound
    BY CopyPasses
  <2>2. Passes(checks(max) \o last) => Sound
    BY CopyPasses
  <2> DEFINE shorter == checks(max)
             longer == checks(max) \o last
             result == Done(move)
  <2>3. (Passes(shorter) => Contained(mem, D, N, result)) /\ (Passes(longer) => Contained(mem, D, N, result))
    BY <1>3, <2>1, <2>2
  <2> HIDE DEF shorter, longer, result
  <2>4. /\ Contained(mem, D, N, Checked(mem, D, N, shorter, result))
        /\ Contained(mem, D, N, Checked(mem, D, N, longer, result))
    BY <2>3, CheckedContained
  <2> QED BY <2>4 DEF shorter, longer, result
<1>5. ASSUME NEW r \in MemCopies PROVE Contained(mem, D, N, r)
  BY <1>4 DEF MemCopies, memcpy_s, memcpy16_s, memcpy32_s, wmemcpy_s
<1>6. ASSUME NEW r \in MemMoves PROVE Contained(mem, D, N, r)
  BY <1>4 DEF MemMoves, memmove_s, memmove16_s, memmove32_s, wmemmove_s
<1> QED BY <1>5, <1>6

LEMMA SetsContained ==
  ASSUME ArgsIn(MoveMemories)
  PROVE  \A r \in MemSets : Contained(mem, D, N, r)
<1>1. DOMAIN mem \subseteq Int /\ D \in Int /\ N \in Nat
  <2>1. /\ Cardinality(DOMAIN mem) \in Nat /\ DOMAIN mem = 0..Cardinality(DOMAIN mem) - 1
    BY MemoryIs DEF ArgsIn
  <2> QED BY <2>1 DEF ArgsIn, NULL
<1>2. ASSUME NEW value
      PROVE  /\ mem_prim_set(mem, D, N, value) = Stored(mem, D, N, value)
             /\ mem_prim_set16(mem, D, N, value) = Stored(mem, D, N, value)
             /\ mem_prim_set32(mem, D, N, value) = Stored(mem, D, N, value)
  <2>1. Stores(N) = N
    BY <1>1, StoresAll
  <2> QED BY <1>1, <2>1, SetIsStored DEF mem_prim_set16, mem_prim_set32
<1>3. ASSUME NEW max, NEW value
      PROVE  Contained(mem, D, N, Checked(mem, D, N, DestChecks(D, N, max), Done(Stored(mem, D, N, value))))
  <2>1. StaysIn(mem, D..D + N - 1, Stored(mem, D, N, value))
    BY DEF StaysIn, Stored
  <2> QED BY <2>1, DoneContained, CheckedContained
<1>4. ASSUME NEW r \in MemSets PROVE Contained(mem, D, N, r)
  <2>1. \E max, value : r = Checked(mem, D, N, DestChecks(D, N, max), Done(Stored(mem, D, N, value)))
    BY <1>2 DEF MemSets, memset_s, memset16_s, memset32_s, wmemset_s, memzero_s, memzero16_s, memzero32_s
  <2> QED BY <1>3, <2>1
<1> QED BY <1>4

(* The string functions of a call.                                         *)
LEMMA CopiesContained ==
  ASSUME ArgsIn(CopyMemories)
  PROVE  /\ \A r \in Fields : Contained(mem, D, N, r)
         /\ D # NULL /\ S # NULL => \A c \in StrCopies : Contained(mem, D, N, c.r)
         /\ Contained(mem, D, N, Plain(strcpy_s(mem, D, N, S)))
         /\ Contained(mem, D, N, Plain(strncat_s(mem, D, N, S, L)))
<1>1. OnText(mem, D, N, S) /\ L \in Nat /\ RSIZE_MAX_STR \in Nat
  BY TextIs, SafeStrAssumption DEF OnText, ArgsIn
<1>2. \A r \in Fields : Contained(mem, D, N, r)
  BY <1>1, FieldsContained DEF Fields
<1>3. /\ Contained(mem, D, N, Plain(strcpy_s(mem, D, N, S)))
      /\ Contained(mem, D, N, Plain(wcscpy_s(mem, D, N, S)))
      /\ Contained(mem, D, N, Plain(stpcpy_s(mem, D, N, S)))
      /\ Contained(mem, D, N, Plain(wcpcpy_s(mem, D, N, S)))
  BY <1>1, CopyFunctionsContained, PlainContained DEF wcpcpy_s
<1>4. /\ Contained(mem, D, N, Plain(strncpy_s(mem, D, N, S, L)))
      /\ Contained(mem, D, N, Plain(wcsncpy_s(mem, D, N, S, L)))
  BY <1>1, LimitedCopiesContained, PlainContained
<1>5. /\ Contained(mem, D, N, Plain(strcat_s(mem, D, N, S)))
      /\ Contained(mem, D, N, Plain(wcscat_s(mem, D, N, S)))
      /\ Contained(mem, D, N, Plain(strncat_s(mem, D, N, S, L)))
      /\ Contained(mem, D, N, Plain(wcsncat_s(mem, D, N, S, L)))
  BY <1>1, AppendContained, PlainContained DEF strcat_s, wcscat_s, strncat_s, wcsncat_s
<1>6. ASSUME NEW c \in StrCopies PROVE Contained(mem, D, N, c.r)
  <2>1. PICK r, text, taken :
          /\ c = [r |-> Plain(r), text |-> text, taken |-> taken]
          /\ Contained(mem, D, N, Plain(r))
    BY <1>3, <1>4, <1>5 DEF StrCopies
  <2> QED BY <2>1
<1> QED BY <1>2, <1>3, <1>5, <1>6

LEMMA WrittenContained ==
  ASSUME CallsInv
  PROVE  \A r \in Written : Contained(mem, D, N, r)
<1>1. CASE family = "mem"
  <2>1. ArgsIn(MoveMemories)
    BY <1>1 DEF CallsInv
  <2> QED BY <1>1, <2>1, MovesContained, SetsContained DEF Written
<1>2. CASE family = "class"
  <2>1. IsText(mem) /\ N \in Nat /\ D \in DOMAIN mem \cup {NULL}
    BY <1>2, TextIs DEF CallsInv, ArgsIn
  <2> QED BY <1>2, <2>1, EditsContained DEF Written, Edits
<1>3. CASE family = "copy"
  <2>1. ArgsIn(CopyMemories)
    BY <1>3 DEF CallsInv
  <2> QED BY <1>3, <2>1, CopiesContained DEF Written
<1>4. CASE family \notin {"mem", "class", "copy"}
  BY <1>4 DEF Written
<1> QED BY <1>1, <1>2, <1>3, <1>4

(* stpncpy_s, as far as its fill does not run away.                        *)
LEMMA BoundedCopyContained ==
  ASSUME NEW m, NEW dest, NEW dmax, NEW src, OnText(m, dest, dmax, src), NEW smax \in Nat
  PROVE  LET r == stpncpy_s(m, dest, dmax, src, smax)
         IN  /\ dest = NULL \/ src = NULL \/ ~FillRunsAway(m, dest, src, smax)
                  => StaysIn(m, dest..dest + dmax - 1 \cup {dest}, r.mem)
             /\ \/ r.rc # EOK => r.mem \in {m, Stored(m, dest, dmax, 0)}
                \/ r.mem = Stored(m, dest, 1, 0)
<1> DEFINE Near(n) == \/ src < dest /\ src + n >= dest
                      \/ dest < src /\ dest + n >= src
           conditions == << dest = NULL, src = NULL, dmax = 0, dmax > RSIZE_MAX_STR,
                            smax # RSIZE_MAX_STR /\ dmax < smax + 1,
                            (smax # RSIZE_MAX_STR /\ Near(smax)) \/ Near(dmax), TRUE >>
           hit == {i \in 1..7 : conditions[i]}
           code == Min(hit)
           first == \/ code \in {2, 5}
                    \/ code = 6 /\ smax # RSIZE_MAX_STR /\ Near(smax)
           n == IF dest = src /\ smax = 0 THEN Length(m, dest)
                ELSE Min({Length(m, src), smax})
           away == FillRunsAway(m, dest, src, smax)
           to == IF away THEN Max(DOMAIN m) + 1 ELSE dest + dmax
           kept == IF first THEN Stored(m, dest, 1, 0) ELSE m
           refused == [rc |-> <<ESNULLP, ESNULLP, ESZEROL, ESLEMAX, ESNOSPC, ESOVRLP>>[code],
                       mem |-> kept, ret |-> NULL]
           full == [rc |-> ESNOSPC, mem |-> Stored(m, dest, dmax, 0), ret |-> NULL]
           all == Stored(Loaded(m, dest, src, n), dest + n, to - (dest + n), 0)
           copied == [rc |-> EOK, ret |-> dest + n, mem |-> all]
           inside == dest..dest + dmax - 1
           r == stpncpy_s(m, dest, dmax, src, smax)
<1>1. r = IF code < 7 THEN refused ELSE IF n >= dmax THEN full ELSE copied
  BY DEF stpncpy_s
<1>2. (conditions[1] <=> dest = NULL) /\ (conditions[2] <=> src = NULL) /\ conditions[7]
  OBVIOUS
<1> HIDE DEF conditions
<1>3. hit \subseteq Nat /\ 7 \in hit /\ (dest = NULL => 1 \in hit) /\ (src = NULL => 2 \in hit)
  BY <1>2
<1> HIDE DEF hit
<1>4. code \in hit /\ \A y \in hit : code <= y
  BY <1>3, MinIs
<1>5. code \in Nat /\ code <= 7 /\ (dest = NULL => code <= 1) /\ (src = NULL => code <= 2)
  BY <1>3, <1>4
<1>6. dest \in Int /\ dmax \in Nat
  BY DEF OnText, IsText, NULL
<1> HIDE DEF code, first, n, to, away
<1>7. /\ refused.mem = kept /\ kept \in {m, Stored(m, dest, 1, 0)}
      /\ full.mem = Stored(m, dest, dmax, 0) /\ copied.mem = all /\ copied.rc = EOK
  OBVIOUS
<1>8. /\ StaysIn(m, inside \cup {dest}, m)
      /\ StaysIn(m, inside \cup {dest}, Stored(m, dest, 1, 0))
      /\ StaysIn(m, inside \cup {dest}, Stored(m, dest, dmax, 0))
  <2>1. dest..dest + 1 - 1 \subseteq {dest}
    BY <1>6
  <2> HIDE DEF inside
  <2>2. StaysIn(m, inside \cup {dest}, Stored(m, dest, 1, 0))
    BY <2>1 DEF StaysIn, Stored
  <2>3. StaysIn(m, inside \cup {dest}, Stored(m, dest, dmax, 0))
    BY DEF StaysIn, Stored, inside
  <2> QED BY <2>2, <2>3 DEF StaysIn
<1>9. ASSUME ~(code < 7), ~(n >= dmax), ~away
      PROVE  StaysIn(m, inside \cup {dest}, all)
  <2>1. dest # NULL /\ src # NULL
    BY <1>5, <1>9
  <2>2. Length(m, dest) \in Nat /\ Length(m, src) \in Nat
    BY <2>1, LengthIs DEF OnText
  <2>3. n \in Nat
    BY <2>2, LeastOfTwo DEF n
  <2>4. n < dmax
    BY <1>6, <1>9, <2>3
  <2>5. to - (dest + n) = dmax - n
    BY <1>6, <1>9, <2>3 DEF to
  <2> DEFINE rest == to - (dest + n)
             begun == Loaded(m, dest, src, n)
  <2>6. dest..dest + n - 1 \subseteq inside /\ dest + n .. dest + n + rest - 1 \subseteq inside
    <3> HIDE DEF rest
    <3>1. rest = dmax - n
      BY <2>5 DEF rest
    <3> QED BY <1>6, <2>3, <2>4, <3>1
  <2> HIDE DEF rest, inside
  <2>7. StaysIn(m, inside, begun) /\ DOMAIN begun = DOMAIN m
    BY <2>6, StaysLoaded
  <2> HIDE DEF begun
  <2>8. StaysIn(m, inside, Stored(begun, dest + n, rest, 0))
    BY <2>6, <2>7, StaysStored
  <2>9. Stored(begun, dest + n, rest, 0) = all
    BY DEF begun, rest
  <2> QED BY <2>8, <2>9 DEF StaysIn
<1> HIDE DEF refused, full, copied, kept, all, inside, r
<1>10. CASE code < 7
  BY <1>1, <1>7, <1>8, <1>10 DEF r, inside
<1>11. CASE ~(code < 7) /\ n >= dmax
  BY <1>1, <1>7, <1>8, <1>11 DEF r, inside
<1>12. CASE ~(code < 7) /\ ~(n >= dmax)
  <2>1. dest # NULL /\ src # NULL
    BY <1>5, <1>12
  <2>2. r.mem = all /\ r.rc = EOK
    BY <1>1, <1>7, <1>12
  <2> QED BY <1>9, <1>12, <2>1, <2>2 DEF r, inside, away
<1> QED BY <1>10, <1>11, <1>12

(* A string with a character to keep has a blank only before it.           *)
LEMMA KeepsOne ==
  ASSUME NEW m, IsText(m), NEW p \in DOMAIN m, NotBlank(Text(m, p)) # {}
  PROVE  Leading(m, p) < Length(m, p)
<1> DEFINE len == Length(m, p)
           lead == Leading(m, p)
           text == Text(m, p)
<1>1. len \in Nat /\ p \in Nat
  BY LengthIs
<1>2. lead \in 0..len /\ \A k \in 0..lead - 1 : m[p + k] \in Blank
  BY LeadingIs
<1>3. DOMAIN text = 1..len /\ \A k \in 1..len : text[k] = m[p + k - 1]
  BY DEF Text
<1> HIDE DEF len, lead, text
<1>4. PICK k \in 1..len : text[k] \notin Blank
  BY <1>3 DEF NotBlank, text
<1>5. m[p + (k - 1)] \notin Blank /\ k - 1 \in 0..len - 1
  <2>1. p + k - 1 = p + (k - 1)
    BY <1>1
  <2> QED BY <1>1, <1>3, <1>4, <2>1
<1>6. ~(k - 1 \in 0..lead - 1)
  BY <1>2, <1>5
<1>7. lead < len
  BY <1>1, <1>2, <1>5, <1>6
<1> QED BY <1>7 DEF len, lead

(* Where a call that fails clears the whole of dest: its checks do so if they *)
(* hold, and its algorithm if it ends with an error.                         *)
Clears(m, dest, dmax, r) == r.rc # EOK => r.mem = Stored(m, dest, dmax, 0)
Clearing(checks) ==
  /\ \E x : checks \in Seq(x)
  /\ \A n \in DOMAIN checks : checks[n][1] => checks[n][3]

LEMMA CheckedClears ==
  ASSUME NEW m, NEW dest, NEW dmax, NEW checks, NEW result,
         Clearing(checks), Clears(m, dest, dmax, result)
  PROVE  Clears(m, dest, dmax, Checked(m, dest, dmax, checks, result))
<1> DEFINE hit == {n \in DOMAIN checks : checks[n][1]}
           c == checks[Min(hit)]
           failed == [rc |-> c[2], mem |-> IF c[3] THEN Stored(m, dest, dmax, 0) ELSE m]
<1>1. Checked(m, dest, dmax, checks, result) = IF hit = {} THEN result ELSE failed
  BY DEF Checked
<1>2. hit \subseteq Nat
  <2>1. PICK x : checks \in Seq(x)
    BY DEF Clearing
  <2> QED BY <2>1
<1>3. hit # {} => c[3]
  <2> SUFFICES ASSUME hit # {} PROVE c[3]
    OBVIOUS
  <2> HIDE DEF hit
  <2>1. Min(hit) \in hit
    BY <1>2, MinIs
  <2>2. Min(hit) \in DOMAIN checks /\ checks[Min(hit)][1]
    BY <2>1 DEF hit
  <2> QED BY <2>2 DEF Clearing
<1>4. failed.mem = IF c[3] THEN Stored(m, dest, dmax, 0) ELSE m
  OBVIOUS
<1> HIDE DEF hit, c, failed
<1>5. hit # {} => Clears(m, dest, dmax, failed)
  BY <1>3, <1>4 DEF Clears
<1> QED BY <1>1, <1>5

LEMMA ClearingBoth ==
  ASSUME NEW s, NEW t, Clearing(s), Clearing(t)
  PROVE  Clearing(s \o t)
<1>1. PICK x : s \in Seq(x)
  BY DEF Clearing
<1>2. PICK y : t \in Seq(y)
  BY DEF Clearing
<1> DEFINE all == x \cup y
           both == s \o t
<1>3. s \in Seq(all) /\ t \in Seq(all)
  BY <1>1, <1>2
<1> HIDE DEF all, both
<1>4. /\ both \in Seq(all) /\ Len(both) = Len(s) + Len(t)
      /\ \A n \in 1..Len(s) + Len(t) :
           both[n] = IF n <= Len(s) THEN s[n] ELSE t[n - Len(s)]
  BY <1>3, ConcatProperties DEF both
<1>5. /\ DOMAIN s = 1..Len(s) /\ DOMAIN t = 1..Len(t) /\ Len(s) \in Nat /\ Len(t) \in Nat
      /\ DOMAIN both = 1..Len(s) + Len(t)
  BY <1>3, <1>4
<1>6. ASSUME NEW n \in DOMAIN both, both[n][1] PROVE both[n][3]
  <2>1. CASE n <= Len(s)
    <3>1. n \in DOMAIN s /\ both[n] = s[n]
      BY <1>4, <1>5, <1>6, <2>1
    <3> QED BY <1>6, <3>1 DEF Clearing
  <2>2. CASE ~(n <= Len(s))
    <3>1. n - Len(s) \in DOMAIN t /\ both[n] = t[n - Len(s)]
      BY <1>4, <1>5, <1>6, <2>2
    <3> QED BY <1>6, <3>1 DEF Clearing
  <2> QED BY <2>1, <2>2
<1>7. Clearing(both)
  BY <1>4, <1>6 DEF Clearing
<1> QED BY <1>7 DEF both

LEMMA ClearingOne ==
  ASSUME NEW c, c[1] => c[3]
  PROVE  Clearing(<<c>>)
<1> DEFINE s == <<c>>
<1>1. s \in Seq({c}) /\ \A n \in DOMAIN s : s[n] = c
  OBVIOUS
<1> HIDE DEF s
<1>2. Clearing(s)
  BY <1>1 DEF Clearing
<1> QED BY <1>2 DEF s

LEMMA ClearingTwo ==
  ASSUME NEW c1, NEW c2, c1[1] => c1[3], c2[1] => c2[3]
  PROVE  Clearing(<<c1, c2>>)
<1> DEFINE s == <<c1, c2>>
<1>1. s \in Seq({c1, c2}) /\ \A n \in DOMAIN s : s[n] \in {c1, c2}
  OBVIOUS
<1> HIDE DEF s
<1>2. Clearing(s)
  BY <1>1 DEF Clearing
<1> QED BY <1>2 DEF s

LEMMA ClearingThree ==
  ASSUME NEW c1, NEW c2, NEW c3, c1[1] => c1[3], c2[1] => c2[3], c3[1] => c3[3]
  PROVE  Clearing(<<c1, c2, c3>>)
<1> DEFINE s == <<c1, c2, c3>>
<1>1. s \in Seq({c1, c2, c3}) /\ \A n \in DOMAIN s : s[n] \in {c1, c2, c3}
  OBVIOUS
<1> HIDE DEF s
<1>2. Clearing(s)
  BY <1>1 DEF Clearing
<1> QED BY <1>2 DEF s

(* A dest that has room and is not too large.                              *)
Roomy(dest, dmax, max) == dest # NULL /\ dmax # 0 /\ ~(dmax > max)

LEMMA DestClears ==
  ASSUME NEW dest, NEW dmax, NEW max, Roomy(dest, dmax, max)
  PROVE  Clearing(DestChecks(dest, dmax, max))
<1> DEFINE c1 == <<dest = NULL, ESNULLP, FALSE>>
           c2 == <<dmax = 0, ESZEROL, FALSE>>
           c3 == <<dmax > max, ESLEMAX, FALSE>>
<1>1. (c1[1] <=> dest = NULL) /\ (c2[1] <=> dmax = 0) /\ (c3[1] <=> dmax > max)
  OBVIOUS
<1>2. DestChecks(dest, dmax, max) = <<c1, c2, c3>>
  BY DEF DestChecks
<1> HIDE DEF c1, c2, c3
<1>3. ~c1[1] /\ ~c2[1] /\ ~c3[1]
  BY <1>1 DEF Roomy
<1> QED BY <1>2, <1>3, ClearingThree

LEMMA SourceClears ==
  ASSUME NEW dest, NEW dmax, NEW src, Roomy(dest, dmax, RSIZE_MAX_STR)
  PROVE  Clearing(StrDestChecks(dest, dmax) \o NullSrcCheck(src))
<1> DEFINE c == <<src = NULL, ESNULLP, TRUE>>
<1>1. c[3] /\ NullSrcCheck(src) = <<c>>
  BY DEF NullSrcCheck
<1> HIDE DEF c
<1>2. Clearing(NullSrcCheck(src))
  BY <1>1, ClearingOne
<1>3. Clearing(StrDestChecks(dest, dmax))
  BY DestClears DEF StrDestChecks
<1> QED BY <1>2, <1>3, ClearingBoth

LEMMA LengthClears ==
  ASSUME NEW dest, NEW dmax, NEW src, NEW slen, Roomy(dest, dmax, RSIZE_MAX_STR)
  PROVE  Clearing(LengthChecks(dest, dmax, src, slen)) /\ Clearing(FieldChecks(dest, dmax, src, slen))
<1> DEFINE s == StrDestChecks(dest, dmax) \o NullSrcCheck(src)
           c1 == <<slen = 0, ESZEROL, TRUE>>
           c2 == <<slen > RSIZE_MAX_STR, ESLEMAX, TRUE>>
           c3 == <<slen > dmax, ESLEMAX, TRUE>>
<1>1. c1[3] /\ c2[3] /\ c3[3]
  OBVIOUS
<1>2. /\ LengthChecks(dest, dmax, src, slen) = s \o <<c1, c2>>
      /\ FieldChecks(dest, dmax, src, slen) = s \o <<c1, c3>>
  BY DEF LengthChecks, FieldChecks
<1>3. Clearing(s)
  BY SourceClears
<1> HIDE DEF s, c1, c2, c3
<1>4. Clearing(<<c1, c2>>) /\ Clearing(<<c1, c3>>)
  BY <1>1, ClearingTwo
<1> QED BY <1>2, <1>3, <1>4, ClearingBoth

LEMMA CopyClears ==
  ASSUME NEW dest, NEW dmax, NEW src, NEW smax, NEW max, Roomy(dest, dmax, max)
  PROVE  /\ Clearing(CopyChecks(dest, dmax, src, smax, max))
         /\ Clearing(CopyChecks(dest, dmax, src, smax, max) \o OverlapCheck(dest, dmax, src, smax))
<1> DEFINE s == DestChecks(dest, dmax, max)
           c1 == <<smax = 0, ESZEROL, TRUE>>
           c2 == <<smax > dmax, ESLEMAX, TRUE>>
           c3 == <<src = NULL, ESNULLP, TRUE>>
           c4 == <<Overlap(dest, dmax, src, smax), ESOVRLP, TRUE>>
<1>1. c1[3] /\ c2[3] /\ c3[3] /\ c4[3]
  OBVIOUS
<1>2. /\ CopyChecks(dest, dmax, src, smax, max) = s \o <<c1, c2, c3>>
      /\ OverlapCheck(dest, dmax, src, smax) = <<c4>>
  BY DEF CopyChecks, OverlapCheck
<1>3. Clearing(s)
  BY DestClears
<1> HIDE DEF s, c1, c2, c3, c4
<1>4. Clearing(<<c1, c2, c3>>) /\ Clearing(<<c4>>)
  BY <1>1, ClearingThree, ClearingOne
<1>5. Clearing(CopyChecks(dest, dmax, src, smax, max))
  BY <1>2, <1>3, <1>4, ClearingBoth
<1> QED BY <1>2, <1>4, <1>5, ClearingBoth

(* The checks of an append never clear; here none of them holds.           *)
LEMMA CatClears ==
  ASSUME NEW dest, NEW dmax, NEW src, NEW slen, Roomy(dest, dmax, RSIZE_MAX_STR),
         src # NULL, ~(slen > RSIZE_MAX_STR)
  PROVE  Clearing(CatChecks(dest, dmax, src, slen))
<1> DEFINE c1 == <<dest = NULL, ESNULLP, FALSE>>
           c2 == <<src = NULL, ESNULLP, FALSE>>
           c3 == <<slen > RSIZE_MAX_STR, ESLEMAX, FALSE>>
           c4 == <<dmax = 0, ESZEROL, FALSE>>
           c5 == <<dmax > RSIZE_MAX_STR, ESLEMAX, FALSE>>
           all == {c1, c2, c3, c4, c5}
           checks == <<c1, c2, c3, c4, c5>>
<1>1. /\ (c1[1] <=> dest = NULL) /\ (c2[1] <=> src = NULL) /\ (c3[1] <=> slen > RSIZE_MAX_STR)
      /\ (c4[1] <=> dmax = 0) /\ (c5[1] <=> dmax > RSIZE_MAX_STR)
  OBVIOUS
<1>2. CatChecks(dest, dmax, src, slen) = checks
  BY DEF CatChecks
<1> HIDE DEF c1, c2, c3, c4, c5
<1>3. \A c \in all : ~c[1]
  BY <1>1 DEF Roomy
<1>4. checks \in Seq(all) /\ \A n \in DOMAIN checks : checks[n] \in all
  OBVIOUS
<1> HIDE DEF all, checks
<1>5. Clearing(checks)
  BY <1>3, <1>4 DEF Clearing
<1> QED BY <1>2, <1>5

LEMMA DoneClears ==
  ASSUME NEW m, NEW dest, NEW dmax
  PROVE  /\ \A k : Clears(m, dest, dmax, Done(k))
         /\ \A code : Clears(m, dest, dmax, handle_error(m, dest, dmax, code))
BY DEF Clears, Done, handle_error

LEMMA LoopsClear ==
  ASSUME NEW m, NEW dest, NEW dmax, NEW to, NEW room, NEW src, NEW slen
  PROVE  /\ Clears(m, dest, dmax, CopyLoop(m, dest, dmax, to, room, src, slen))
         /\ Clears(m, dest, dmax, FieldLoop(m, dest, dmax, src, slen))
<1> DEFINE n == Min({room, Bump(dest, to, src), slen, Length(m, src)})
           copied == Stored(Loaded(m, to, src, n), to + n, room - n, 0)
           field == Stored(Loaded(m, dest, src, slen), dest + slen, dmax - slen, 0)
<1>1. /\ CopyLoop(m, dest, dmax, to, room, src, slen)
           \in {handle_error(m, dest, dmax, ESNOSPC), handle_error(m, dest, dmax, ESOVRLP), Done(copied)}
      /\ FieldLoop(m, dest, dmax, src, slen) \in {handle_error(m, dest, dmax, ESOVRLP), Done(field)}
  BY DEF CopyLoop, FieldLoop
<1> HIDE DEF copied, field
<1> QED BY <1>1, DoneClears

LEMMA PlainClears ==
  ASSUME NEW m, NEW dest, NEW dmax, NEW r, Clears(m, dest, dmax, r)
  PROVE  /\ Clears(m, dest, dmax, Plain(r))
         /\ \A end : Clears(m, dest, dmax, Plain(WithEnd(r, end)))
<1>1. Plain(r).mem = r.mem /\ Plain(r).rc = r.rc
  BY DEF Plain
<1>2. \A end : Plain(WithEnd(r, end)).mem = r.mem /\ Plain(WithEnd(r, end)).rc = r.rc
  BY DEF Plain, WithEnd
<1> QED BY <1>1, <1>2 DEF Clears

(* The functions of a call, with a dest that has room.                     *)
LEMMA MovesClear ==
  ASSUME family = "mem", ArgsIn(MoveMemories), D # NULL, N > 0, N <= RSIZE_MAX_MEM32
  PROVE  \A r \in MemCopies \cup MemMoves \cup MemSets : Clears(mem, D, N, r)
<1>1. N \in Nat /\ RSIZE_MAX_MEM \in Nat
  BY MemoryIs, SafeMemAssumption DEF ArgsIn
<1>2. /\ Roomy(D, N, RSIZE_MAX_MEM) /\ Roomy(D, N, RSIZE_MAX_MEM16)
      /\ Roomy(D, N, RSIZE_MAX_MEM32)
  <2> DEFINE n == N
  <2>1. n \in Nat /\ n > 0 /\ n <= RSIZE_MAX_MEM \div 4
    BY <1>1 DEF RSIZE_MAX_MEM32
  <2> HIDE DEF n
  <2>2. n # 0 /\ ~(n > RSIZE_MAX_MEM) /\ ~(n > RSIZE_MAX_MEM \div 2) /\ ~(n > RSIZE_MAX_MEM \div 4)
    BY <1>1, <2>1
  <2> QED BY <2>2 DEF n, Roomy, RSIZE_MAX_MEM16, RSIZE_MAX_MEM32
<1> DEFINE maxes == {RSIZE_MAX_MEM, RSIZE_MAX_MEM16, RSIZE_MAX_MEM32}
<1>3. ASSUME NEW max \in maxes, NEW k
      PROVE  LET checks == CopyChecks(D, N, S, L, max)
                 last == OverlapCheck(D, N, S, L)
             IN  /\ Clears(mem, D, N, Checked(mem, D, N, checks, Done(k)))
                 /\ Clears(mem, D, N, Checked(mem, D, N, checks \o last, Done(k)))
                 /\ Clears(mem, D, N, Checked(mem, D, N, DestChecks(D, N, max), Done(k)))
  <2>1. Roomy(D, N, max)
    BY <1>2
  <2>2. Clears(mem, D, N, Done(k))
    BY DoneClears
  <2>3. /\ Clearing(CopyChecks(D, N, S, L, max))
        /\ Clearing(CopyChecks(D, N, S, L, max) \o OverlapCheck(D, N, S, L))
        /\ Clearing(DestChecks(D, N, max))
    BY <2>1, CopyClears, DestClears
  <2> QED BY <2>2, <2>3, CheckedClears
<1>4. RSIZE_MAX_MEM \in maxes /\ RSIZE_MAX_MEM16 \in maxes /\ RSIZE_MAX_MEM32 \in maxes
  OBVIOUS
<1> HIDE DEF maxes
<1>5. \A r \in MemCopies : Clears(mem, D, N, r)
  BY <1>3, <1>4 DEF MemCopies, memcpy_s, memcpy16_s, memcpy32_s, wmemcpy_s
<1>6. \A r \in MemMoves : Clears(mem, D, N, r)
  BY <1>3, <1>4 DEF MemMoves, memmove_s, memmove16_s, memmove32_s, wmemmove_s
<1>7. \A r \in MemSets : Clears(mem, D, N, r)
  BY <1>3, <1>4 DEF MemSets, memset_s, memset16_s, memset32_s, wmemset_s, memzero_s, memzero16_s,
       memzero32_s
<1> QED BY <1>5, <1>6, <1>7

LEMMA EditsClear ==
  ASSUME Roomy(D, N, RSIZE_MAX_STR)
  PROVE  \A r \in Edits : Clears(mem, D, N, r)
<1> DEFINE checks == StrDestChecks(D, N)
<1>1. Clearing(checks)
  BY DestClears DEF StrDestChecks
<1> HIDE DEF checks
<1>2. ASSUME NEW k PROVE Clears(mem, D, N, Checked(mem, D, N, checks, Done(k)))
  BY <1>1, DoneClears, CheckedClears
<1>3. ASSUME NEW k PROVE Clears(mem, D, N, Trimmed(mem, D, N, Done(k)))
  <2> DEFINE result == IF mem[D] = 0 \/ N <= RSIZE_MIN_STR THEN Done(Stored(mem, D, 1, 0))
                       ELSE IF Length(mem, D) > N THEN handle_error(mem, D, N, ESUNTERM)
                       ELSE Done(k)
  <2>1. Clears(mem, D, N, result)
    BY DoneClears
  <2>2. Trimmed(mem, D, N, Done(k)) = Checked(mem, D, N, checks, result)
    BY DEF Trimmed, checks
  <2> HIDE DEF result
  <2> QED BY <1>1, <2>1, <2>2, CheckedClears
<1>4. \A k : Clears(mem, D, N, [rc |-> EOK, mem |-> k])
  BY DEF Clears
<1>5. /\ Clears(mem, D, N, strzero_s(mem, D, N))
      /\ Clears(mem, D, N, strtolowercase_s(mem, D, N))
      /\ Clears(mem, D, N, strtouppercase_s(mem, D, N))
      /\ Clears(mem, D, N, strljustify_s(mem, D, N))
  BY <1>2, <1>3 DEF strzero_s, strtolowercase_s, strtouppercase_s, strljustify_s, checks
<1> QED BY <1>4, <1>5 DEF Edits

LEMMA CopiesClear ==
  ASSUME Roomy(D, N, RSIZE_MAX_STR), ~(L > RSIZE_MAX_STR)
  PROVE  /\ \A r \in Fields : Clears(mem, D, N, r)
         /\ D # S => Clears(mem, D, N, wcscpy_s(mem, D, N, S))
         /\ S # NULL => \A n : ~(n > RSIZE_MAX_STR) => Clears(mem, D, N, Append_s(mem, D, N, S, n))
         /\ Clears(mem, D, N, strcpy_s(mem, D, N, S))
         /\ Clears(mem, D, N, stpcpy_s(mem, D, N, S))
         /\ Clears(mem, D, N, strncpy_s(mem, D, N, S, L))
         /\ Clears(mem, D, N, wcsncpy_s(mem, D, N, S, L))
<1> DEFINE source == StrDestChecks(D, N) \o NullSrcCheck(S)
           length == LengthChecks(D, N, S, L)
           field == FieldChecks(D, N, S, L)
           loop(to, room, slen) == CopyLoop(mem, D, N, to, room, S, slen)
<1>1. Clearing(source) /\ Clearing(length) /\ Clearing(field)
  BY SourceClears, LengthClears
<1>2. \A to, room, slen : Clears(mem, D, N, loop(to, room, slen))
  BY LoopsClear
<1>3. \A slen : Clears(mem, D, N, FieldLoop(mem, D, N, S, slen))
  BY LoopsClear
<1> HIDE DEF source, length, field, loop
<1>4. ASSUME NEW slen PROVE Clears(mem, D, N, Checked(mem, D, N, field, FieldLoop(mem, D, N, S, slen)))
  BY <1>1, <1>3, CheckedClears
<1>5. \A r \in Fields : Clears(mem, D, N, r)
  BY <1>4 DEF Fields, strcpyfld_s, strcpyfldin_s, strcpyfldout_s, field
<1>6. D # S => Clears(mem, D, N, wcscpy_s(mem, D, N, S))
  <2> SUFFICES ASSUME D # S PROVE Clears(mem, D, N, wcscpy_s(mem, D, N, S))
    OBVIOUS
  <2>1. wcscpy_s(mem, D, N, S) = Checked(mem, D, N, source, loop(D, N, RSIZE_MAX_STR))
    BY DEF wcscpy_s, source, loop
  <2> QED BY <1>1, <1>2, <2>1, CheckedClears
<1>7. Clears(mem, D, N, strcpy_s(mem, D, N, S))
  <2> DEFINE result == IF D = S THEN Done(mem) ELSE loop(D, N, RSIZE_MAX_STR)
  <2>1. strcpy_s(mem, D, N, S) = Checked(mem, D, N, source, result)
    BY DEF strcpy_s, source, loop
  <2>2. Clears(mem, D, N, result)
    BY <1>2, DoneClears
  <2> HIDE DEF result
  <2> QED BY <1>1, <2>1, <2>2, CheckedClears
<1>8. Clears(mem, D, N, stpcpy_s(mem, D, N, S))
  <2> DEFINE len == Length(mem, D)
             result == IF D # S THEN loop(D, N, RSIZE_MAX_STR)
                       ELSE IF len >= N THEN handle_error(mem, D, N, ESNOSPC)
                       ELSE Done(Stored(mem, D + len, N - len, 0))
             called == Checked(mem, D, N, source, result)
  <2>1. stpcpy_s(mem, D, N, S) = WithEnd(called, D + N)
    BY DEF stpcpy_s, source, loop
  <2>2. Clears(mem, D, N, result)
    BY <1>2, DoneClears
  <2> HIDE DEF result
  <2>3. Clears(mem, D, N, called)
    BY <1>1, <2>2, CheckedClears
  <2>4. WithEnd(called, D + N).rc = called.rc /\ WithEnd(called, D + N).mem = called.mem
    BY DEF WithEnd
  <2> QED BY <2>1, <2>3, <2>4 DEF Clears
<1>9. Clears(mem, D, N, wcsncpy_s(mem, D, N, S, L))
  <2>1. wcsncpy_s(mem, D, N, S, L) = Checked(mem, D, N, length, loop(D, N, L))
    BY DEF wcsncpy_s, length, loop
  <2> QED BY <1>1, <1>2, <2>1, CheckedClears
<1>10. Clears(mem, D, N, strncpy_s(mem, D, N, S, L))
  <2> DEFINE truncating == L = RSIZE_MAX_STR
             room == IF truncating THEN N - 1 ELSE N
             cut == Min({room, Bump(D, D, S), Length(mem, S)})
             result == IF truncating /\ cut = room
                       THEN Done(Stored(Loaded(mem, D, S, room), D + room, 1, 0))
                       ELSE loop(D, room, L)
  <2>1. strncpy_s(mem, D, N, S, L) = Checked(mem, D, N, length, result)
    BY DEF strncpy_s, length, loop
  <2> HIDE DEF truncating, room, cut
  <2>2. Clears(mem, D, N, result)
    BY <1>2, DoneClears
  <2> HIDE DEF result
  <2> QED BY <1>1, <2>1, <2>2, CheckedClears
<1>11. ASSUME S # NULL, NEW n, ~(n > RSIZE_MAX_STR)
       PROVE  Clears(mem, D, N, Append_s(mem, D, N, S, n))
  <2> DEFINE end == Length(mem, D)
             bump == IF D < S THEN S - D ELSE N
             least == Min({end, bump, N - 1})
             result == IF least = end THEN loop(D + end, N - end, n)
                       ELSE handle_error(mem, D, N, IF least = bump THEN ESOVRLP ELSE ESUNTERM)
             checks == CatChecks(D, N, S, n)
  <2>1. Append_s(mem, D, N, S, n) = Checked(mem, D, N, checks, result)
    BY DEF Append_s, loop
  <2>2. Clearing(checks)
    BY <1>11, CatClears
  <2> HIDE DEF end, bump, least, checks
  <2>3. Clears(mem, D, N, result)
    BY <1>2, DoneClears
  <2> HIDE DEF result
  <2> QED BY <2>1, <2>2, <2>3, CheckedClears
<1> QED BY <1>5, <1>6, <1>7, <1>8, <1>9, <1>10, <1>11

(* The calls that keep dest where they fail.                               *)
LEMMA KeepingKeeps ==
  ASSUME family = "copy"
  PROVE  \A r \in Keeping : r.rc # EOK => r.mem = mem
<1> DEFINE Keeps(r) == r.rc # EOK => r.mem = mem
<1>1. ASSUME S = NULL PROVE Keeps(strncat_s(mem, D, N, S, L))
  <2> DEFINE c1 == <<D = NULL, ESNULLP, FALSE>>
             c2 == <<S = NULL, ESNULLP, FALSE>>
             c3 == <<L > RSIZE_MAX_STR, ESLEMAX, FALSE>>
             c4 == <<N = 0, ESZEROL, FALSE>>
             c5 == <<N > RSIZE_MAX_STR, ESLEMAX, FALSE>>
             all == {c1, c2, c3, c4, c5}
             checks == <<c1, c2, c3, c4, c5>>
             hit == {n \in DOMAIN checks : checks[n][1]}
             c == checks[Min(hit)]
             failed == [rc |-> c[2], mem |-> IF c[3] THEN Stored(mem, D, N, 0) ELSE mem]
  <2>1. CatChecks(D, N, S, L) = checks
    BY DEF CatChecks
  <2>2. ~c1[3] /\ ~c2[3] /\ ~c3[3] /\ ~c4[3] /\ ~c5[3] /\ (c2[1] <=> S = NULL)
    OBVIOUS
  <2> HIDE DEF c1, c2, c3, c4, c5
  <2>3. /\ \A d \in all : ~d[3]
        /\ DOMAIN checks = 1..5 /\ checks[2] = c2 /\ \A n \in DOMAIN checks : checks[n] \in all
    BY <2>2
  <2> HIDE DEF all, checks
  <2>4. 2 \in hit /\ hit \subseteq Nat
    BY <1>1, <2>2, <2>3
  <2>5. \E result : strncat_s(mem, D, N, S, L) = IF hit = {} THEN result ELSE failed
    BY <2>1 DEF strncat_s, Append_s, Checked
  <2>6. hit # {} /\ strncat_s(mem, D, N, S, L) = failed
    BY <2>4, <2>5
  <2>7. c \in all
    <3> HIDE DEF hit
    <3>1. Min(hit) \in hit
      BY <2>4, MinIs
    <3>2. Min(hit) \in DOMAIN checks
      BY <3>1 DEF hit
    <3> QED BY <2>3, <3>2
  <2>8. ~c[3]
    BY <2>3, <2>7
  <2>9. failed.mem = IF c[3] THEN Stored(mem, D, N, 0) ELSE mem
    OBVIOUS
  <2> HIDE DEF c, failed
  <2> QED BY <2>6, <2>8, <2>9
<1>2. ASSUME D = S, D # NULL PROVE Keeps(wcscpy_s(mem, D, N, S))
  <2> DEFINE c1 == <<D = NULL, ESNULLP, FALSE>>
             c2 == <<N = 0, ESZEROL, FALSE>>
             c3 == <<N > RSIZE_MAX_STR, ESLEMAX, FALSE>>
             c4 == <<S = NULL, ESNULLP, TRUE>>
             all == {c1, c2, c3, c4}
             checks == <<c1, c2, c3, c4>>
             hit == {n \in DOMAIN checks : checks[n][1]}
             c == checks[Min(hit)]
             onto == [rc |-> IF Length(mem, S) > N THEN ESLEMAX ELSE EOK, mem |-> mem]
             failed == [rc |-> c[2], mem |-> IF c[3] THEN Stored(mem, D, N, 0) ELSE mem]
  <2>1. StrDestChecks(D, N) \o NullSrcCheck(S) = checks
    <3>1. StrDestChecks(D, N) = <<c1, c2, c3>> /\ NullSrcCheck(S) = <<c4>>
      BY DEF StrDestChecks, DestChecks, NullSrcCheck
    <3> HIDE DEF c1, c2, c3, c4
    <3>2. <<c1, c2, c3>> \o <<c4>> = <<c1, c2, c3, c4>>
      <4> DEFINE s == <<c1, c2, c3>>
                 t == <<c4>>
                 any == {c1, c2, c3, c4}
      <4>1. /\ s \in Seq(any) /\ t \in Seq(any) /\ Len(s) = 3 /\ Len(t) = 1
            /\ s[1] = c1 /\ s[2] = c2 /\ s[3] = c3 /\ t[1] = c4
        OBVIOUS
      <4> HIDE DEF s, t, any
      <4>2. /\ s \o t \in Seq(any) /\ Len(s \o t) = Len(s) + Len(t)
            /\ \A n \in 1..Len(s) + Len(t) :
                 (s \o t)[n] = IF n <= Len(s) THEN s[n] ELSE t[n - Len(s)]
        BY <4>1, ConcatProperties
      <4> DEFINE u == s \o t
                 v == <<c1, c2, c3, c4>>
      <4>3. /\ u \in Seq(any) /\ Len(u) = 4
            /\ u[1] = c1 /\ u[2] = c2 /\ u[3] = c3 /\ u[4] = c4
        BY <4>1, <4>2
      <4>4. /\ v \in Seq(any) /\ Len(v) = 4
            /\ v[1] = c1 /\ v[2] = c2 /\ v[3] = c3 /\ v[4] = c4
        BY DEF any
      <4> HIDE DEF u, v, any
      <4>5. DOMAIN u = 1..4 /\ DOMAIN v = 1..4 /\ \A n \in 1..4 : u[n] = v[n]
        BY <4>3, <4>4
      <4>6. u = [n \in 1..4 |-> u[n]] /\ v = [n \in 1..4 |-> v[n]]
        BY <4>3, <4>4, <4>5
      <4>7. u = v
        BY <4>5, <4>6
      <4> QED BY <4>7 DEF u, v, s, t
    <3> QED BY <3>1, <3>2
  <2>2. ~c1[3] /\ ~c2[3] /\ ~c3[3] /\ (c4[1] <=> S = NULL)
    OBVIOUS
  <2> HIDE DEF c1, c2, c3, c4
  <2>3. \A d \in all : d[1] => ~d[3]
    BY <1>2, <2>2
  <2>4. DOMAIN checks = 1..4 /\ \A n \in DOMAIN checks : checks[n] \in all
    OBVIOUS
  <2> HIDE DEF all, checks
  <2>5. wcscpy_s(mem, D, N, S) = IF hit = {} THEN onto ELSE failed
    BY <1>2, <2>1 DEF wcscpy_s, Checked
  <2>6. onto.mem = mem /\ failed.mem = IF c[3] THEN Stored(mem, D, N, 0) ELSE mem
    OBVIOUS
  <2>7. hit # {} => ~c[3]
    <3> SUFFICES ASSUME hit # {} PROVE ~c[3]
      OBVIOUS
    <3>1. hit \subseteq Nat
      BY <2>4
    <3> HIDE DEF hit
    <3>2. Min(hit) \in hit
      BY <3>1, MinIs
    <3>3. c[1] /\ c \in all
      BY <2>4, <3>2 DEF hit
    <3> QED BY <2>3, <3>3
  <2> HIDE DEF hit, c, onto, failed
  <2> QED BY <2>5, <2>6, <2>7
<1>3. \A r, end : Keeps(r) => Keeps(Plain(r)) /\ Keeps(Plain(WithEnd(r, end)))
  <2> SUFFICES ASSUME NEW r, NEW end, Keeps(r) PROVE Keeps(Plain(r)) /\ Keeps(Plain(WithEnd(r, end)))
    OBVIOUS
  <2>1. Plain(r).mem = r.mem /\ Plain(r).rc = r.rc
    BY DEF Plain
  <2>2. Plain(WithEnd(r, end)).mem = r.mem /\ Plain(WithEnd(r, end)).rc = r.rc
    BY DEF Plain, WithEnd
  <2> QED BY <2>1, <2>2
<1> DEFINE a == strncat_s(mem, D, N, S, L)
           w == wcscpy_s(mem, D, N, S)
<1>4. \E end : wcpcpy_s(mem, D, N, S) = WithEnd(w, end)
  BY DEF wcpcpy_s
<1>5. (S = NULL => Keeps(a)) /\ (D = S /\ D # NULL => Keeps(w))
  BY <1>1, <1>2
<1> HIDE DEF a, w, Keeps
<1>6. \A r \in Keeping : Keeps(r)
  BY <1>3, <1>4, <1>5 DEF Keeping, a, w
<1> QED BY <1>6 DEF Keeps

LEMMA WrittenClears ==
  ASSUME CallsInv, D # NULL, N > 0, family = "mem" => N <= RSIZE_MAX_MEM32
  PROVE  \A r \in Written \ Keeping : Clears(mem, D, N, r)
<1>1. ASSUME family = "mem" PROVE \A r \in Written : Clears(mem, D, N, r)
  <2>1. ArgsIn(MoveMemories)
    BY <1>1 DEF CallsInv
  <2> QED BY <1>1, <2>1, MovesClear DEF Written
<1>2. ASSUME NEW memories \in {CopyMemories, ClassMemories}, ArgsIn(memories)
      PROVE  Roomy(D, N, RSIZE_MAX_STR)
  <2>1. Cardinality(DOMAIN mem) \in Nat /\ Cardinality(DOMAIN mem) <= RSIZE_MAX_STR
    BY <1>2, MemoriesAssumption, MemoryIs DEF ArgsIn
  <2> DEFINE n == N
             card == Cardinality(DOMAIN mem)
  <2>2. n \in 0..card /\ n > 0
    BY <1>2 DEF ArgsIn
  <2> HIDE DEF n, card
  <2>3. n # 0 /\ ~(n > RSIZE_MAX_STR)
    BY <2>1, <2>2, SafeStrAssumption DEF card
  <2> QED BY <2>3 DEF n, Roomy
<1>3. ASSUME family = "class" PROVE \A r \in Written : Clears(mem, D, N, r)
  <2>1. ArgsIn(ClassMemories)
    BY <1>3 DEF CallsInv
  <2>2. Roomy(D, N, RSIZE_MAX_STR)
    BY <1>2, <2>1
  <2> QED BY <1>3, <2>2, EditsClear DEF Written
<1>4. ASSUME family = "copy", NEW r \in Written, r \notin Keeping PROVE Clears(mem, D, N, r)
  <2>1. ArgsIn(CopyMemories) /\ L <= RSIZE_MAX_STR
    BY <1>4 DEF CallsInv
  <2>2. Roomy(D, N, RSIZE_MAX_STR)
    BY <1>2, <2>1
  <2>3. ~(L > RSIZE_MAX_STR) /\ ~(RSIZE_MAX_STR > RSIZE_MAX_STR)
    BY <2>1, SafeStrAssumption DEF ArgsIn
  <2>4. CASE r \in Fields
    BY <2>2, <2>3, <2>4, CopiesClear
  <2>5. CASE S = NULL /\ r \notin Fields
    <3>1. r \in {Plain(strcpy_s(mem, D, N, S)), Plain(strncat_s(mem, D, N, S, L))}
      BY <1>4, <2>5 DEF Written
    <3>2. r = Plain(strcpy_s(mem, D, N, S))
      BY <1>4, <2>5, <3>1 DEF Keeping
    <3> QED BY <2>2, <2>3, <3>2, CopiesClear, PlainClears
  <2>6. CASE S # NULL /\ r \notin Fields
    <3>1. PICK x \in StrCopies : r = x.r
      BY <1>4, <2>6 DEF Written
    <3>2. /\ Clears(mem, D, N, Plain(strcpy_s(mem, D, N, S)))
          /\ Clears(mem, D, N, Plain(stpcpy_s(mem, D, N, S)))
          /\ Clears(mem, D, N, Plain(strncpy_s(mem, D, N, S, L)))
          /\ Clears(mem, D, N, Plain(wcsncpy_s(mem, D, N, S, L)))
      BY <2>2, <2>3, CopiesClear, PlainClears
    <3>3. /\ Clears(mem, D, N, Plain(strcat_s(mem, D, N, S)))
          /\ Clears(mem, D, N, Plain(wcscat_s(mem, D, N, S)))
          /\ Clears(mem, D, N, Plain(strncat_s(mem, D, N, S, L)))
          /\ Clears(mem, D, N, Plain(wcsncat_s(mem, D, N, S, L)))
      BY <2>2, <2>3, <2>6, CopiesClear, PlainClears DEF strcat_s, wcscat_s, strncat_s, wcsncat_s
    <3> DEFINE wide == {Plain(wcscpy_s(mem, D, N, S)), Plain(wcpcpy_s(mem, D, N, S))}
    <3>4. D # S => \A y \in wide : Clears(mem, D, N, y)
      <4> SUFFICES ASSUME D # S PROVE \A y \in wide : Clears(mem, D, N, y)
        OBVIOUS
      <4>1. Clears(mem, D, N, wcscpy_s(mem, D, N, S))
        BY <2>2, <2>3, CopiesClear
      <4> QED BY <4>1, PlainClears DEF wcpcpy_s
    <3>5. r \in wide => D # S
      BY <1>4, <2>6 DEF Keeping
    <3> DEFINE others == {Plain(strcpy_s(mem, D, N, S)), Plain(stpcpy_s(mem, D, N, S)),
                          Plain(strncpy_s(mem, D, N, S, L)), Plain(wcsncpy_s(mem, D, N, S, L)),
                          Plain(strcat_s(mem, D, N, S)), Plain(wcscat_s(mem, D, N, S)),
                          Plain(strncat_s(mem, D, N, S, L)), Plain(wcsncat_s(mem, D, N, S, L))}
    <3>6. r \in wide \cup others
      <4>1. PICK text, taken : \E y \in wide \cup others : x = [r |-> y, text |-> text, taken |-> taken]
        BY <3>1 DEF StrCopies
      <4> HIDE DEF wide, others
      <4> QED BY <3>1, <4>1
    <3>7. \A y \in others : Clears(mem, D, N, y)
      BY <3>2, <3>3
    <3> HIDE DEF wide, others
    <3> QED BY <3>4, <3>5, <3>6, <3>7
  <2> QED BY <2>4, <2>5, <2>6
<1>5. CASE family \notin {"mem", "class", "copy"}
  BY <1>5 DEF Written
<1> QED BY <1>1, <1>3, <1>4, <1>5

LEMMA WritesHold ==
  ASSUME CallsInv
  PROVE  WritesStayInside /\ FailureLeavesNoPart
<1> DEFINE inside == D .. D + N - 1
           part == stpncpy_s(mem, D, N, S, L)
<1>1. \A r \in Written : /\ StaysIn(mem, inside, r.mem)
                         /\ r.rc # EOK => r.mem \in {mem, Stored(mem, D, N, 0)}
  BY WrittenContained DEF Contained
<1>2. ASSUME family = "copy"
      PROVE  /\ D = NULL \/ S = NULL \/ ~FillRunsAway(mem, D, S, L)
                    => StaysIn(mem, inside \cup {D}, part.mem)
             /\ \/ part.rc # EOK => part.mem \in {mem, Stored(mem, D, N, 0)}
                \/ part.mem = Stored(mem, D, 1, 0)
  <2>1. OnText(mem, D, N, S) /\ L \in Nat
    BY <1>2, TextIs DEF CallsInv, OnText, ArgsIn
  <2> QED BY <2>1, BoundedCopyContained
<1>3. ASSUME family = "class", D # NULL, NotBlank(Text(mem, D)) # {}
      PROVE  StaysIn(mem, inside, strremovews_s(mem, D, N).mem)
  <2>1. IsText(mem) /\ N \in Nat /\ D \in DOMAIN mem
    BY <1>3, TextIs DEF CallsInv, ArgsIn
  <2>2. Contained(mem, D, N, strremovews_s(mem, D, N))
    BY <1>3, <2>1, KeepsOne, RemoveContained
  <2> QED BY <2>2 DEF Contained
<1> HIDE DEF part
<1>4. WritesStayInside
  BY <1>1, <1>2, <1>3 DEF WritesStayInside, StaysIn, part
<1>5. D # NULL /\ N > 0 /\ (family = "mem" => N <= RSIZE_MAX_MEM32)
        => \A r \in Written \ Keeping : r.rc # EOK => r.mem = Stored(mem, D, N, 0)
  BY WrittenClears DEF Clears
<1>6. \A r \in Keeping : r.rc # EOK => r.mem = mem
  BY KeepingKeeps DEF Keeping
<1>7. FailureLeavesNoPart
  BY <1>1, <1>2, <1>5, <1>6 DEF FailureLeavesNoPart, part
<1> QED BY <1>4, <1>7

(* The tokenizer.  Between its calls the memory differs from the one before *)
(* the first call in delimiters that became nulls, and ptr and dmax still   *)
(* describe a part of the object.                                          *)
Nulled(orig, size, m) ==
  /\ DOMAIN m = DOMAIN orig
  /\ \A a \in DOMAIN m : m[a] # orig[a] =>
       /\ m[a] = 0 /\ a < size
       /\ orig[a] \in Chars(orig, Delimiters, STRTOK_DELIM_MAX_LEN)
LeftInside(size, dmax, ptr) == ptr # NULL => ptr \in Nat /\ dmax \in Nat /\ ptr + dmax <= size

TokenInv ==
  family \in {"token", "tokend"} =>
    /\ args.orig \in TokenMemories /\ args.size \in 1..Delimiters
    /\ Nulled(args.orig, args.size, mem) /\ LeftInside(args.size, args.dmax, args.ptr)

(* The list of delimiters is the one of the first call.                    *)
LEMMA SameDelimiters ==
  ASSUME NEW orig \in TokenMemories, NEW size \in 1..Delimiters, NEW m, Nulled(orig, size, m)
  PROVE  /\ IsText(m) /\ Delimiters \in DOMAIN m
         /\ Chars(m, Delimiters, STRTOK_DELIM_MAX_LEN) = Chars(orig, Delimiters, STRTOK_DELIM_MAX_LEN)
         /\ Length(m, Delimiters) = Length(orig, Delimiters)
<1> DEFINE max == STRTOK_DELIM_MAX_LEN
           lists == Delimiters
           len == Length(orig, lists)
           used == Min({max, len})
<1>1. IsText(orig) /\ lists \in DOMAIN orig
  BY TextIs, MemoriesAssumption
<1>2. PICK n \in Nat : DOMAIN orig = 0..n /\ orig[n] = 0
  BY <1>1 DEF IsText
<1>3. DOMAIN m = 0..n /\ lists \in 0..n
  BY <1>1, <1>2 DEF Nulled
<1>4. \A a \in lists..n : a \in DOMAIN m /\ ~(a < size)
  BY <1>3
<1>5. \A a \in lists..n : m[a] = orig[a]
  BY <1>4 DEF Nulled
<1>6. IsText(m)
  <2>1. n \in lists..n
    BY <1>3
  <2>2. m[n] = 0
    BY <1>2, <1>5, <2>1
  <2> QED BY <1>3, <2>2 DEF IsText
<1>7. Length(m, lists) = len
  <2> DEFINE all == DOMAIN m
             s(k) == {i \in 0 .. Max(all) - lists : k[lists + i] = 0}
  <2>1. Max(all) = n
    <3>1. n \in all /\ all \subseteq 0..n /\ \A y \in all : y <= n
      BY <1>3
    <3> HIDE DEF all
    <3> DEFINE most == Max(all)
    <3>2. most \in all /\ \A y \in all : most >= y
      BY <3>1, MaxIs
    <3> HIDE DEF most
    <3>3. most \in 0..n /\ most >= n
      BY <3>1, <3>2
    <3>4. most = n
      BY <3>3
    <3> QED BY <3>4 DEF most
  <2>2. \A i \in 0..n - lists : lists + i \in lists..n
    BY <1>3
  <2> HIDE DEF all
  <2>3. s(m) = s(orig)
    BY <1>5, <2>1, <2>2
  <2>4. DOMAIN orig = all
    BY <1>2, <1>3 DEF all
  <2> QED BY <2>3, <2>4 DEF Length, all
<1>8. used \in Nat /\ used <= len /\ len \in Nat /\ lists + len \in 0..n
  <2>1. len \in Nat /\ lists + len \in 0..n
    BY <1>1, <1>2, LengthIs
  <2>2. max \in Nat
    BY SafeStrQueryAssumption
  <2> HIDE DEF len, max
  <2> QED BY <2>1, <2>2, LeastOfTwo
<1>9. /\ Chars(m, lists, max) = {m[a] : a \in lists..lists + used - 1}
      /\ Chars(orig, lists, max) = {orig[a] : a \in lists..lists + used - 1}
  BY <1>7 DEF Chars, Scanned
<1> HIDE DEF used, len
<1>10. lists..lists + used - 1 \subseteq lists..n
  BY <1>3, <1>8
<1>11. Length(m, lists) = Length(orig, lists)
  BY <1>7 DEF len
<1> QED BY <1>1, <1>3, <1>2, <1>5, <1>6, <1>9, <1>10, <1>11

LEMMA TokenContained ==
  ASSUME NEW orig \in TokenMemories, NEW size \in 1..Delimiters, NEW m, Nulled(orig, size, m),
         NEW at \in Nat, NEW dmax \in Nat, at + dmax <= size, NEW ptr \in {NULL, at}
  PROVE  LET r == Token(m, at, dmax, Delimiters, ptr)
         IN  Nulled(orig, size, r.mem) /\ LeftInside(size, r.dmax, r.ptr)
<1> DEFINE len == Length(m, at)
           delims == Chars(m, Delimiters, STRTOK_DELIM_MAX_LEN)
           short == Length(m, Delimiters) <= STRTOK_DELIM_MAX_LEN
           starts == {len} \cup {i \in 0 .. len - 1 : delims # {} /\ m[at + i] \notin delims}
           begin == Min(starts)
           ends == {len} \cup {i \in begin + 1 .. Length(m, at) - 1 : m[at + i] \in delims}
           end == TokenEnd(m, at, begin, delims)
           No(p, left) == [tok |-> NULL, ptr |-> p, dmax |-> left, mem |-> m]
           bad == \/ begin >= dmax /\ len > dmax
                  \/ begin < len /\ ~short
                  \/ begin < len /\ end >= dmax /\ len > dmax
           found == [tok |-> at + begin, ptr |-> at + end + 1, dmax |-> dmax - end - 1,
                     mem |-> Stored(m, at + end, 1, 0)]
           last == [tok |-> at + begin, ptr |-> ptr, dmax |-> dmax - len, mem |-> m]
           Good(r) == Nulled(orig, size, r.mem) /\ LeftInside(size, r.dmax, r.ptr)
<1>1. /\ IsText(m) /\ Delimiters \in DOMAIN m
      /\ delims = Chars(orig, Delimiters, STRTOK_DELIM_MAX_LEN)
  BY SameDelimiters
<1>2. PICK top \in Nat : DOMAIN m = 0..top
  BY <1>1 DEF IsText
<1>3. at \in DOMAIN m /\ size \in Nat
  BY <1>1, <1>2
<1>4. /\ len \in Nat /\ at + len \in DOMAIN m
      /\ \A k \in 0..len - 1 : at + k \in DOMAIN m /\ m[at + k] # 0
  BY <1>1, <1>3, LengthIs
<1>5. Token(m, at, dmax, Delimiters, ptr)
        = IF bad THEN No(NULL, dmax) ELSE IF begin = len THEN No(ptr, dmax - len)
          ELSE IF end < len THEN found ELSE last
  BY DEF Token
<1>6. end = Min(ends)
  BY DEF TokenEnd
<1> HIDE DEF len, delims, short
<1>7. begin \in 0..len
  <2>1. starts \subseteq 0..len /\ starts # {}
    BY <1>4
  <2> HIDE DEF starts
  <2>2. starts \subseteq Nat
    BY <1>4, <2>1
  <2> QED BY <2>1, <2>2, MinIs
<1> HIDE DEF begin, end
<1>8. end \in Nat /\ end <= len /\ (end # len => end \in begin + 1 .. len - 1 /\ m[at + end] \in delims)
  <2>1. ends \subseteq 0..len /\ len \in ends
    BY <1>4, <1>7 DEF len
  <2>2. \A y \in ends : y # len => y \in begin + 1 .. len - 1 /\ m[at + y] \in delims
    BY DEF len
  <2> HIDE DEF ends
  <2>3. ends \subseteq Nat /\ ends # {}
    BY <1>4, <2>1
  <2>4. end \in ends
    BY <1>6, <2>3, MinIs
  <2>5. end \in 0..len /\ (end # len => end \in begin + 1 .. len - 1 /\ m[at + end] \in delims)
    BY <2>1, <2>2, <2>4
  <2> QED BY <1>4, <2>5
<1>9. ASSUME NEW left, ptr # NULL => left \in Nat /\ left <= dmax
      PROVE  Good(No(ptr, left)) /\ Good(No(NULL, left))
  <2>1. ptr # NULL => ptr = at
    OBVIOUS
  <2>2. LeftInside(size, left, ptr) /\ LeftInside(size, left, NULL)
    BY <1>3, <1>9, <2>1 DEF LeftInside
  <2> QED BY <2>2
<1>10. CASE bad
  <2>1. Good(No(NULL, dmax))
    BY <1>9
  <2> HIDE DEF Good, No, bad
  <2>2. Good(Token(m, at, dmax, Delimiters, ptr))
    BY <1>5, <1>10, <2>1
  <2> QED BY <2>2 DEF Good
<1>11. CASE ~bad /\ begin = len
  <2>1. dmax - len \in Nat /\ dmax - len <= dmax
    BY <1>4, <1>11
  <2>2. Good(No(ptr, dmax - len))
    BY <1>9, <2>1
  <2> HIDE DEF Good, No, bad
  <2>3. Good(Token(m, at, dmax, Delimiters, ptr))
    BY <1>5, <1>11, <2>2
  <2> QED BY <2>3 DEF Good
<1>12. CASE ~bad /\ begin # len /\ end < len
  <2>1. begin < len /\ end \in begin + 1 .. len - 1 /\ m[at + end] \in delims
    BY <1>4, <1>7, <1>8, <1>12
  <2>2. end < dmax
    BY <1>4, <1>8, <1>12, <2>1
  <2>3. LeftInside(size, dmax - end - 1, at + end + 1)
    BY <1>3, <1>8, <2>2 DEF LeftInside
  <2>4. end \in 0..len - 1 /\ at + end < size /\ at + end .. at + end + 1 - 1 = {at + end}
    BY <1>3, <1>4, <1>7, <2>1, <2>2
  <2>5. m[at + end] # 0
    BY <1>4, <2>4
  <2>6. m[at + end] = orig[at + end]
    BY <1>4, <2>4, <2>5 DEF Nulled
  <2> DEFINE next == Stored(m, at + end, 1, 0)
  <2>7. Nulled(orig, size, next)
    <3>1. DOMAIN next = DOMAIN m /\ \A a \in DOMAIN m : next[a] = IF a = at + end THEN 0 ELSE m[a]
      BY <2>4 DEF Stored
    <3> HIDE DEF next
    <3> QED BY <1>1, <2>1, <2>4, <2>6, <3>1 DEF Nulled
  <2> HIDE DEF next
  <2>8. found.mem = next /\ found.dmax = dmax - end - 1 /\ found.ptr = at + end + 1
    BY DEF next
  <2>9. Good(found)
    BY <2>3, <2>7, <2>8
  <2> HIDE DEF Good, found, bad
  <2>10. Good(Token(m, at, dmax, Delimiters, ptr))
    BY <1>5, <1>12, <2>9
  <2> QED BY <2>10 DEF Good
<1>13. CASE ~bad /\ begin # len /\ ~(end < len)
  <2>1. end = len /\ begin < len
    BY <1>4, <1>7, <1>8, <1>13
  <2>2. dmax - len \in Nat /\ dmax - len <= dmax
    BY <1>4, <1>13, <2>1
  <2>3. Good(No(ptr, dmax - len))
    BY <1>9, <2>2
  <2>4. last.mem = m /\ last.dmax = dmax - len /\ last.ptr = ptr
    OBVIOUS
  <2>5. Good(last)
    BY <2>3, <2>4
  <2> HIDE DEF Good, last, bad
  <2>6. Good(Token(m, at, dmax, Delimiters, ptr))
    BY <1>5, <1>13, <2>5
  <2> QED BY <2>6 DEF Good
<1> QED BY <1>10, <1>11, <1>12, <1>13

(* One call, the first or a later one.                                     *)
LEMMA TokenizeKeeps ==
  ASSUME NEW orig \in TokenMemories, NEW size \in 1..Delimiters, NEW got, NEW m,
         Nulled(orig, size, m), NEW dest \in Nat \cup {NULL}, NEW dmax \in Nat, NEW ptr,
         LET at == IF dest = NULL THEN ptr ELSE dest
         IN  at \in Nat /\ at + dmax <= size /\ ptr \in {NULL, at},
         Tokenize(orig, size, got, m, dest, dmax, ptr)
  PROVE  TokenInv'
<1> DEFINE at == IF dest = NULL THEN ptr ELSE dest
           r == strtok_s(m, dest, dmax, Delimiters, ptr)
<1>1. at \in Nat /\ at + dmax <= size /\ ptr \in {NULL, at} /\ size \in Nat
  BY TextIs, MemoriesAssumption
<1>2. r = [tok |-> NULL, ptr |-> ptr, dmax |-> dmax, mem |-> m] \/ r = Token(m, at, dmax, Delimiters, ptr)
  BY DEF strtok_s
<1>3. LeftInside(size, dmax, ptr)
  BY <1>1 DEF LeftInside
<1> HIDE DEF at
<1>4. Nulled(orig, size, r.mem) /\ LeftInside(size, r.dmax, r.ptr)
  <2>1. /\ Nulled(orig, size, Token(m, at, dmax, Delimiters, ptr).mem)
        /\ LeftInside(size, Token(m, at, dmax, Delimiters, ptr).dmax,
                      Token(m, at, dmax, Delimiters, ptr).ptr)
    BY <1>1, TokenContained
  <2> HIDE DEF r
  <2> QED BY <1>2, <1>3, <2>1
<1>5. /\ mem' = r.mem /\ args'.orig = orig /\ args'.size = size
      /\ args'.dmax = r.dmax /\ args'.ptr = r.ptr
  BY DEF Tokenize
<1> HIDE DEF r
<1>6. /\ args'.orig \in TokenMemories /\ args'.size \in 1..Delimiters
      /\ Nulled(args'.orig, args'.size, mem') /\ LeftInside(args'.size, args'.dmax, args'.ptr)
  BY <1>4, <1>5
<1> QED BY <1>6 DEF TokenInv, Nulled, LeftInside
LEMMA TokensAlways == StringsSpec => []TokenInv
<1>1. Init => TokenInv
  BY DEF Init, TokenInv
<1>2. TokenInv /\ [StringsNext]_vars => TokenInv'
  <2> SUFFICES ASSUME TokenInv, [StringsNext]_vars PROVE TokenInv'
    OBVIOUS
  <2>1. CASE FirstToken
    <3>1. PICK m \in TokenMemories, n \in 1..Delimiters : Tokenize(m, n, <<>>, m, 0, n, NULL)
      BY <2>1 DEF FirstToken
    <3>2. Nulled(m, n, m)
      BY DEF Nulled
    <3>3. Delimiters \in Nat
      BY TextIs, MemoriesAssumption
    <3>4. n \in Nat /\ 0 + n <= n /\ 0 # NULL
      BY <3>3 DEF NULL
    <3> QED BY <3>1, <3>2, <3>4, TokenizeKeeps
  <2>2. CASE NextToken
    <3> DEFINE orig == args.orig
               size == args.size
               dmax == args.dmax
               ptr == args.ptr
               got == args.got
    <3>1. family = "token" /\ ptr # NULL /\ Tokenize(orig, size, got, mem, NULL, dmax, ptr)
      BY <2>2 DEF NextToken
    <3>2. /\ orig \in TokenMemories /\ size \in 1..Delimiters
          /\ Nulled(orig, size, mem) /\ LeftInside(size, dmax, ptr)
      BY <3>1 DEF TokenInv
    <3>3. ptr \in Nat /\ dmax \in Nat /\ ptr + dmax <= size
      BY <3>1, <3>2 DEF LeftInside
    <3> HIDE DEF orig, size, dmax, ptr, got
    <3> QED BY <3>1, <3>2, <3>3, TokenizeKeeps
  <2>3. CASE Calls
    BY <2>3, CallsMadeIn DEF TokenInv
  <2>4. CASE StringsNext /\ ~Calls /\ ~FirstToken /\ ~NextToken
    <3>1. CallFormat \/ SetHandler => family' \in {"format", "handler"}
      BY DEF CallFormat, SetHandler
    <3>2. CallConversion \/ CallSplit \/ CallNumber \/ CallPrint
            => family' \in {"text", "path", "number", "print"}
      BY DEF CallConversion, CallSplit, CallNumber, CallPrint
    <3>3. StartTokens \/ RestartTokens \/ ContinueTokens => family' = "wtoken"
      BY DEF StartTokens, RestartTokens, ContinueTokens, Tokenized
    <3> QED BY <2>4, <3>1, <3>2, <3>3 DEF StringsNext, Next, Calls, TokenInv
  <2>5. CASE UNCHANGED vars
    BY <2>5 DEF vars, TokenInv, Nulled, LeftInside
  <2> QED BY <2>1, <2>2, <2>3, <2>4, <2>5
<1> QED BY <1>1, <1>2, PTL DEF StringsSpec

(* The handlers.                                                           *)
HandlerInv ==
  family = "handler" =>
    \E before, h :
      LET s == set_str_constraint_handler_s(before, h)
          q == set_mem_constraint_handler_s(before, h)
      IN  args = [before |-> before, asked |-> h, set |-> {s.now, q.now}, saved |-> {s.prev, q.prev}]

LEMMA HandlersAlways == StringsSpec => []HandlerInv
<1>1. Init => HandlerInv
  BY DEF Init, HandlerInv
<1>2. HandlerInv /\ [StringsNext]_vars => HandlerInv'
  <2> SUFFICES ASSUME HandlerInv, [StringsNext]_vars PROVE HandlerInv'
    OBVIOUS
  <2>1. CASE SetHandler
    BY <2>1 DEF SetHandler, HandlerInv
  <2>2. CASE Calls
    BY <2>2, CallsMadeIn DEF HandlerInv
  <2>3. CASE StringsNext /\ ~Calls /\ ~SetHandler
    <3>1. CallFormat => family' = "format"
      BY DEF CallFormat
    <3>2. CallConversion \/ CallSplit \/ CallNumber \/ CallPrint
            => family' \in {"text", "path", "number", "print"}
      BY DEF CallConversion, CallSplit, CallNumber, CallPrint
    <3>3. StartTokens \/ RestartTokens \/ ContinueTokens => family' = "wtoken"
      BY DEF StartTokens, RestartTokens, ContinueTokens, Tokenized
    <3>4. FirstToken \/ NextToken => family' \in {"token", "tokend"}
      BY DEF FirstToken, NextToken, Tokenize
    <3> QED BY <2>3, <3>1, <3>2, <3>3, <3>4 DEF StringsNext, Next, Calls, HandlerInv
  <2>4. CASE UNCHANGED vars
    BY <2>4 DEF vars, HandlerInv
  <2> QED BY <2>1, <2>2, <2>3, <2>4
<1> QED BY <1>1, <1>2, PTL DEF StringsSpec

LEMMA RestoredHolds ==
  ASSUME HandlerInv
  PROVE  HandlersCanBeRestored
<1> SUFFICES ASSUME family = "handler", NEW now \in args.set, NEW old \in args.saved
             PROVE  /\ invoke_safe_mem_constraint_handler(set_mem_constraint_handler_s(now, old).now)
                          = invoke_safe_mem_constraint_handler(args.before)
                    /\ invoke_safe_str_constraint_handler(set_str_constraint_handler_s(now, old).now)
                          = invoke_safe_str_constraint_handler(args.before)
  BY DEF HandlersCanBeRestored
<1>1. args.before = old
  BY DEF HandlerInv, set_str_constraint_handler_s, set_mem_constraint_handler_s
<1> QED BY <1>1 DEF set_str_constraint_handler_s, set_mem_constraint_handler_s,
           invoke_safe_mem_constraint_handler, invoke_safe_str_constraint_handler, sl_default_handler

(* A call of safestringlib changes its object only, stpncpy_s whose fill runs *)
(* away and strremovews_s on blanks excepted; a call that fails has cleared *)
(* the whole of a dest that has room, or is one of those that leave it as it *)
(* was or clear its first cell (Keeping, stpncpy_s); the calls of the       *)
(* tokenizer stay in their string together, and constraint handlers can be  *)
(* put back.                                                                *)
THEOREM FailuresAlwaysContained == StringsSpec => []FailuresAreContained
<1>1. CallsInv /\ TokenInv /\ HandlerInv => FailuresAreContained
  <2> SUFFICES ASSUME CallsInv, TokenInv, HandlerInv PROVE FailuresAreContained
    OBVIOUS
  <2>1. WritesStayInside /\ FailureLeavesNoPart
    BY WritesHold
  <2>2. TokenizerStaysInside
    <3> SUFFICES ASSUME family \in {"token", "tokend"}
                 PROVE  /\ args.ptr # NULL => args.dmax >= 0 /\ args.ptr + args.dmax <= args.size
                        /\ \A a \in DOMAIN mem : mem[a] # args.orig[a] =>
                              /\ mem[a] = 0 /\ a < args.size
                              /\ args.orig[a] \in Chars(args.orig, Delimiters, STRTOK_DELIM_MAX_LEN)
      BY DEF TokenizerStaysInside
    <3>1. Nulled(args.orig, args.size, mem) /\ LeftInside(args.size, args.dmax, args.ptr)
      BY DEF TokenInv
    <3> QED BY <3>1 DEF Nulled, LeftInside
  <2>3. HandlersCanBeRestored
    BY RestoredHolds
  <2> QED BY <2>1, <2>2, <2>3 DEF FailuresAreContained
<1> QED BY <1>1, CallsAlways, TokensAlways, HandlersAlways, PTL

-----------------------------------------------------------------------------
(* What a memory's strings are.                                            *)
LEMMA EndsAt ==
  ASSUME NEW m, NEW top \in Nat, DOMAIN m = 0..top, NEW p \in Nat, NEW n \in Nat,
         p + n <= top, m[p + n] = 0, \A k \in 0..n - 1 : m[p + k] # 0
  PROVE  Length(m, p) = n
<1> DEFINE s(most) == {i \in 0 .. most - p : m[p + i] = 0}
           all == DOMAIN m
           most == Max(all)
<1>1. most = top
  <2>1. top \in all /\ all \subseteq 0..top /\ all # {}
    OBVIOUS
  <2> HIDE DEF all
  <2>2. most \in all /\ \A y \in all : most >= y
    BY <2>1, MaxIs
  <2> HIDE DEF most
  <2>3. most \in 0..top /\ most >= top
    BY <2>1, <2>2
  <2> QED BY <2>3
<1>2. Length(m, p) = Min(s(most))
  BY DEF Length
<1> HIDE DEF most, all
<1>3. n \in s(top) /\ s(top) \subseteq Nat /\ \A y \in s(top) : n <= y
  <2>1. n \in s(top)
    OBVIOUS
  <2>2. ASSUME NEW y \in s(top), y < n PROVE FALSE
    BY <2>2
  <2>3. s(top) \subseteq Nat
    OBVIOUS
  <2>4. \A y \in s(top) : y \in Nat
    BY <2>3
  <2> HIDE DEF s
  <2>5. \A y \in s(top) : n <= y
    BY <2>2, <2>4
  <2> QED BY <2>1, <2>3, <2>5
<1> DEFINE set == s(top)
           least == Min(set)
<1>4. set \subseteq Nat /\ n \in set /\ \A y \in set : n <= y
  BY <1>3
<1> HIDE DEF s, set
<1>5. least \in set /\ least <= n
  BY <1>4, MinIs
<1> HIDE DEF least
<1>6. least \in Nat /\ n <= least
  BY <1>4, <1>5
<1>7. least = n
  BY <1>5, <1>6
<1> QED BY <1>1, <1>2, <1>7 DEF least, set

LEMMA TextIsSeq ==
  ASSUME NEW m, IsText(m), NEW p \in DOMAIN m, \A a \in DOMAIN m : m[a] \in Int
  PROVE  /\ Text(m, p) \in Seq(Int) /\ Len(Text(m, p)) = Length(m, p)
         /\ \A i \in 1..Length(m, p) : Text(m, p)[i] = m[p + i - 1]
<1> DEFINE len == Length(m, p)
           text == Text(m, p)
<1>1. len \in Nat /\ p \in Nat /\ \A k \in 0..len - 1 : p + k \in DOMAIN m
  BY LengthIs
<1>2. text = [i \in 1..len |-> m[p + i - 1]]
  BY DEF Text
<1>3. ASSUME NEW i \in 1..len PROVE m[p + i - 1] \in Int
  <2>1. i - 1 \in 0..len - 1 /\ p + (i - 1) = p + i - 1
    BY <1>1
  <2> QED BY <1>1, <2>1
<1> HIDE DEF len, text
<1>4. text \in Seq(Int) /\ Len(text) = len
  BY <1>1, <1>2, <1>3
<1> QED BY <1>2, <1>4 DEF len, text

(* The first n characters.                                                 *)
LEMMA PrefixIs ==
  ASSUME NEW m, IsText(m), NEW p \in DOMAIN m, \A a \in DOMAIN m : m[a] \in Int, NEW n \in Nat
  PROVE  LET t == Prefix(Text(m, p), n)
             k == Min({n, Length(m, p)})
         IN  /\ t \in Seq(Int) /\ Len(t) = k
             /\ \A i \in 1..k : t[i] = m[p + i - 1]
<1> DEFINE len == Length(m, p)
           text == Text(m, p)
           k == Min({n, len})
           t == Prefix(text, n)
<1>1. text \in Seq(Int) /\ Len(text) = len /\ \A i \in 1..len : text[i] = m[p + i - 1]
  BY TextIsSeq
<1>2. len \in Nat
  BY LengthIs
<1>3. t = SubSeq(text, 1, k)
  BY <1>1 DEF Prefix
<1> HIDE DEF text, len, t
<1>4. k \in Nat /\ k <= len
  BY <1>2, LeastOfTwo
<1> HIDE DEF k
<1>5. \A i \in 1..k : text[i] \in Int
  BY <1>1, <1>2, <1>4
<1>6. t \in Seq(Int) /\ Len(t) = k /\ \A i \in 1..k : t[i] = text[i]
  BY <1>3, <1>4, <1>5, SubSeqProperties
<1>7. \A i \in 1..k : t[i] = m[p + i - 1]
  BY <1>1, <1>2, <1>4, <1>6
<1> QED BY <1>6, <1>7 DEF text, len, t, k

(* A copy of k characters behind the first end of a string, and its zeros. *)
LEMMA CopiedText ==
  ASSUME NEW m, IsText(m), NEW p \in DOMAIN m, NEW src \in DOMAIN m, \A a \in DOMAIN m : m[a] \in Int,
         NEW end \in Nat, \A j \in 0..end - 1 : m[p + j] # 0,
         NEW k \in Nat, k <= Length(m, src), NEW zeros \in Nat, zeros > 0,
         p + end + k + zeros - 1 \in DOMAIN m
  PROVE  LET new == Stored(Loaded(m, p + end, src, k), p + end + k, zeros, 0)
         IN  /\ Text(new, p) \in Seq(Int) /\ Len(Text(new, p)) = end + k
             /\ \A i \in 1..end + k : Text(new, p)[i] = IF i <= end THEN m[p + i - 1] ELSE m[src + (i - end) - 1]
<1> DEFINE half == Loaded(m, p + end, src, k)
           new == Stored(half, p + end + k, zeros, 0)
           text == Text(new, p)
<1>1. PICK top \in Nat : DOMAIN m = 0..top /\ m[top] = 0
  BY DEF IsText
<1>2. p \in Nat /\ src \in Nat /\ p + end + k <= top
  BY <1>1
<1>3. \A j \in 0..k - 1 : src + j \in DOMAIN m /\ m[src + j] # 0
  <2> DEFINE len == Length(m, src)
  <2>1. len \in Nat /\ \A j \in 0..len - 1 : src + j \in DOMAIN m /\ m[src + j] # 0
    BY LengthIs
  <2>2. k <= len
    OBVIOUS
  <2> HIDE DEF len
  <2> QED BY <2>1, <2>2
<1>4. DOMAIN half = 0..top /\ DOMAIN new = 0..top
  BY <1>1 DEF Stored, Loaded
<1>5. new[p + end + k] = 0
  BY <1>1, <1>2, <1>4 DEF Stored
<1>6. ASSUME NEW j \in 0..end + k - 1
      PROVE  /\ p + j \in 0..top
             /\ new[p + j] = IF j < end THEN m[p + j] ELSE m[src + (j - end)]
             /\ new[p + j] # 0
             /\ new[p + j] \in Int
  <2>1. p + j \in 0..top /\ ~(p + j \in p + end + k .. p + end + k + zeros - 1)
    BY <1>2
  <2>2. new[p + j] = half[p + j]
    BY <1>1, <1>4, <2>1 DEF Stored
  <2> HIDE DEF new
  <2> HIDE DEF half
  <2>3. CASE j < end
    <3>1. ~(p + j \in p + end .. p + end + k - 1)
      BY <1>2, <2>3
    <3>2. half[p + j] = m[p + j]
      BY <1>1, <2>1, <3>1 DEF Loaded, half
    <3>3. m[p + j] # 0
      BY <2>3
    <3> QED BY <1>1, <2>1, <2>2, <2>3, <3>2, <3>3
  <2>4. CASE ~(j < end)
    <3>1. p + j \in p + end .. p + end + k - 1 /\ src + (p + j - (p + end)) = src + (j - end)
      BY <1>2, <2>4
    <3>2. half[p + j] = m[src + (j - end)]
      <4> DEFINE a == p + j
                 b == p + end
      <4>1. a \in DOMAIN m /\ a \in b..b + k - 1 /\ src + (a - b) = src + (j - end)
        BY <1>1, <2>1, <3>1
      <4> HIDE DEF a, b
      <4>2. Loaded(m, b, src, k)[a] = m[src + (a - b)]
        BY <4>1 DEF Loaded
      <4> QED BY <4>1, <4>2 DEF half, a, b
    <3>3. j - end \in 0..k - 1
      BY <2>4
    <3> QED BY <1>3, <2>1, <2>2, <2>4, <3>2, <3>3
  <2> QED BY <2>3, <2>4
<1> HIDE DEF new, half
<1>7. Length(new, p) = end + k
  <2> DEFINE n == end + k
  <2>1. n \in Nat /\ p + n <= top /\ new[p + n] = 0 /\ \A j \in 0..n - 1 : new[p + j] # 0
    <3>1. p + n = p + end + k
      BY <1>2
    <3> QED BY <1>2, <1>5, <1>6, <3>1
  <2> HIDE DEF n
  <2>2. Length(new, p) = n
    BY <1>2, <1>4, <2>1, EndsAt
  <2> QED BY <2>2 DEF n
<1>8. text = [i \in 1..end + k |-> new[p + i - 1]]
  BY <1>7 DEF Text
<1>9. ASSUME NEW i \in 1..end + k
      PROVE  /\ text[i] \in Int
             /\ text[i] = IF i <= end THEN m[p + i - 1] ELSE m[src + (i - end) - 1]
  <2> DEFINE j == i - 1
  <2>1. j \in 0..end + k - 1 /\ p + i - 1 = p + j /\ src + (i - end) - 1 = src + (j - end)
        /\ (i <= end <=> j < end)
    BY <1>2
  <2>2. text[i] = new[p + j]
    BY <1>8, <2>1
  <2>3. new[p + j] \in Int /\ new[p + j] = IF j < end THEN m[p + j] ELSE m[src + (j - end)]
    BY <1>6, <2>1
  <2> HIDE DEF j, text
  <2> QED BY <2>1, <2>2, <2>3
<1>10. text \in Seq(Int) /\ Len(text) = end + k
  <2>1. \A i \in 1..end + k : new[p + i - 1] \in Int
    BY <1>8, <1>9
  <2> HIDE DEF text
  <2> QED BY <1>8, <2>1
<1> QED BY <1>9, <1>10 DEF text, new, half

(* The checks that sound arguments pass.                                   *)
LEMMA JoinedPass ==
  ASSUME NEW x, NEW y, NEW s \in Seq(x), NEW t \in Seq(y), Passes(s), Passes(t)
  PROVE  s \o t \in Seq(x \cup y) /\ Passes(s \o t)
<1> DEFINE all == x \cup y
           both == s \o t
<1>1. s \in Seq(all) /\ t \in Seq(all)
  OBVIOUS
<1> HIDE DEF all, both
<1>2. /\ both \in Seq(all) /\ Len(both) = Len(s) + Len(t)
      /\ \A n \in 1..Len(s) + Len(t) :
           both[n] = IF n <= Len(s) THEN s[n] ELSE t[n - Len(s)]
  BY <1>1, ConcatProperties DEF both
<1>3. /\ DOMAIN s = 1..Len(s) /\ DOMAIN t = 1..Len(t) /\ Len(s) \in Nat /\ Len(t) \in Nat
      /\ DOMAIN both = 1..Len(s) + Len(t)
  BY <1>1, <1>2
<1>4. ASSUME NEW n \in DOMAIN both PROVE ~both[n][1]
  <2>1. CASE n <= Len(s)
    <3>1. n \in DOMAIN s /\ both[n] = s[n]
      BY <1>2, <1>3, <2>1
    <3> QED BY <3>1 DEF Passes
  <2>2. CASE ~(n <= Len(s))
    <3>1. n - Len(s) \in DOMAIN t /\ both[n] = t[n - Len(s)]
      BY <1>2, <1>3, <2>2
    <3> QED BY <3>1 DEF Passes
  <2> QED BY <2>1, <2>2
<1> QED BY <1>2, <1>4 DEF Passes, both, all

LEMMA PassedIs ==
  ASSUME NEW m, NEW dest, NEW dmax, NEW checks, NEW result, Passes(checks)
  PROVE  Checked(m, dest, dmax, checks, result) = result
BY DEF Passes, Checked

LEMMA SoundPasses ==
  ASSUME NEW dest, NEW dmax, NEW src, NEW slen, dest # NULL, src # NULL, dmax # 0,
         ~(dmax > RSIZE_MAX_STR), slen # 0, ~(slen > RSIZE_MAX_STR)
  PROVE  /\ Passes(StrDestChecks(dest, dmax)) /\ Passes(StrDestChecks(dest, dmax) \o NullSrcCheck(src))
         /\ Passes(LengthChecks(dest, dmax, src, slen)) /\ Passes(CatChecks(dest, dmax, src, slen))
<1> DEFINE c1 == <<dest = NULL, ESNULLP, FALSE>>
           c2 == <<dmax = 0, ESZEROL, FALSE>>
           c3 == <<dmax > RSIZE_MAX_STR, ESLEMAX, FALSE>>
           c4 == <<src = NULL, ESNULLP, TRUE>>
           c5 == <<slen = 0, ESZEROL, TRUE>>
           c6 == <<slen > RSIZE_MAX_STR, ESLEMAX, TRUE>>
           c7 == <<src = NULL, ESNULLP, FALSE>>
           c8 == <<slen > RSIZE_MAX_STR, ESLEMAX, FALSE>>
<1>1. ~c1[1] /\ ~c2[1] /\ ~c3[1] /\ ~c4[1] /\ ~c5[1] /\ ~c6[1] /\ ~c7[1] /\ ~c8[1]
  OBVIOUS
<1>2. /\ StrDestChecks(dest, dmax) = <<c1, c2, c3>> /\ NullSrcCheck(src) = <<c4>>
      /\ LengthChecks(dest, dmax, src, slen) = (StrDestChecks(dest, dmax) \o NullSrcCheck(src)) \o <<c5, c6>>
      /\ CatChecks(dest, dmax, src, slen) = <<c1, c7, c8, c2, c3>>
  BY DEF StrDestChecks, DestChecks, NullSrcCheck, LengthChecks, CatChecks
<1> HIDE DEF c1, c2, c3, c4, c5, c6, c7, c8
<1> DEFINE first == <<c1, c2, c3>>
           null == <<c4>>
           last == <<c5, c6>>
           cat == <<c1, c7, c8, c2, c3>>
<1>3. first \in Seq({c1, c2, c3}) /\ null \in Seq({c4}) /\ last \in Seq({c5, c6})
  OBVIOUS
<1>4. Passes(first)
  <2>1. DOMAIN first = 1..3 /\ first[1] = c1 /\ first[2] = c2 /\ first[3] = c3
    OBVIOUS
  <2> HIDE DEF first
  <2> QED BY <1>1, <2>1 DEF Passes
<1>5. Passes(null)
  <2>1. DOMAIN null = 1..1 /\ null[1] = c4
    OBVIOUS
  <2> HIDE DEF null
  <2> QED BY <1>1, <2>1 DEF Passes
<1>6. Passes(last)
  <2>1. DOMAIN last = 1..2 /\ last[1] = c5 /\ last[2] = c6
    OBVIOUS
  <2> HIDE DEF last
  <2> QED BY <1>1, <2>1 DEF Passes
<1>7. Passes(cat)
  <2>1. DOMAIN cat = 1..5 /\ cat[1] = c1 /\ cat[2] = c7 /\ cat[3] = c8 /\ cat[4] = c2 /\ cat[5] = c3
    OBVIOUS
  <2> HIDE DEF cat
  <2> QED BY <1>1, <2>1 DEF Passes
<1> HIDE DEF first, null, last, cat
<1> DEFINE x == {c1, c2, c3} \cup {c4}
<1>8. first \o null \in Seq(x) /\ Passes(first \o null)
  BY <1>3, <1>4, <1>5, JoinedPass
<1> DEFINE both == first \o null
<1> HIDE DEF x, both
<1>9. Passes(both \o last)
  BY <1>3, <1>6, <1>8, JoinedPass DEF both
<1>10. StrDestChecks(dest, dmax) \o NullSrcCheck(src) = both
  BY <1>2 DEF both, first, null
<1>11. LengthChecks(dest, dmax, src, slen) = both \o last
  BY <1>2, <1>10 DEF last
<1>12. CatChecks(dest, dmax, src, slen) = cat /\ StrDestChecks(dest, dmax) = first
  BY <1>2 DEF cat, first
<1> QED BY <1>4, <1>7, <1>8, <1>9, <1>10, <1>11, <1>12 DEF both

(* The loop succeeds if what it is to copy ends before the room and before  *)
(* the other object.                                                       *)
LEMMA LoopRuns ==
  ASSUME NEW m, NEW dest \in Int, NEW dmax \in Nat, NEW to \in Int, NEW room \in Nat, NEW src \in Int,
         NEW slen \in Nat, Bump(dest, to, src) \in Nat, Length(m, src) \in Nat
  PROVE  LET r == CopyLoop(m, dest, dmax, to, room, src, slen)
             k == Min({slen, Length(m, src)})
         IN  /\ r.rc = EOK <=> k < room /\ k < Bump(dest, to, src)
             /\ r.rc = EOK => r.mem = Stored(Loaded(m, to, src, k), to + k, room - k, 0)
<1> DEFINE bump == Bump(dest, to, src)
           len == Length(m, src)
           n == Min({room, bump, slen, len})
           k == Min({slen, len})
           copied == Done(Stored(Loaded(m, to, src, n), to + n, room - n, 0))
           full == handle_error(m, dest, dmax, ESNOSPC)
           over == handle_error(m, dest, dmax, ESOVRLP)
           r == CopyLoop(m, dest, dmax, to, room, src, slen)
<1>1. n \in {room, bump, slen, len} /\ n <= room /\ n <= bump /\ n <= slen /\ n <= len
  <2>1. bump \in Nat /\ len \in Nat
    OBVIOUS
  <2> HIDE DEF bump, len
  <2> QED BY <2>1, LeastOfFour
<1>2. k \in {slen, len} /\ k <= slen /\ k <= len
  <2>1. len \in Nat
    OBVIOUS
  <2> HIDE DEF len
  <2> QED BY <2>1, LeastOfTwo
<1>3. r = IF n = room THEN full ELSE IF n = bump THEN over ELSE copied
  BY DEF CopyLoop
<1>4. /\ full.rc # EOK /\ over.rc # EOK
      /\ copied.rc = EOK /\ copied.mem = Stored(Loaded(m, to, src, n), to + n, room - n, 0)
  BY DEF handle_error, Done, ESNOSPC, ESOVRLP, EOK
<1>5. bump \in Nat /\ len \in Nat
  OBVIOUS
<1> HIDE DEF n, k, bump, len, r, full, over
<1>6. n = room \/ n = bump <=> ~(k < room /\ k < bump)
  BY <1>1, <1>2, <1>5
<1>7. n # room /\ n # bump => n = k
  BY <1>1, <1>2, <1>5
<1>8. r.rc = EOK <=> k < room /\ k < bump
  <2> HIDE DEF copied
  <2> QED BY <1>3, <1>4, <1>6
<1>9. r.rc = EOK => r.mem = Stored(Loaded(m, to, src, k), to + k, room - k, 0)
  <2>1. r.rc = EOK => r = copied /\ n = k
    <3> HIDE DEF copied
    <3> QED BY <1>3, <1>4, <1>7
  <2> QED BY <1>4, <2>1
<1> QED BY <1>8, <1>9 DEF r, k, bump, len

(* What a call with sound arguments has, and what a copy is to do.         *)
Sound(m, dest, dmax, src) ==
  /\ IsText(m) /\ \A a \in DOMAIN m : m[a] \in Int
  /\ dest \in DOMAIN m /\ src \in DOMAIN m /\ dest # src
  /\ dmax \in Nat /\ dmax > 0 /\ dmax <= RSIZE_MAX_STR /\ dest + dmax - 1 \in DOMAIN m
Exact(dest, dmax, src, r, text, taken) ==
  /\ r.rc = EOK => Text(r.mem, dest) = text /\ Len(text) < dmax
  /\ Len(text) < dmax /\ (dest..dest + Len(text)) \cap (src..src + Len(taken)) = {} => r.rc = EOK

\* Old text of the length end, and k characters of the source behind it.
Joined(m, dest, src, end, k, text) ==
  /\ text \in Seq(Int) /\ Len(text) = end + k
  /\ \A i \in 1..end + k : text[i] = IF i <= end THEN m[dest + i - 1] ELSE m[src + (i - end) - 1]

LEMMA LoopExact ==
  ASSUME NEW m, NEW dest, NEW dmax, NEW src, Sound(m, dest, dmax, src), NEW slen \in Nat,
         NEW end \in Nat, NEW room \in Nat, end + room <= dmax, dest < src => dest + end <= src, \A j \in 0..end - 1 : m[dest + j] # 0,
         NEW text, Joined(m, dest, src, end, Min({slen, Length(m, src)}), text),
         NEW taken, Len(taken) = Min({slen, Length(m, src)})
  PROVE  Exact(dest, end + room, src, CopyLoop(m, dest, dmax, dest + end, room, src, slen), text, taken)
<1> DEFINE k == Min({slen, Length(m, src)})
           to == dest + end
           bump == Bump(dest, to, src)
           r == CopyLoop(m, dest, dmax, to, room, src, slen)
<1>1. /\ dest \in Nat /\ src \in Nat /\ dest # src /\ dmax \in Nat /\ dest + dmax - 1 \in DOMAIN m
      /\ IsText(m) /\ dest \in DOMAIN m /\ src \in DOMAIN m /\ \A a \in DOMAIN m : m[a] \in Int
  BY LengthIs DEF Sound
<1>2. Length(m, src) \in Nat /\ k \in Nat /\ k <= Length(m, src)
  <2> DEFINE len == Length(m, src)
  <2>1. len \in Nat
    BY <1>1, LengthIs
  <2> HIDE DEF len
  <2> QED BY <2>1, LeastOfTwo DEF len
<1>3. bump = IF dest < src THEN src - dest - end ELSE dest - src
  BY <1>1 DEF Bump
<1>4. bump \in Nat /\ to \in Nat
  BY <1>1, <1>3
<1>5. /\ r.rc = EOK <=> k < room /\ k < bump
      /\ r.rc = EOK => r.mem = Stored(Loaded(m, to, src, k), to + k, room - k, 0)
  <2> DEFINE len == Length(m, src)
  <2>1. dest \in Int /\ dmax \in Nat /\ to \in Int /\ room \in Nat /\ src \in Int /\ slen \in Nat
        /\ bump \in Nat /\ len \in Nat
    BY <1>1, <1>2, <1>4
  <2> HIDE DEF to
  <2> QED BY ONLY <2>1, LoopRuns
<1>6. text \in Seq(Int) /\ Len(text) = end + k
      /\ \A i \in 1..end + k : text[i] = IF i <= end THEN m[dest + i - 1] ELSE m[src + (i - end) - 1]
  BY DEF Joined
<1>7. Len(taken) = k
  OBVIOUS
<1> HIDE DEF k, bump, r
<1>8. ASSUME r.rc = EOK PROVE Text(r.mem, dest) = text /\ Len(text) < end + room
  <2>1. k < room
    BY <1>5, <1>8
  <2> DEFINE zeros == room - k
             new == Stored(Loaded(m, dest + end, src, k), dest + end + k, zeros, 0)
             out == Text(new, dest)
  <2>2. r.mem = new
    BY <1>5, <1>8
  <2>3. zeros \in Nat /\ zeros > 0 /\ dest + end + k + zeros - 1 \in DOMAIN m
    <3>1. PICK top \in Nat : DOMAIN m = 0..top
      BY <1>1 DEF IsText
    <3> QED BY <1>1, <1>2, <2>1, <3>1
  <2> HIDE DEF zeros
  <2>7. /\ end \in Nat /\ IsText(m) /\ dest \in DOMAIN m /\ src \in DOMAIN m /\ \A a \in DOMAIN m : m[a] \in Int
        /\ \A j \in 0..end - 1 : m[dest + j] # 0
        /\ k \in Nat /\ k <= Length(m, src) /\ zeros \in Nat /\ zeros > 0
        /\ dest + end + k + zeros - 1 \in DOMAIN m
    BY <1>1, <1>2, <2>3
  <2>4. /\ out \in Seq(Int) /\ Len(out) = end + k
        /\ \A i \in 1..end + k : out[i] = IF i <= end THEN m[dest + i - 1] ELSE m[src + (i - end) - 1]
    BY ONLY <2>7, CopiedText
  <2> HIDE DEF new
  <2>5. out = text
    <3> HIDE DEF out
    <3>1. \A i \in 1..Len(out) : out[i] = text[i]
      BY <1>6, <2>4
    <3> QED BY <1>6, <2>4, <3>1, SeqEqual
  <2>6. Len(text) < end + room
    BY <1>1, <1>2, <1>4, <1>6, <2>1
  <2> QED BY <2>2, <2>5, <2>6
<1>9. ASSUME end + k < end + room, (dest..dest + (end + k)) \cap (src..src + k) = {} PROVE r.rc = EOK
  <2>1. k < room
    BY <1>1, <1>2, <1>9
  <2>2. CASE dest < src
    <3>1. src \in src..src + k
      BY <1>1, <1>2
    <3>2. ~(src \in dest..dest + (end + k))
      BY <1>9, <3>1
    <3>3. k < bump
      BY <1>1, <1>2, <1>3, <2>2, <3>2
    <3> QED BY <1>5, <2>1, <3>3
  <2>3. CASE ~(dest < src)
    <3>1. dest \in dest..dest + (end + k)
      BY <1>1, <1>2
    <3>2. ~(dest \in src..src + k)
      BY <1>9, <3>1
    <3>3. k < bump
      BY <1>1, <1>2, <1>3, <2>3, <3>2
    <3> QED BY <1>5, <2>1, <3>3
  <2> QED BY <2>2, <2>3
<1> QED BY <1>6, <1>7, <1>8, <1>9 DEF Exact, r

LEMMA SoundNumbers ==
  ASSUME NEW m, NEW dest, NEW dmax, NEW src, Sound(m, dest, dmax, src)
  PROVE  /\ dest \in Nat /\ src \in Nat /\ dest # src /\ dest # NULL /\ src # NULL
         /\ dmax \in Nat /\ dmax > 0 /\ dmax # 0 /\ dmax <= dmax /\ ~(dmax > RSIZE_MAX_STR)
         /\ RSIZE_MAX_STR \in Nat /\ RSIZE_MAX_STR > 0 /\ RSIZE_MAX_STR # 0
         /\ RSIZE_MAX_STR <= RSIZE_MAX_STR /\ ~(RSIZE_MAX_STR > RSIZE_MAX_STR)
<1>1. /\ IsText(m) /\ dest \in DOMAIN m /\ src \in DOMAIN m /\ dest # src
      /\ dmax \in Nat /\ dmax > 0 /\ dmax <= RSIZE_MAX_STR
  BY DEF Sound
<1>2. PICK top \in Nat : DOMAIN m = 0..top
  BY <1>1 DEF IsText
<1>3. dest \in Nat /\ src \in Nat
  BY <1>1, <1>2
<1>4. dest # NULL /\ src # NULL
  BY <1>3 DEF NULL
<1> QED BY <1>1, <1>3, <1>4, SafeStrAssumption

LEMMA CopyExact ==
  ASSUME NEW m, NEW dest, NEW dmax, NEW src, Sound(m, dest, dmax, src), NEW slen \in Nat,
         NEW room \in Nat, room <= dmax
  PROVE  LET text == Prefix(Text(m, src), slen)
         IN  Exact(dest, room, src, CopyLoop(m, dest, dmax, dest, room, src, slen), text, text)
<1> DEFINE text == Prefix(Text(m, src), slen)
           k == Min({slen, Length(m, src)})
<1>1. /\ IsText(m) /\ dest \in DOMAIN m /\ src \in DOMAIN m /\ \A a \in DOMAIN m : m[a] \in Int
      /\ dest \in Nat /\ src \in Nat /\ dmax \in Nat
  BY LengthIs DEF Sound
<1>2. k \in Nat
  <2> DEFINE len == Length(m, src)
  <2>1. len \in Nat
    BY <1>1, LengthIs
  <2> HIDE DEF len
  <2> QED BY <2>1, LeastOfTwo DEF len
<1>3. text \in Seq(Int) /\ Len(text) = k /\ \A i \in 1..k : text[i] = m[src + i - 1]
  BY <1>1, PrefixIs
<1> HIDE DEF text, k
<1>4. Joined(m, dest, src, 0, k, text)
  <2>1. 0 + k = k
    BY <1>2
  <2>2. \A i \in 1..k : text[i] = IF i <= 0 THEN m[dest + i - 1] ELSE m[src + (i - 0) - 1]
    BY <1>1, <1>2, <1>3
  <2> QED BY <1>3, <2>1, <2>2 DEF Joined
<1>5. 0 \in Nat /\ 0 + room <= dmax /\ (dest < src => dest + 0 <= src) /\ (\A j \in 0..0 - 1 : m[dest + j] # 0)
      /\ 0 + room = room /\ dest + 0 = dest
  BY <1>1
<1>6. Exact(dest, 0 + room, src, CopyLoop(m, dest, dmax, dest + 0, room, src, slen), text, text)
  BY <1>3, <1>4, <1>5, LoopExact DEF k
<1> QED BY <1>5, <1>6 DEF text

LEMMA AppendExact ==
  ASSUME NEW m, NEW dest, NEW dmax, NEW src, Sound(m, dest, dmax, src), NEW slen \in Nat,
         slen > 0, slen <= RSIZE_MAX_STR
  PROVE  LET text == Text(m, dest) \o Prefix(Text(m, src), slen)
         IN  Exact(dest, dmax, src, Append_s(m, dest, dmax, src, slen), text, Prefix(Text(m, src), slen))
<1> DEFINE old == Text(m, dest)
           new == Prefix(Text(m, src), slen)
           text == old \o new
           k == Min({slen, Length(m, src)})
           end == Length(m, dest)
           bump == IF dest < src THEN src - dest ELSE dmax
           n == Min({end, bump, dmax - 1})
           loop == CopyLoop(m, dest, dmax, dest + end, dmax - end, src, slen)
           error == handle_error(m, dest, dmax, IF n = bump THEN ESOVRLP ELSE ESUNTERM)
           r == Append_s(m, dest, dmax, src, slen)
<1>1. /\ IsText(m) /\ dest \in DOMAIN m /\ src \in DOMAIN m /\ \A a \in DOMAIN m : m[a] \in Int
      /\ dest \in Nat /\ src \in Nat /\ dmax \in Nat /\ dmax > 0 /\ dest # src /\ dmax <= RSIZE_MAX_STR
  BY LengthIs DEF Sound
<1>2. k \in Nat
  <2> DEFINE len == Length(m, src)
  <2>1. len \in Nat
    BY <1>1, LengthIs
  <2> HIDE DEF len
  <2> QED BY <2>1, LeastOfTwo DEF len
<1>3. end \in Nat /\ \A j \in 0..end - 1 : m[dest + j] # 0
  BY <1>1, LengthIs
<1>4. new \in Seq(Int) /\ Len(new) = k /\ \A i \in 1..k : new[i] = m[src + i - 1]
  BY <1>1, PrefixIs
<1>5. old \in Seq(Int) /\ Len(old) = end /\ \A i \in 1..end : old[i] = m[dest + i - 1]
  BY <1>1, TextIsSeq
<1>6. r = IF n = end THEN loop ELSE error
  <2>1. Passes(CatChecks(dest, dmax, src, slen))
    <3>1. dest # NULL /\ src # NULL /\ dmax # 0 /\ ~(dmax > RSIZE_MAX_STR) /\ slen # 0 /\ ~(slen > RSIZE_MAX_STR)
      BY <1>1, SafeStrAssumption DEF NULL
    <3> QED BY <3>1, SoundPasses
  <2> HIDE DEF loop, error
  <2> QED BY <2>1, PassedIs DEF Append_s, loop, error
<1>7. error.rc # EOK
  BY DEF handle_error, ESOVRLP, ESUNTERM, EOK
<1> HIDE DEF k, end, new, old, error
<1>8. bump \in Nat /\ dmax - 1 \in Nat
  BY <1>1
<1> HIDE DEF bump
<1>9. n \in {end, bump, dmax - 1} /\ n <= end /\ n <= bump /\ n <= dmax - 1
  <2> DEFINE last == dmax - 1
  <2>1. last \in Nat
    BY <1>8
  <2> HIDE DEF last
  <2> QED BY <1>3, <1>8, <2>1, LeastOfThree DEF last
<1> HIDE DEF n
<1>10. /\ text \in Seq(Int) /\ Len(text) = end + k
       /\ \A i \in 1..end + k : text[i] = IF i <= end THEN m[dest + i - 1] ELSE m[src + (i - end) - 1]
  <2>1. /\ text \in Seq(Int) /\ Len(text) = Len(old) + Len(new)
        /\ \A i \in 1..Len(old) + Len(new) : text[i] = IF i <= Len(old) THEN old[i] ELSE new[i - Len(old)]
    BY <1>4, <1>5, ConcatProperties
  <2> HIDE DEF text
  <2>2. ASSUME NEW i \in 1..end + k
        PROVE  text[i] = IF i <= end THEN m[dest + i - 1] ELSE m[src + (i - end) - 1]
    <3>1. CASE i <= end
      <4>1. i \in 1..end /\ text[i] = old[i]
        BY <1>3, <1>4, <1>5, <2>1, <3>1
      <4> QED BY <1>5, <3>1, <4>1
    <3>2. CASE ~(i <= end)
      <4>1. i - end \in 1..k /\ text[i] = new[i - end]
        BY <1>2, <1>3, <1>4, <1>5, <2>1, <3>2
      <4> QED BY <1>4, <3>2, <4>1
    <3> QED BY <3>1, <3>2
  <2> QED BY <1>4, <1>5, <2>1, <2>2
<1> HIDE DEF text
<1>11. CASE n = end
  <2> DEFINE room == dmax - end
  <2>1. room \in Nat /\ end + room = dmax /\ end + room <= dmax
    BY <1>1, <1>3, <1>9, <1>11
  <2>2. dest < src => dest + end <= src
    BY <1>1, <1>3, <1>9, <1>11 DEF bump
  <2>3. Joined(m, dest, src, end, k, text)
    BY <1>10 DEF Joined
  <2>4. r = CopyLoop(m, dest, dmax, dest + end, room, src, slen)
    BY <1>6, <1>11
  <2> HIDE DEF room, r
  <2>5. Exact(dest, end + room, src, CopyLoop(m, dest, dmax, dest + end, room, src, slen), text, new)
    BY <1>3, <1>4, <2>1, <2>2, <2>3, LoopExact DEF k
  <2> QED BY <2>1, <2>4, <2>5 DEF r, text, old, new
<1>12. CASE n # end
  <2>1. r.rc # EOK
    BY <1>6, <1>7, <1>12
  <2> HIDE DEF r
  <2>2. ASSUME end + k < dmax, (dest..dest + (end + k)) \cap (src..src + k) = {} PROVE FALSE
    <3>1. n = bump
      BY <1>1, <1>2, <1>3, <1>9, <1>12, <2>2
    <3>2. dest < src /\ src - dest < end
      BY <1>1, <1>2, <1>3, <1>9, <1>12, <3>1 DEF bump
    <3>3. src \in dest..dest + (end + k) /\ src \in src..src + k
      BY <1>1, <1>2, <1>3, <3>2
    <3> QED BY <2>2, <3>3
  <2>3. Exact(dest, dmax, src, r, text, new)
    BY <1>4, <1>10, <2>1, <2>2 DEF Exact
  <2> QED BY <2>3 DEF r, text, old, new
<1> QED BY <1>11, <1>12

\* strncpy_s that may cut: a cell is kept for the null.
LEMMA CutExact ==
  ASSUME NEW m, NEW dest, NEW dmax, NEW src, Sound(m, dest, dmax, src)
  PROVE  LET room == dmax - 1
             cut == Min({room, Bump(dest, dest, src), Length(m, src)})
             text == Prefix(Text(m, src), room)
         IN  Exact(dest, dmax, src,
                   IF cut = room THEN Done(Stored(Loaded(m, dest, src, room), dest + room, 1, 0))
                   ELSE CopyLoop(m, dest, dmax, dest, room, src, RSIZE_MAX_STR), text, text)
<1> DEFINE room == dmax - 1
           bump == Bump(dest, dest, src)
           len == Length(m, src)
           cut == Min({room, bump, len})
           k == Min({room, len})
           text == Prefix(Text(m, src), room)
           full == Done(Stored(Loaded(m, dest, src, room), dest + room, 1, 0))
           loop == CopyLoop(m, dest, dmax, dest, room, src, RSIZE_MAX_STR)
<1>1. /\ IsText(m) /\ dest \in DOMAIN m /\ src \in DOMAIN m /\ \A a \in DOMAIN m : m[a] \in Int
      /\ dest \in Nat /\ src \in Nat /\ dmax \in Nat /\ dmax > 0 /\ dest # src /\ dmax <= RSIZE_MAX_STR
      /\ dest + dmax - 1 \in DOMAIN m /\ RSIZE_MAX_STR \in Nat
  BY LengthIs, SafeStrAssumption DEF Sound
<1>2. bump \in Nat /\ (dest < src => bump = src - dest) /\ (~(dest < src) => bump = dest - src)
  BY <1>1 DEF Bump
<1>3. room \in Nat /\ dmax = room + 1 /\ room <= dmax /\ room < RSIZE_MAX_STR
  BY <1>1
<1>4. len \in Nat
  BY <1>1, LengthIs
<1>5. text \in Seq(Int) /\ Len(text) = k /\ \A i \in 1..k : text[i] = m[src + i - 1]
  BY <1>1, <1>3, PrefixIs
<1> HIDE DEF room, bump, len
<1>6. cut \in {room, bump, len} /\ cut <= room /\ cut <= bump /\ cut <= len
  BY <1>2, <1>3, <1>4, LeastOfThree
<1>7. k \in {room, len} /\ k <= room /\ k <= len
  BY <1>3, <1>4, LeastOfTwo
<1> HIDE DEF cut, text
<1>8. ASSUME (dest..dest + k) \cap (src..src + k) = {} PROVE k < bump
  <2>1. CASE dest < src
    <3>1. src \in src..src + k /\ ~(src \in dest..dest + k)
      BY <1>1, <1>3, <1>4, <1>7, <1>8
    <3> QED BY <1>1, <1>2, <1>3, <1>4, <1>7, <2>1, <3>1
  <2>2. CASE ~(dest < src)
    <3>1. dest \in dest..dest + k /\ ~(dest \in src..src + k)
      BY <1>1, <1>3, <1>4, <1>7, <1>8
    <3> QED BY <1>1, <1>2, <1>3, <1>4, <1>7, <2>2, <3>1
  <2> QED BY <2>1, <2>2
<1>9. k \in Nat /\ k < dmax
  BY <1>3, <1>4, <1>7
<1> HIDE DEF k
<1>10. CASE cut = room
  <2>1. k = room /\ room <= len
    BY <1>3, <1>4, <1>6, <1>7, <1>10
  <2> DEFINE new == Stored(Loaded(m, dest + 0, src, room), dest + 0 + room, 1, 0)
             out == Text(new, dest)
  <2>2. /\ IsText(m) /\ dest \in DOMAIN m /\ src \in DOMAIN m /\ \A a \in DOMAIN m : m[a] \in Int
        /\ 0 \in Nat /\ (\A j \in 0..0 - 1 : m[dest + j] # 0) /\ room \in Nat /\ room <= Length(m, src)
        /\ 1 \in Nat /\ 1 > 0 /\ dest + 0 + room + 1 - 1 \in DOMAIN m
    <3>1. dest + 0 + room + 1 - 1 = dest + dmax - 1
      BY <1>1, <1>3
    <3> QED BY <1>1, <1>3, <2>1, <3>1 DEF len
  <2>3. /\ out \in Seq(Int) /\ Len(out) = 0 + room
        /\ \A i \in 1..0 + room : out[i] = IF i <= 0 THEN m[dest + i - 1] ELSE m[src + (i - 0) - 1]
    BY ONLY <2>2, CopiedText
  <2>4. dest + 0 = dest /\ dest + 0 + room = dest + room /\ 0 + room = room
    BY <1>1, <1>3
  <2>5. full.rc = EOK /\ full.mem = new
    <3>1. full.rc = EOK /\ full.mem = Stored(Loaded(m, dest, src, room), dest + room, 1, 0)
      BY DEF Done
    <3> HIDE DEF full
    <3> QED BY <2>4, <3>1
  <2> HIDE DEF new
  <2>6. out = text
    <3> HIDE DEF out
    <3>1. out \in Seq(Int) /\ Len(out) = Len(text)
      BY <1>5, <2>1, <2>3, <2>4
    <3>2. ASSUME NEW i \in 1..Len(out) PROVE out[i] = text[i]
      <4>1. i \in 1..0 + room /\ i \in 1..k /\ ~(i <= 0) /\ src + (i - 0) - 1 = src + i - 1
        BY <1>1, <1>3, <2>1, <2>3, <2>4
      <4> QED BY <1>5, <2>3, <4>1
    <3> QED BY <1>5, <3>1, <3>2, SeqEqual
  <2> HIDE DEF full
  <2>7. Exact(dest, dmax, src, full, text, text)
    BY <1>5, <1>9, <2>5, <2>6 DEF Exact
  <2> QED BY <1>10, <2>7 DEF full, cut, text, room, bump, len
<1>11. CASE cut # room
  <2> DEFINE all == RSIZE_MAX_STR
             most == Min({all, len})
             whole == Prefix(Text(m, src), all)
  <2>1. Exact(dest, room, src, loop, whole, whole)
    BY <1>1, <1>3, CopyExact
  <2>2. whole \in Seq(Int) /\ Len(whole) = most /\ \A i \in 1..most : whole[i] = m[src + i - 1]
    BY <1>1, PrefixIs DEF len
  <2>3. most \in {all, len} /\ most <= all /\ most <= len
    <3>1. all \in Nat
      BY <1>1
    <3> HIDE DEF all
    <3> QED BY <1>4, <3>1, LeastOfTwo
  <2>4. room < all /\ all \in Nat
    BY <1>3, <1>1
  <2> HIDE DEF all, most, whole, loop
  <2>5. most < room => whole = text
    <3> SUFFICES ASSUME most < room PROVE whole = text
      OBVIOUS
    <3>1. most = k
      BY <1>3, <1>4, <1>7, <2>3, <2>4
    <3>2. Len(whole) = Len(text) /\ \A i \in 1..Len(whole) : whole[i] = text[i]
      BY <1>5, <2>2, <3>1
    <3> QED BY <1>5, <2>2, <3>2, SeqEqual
  <2>6. ASSUME loop.rc = EOK PROVE Text(loop.mem, dest) = text
    BY <2>1, <2>2, <2>5, <2>6 DEF Exact
  <2>7. ASSUME (dest..dest + k) \cap (src..src + k) = {} PROVE loop.rc = EOK
    <3>1. k < bump
      BY <1>8, <2>7
    <3>2. len < room
      BY <1>2, <1>3, <1>4, <1>6, <1>7, <1>11, <3>1
    <3>3. most = len /\ most = k /\ most < room
      BY <1>3, <1>4, <1>7, <2>3, <2>4, <3>2
    <3> QED BY <2>1, <2>2, <2>7, <3>3 DEF Exact
  <2>8. Exact(dest, dmax, src, loop, text, text)
    BY <1>5, <1>9, <2>6, <2>7 DEF Exact
  <2> QED BY <1>11, <2>8 DEF cut, text, room, bump, len, loop
<1> QED BY <1>10, <1>11

LEMMA ExactAnyForm ==
  ASSUME NEW dest, NEW dmax, NEW src, NEW r, NEW text, NEW taken, Exact(dest, dmax, src, r, text, taken)
  PROVE  /\ Exact(dest, dmax, src, Plain(r), text, taken)
         /\ \A end : Exact(dest, dmax, src, Plain(WithEnd(r, end)), text, taken)
<1>1. Plain(r).mem = r.mem /\ Plain(r).rc = r.rc
  BY DEF Plain
<1>2. \A end : Plain(WithEnd(r, end)).mem = r.mem /\ Plain(WithEnd(r, end)).rc = r.rc
  BY DEF Plain, WithEnd
<1> QED BY <1>1, <1>2 DEF Exact

LEMMA FullCopiesExact ==
  ASSUME NEW m, NEW dest, NEW dmax, NEW src, Sound(m, dest, dmax, src)
  PROVE  LET text == Prefix(Text(m, src), RSIZE_MAX_STR)
         IN  /\ Exact(dest, dmax, src, Plain(strcpy_s(m, dest, dmax, src)), text, text)
             /\ Exact(dest, dmax, src, Plain(wcscpy_s(m, dest, dmax, src)), text, text)
             /\ Exact(dest, dmax, src, Plain(stpcpy_s(m, dest, dmax, src)), text, text)
             /\ Exact(dest, dmax, src, Plain(wcpcpy_s(m, dest, dmax, src)), text, text)
<1> DEFINE text == Prefix(Text(m, src), RSIZE_MAX_STR)
           checks == StrDestChecks(dest, dmax) \o NullSrcCheck(src)
           loop == CopyLoop(m, dest, dmax, dest, dmax, src, RSIZE_MAX_STR)
           onto == [rc |-> IF Length(m, src) > dmax THEN ESLEMAX ELSE EOK, mem |-> m]
           self == IF Length(m, dest) >= dmax THEN handle_error(m, dest, dmax, ESNOSPC)
                   ELSE Done(Stored(m, dest + Length(m, dest), dmax - Length(m, dest), 0))
           end == IF dest = src THEN dest + Length(m, dest) ELSE dest + dmax
<1>1. /\ dest \in Nat /\ src \in Nat /\ dmax \in Nat /\ dmax > 0 /\ dest # src /\ dmax <= RSIZE_MAX_STR
      /\ dmax <= dmax /\ RSIZE_MAX_STR \in Nat
  BY SoundNumbers DEF Sound
<1>2. dest # NULL /\ src # NULL /\ dmax # 0 /\ ~(dmax > RSIZE_MAX_STR)
      /\ RSIZE_MAX_STR # 0 /\ ~(RSIZE_MAX_STR > RSIZE_MAX_STR)
  BY <1>1, SoundNumbers
<1>3. Passes(checks)
  BY <1>2, SoundPasses
<1>4. Exact(dest, dmax, src, loop, text, text)
  BY <1>1, CopyExact
<1>5. strcpy_s(m, dest, dmax, src) = Checked(m, dest, dmax, checks, IF dest = src THEN Done(m) ELSE loop)
  BY DEF strcpy_s
<1>6. wcscpy_s(m, dest, dmax, src) = Checked(m, dest, dmax, checks, IF dest = src THEN onto ELSE loop)
  BY DEF wcscpy_s
<1>7. stpcpy_s(m, dest, dmax, src)
        = WithEnd(Checked(m, dest, dmax, checks, IF dest # src THEN loop ELSE self), dest + dmax)
  BY DEF stpcpy_s
<1>8. wcpcpy_s(m, dest, dmax, src) = WithEnd(wcscpy_s(m, dest, dmax, src), end)
  BY DEF wcpcpy_s
<1> HIDE DEF checks, loop, onto, self, end, text
<1>9. strcpy_s(m, dest, dmax, src) = loop /\ wcscpy_s(m, dest, dmax, src) = loop
  BY <1>1, <1>3, <1>5, <1>6, PassedIs
<1>10. stpcpy_s(m, dest, dmax, src) = WithEnd(loop, dest + dmax)
       /\ wcpcpy_s(m, dest, dmax, src) = WithEnd(loop, end)
  BY <1>1, <1>3, <1>7, <1>8, <1>9, PassedIs
<1> QED BY <1>4, <1>9, <1>10, ExactAnyForm DEF text

LEMMA LimitedCopiesExact ==
  ASSUME NEW m, NEW dest, NEW dmax, NEW src, Sound(m, dest, dmax, src), NEW slen \in Nat,
         slen > 0, slen <= RSIZE_MAX_STR
  PROVE  LET cut == Prefix(Text(m, src), IF slen = RSIZE_MAX_STR THEN dmax - 1 ELSE slen)
             text == Prefix(Text(m, src), slen)
         IN  /\ Exact(dest, dmax, src, Plain(strncpy_s(m, dest, dmax, src, slen)), cut, cut)
             /\ Exact(dest, dmax, src, Plain(wcsncpy_s(m, dest, dmax, src, slen)), text, text)
<1> DEFINE text == Prefix(Text(m, src), slen)
           checks == LengthChecks(dest, dmax, src, slen)
           loop == CopyLoop(m, dest, dmax, dest, dmax, src, slen)
           room == dmax - 1
           short == Prefix(Text(m, src), room)
           cutting == CopyLoop(m, dest, dmax, dest, room, src, RSIZE_MAX_STR)
           full == Done(Stored(Loaded(m, dest, src, room), dest + room, 1, 0))
           cut == Min({room, Bump(dest, dest, src), Length(m, src)})
           r == strncpy_s(m, dest, dmax, src, slen)
<1>1. /\ dest \in Nat /\ src \in Nat /\ dmax \in Nat /\ dmax > 0 /\ dest # src /\ dmax <= RSIZE_MAX_STR
      /\ dmax <= dmax /\ RSIZE_MAX_STR \in Nat
  BY SoundNumbers DEF Sound
<1>2. dest # NULL /\ src # NULL /\ dmax # 0 /\ ~(dmax > RSIZE_MAX_STR) /\ slen # 0 /\ ~(slen > RSIZE_MAX_STR)
  BY <1>1, SoundNumbers
<1>3. Passes(checks)
  BY <1>2, SoundPasses
<1>4. Exact(dest, dmax, src, loop, text, text)
  BY <1>1, CopyExact
<1>5. wcsncpy_s(m, dest, dmax, src, slen) = loop
  <2>1. wcsncpy_s(m, dest, dmax, src, slen) = Checked(m, dest, dmax, checks, loop)
    BY DEF wcsncpy_s
  <2> HIDE DEF checks, loop
  <2> QED BY <1>3, <2>1, PassedIs
<1>6. Exact(dest, dmax, src, IF cut = room THEN full ELSE cutting, short, short)
  BY CutExact
<1>7. CASE slen = RSIZE_MAX_STR
  <2>1. r = Checked(m, dest, dmax, checks, IF cut = room THEN full ELSE cutting)
    BY <1>7 DEF strncpy_s
  <2> HIDE DEF checks, full, cutting, cut, room
  <2>2. r = IF cut = room THEN full ELSE cutting
    BY <1>3, <2>1, PassedIs
  <2> HIDE DEF r, short
  <2>3. Exact(dest, dmax, src, Plain(r), short, short)
    BY <1>6, <2>2, ExactAnyForm
  <2>4. short = Prefix(Text(m, src), IF slen = RSIZE_MAX_STR THEN dmax - 1 ELSE slen)
    BY <1>7 DEF short, room
  <2> HIDE DEF loop, text
  <2>5. Exact(dest, dmax, src, Plain(loop), text, text)
    BY <1>4, ExactAnyForm
  <2> QED BY <1>5, <2>3, <2>4, <2>5 DEF r, text
<1>8. CASE slen # RSIZE_MAX_STR
  <2>1. r = Checked(m, dest, dmax, checks, loop)
    BY <1>8 DEF strncpy_s
  <2> HIDE DEF checks, loop
  <2>2. r = loop
    BY <1>3, <2>1, PassedIs
  <2> HIDE DEF r, text
  <2>3. Exact(dest, dmax, src, Plain(loop), text, text)
    BY <1>4, ExactAnyForm
  <2>4. text = Prefix(Text(m, src), IF slen = RSIZE_MAX_STR THEN dmax - 1 ELSE slen)
    BY <1>8 DEF text
  <2> QED BY <1>5, <2>2, <2>3, <2>4 DEF r, text
<1> QED BY <1>7, <1>8

LEMMA StringCopiesHold ==
  ASSUME CallsInv
  PROVE  StringCopiesAreExact
<1> SUFFICES ASSUME family = "copy", D # NULL, S # NULL, N > 0, L > 0, D # S, NEW c \in StrCopies
             PROVE  /\ c.r.rc = EOK => Text(c.r.mem, D) = c.text /\ Len(c.text) < N
                    /\ Len(c.text) < N /\ Disjoint(c) => c.r.rc = EOK
  BY DEF StringCopiesAreExact
<1> DEFINE src == Text(mem, S)
           old == Text(mem, D)
           all == RSIZE_MAX_STR
           Copied(r, n) == [r |-> Plain(r), text |-> Prefix(src, n), taken |-> Prefix(src, n)]
           Appended(r, n) == [r |-> Plain(r), text |-> old \o Prefix(src, n), taken |-> Prefix(src, n)]
<1>1. Sound(mem, D, N, S) /\ L \in Nat /\ L <= RSIZE_MAX_STR
  <2>1. mem \in CopyMemories /\ ArgsIn(CopyMemories) /\ L <= RSIZE_MAX_STR
    BY DEF CallsInv, ArgsIn
  <2>2. IsMemory(mem) /\ \A a \in DOMAIN mem : mem[a] \in Int
    BY <2>1, MemoryIs, MemoriesAssumption
  <2>3. IsText(mem) /\ Cardinality(DOMAIN mem) \in Nat /\ Cardinality(DOMAIN mem) <= RSIZE_MAX_STR
    BY <2>1, MemoryIs, TextIs, MemoriesAssumption
  <2>4. N \in Nat /\ N <= RSIZE_MAX_STR
    BY <2>1, <2>3, SafeStrAssumption DEF ArgsIn
  <2>5. D + N - 1 \in DOMAIN mem
    <3>1. PICK top \in Nat : DOMAIN mem = 0..top
      BY <2>3 DEF IsText
    <3> QED BY <2>1, <2>4, <3>1 DEF ArgsIn
  <2> QED BY <2>1, <2>2, <2>3, <2>4, <2>5 DEF Sound, ArgsIn
<1>2. N <= all /\ all \in Nat /\ all > 0 /\ all <= all
  BY <1>1, SafeStrAssumption DEF Sound
<1> DEFINE c1 == Copied(strcpy_s(mem, D, N, S), all)
           c2 == Copied(wcscpy_s(mem, D, N, S), all)
           c3 == Copied(stpcpy_s(mem, D, N, S), all)
           c4 == Copied(wcpcpy_s(mem, D, N, S), all)
           c5 == Copied(strncpy_s(mem, D, N, S, L), IF L = all THEN N - 1 ELSE L)
           c6 == Copied(wcsncpy_s(mem, D, N, S, L), L)
           c7 == Appended(strcat_s(mem, D, N, S), all)
           c8 == Appended(wcscat_s(mem, D, N, S), all)
           c9 == Appended(strncat_s(mem, D, N, S, L), L)
           c10 == Appended(wcsncat_s(mem, D, N, S, L), L)
<1>3. c \in {c1, c2, c3, c4, c5, c6, c7, c8, c9, c10}
  BY DEF StrCopies
<1> DEFINE Good(x) == Exact(D, N, S, x.r, x.text, x.taken)
<1>4. Good(c1) /\ Good(c2) /\ Good(c3) /\ Good(c4)
  BY <1>1, FullCopiesExact
<1>5. Good(c5) /\ Good(c6)
  BY <1>1, LimitedCopiesExact
<1>6. Good(c7) /\ Good(c8)
  <2> DEFINE r == Append_s(mem, D, N, S, all)
             new == Prefix(src, all)
  <2>1. Exact(D, N, S, r, old \o new, new)
    BY <1>1, <1>2, AppendExact
  <2> HIDE DEF r, new, old
  <2>2. Exact(D, N, S, Plain(r), old \o new, new)
    BY <2>1, ExactAnyForm
  <2> QED BY <2>2 DEF r, new, old, strcat_s, wcscat_s
<1>7. Good(c9) /\ Good(c10)
  <2> DEFINE r == Append_s(mem, D, N, S, L)
             new == Prefix(src, L)
  <2>1. Exact(D, N, S, r, old \o new, new)
    BY <1>1, AppendExact
  <2> HIDE DEF r, new, old
  <2>2. Exact(D, N, S, Plain(r), old \o new, new)
    BY <2>1, ExactAnyForm
  <2> QED BY <2>2 DEF r, new, old, strncat_s, wcsncat_s
<1> HIDE DEF c1, c2, c3, c4, c5, c6, c7, c8, c9, c10
<1>8. Good(c)
  BY <1>3, <1>4, <1>5, <1>6, <1>7
<1> QED BY <1>8 DEF Exact, Disjoint

-----------------------------------------------------------------------------
(* The 16-bit copies.                                                      *)

LEMMA StreamedIs ==
  ASSUME NEW m, IsText(m), NEW src \in DOMAIN m, NEW dst \in Nat,
         ~(dst \in src + 1..src + Length(m, src)), NEW j \in 0..Length(m, src)
  PROVE  /\ Streamed(m, dst, src, j) = m[src + j]
         /\ Streamed(m, dst, src, j) = 0 <=> j = Length(m, src)
<1> DEFINE len == Length(m, src)
<1>1. /\ src \in Nat /\ len \in Nat /\ src + len \in DOMAIN m /\ m[src + len] = 0
      /\ \A k \in 0..len - 1 : src + k \in DOMAIN m /\ m[src + k] # 0
  BY LengthIs
<1>2. j \in 0..len /\ ~(dst \in src + 1..src + len)
  OBVIOUS
<1> HIDE DEF len
<1>3. src + j \in DOMAIN m /\ (m[src + j] = 0 <=> j = len)
  <2>1. j \in 0..len - 1 \/ j = len
    BY <1>1, <1>2
  <2>2. ASSUME j \in 0..len - 1 PROVE j # len
    BY <1>1, <2>2
  <2> QED BY <1>1, <2>1, <2>2
<1>4. Streamed(m, dst, src, j) = Cell(m, src + j)
  <2>1. CASE dst > src
    <3> DEFINE w == dst - src
    <3>1. w \in Int /\ w > 0 /\ j \in 0..w - 1 /\ j \in Int /\ j = w * 0 + j
      BY <1>1, <1>2, <2>1
    <3>2. 0 \in Int
      OBVIOUS
    <3> HIDE DEF w
    <3>3. j % w = j
      BY <3>1, <3>2, DivisionIs
    <3>4. Streamed(m, dst, src, j) = Cell(m, src + (j % w))
      BY <2>1 DEF Streamed, w
    <3> QED BY <3>3, <3>4
  <2>2. CASE ~(dst > src)
    BY <2>2 DEF Streamed
  <2> QED BY <2>1, <2>2
<1> QED BY <1>3, <1>4 DEF Cell, len

\* The zeros among the first n cells that a copy of at most n stores.
Zeros(m, dst, src, n) ==
  {j \in 0 .. Min({n - 1, Max(DOMAIN m)}) : Streamed(m, dst, src, j) = 0}

LEMMA StoredIs ==
  ASSUME NEW m, NEW dst, NEW src, NEW n \in Nat, Zeros(m, dst, src, n) \subseteq Nat,
         NEW end \in Nat, \/ n <= end /\ Zeros(m, dst, src, n) = {}
                          \/ /\ end < n /\ end \in Zeros(m, dst, src, n)
                             /\ \A j \in Zeros(m, dst, src, n) : end <= j
  PROVE  StoredCells(m, dst, src, n) = Min({n, end + 1})
<1> DEFINE zeros == Zeros(m, dst, src, n)
           set == {n} \cup {j + 1 : j \in zeros}
           stop == end + 1
           stored == Min(set)
           least == Min({n, stop})
<1>1. StoredCells(m, dst, src, n) = stored
  BY DEF StoredCells, Zeros
<1>2. /\ zeros \subseteq Nat
      /\ \/ n <= end /\ zeros = {}
         \/ end < n /\ end \in zeros /\ \A j \in zeros : end <= j
  OBVIOUS
<1> HIDE DEF zeros
<1>3. set \subseteq Nat /\ n \in set
  BY <1>2
<1>4. stop \in Nat
  OBVIOUS
<1>5. (n < stop => \A y \in set : n <= y) /\ (stop <= n => stop \in set /\ \A y \in set : stop <= y)
  BY <1>2
<1> HIDE DEF set
<1>6. stored \in set /\ \A y \in set : stored <= y
  BY <1>3, MinIs
<1> HIDE DEF stop, stored
<1>7. least \in {n, stop} /\ least <= n /\ least <= stop
  BY <1>4, LeastOfTwo
<1> HIDE DEF least
<1>8. stored \in Nat
  BY <1>3, <1>6
<1>9. ASSUME n < stop PROVE stored = least
  BY <1>3, <1>4, <1>5, <1>6, <1>7, <1>8, <1>9
<1>10. ASSUME stop <= n PROVE stored = least
  BY <1>3, <1>4, <1>5, <1>6, <1>7, <1>8, <1>10
<1>11. stored = least
  BY <1>4, <1>9, <1>10
<1> QED BY <1>1, <1>11 DEF least, stop

LEMMA MaxIsTop ==
  ASSUME NEW m, NEW top \in Nat, DOMAIN m = 0..top
  PROVE  Max(DOMAIN m) = top
<1> DEFINE all == DOMAIN m
           most == Max(all)
<1>1. top \in all /\ all \subseteq 0..top /\ all # {}
  OBVIOUS
<1> HIDE DEF all
<1>2. most \in all /\ \A y \in all : most >= y
  BY <1>1, MaxIs
<1> HIDE DEF most
<1>3. most \in 0..top /\ most >= top
  BY <1>1, <1>2
<1>4. most = top
  BY <1>3
<1> QED BY <1>4 DEF most, all

LEMMA WideCopyIs ==
  ASSUME NEW m, IsText(m), IsMemory(m), NEW src \in DOMAIN m, NEW dst \in DOMAIN m,
         ~(dst \in src + 1..src + Length(m, src)), NEW n \in Nat
  PROVE  u16csncpy(m, dst, src, n) = Loaded(m, dst, src, Min({n, Length(m, src) + 1}))
<1> DEFINE len == Length(m, src)
           zeros == Zeros(m, dst, src, n)
           count == Min({n, len + 1})
<1>1. /\ src \in Nat /\ len \in Nat /\ src + len \in DOMAIN m /\ m[src + len] = 0
  BY LengthIs
<1>2. PICK top \in Nat : DOMAIN m = 0..top
  BY DEF IsText
<1>3. dst \in Nat /\ len <= top
  BY <1>1, <1>2
<1>4. \A j \in 0..len : /\ Streamed(m, dst, src, j) = m[src + j]
                        /\ Streamed(m, dst, src, j) = 0 <=> j = len
  BY <1>3, StreamedIs
<1> HIDE DEF len
<1>5. count \in Nat /\ count <= n /\ count <= len + 1
  <2> DEFINE stop == len + 1
  <2>1. stop \in Nat
    BY <1>1
  <2> HIDE DEF stop
  <2> QED BY <2>1, LeastOfTwo DEF stop
<1>6. CASE n = 0
  <2>1. count = 0
    BY <1>5, <1>6
  <2>2. u16csncpy(m, dst, src, n) = m
    BY <1>6 DEF u16csncpy
  <2> HIDE DEF count
  <2>3. Loaded(m, dst, src, count) = m
    <3>1. dst..dst + count - 1 = {}
      BY <1>3, <2>1
    <3> QED BY <3>1 DEF Loaded, IsMemory
  <2> QED BY <2>2, <2>3 DEF count, len
<1>7. CASE n # 0
  <2> DEFINE before == n - 1
             last == Min({before, top})
  <2>1. zeros = {j \in 0..last : Streamed(m, dst, src, j) = 0}
    BY <1>2, MaxIsTop DEF Zeros
  <2>2. before \in Nat /\ n = before + 1
    BY <1>7
  <2> HIDE DEF before
  <2>3. last \in {before, top} /\ last <= before /\ last <= top
    BY <2>2, LeastOfTwo
  <2> HIDE DEF last, zeros
  <2>4. zeros \subseteq Nat
    BY <2>1
  <2>5. \A j \in zeros : len <= j
    <3> SUFFICES ASSUME NEW j \in zeros, ~(len <= j) PROVE FALSE
      OBVIOUS
    <3>1. j \in 0..len /\ j # len /\ Streamed(m, dst, src, j) = 0
      BY <1>1, <2>1, <2>4
    <3> QED BY <1>4, <3>1
  <2>6. len < n => len \in zeros
    <3> SUFFICES ASSUME len < n PROVE len \in zeros
      OBVIOUS
    <3>1. len \in 0..last /\ len \in 0..len
      BY <1>1, <1>3, <2>2, <2>3
    <3> QED BY <1>4, <2>1, <3>1
  <2>7. n <= len => zeros = {}
    <3> SUFFICES ASSUME n <= len, NEW j \in zeros PROVE FALSE
      OBVIOUS
    <3>1. j \in Nat /\ j <= last /\ len <= j
      BY <2>1, <2>4, <2>5
    <3> QED BY <1>1, <2>2, <2>3, <3>1
  <2>8. StoredCells(m, dst, src, n) = count
    <3>1. len < n \/ n <= len
      BY <1>1
    <3> QED BY <1>1, <2>4, <2>5, <2>6, <2>7, <3>1, StoredIs DEF zeros
  <2>9. dst # NULL /\ src # NULL
    BY <1>1, <1>3 DEF NULL
  <2>10. u16csncpy(m, dst, src, n)
           = [a \in DOMAIN m |-> IF a \in dst .. dst + count - 1
                                 THEN Streamed(m, dst, src, a - dst) ELSE m[a]]
    BY <1>7, <2>8, <2>9 DEF u16csncpy
  <2> HIDE DEF count
  <2>11. ASSUME NEW a \in DOMAIN m, a \in dst .. dst + count - 1
         PROVE  Streamed(m, dst, src, a - dst) = m[src + (a - dst)]
    <3>1. a - dst \in 0..len
      BY <1>1, <1>2, <1>3, <1>5, <2>11
    <3> QED BY <1>4, <3>1
  <2>12. u16csncpy(m, dst, src, n) = Loaded(m, dst, src, count)
    BY <2>10, <2>11 DEF Loaded
  <2> QED BY <2>12 DEF count, len
<1> QED BY <1>6, <1>7

\* A copy into the middle of its source never meets the end of it.
LEMMA InsideRunsAway ==
  ASSUME NEW m, IsText(m), NEW src \in DOMAIN m, NEW dst \in src + 1..src + Length(m, src),
         Max(DOMAIN m) < SIZE_MAX
  PROVE  RunsAway(m, dst, src, SIZE_MAX)
<1> DEFINE len == Length(m, src)
           most == Max(DOMAIN m)
           n == SIZE_MAX
           zeros == Zeros(m, dst, src, n)
           set == {n} \cup {j + 1 : j \in zeros}
           stored == Min(set)
           w == dst - src
<1>1. /\ src \in Nat /\ len \in Nat
      /\ \A k \in 0..len - 1 : src + k \in DOMAIN m /\ m[src + k] # 0
  BY LengthIs
<1>2. PICK top \in Nat : DOMAIN m = 0..top
  BY DEF IsText
<1>3. most = top
  BY <1>2, MaxIsTop
<1>4. n \in Nat /\ top < n
  BY <1>3, WideStrAssumption
<1>5. dst \in src + 1..src + len
  OBVIOUS
<1> HIDE DEF len, most, n
<1>6. w \in Int /\ w > 0 /\ w <= len /\ dst > src /\ dst \in Nat /\ dst >= 1
  BY <1>1, <1>5
<1> HIDE DEF w
<1>7. ASSUME NEW j \in Nat PROVE Streamed(m, dst, src, j) # 0
  <2>1. j % w \in 0..w - 1
    BY <1>6, Division
  <2> DEFINE k == j % w
  <2> HIDE DEF k
  <2>2. k \in 0..len - 1
    BY <1>1, <1>6, <2>1 DEF k
  <2>3. Streamed(m, dst, src, j) = Cell(m, src + k)
    BY <1>6 DEF Streamed, k, w
  <2> QED BY <1>1, <2>2, <2>3 DEF Cell
<1>8. zeros = {}
  <2> DEFINE last == Min({n - 1, Max(DOMAIN m)})
  <2>1. zeros = {j \in 0..last : Streamed(m, dst, src, j) = 0}
    BY DEF Zeros
  <2> HIDE DEF last, zeros
  <2>2. \A j \in 0..last : j \in Nat
    OBVIOUS
  <2> QED BY <1>7, <2>1, <2>2
<1>9. StoredCells(m, dst, src, n) = stored
  BY DEF StoredCells, Zeros
<1> HIDE DEF zeros
<1>10. set = {n}
  BY <1>8
<1> HIDE DEF set
<1>11. stored = n
  <2>1. set \subseteq Nat /\ set # {}
    BY <1>4, <1>10
  <2>2. stored \in set
    BY <2>1, MinIs
  <2> QED BY <1>10, <2>2
<1> HIDE DEF stored
<1>12. dst + n - 1 > top
  BY <1>2, <1>4, <1>6
<1> QED BY <1>3, <1>9, <1>11, <1>12 DEF RunsAway, n, most

LEMMA WideCopiesHold ==
  ASSUME CallsInv
  PROVE  WideCopiesAreExact
<1> SUFFICES ASSUME family = "copy", D # NULL, S # NULL
             PROVE  LET len == Length(mem, S)
                        end == CatCursor(mem, D)
                        Inside(p) == p \in S + 1 .. S + len
                        Fits(p, n) == p + n - 1 \in DOMAIN mem
                        n == Min({L, len + 1})
                    IN  /\ ~Inside(D) /\ Fits(D, len + 1) =>
                              u16cscpy(mem, D, S) = Loaded(mem, D, S, len + 1)
                        /\ ~Inside(D) /\ Fits(D, n) => u16csncpy(mem, D, S, L) = Loaded(mem, D, S, n)
                        /\ ~Inside(end) /\ Fits(end, len + 1) =>
                              u16cscat(mem, D, S) = Loaded(mem, end, S, len + 1)
                        /\ Inside(D) => RunsAway(mem, D, S, SIZE_MAX)
  BY DEF WideCopiesAreExact
<1> DEFINE len == Length(mem, S)
           end == CatCursor(mem, D)
           n == Min({L, len + 1})
           full == Min({SIZE_MAX, len + 1})
<1>1. /\ mem \in CopyMemories /\ D \in DOMAIN mem /\ S \in DOMAIN mem /\ L \in Nat
      /\ IsText(mem) /\ IsMemory(mem)
  <2>1. ArgsIn(CopyMemories)
    BY DEF CallsInv
  <2>2. mem \in CopyMemories
    BY <2>1 DEF ArgsIn
  <2> QED BY <2>1, <2>2, TextIs DEF ArgsIn
<1>2. PICK top \in Nat : DOMAIN mem = 0..top /\ top < SIZE_MAX /\ Max(DOMAIN mem) = top
  <2> DEFINE size == Cardinality(DOMAIN mem)
             top == size - 1
  <2>1. size \in Nat /\ DOMAIN mem = 0..size - 1 /\ size <= SIZE_MAX /\ SIZE_MAX \in Nat
    BY <1>1, TextIs, StringsAssumption, WideStrAssumption
  <2> HIDE DEF size
  <2>2. top \in Nat /\ DOMAIN mem = 0..top /\ top < SIZE_MAX
    BY <1>1, <2>1
  <2> HIDE DEF top
  <2>3. Max(DOMAIN mem) = top
    BY <2>2, MaxIsTop
  <2> QED BY <2>2, <2>3
<1>3. len \in Nat /\ len <= top /\ S \in Nat
  <2>1. S \in Nat /\ len \in Nat /\ S + len \in DOMAIN mem
    BY <1>1, LengthIs
  <2> HIDE DEF len
  <2> QED BY <1>2, <2>1
<1>4. end \in DOMAIN mem /\ end # NULL
  <2>1. end \in DOMAIN mem
    BY <1>1, LengthIs DEF CatCursor
  <2> HIDE DEF end
  <2> QED BY <1>2, <2>1 DEF NULL
<1>5. full = len + 1
  <2> DEFINE stop == len + 1
             all == SIZE_MAX
             least == Min({all, stop})
  <2>1. stop \in Nat /\ all \in Nat /\ stop <= all
    <3> HIDE DEF len
    <3> QED BY <1>2, <1>3, WideStrAssumption
  <2> HIDE DEF stop, all
  <2>2. least \in {all, stop} /\ least <= all /\ least <= stop
    BY <2>1, LeastOfTwo
  <2> HIDE DEF least
  <2>3. least = stop
    BY <2>1, <2>2
  <2> QED BY <2>3 DEF least, stop, all
<1>6. SIZE_MAX \in Nat
  BY WideStrAssumption
<1>7. ASSUME ~(D \in S + 1..S + len) PROVE u16cscpy(mem, D, S) = Loaded(mem, D, S, len + 1)
  BY <1>1, <1>5, <1>6, <1>7, WideCopyIs DEF u16cscpy
<1>8. ASSUME ~(D \in S + 1..S + len) PROVE u16csncpy(mem, D, S, L) = Loaded(mem, D, S, n)
  BY <1>1, <1>8, WideCopyIs
<1>9. ASSUME ~(end \in S + 1..S + len) PROVE u16cscat(mem, D, S) = Loaded(mem, end, S, len + 1)
  <2>1. u16csncpy(mem, end, S, SIZE_MAX) = Loaded(mem, end, S, len + 1)
    BY <1>1, <1>4, <1>5, <1>6, <1>9, WideCopyIs
  <2> QED BY <2>1 DEF u16cscat, u16cscpy
<1>10. ASSUME D \in S + 1..S + len PROVE RunsAway(mem, D, S, SIZE_MAX)
  BY <1>1, <1>2, <1>10, InsideRunsAway
<1> QED BY <1>7, <1>8, <1>9, <1>10

-----------------------------------------------------------------------------
(* The two functions that trim.                                            *)

LEMMA TrimmedIs ==
  ASSUME NEW m, NEW dest \in DOMAIN m, NEW dmax \in Nat, NEW result, dest # NULL, dmax > 1,
         dmax <= RSIZE_MAX_STR, Length(m, dest) \in Nat, Length(m, dest) <= dmax, m[dest] # 0
  PROVE  Trimmed(m, dest, dmax, result) = result
<1> DEFINE checks == StrDestChecks(dest, dmax)
           first == Done(Stored(m, dest, 1, 0))
           error == handle_error(m, dest, dmax, ESUNTERM)
           inner == IF m[dest] = 0 \/ dmax <= RSIZE_MIN_STR THEN first
                    ELSE IF Length(m, dest) > dmax THEN error
                    ELSE result
<1>1. Passes(checks)
  <2>1. dest # NULL /\ dmax # 0 /\ ~(dmax > RSIZE_MAX_STR)
    BY SafeStrAssumption
  <2> QED BY ONLY <2>1, SoundPasses
<1>2. ~(m[dest] = 0 \/ dmax <= RSIZE_MIN_STR) /\ ~(Length(m, dest) > dmax)
  <2> DEFINE len == Length(m, dest)
  <2>1. len \in Nat /\ len <= dmax
    OBVIOUS
  <2> HIDE DEF len
  <2>2. ~(len > dmax)
    BY <2>1
  <2> QED BY <2>2 DEF RSIZE_MIN_STR, len
<1>3. Trimmed(m, dest, dmax, result) = Checked(m, dest, dmax, checks, inner)
  BY DEF Trimmed
<1> HIDE DEF checks, first, error
<1>4. inner = result
  BY <1>2
<1> HIDE DEF inner
<1> QED BY <1>1, <1>3, <1>4, PassedIs

\* Where the characters that are not blank begin and end.
LEMMA KeepIs ==
  ASSUME NEW m, IsText(m), \A a \in DOMAIN m : m[a] \in Int, NEW p \in DOMAIN m,
         NotBlank(Text(m, p)) # {}
  PROVE  LET len == Length(m, p)
             lead == Leading(m, p)
             keep == NotBlank(Text(m, p))
         IN  /\ lead \in Nat /\ len \in Nat /\ lead < len /\ Min(keep) = lead + 1
             /\ Max(keep) \in lead + 1..len /\ m[p + Max(keep) - 1] \notin Blank
             /\ \A j \in Max(keep)..len - 1 : m[p + j] \in Blank
<1> DEFINE len == Length(m, p)
           lead == Leading(m, p)
           keep == NotBlank(Text(m, p))
           least == Min(keep)
           most == Max(keep)
<1>1. p \in Nat /\ len \in Nat /\ m[p + len] = 0 /\ \A k \in 0..len - 1 : p + k \in DOMAIN m /\ m[p + k] # 0
  BY LengthIs
<1>2. lead \in 0..len /\ m[p + lead] \notin Blank /\ \A k \in 0..lead - 1 : m[p + k] \in Blank
  BY LeadingIs
<1>3. Text(m, p) \in Seq(Int) /\ Len(Text(m, p)) = len /\ \A i \in 1..len : Text(m, p)[i] = m[p + i - 1]
  BY TextIsSeq
<1>4. keep = {i \in 1..len : m[p + i - 1] \notin Blank}
  BY <1>3 DEF NotBlank
<1>5. keep # {}
  OBVIOUS
<1> HIDE DEF len, lead, keep
<1>6. keep \subseteq Nat /\ keep \subseteq 0..len
  BY <1>1, <1>4
<1>7. least \in keep /\ \A y \in keep : least <= y
  BY <1>5, <1>6, MinIs
<1>8. most \in keep /\ \A y \in keep : most >= y
  BY <1>1, <1>5, <1>6, MaxIs
<1> HIDE DEF least, most
<1>9. \A i \in keep : i \in 1..len /\ lead <= i - 1
  <2> SUFFICES ASSUME NEW i \in keep, ~(lead <= i - 1) PROVE FALSE
    BY <1>4
  <2>1. i - 1 \in 0..lead - 1 /\ p + (i - 1) = p + i - 1 /\ m[p + i - 1] \notin Blank
    BY <1>1, <1>2, <1>4
  <2> QED BY <1>2, <2>1
<1>10. lead < len /\ lead + 1 \in keep
  <2>1. lead < len
    BY <1>1, <1>2, <1>7, <1>9
  <2>2. lead + 1 \in 1..len /\ p + (lead + 1) - 1 = p + lead
    BY <1>1, <1>2, <2>1
  <2> QED BY <1>2, <1>4, <2>1, <2>2
<1>11. least = lead + 1
  BY <1>1, <1>2, <1>4, <1>7, <1>9, <1>10
<1>12. most \in lead + 1..len /\ m[p + most - 1] \notin Blank
  BY <1>1, <1>2, <1>4, <1>8, <1>9
<1>13. ASSUME NEW j \in most..len - 1 PROVE m[p + j] \in Blank
  <2>1. j + 1 \in 1..len /\ ~(most >= j + 1) /\ p + (j + 1) - 1 = p + j
    BY <1>1, <1>2, <1>12
  <2> QED BY <1>4, <1>8, <2>1
<1>14. lead \in Nat
  BY <1>2
<1> QED BY <1>1, <1>10, <1>11, <1>12, <1>13, <1>14 DEF len, lead, least, most, keep

\* The cells of a string moved over its leading blanks.
LEMMA ShiftedIs ==
  ASSUME NEW m, IsText(m), \A a \in DOMAIN m : m[a] \in Int, NEW dest \in DOMAIN m,
         Leading(m, dest) < Length(m, dest)
  PROVE  LET len == Length(m, dest)
             lead == Leading(m, dest)
             new == ShiftLeft(m, dest)
         IN  /\ \A j \in 0..len - lead - 1 : new[dest + j] = m[dest + lead + j]
             /\ \A j \in len - lead..len - 1 : new[dest + j] \in Blank
             /\ \A a \in DOMAIN m : new[a] \in Int
<1> DEFINE len == Length(m, dest)
           lead == Leading(m, dest)
           free == Max({lead, len - lead})
           moved == Loaded(m, dest, dest + lead, len - lead)
           new == ShiftLeft(m, dest)
<1>1. /\ dest \in Nat /\ len \in Nat /\ lead \in 0..len
      /\ \A k \in 0..len - 1 : dest + k \in DOMAIN m /\ m[dest + k] # 0
      /\ \A k \in 0..lead - 1 : m[dest + k] \in Blank
  BY LengthIs, LeadingIs
<1>2. new = IF lead \in {0, len} THEN m ELSE Stored(moved, dest + free, len - free, 32)
  BY DEF ShiftLeft
<1>3. lead < len
  OBVIOUS
<1> HIDE DEF len, lead, new
<1>4. CASE lead = 0
  <2>1. new = m
    BY <1>2, <1>4
  <2>2. \A j \in 0..len - lead - 1 : dest + lead + j = dest + j
    BY <1>1, <1>4
  <2>3. len - lead..len - 1 = {}
    BY <1>1, <1>4
  <2> QED BY <2>1, <2>2, <2>3 DEF len, lead, new
<1>5. CASE lead # 0
  <2> DEFINE rest == len - lead
  <2>1. rest \in Nat /\ rest > 0 /\ lead \in Nat /\ lead > 0 /\ lead + rest = len
    BY <1>1, <1>3, <1>5
  <2>2. new = Stored(moved, dest + free, len - free, 32)
    BY <1>1, <1>2, <1>3, <1>5
  <2>3. moved = Loaded(m, dest, dest + lead, rest) /\ free = Max({lead, rest})
    OBVIOUS
  <2> HIDE DEF rest, moved, free
  <2>4. free \in {lead, rest} /\ free >= lead /\ free >= rest
    BY <2>1, <2>3, MaxOfTwo
  <2>5. DOMAIN moved = DOMAIN m
    BY <2>3 DEF Loaded
  <2>6. ASSUME NEW j \in 0..len - 1
        PROVE  /\ dest + j \in DOMAIN m
               /\ new[dest + j] = IF j >= free THEN 32 ELSE moved[dest + j]
               /\ moved[dest + j] = IF j < rest THEN m[dest + lead + j] ELSE m[dest + j]
    <3>1. dest + j \in DOMAIN m
      BY <1>1
    <3> DEFINE a == dest + j
               b == dest + free
               n == len - free
    <3>2. a \in b..b + n - 1 <=> j >= free
      BY <1>1, <2>1, <2>4
    <3>3. a \in dest..dest + rest - 1 <=> j < rest
      BY <1>1, <2>1
    <3>4. dest + lead + (a - dest) = dest + lead + j
      BY <1>1, <2>1
    <3> HIDE DEF a, b, n
    <3>5. new = Stored(moved, b, n, 32)
      BY <2>2 DEF b, n
    <3>6. new[a] = IF a \in b..b + n - 1 THEN 32 ELSE moved[a]
      BY <2>5, <3>1, <3>5 DEF Stored, a
    <3>7. moved[a] = IF a \in dest..dest + rest - 1 THEN m[dest + lead + (a - dest)] ELSE m[a]
      BY <2>3, <3>1 DEF Loaded, a
    <3> QED BY <3>1, <3>2, <3>3, <3>4, <3>6, <3>7 DEF a
  <2>7. ASSUME NEW j \in 0..len - lead - 1 PROVE new[dest + j] = m[dest + lead + j]
    <3>1. j \in 0..len - 1 /\ j < rest /\ ~(j >= free)
      BY <1>1, <2>1, <2>4 DEF rest
    <3> QED BY <2>6, <3>1
  <2>8. ASSUME NEW j \in len - lead..len - 1 PROVE new[dest + j] \in Blank
    <3>1. j \in 0..len - 1 /\ ~(j < rest)
      BY <1>1, <2>1 DEF rest
    <3>2. CASE j >= free
      BY <2>6, <3>1, <3>2 DEF Blank
    <3>3. CASE ~(j >= free)
      <4>1. j \in 0..lead - 1
        BY <1>1, <2>1, <2>4, <3>1, <3>3
      <4>2. new[dest + j] = m[dest + j]
        BY <2>6, <3>1, <3>3
      <4> QED BY <1>1, <4>1, <4>2
    <3> QED BY <3>2, <3>3
  <2>9. ASSUME NEW a \in DOMAIN m PROVE new[a] \in Int
    <3>1. moved[a] \in Int
      <4>1. CASE a \in dest..dest + rest - 1
        <5>1. lead + (a - dest) \in 0..len - 1 /\ dest + (lead + (a - dest)) = dest + lead + (a - dest)
          BY <1>1, <2>1, <4>1
        <5>2. dest + lead + (a - dest) \in DOMAIN m
          BY <1>1, <5>1
        <5>3. moved[a] = m[dest + lead + (a - dest)]
          BY <2>3, <4>1 DEF Loaded
        <5> QED BY <5>2, <5>3
      <4>2. CASE ~(a \in dest..dest + rest - 1)
        BY <2>3, <4>2 DEF Loaded
      <4> QED BY <4>1, <4>2
    <3> QED BY <2>2, <2>5, <3>1 DEF Stored
  <2> QED BY <2>7, <2>8, <2>9 DEF len, lead, new
<1> QED BY <1>4, <1>5

\* A memory with n characters of the string, from the one after lead on, in front.
Cut(m, dest, new, lead, n) ==
  /\ IsText(m) /\ (\A a \in DOMAIN m : m[a] \in Int) /\ dest \in DOMAIN m /\ DOMAIN new = DOMAIN m
  /\ lead \in Nat /\ n \in Nat /\ lead + n <= Length(m, dest) /\ new[dest + n] = 0
  /\ \A j \in 0..n - 1 : new[dest + j] = m[dest + lead + j]

LEMMA CutIs ==
  ASSUME NEW m, NEW dest, NEW new, NEW lead, NEW n, Cut(m, dest, new, lead, n)
  PROVE  /\ Length(new, dest) = n
         /\ Text(new, dest) = SubSeq(Text(m, dest), lead + 1, lead + n)
<1> DEFINE len == Length(m, dest)
           text == Text(m, dest)
           out == Text(new, dest)
           sub == SubSeq(text, lead + 1, lead + n)
<1>0. /\ IsText(m) /\ (\A a \in DOMAIN m : m[a] \in Int) /\ dest \in DOMAIN m /\ DOMAIN new = DOMAIN m
       /\ lead \in Nat /\ n \in Nat
  BY DEF Cut
<1>1. PICK top \in Nat : DOMAIN m = 0..top /\ DOMAIN new = 0..top
  BY <1>0 DEF IsText
<1>2. /\ dest \in Nat /\ len \in Nat /\ dest + len \in DOMAIN m
      /\ \A k \in 0..len - 1 : dest + k \in DOMAIN m /\ m[dest + k] # 0
  BY <1>0, LengthIs
<1>3. text \in Seq(Int) /\ Len(text) = len /\ \A i \in 1..len : text[i] = m[dest + i - 1]
  BY <1>0, TextIsSeq
<1>4. lead + n <= len /\ new[dest + n] = 0 /\ \A j \in 0..n - 1 : new[dest + j] = m[dest + lead + j]
  BY DEF Cut
<1> HIDE DEF len, text
<1>5. dest + n <= top /\ \A j \in 0..n - 1 : new[dest + j] # 0
  <2>1. dest + n <= top
    BY <1>0, <1>1, <1>2, <1>4
  <2>2. ASSUME NEW j \in 0..n - 1 PROVE new[dest + j] # 0
    <3>1. lead + j \in 0..len - 1 /\ dest + (lead + j) = dest + lead + j
      BY <1>0, <1>2, <1>4
    <3> QED BY <1>0, <1>2, <1>4, <3>1
  <2> QED BY <2>1, <2>2
<1>6. Length(new, dest) = n
  BY <1>0, <1>1, <1>2, <1>4, <1>5, EndsAt
<1>7. out = [i \in 1..n |-> new[dest + i - 1]]
  BY <1>0, <1>6 DEF Text
<1>8. /\ sub \in Seq(Int) /\ Len(sub) = n
      /\ \A i \in 1..n : sub[i] = text[lead + 1 + i - 1]
  <2> DEFINE first == lead + 1
             last == lead + n
  <2>1. first \in 1..Len(text) + 1 /\ last \in first - 1..Len(text) /\ first <= last + 1
        /\ last - first + 1 = n
    BY <1>0, <1>2, <1>3, <1>4
  <2>2. \A i \in first..last : text[i] \in Int
    <3> SUFFICES ASSUME NEW i \in first..last PROVE text[i] \in Int
      OBVIOUS
    <3>1. i \in 1..len
      BY <1>0, <1>2, <1>4
    <3>2. text \in [1..len -> Int]
      BY <1>0, <1>3
    <3> QED BY <3>1, <3>2
  <2> HIDE DEF first, last
  <2>3. /\ SubSeq(text, first, last) \in Seq(Int) /\ Len(SubSeq(text, first, last)) = n
        /\ \A i \in 1..n : SubSeq(text, first, last)[i] = text[first + i - 1]
    BY <1>0, <1>3, <2>1, <2>2, SubSeqProperties
  <2> QED BY <2>3 DEF first, last
<1>9. ASSUME NEW i \in 1..n PROVE out[i] = sub[i] /\ out[i] \in Int
  <2>1. /\ i - 1 \in 0..n - 1 /\ dest + (i - 1) = dest + i - 1
        /\ lead + 1 + i - 1 \in 1..len /\ dest + (lead + 1 + i - 1) - 1 = dest + lead + (i - 1)
    BY <1>0, <1>2, <1>4
  <2>2. new[dest + i - 1] = m[dest + lead + (i - 1)]
    BY <1>0, <1>4, <2>1
  <2>3. text[lead + 1 + i - 1] = m[dest + (lead + 1 + i - 1) - 1]
    BY <1>0, <1>3, <2>1
  <2>4. sub[i] \in Int
    <3> HIDE DEF sub
    <3>1. sub \in [1..n -> Int]
      BY <1>0, <1>8
    <3> QED BY <3>1
  <2> HIDE DEF out, sub
  <2> QED BY <1>0, <1>7, <1>8, <2>1, <2>2, <2>3, <2>4
<1>10. out \in Seq(Int) /\ Len(out) = n
  <2>1. \A i \in 1..n : new[dest + i - 1] \in Int
    BY <1>0, <1>7, <1>9
  <2> HIDE DEF out
  <2> QED BY <1>0, <1>7, <2>1
<1> HIDE DEF out, sub
<1>11. out = sub
  BY <1>0, <1>8, <1>9, <1>10, SeqEqual
<1> QED BY <1>0, <1>6, <1>11 DEF out, sub, text

LEMMA LeftIs ==
  ASSUME NEW m, IsText(m), \A a \in DOMAIN m : m[a] \in Int, NEW dest \in DOMAIN m, NEW dmax \in Nat,
         dmax > 1, dmax <= RSIZE_MAX_STR, Length(m, dest) <= dmax, NotBlank(Text(m, dest)) # {}
  PROVE  Text(strljustify_s(m, dest, dmax).mem, dest)
           = SubSeq(Text(m, dest), Min(NotBlank(Text(m, dest))), Len(Text(m, dest)))
<1> DEFINE len == Length(m, dest)
           lead == Leading(m, dest)
           text == Text(m, dest)
           least == Min(NotBlank(text))
           shifted == ShiftLeft(m, dest)
           rest == len - lead
           new == IF lead \in {0, len} THEN m ELSE Stored(shifted, dest + len - lead, 1, 0)
<1>1. /\ lead \in Nat /\ len \in Nat /\ lead < len /\ least = lead + 1
  BY KeepIs
<1>2. /\ dest \in Nat /\ dest + len \in DOMAIN m /\ m[dest + len] = 0
      /\ \A k \in 0..len - 1 : dest + k \in DOMAIN m /\ m[dest + k] # 0
  BY LengthIs
<1>3. \A j \in 0..len - lead - 1 : shifted[dest + j] = m[dest + lead + j]
  BY <1>1, ShiftedIs
<1>4. DOMAIN shifted = DOMAIN m
  BY ShiftLeftIs
<1>5. Len(text) = len
  BY TextIsSeq
<1>6. strljustify_s(m, dest, dmax) = Trimmed(m, dest, dmax, Done(new))
  BY DEF strljustify_s
<1>7. dest # NULL /\ m[dest] # 0 /\ len <= dmax
  <2>1. len <= dmax
    OBVIOUS
  <2> HIDE DEF len, lead
  <2>2. 0 \in 0..len - 1 /\ dest + 0 = dest
    BY <1>1, <1>2
  <2>3. m[dest] # 0
    BY <1>2, <2>2
  <2> QED BY <1>2, <2>1, <2>3 DEF NULL
<1>8. strljustify_s(m, dest, dmax).mem = new
  <2>1. Trimmed(m, dest, dmax, Done(new)) = Done(new)
    <3> DEFINE result == Done(new)
    <3> HIDE DEF result
    <3> QED BY <1>1, <1>7, TrimmedIs
  <2> HIDE DEF new
  <2> QED BY <1>6, <2>1 DEF Done
<1> HIDE DEF len, lead, shifted, least
<1>9. rest \in Nat /\ lead + rest = len /\ lead + rest <= len
  BY <1>1
<1>10. DOMAIN new = DOMAIN m /\ new[dest + rest] = 0 /\ \A j \in 0..rest - 1 : new[dest + j] = m[dest + lead + j]
  <2>1. CASE lead = 0
    <3>1. rest = len /\ \A j \in 0..rest - 1 : dest + lead + j = dest + j
      BY <1>1, <1>2, <2>1
    <3> QED BY <1>2, <2>1, <3>1
  <2>2. CASE lead # 0
    <3>1. dest + len - lead = dest + rest
      BY <1>1, <1>2
    <3>2. new = Stored(shifted, dest + rest, 1, 0)
      BY <1>1, <2>2, <3>1
    <3> HIDE DEF new
    <3>3. DOMAIN new = DOMAIN m
      BY <1>4, <3>2 DEF Stored
    <3>4. new[dest + rest] = 0
      <4>1. rest \in 0..len - 1 /\ dest + rest \in dest + rest..dest + rest + 1 - 1
        BY <1>1, <1>2, <2>2
      <4> QED BY <1>2, <1>4, <3>2, <4>1 DEF Stored
    <3>5. ASSUME NEW j \in 0..rest - 1 PROVE new[dest + j] = m[dest + lead + j]
      <4>1. j \in 0..len - lead - 1 /\ j \in 0..len - 1 /\ ~(dest + j \in dest + rest..dest + rest + 1 - 1)
        BY <1>1, <1>2
      <4>2. new[dest + j] = shifted[dest + j]
        BY <1>2, <1>4, <3>2, <4>1 DEF Stored
      <4> QED BY <1>3, <4>1, <4>2
    <3> QED BY <3>3, <3>4, <3>5
  <2> QED BY <2>1, <2>2
<1> HIDE DEF new, rest
<1>11. Text(new, dest) = SubSeq(text, lead + 1, lead + rest)
  <2>1. Cut(m, dest, new, lead, rest)
    BY <1>1, <1>9, <1>10 DEF Cut, len
  <2> QED BY <2>1, CutIs
<1> QED BY <1>1, <1>5, <1>8, <1>9, <1>11 DEF least

LEMMA RemovedIs ==
  ASSUME NEW m, IsText(m), \A a \in DOMAIN m : m[a] \in Int, NEW dest \in DOMAIN m, NEW dmax \in Nat,
         dmax > 1, dmax <= RSIZE_MAX_STR, Length(m, dest) <= dmax, NotBlank(Text(m, dest)) # {}
  PROVE  LET keep == NotBlank(Text(m, dest))
             lead == Leading(m, dest)
             new == strremovews_s(m, dest, dmax).mem
         IN  /\ Text(new, dest) = SubSeq(Text(m, dest), Min(keep), Max(keep))
             /\ IsText(new) /\ DOMAIN new = DOMAIN m /\ \A a \in DOMAIN new : new[a] \in Int
             /\ lead \in Nat /\ Max(keep) - lead \in Nat /\ Max(keep) - lead > 0
             /\ Length(new, dest) = Max(keep) - lead /\ Length(new, dest) <= dmax
             /\ new[dest] \notin Blank /\ new[dest + (Max(keep) - lead) - 1] \notin Blank
<1> DEFINE len == Length(m, dest)
           lead == Leading(m, dest)
           text == Text(m, dest)
           keep == NotBlank(text)
           least == Min(keep)
           most == Max(keep)
           n == most - lead
           shifted == ShiftLeft(m, dest)
           kept == {a \in 0 .. dest + len - 1 : shifted[a] \notin Blank}
           last == Max(kept)
           from == IF kept = {} THEN 0 ELSE last + 1
           new == Stored(shifted, from, dest + len - from, 0)
<1>1. /\ lead \in Nat /\ len \in Nat /\ lead < len /\ least = lead + 1
      /\ most \in lead + 1..len /\ m[dest + most - 1] \notin Blank
      /\ \A j \in most..len - 1 : m[dest + j] \in Blank
  BY KeepIs
<1>2. /\ dest \in Nat /\ dest + len \in DOMAIN m /\ m[dest + len] = 0
      /\ \A k \in 0..len - 1 : dest + k \in DOMAIN m /\ m[dest + k] # 0
  BY LengthIs
<1>3. PICK top \in Nat : DOMAIN m = 0..top /\ m[top] = 0
  BY DEF IsText
<1>4. /\ \A j \in 0..len - lead - 1 : shifted[dest + j] = m[dest + lead + j]
      /\ \A j \in len - lead..len - 1 : shifted[dest + j] \in Blank
      /\ \A a \in DOMAIN m : shifted[a] \in Int
  BY <1>1, ShiftedIs
<1>5. /\ DOMAIN shifted = DOMAIN m /\ shifted[dest] \notin Blank
      /\ \A a \in DOMAIN m : ~(a \in dest..dest + len - 1) => shifted[a] = m[a]
  BY <1>1, ShiftLeftIs DEF StaysIn
<1>6. strremovews_s(m, dest, dmax) = Trimmed(m, dest, dmax, Done(new))
  BY DEF strremovews_s
<1>7. dest # NULL /\ m[dest] # 0 /\ len <= dmax
  <2>1. len <= dmax
    OBVIOUS
  <2> HIDE DEF len, lead, most, least
  <2>2. 0 \in 0..len - 1 /\ dest + 0 = dest
    BY <1>1, <1>2
  <2>3. m[dest] # 0
    BY <1>2, <2>2
  <2> QED BY <1>2, <2>1, <2>3 DEF NULL
<1>8. strremovews_s(m, dest, dmax).mem = new
  <2>1. Trimmed(m, dest, dmax, Done(new)) = Done(new)
    <3> DEFINE result == Done(new)
    <3> HIDE DEF result
    <3> QED BY <1>1, <1>7, TrimmedIs
  <2> HIDE DEF new
  <2> QED BY <1>6, <2>1 DEF Done
<1> HIDE DEF len, lead, shifted, least, most, text, keep
<1>9. n \in Nat /\ n > 0 /\ lead + n = most /\ lead + n <= len /\ n <= len
  BY <1>1
<1>10. ASSUME NEW j \in 0..n - 1 PROVE shifted[dest + j] = m[dest + lead + j]
  <2>1. j \in 0..len - lead - 1
    BY <1>1, <1>9
  <2> QED BY <1>4, <2>1
<1>11. ASSUME NEW j \in n..len - 1 PROVE shifted[dest + j] \in Blank
  <2>1. CASE j <= len - lead - 1
    <3>1. j \in 0..len - lead - 1 /\ lead + j \in most..len - 1 /\ dest + (lead + j) = dest + lead + j
      BY <1>1, <1>2, <1>9, <2>1
    <3> QED BY <1>1, <1>4, <3>1
  <2>2. CASE ~(j <= len - lead - 1)
    <3>1. j \in len - lead..len - 1
      BY <1>1, <1>9, <2>2
    <3> QED BY <1>4, <3>1
  <2> QED BY <2>1, <2>2
<1>12. shifted[dest + n - 1] \notin Blank
  <2>1. n - 1 \in 0..n - 1 /\ dest + (n - 1) = dest + n - 1 /\ dest + lead + (n - 1) = dest + most - 1
    BY <1>1, <1>2, <1>9
  <2>2. shifted[dest + (n - 1)] = m[dest + lead + (n - 1)]
    BY <1>10, <2>1
  <2> QED BY <1>1, <2>1, <2>2
<1>13. from = dest + n
  <2> DEFINE end == dest + len - 1
  <2>1. end \in Nat /\ kept = {a \in 0..end : shifted[a] \notin Blank}
    BY <1>1, <1>2
  <2>2. dest + n - 1 \in 0..end
    BY <1>1, <1>2, <1>9
  <2> HIDE DEF end, kept
  <2>3. dest + n - 1 \in kept /\ kept \subseteq 0..end /\ kept # {}
    BY <1>12, <2>1, <2>2
  <2>4. last \in kept /\ \A y \in kept : last >= y
    BY <2>1, <2>3, MaxIs
  <2> HIDE DEF last
  <2>5. last \in 0..end /\ last >= dest + n - 1 /\ shifted[last] \notin Blank
    BY <2>1, <2>3, <2>4
  <2>6. ~(last >= dest + n)
    <3> SUFFICES ASSUME last >= dest + n PROVE FALSE
      OBVIOUS
    <3> DEFINE j == last - dest
    <3>1. j \in n..len - 1 /\ dest + j = last
      BY <1>1, <1>2, <1>9, <2>5 DEF end
    <3> HIDE DEF j
    <3> QED BY <1>11, <2>5, <3>1
  <2>7. last = dest + n - 1
    BY <1>2, <1>9, <2>5, <2>6
  <2> QED BY <1>2, <1>9, <2>3, <2>7
<1> HIDE DEF n, kept, last, from
<1>14. ASSUME NEW a \in DOMAIN m
       PROVE  new[a] = IF a \in dest + n..dest + len - 1 THEN 0 ELSE shifted[a]
  <2>1. from + (dest + len - from) - 1 = dest + len - 1
    BY <1>1, <1>2, <1>9, <1>13
  <2> QED BY <1>5, <1>13, <2>1 DEF Stored
<1>15. DOMAIN new = DOMAIN m
  BY <1>5 DEF Stored
<1> HIDE DEF new
<1>16. new[dest + n] = 0
  <2>1. dest + n \in DOMAIN m
    BY <1>1, <1>2, <1>3, <1>9
  <2>2. CASE n < len
    <3>1. dest + n \in dest + n..dest + len - 1
      BY <1>1, <1>2, <1>9, <2>2
    <3> QED BY <1>14, <2>1, <3>1
  <2>3. CASE ~(n < len)
    <3>1. n = len /\ ~(dest + n \in dest + n..dest + len - 1) /\ ~(dest + n \in dest..dest + len - 1)
      BY <1>1, <1>2, <1>9, <2>3
    <3> QED BY <1>2, <1>5, <1>14, <2>1, <3>1
  <2> QED BY <2>2, <2>3
<1>17. ASSUME NEW j \in 0..n - 1
       PROVE  new[dest + j] = shifted[dest + j] /\ new[dest + j] = m[dest + lead + j]
  <2>1. j \in 0..len - 1 /\ ~(dest + j \in dest + n..dest + len - 1)
    BY <1>1, <1>2, <1>9
  <2>2. dest + j \in DOMAIN m
    BY <1>2, <2>1
  <2> QED BY <1>10, <1>14, <2>1, <2>2
<1>18. IsText(new)
  <2>1. new[top] = 0
    <3>1. CASE top \in dest + n..dest + len - 1
      BY <1>3, <1>14, <3>1
    <3>2. CASE ~(top \in dest + n..dest + len - 1)
      <4>1. ~(top \in dest..dest + len - 1)
        BY <1>1, <1>2, <1>3
      <4> QED BY <1>3, <1>5, <1>14, <3>2, <4>1
    <3> QED BY <3>1, <3>2
  <2> QED BY <1>3, <1>15, <2>1 DEF IsText
<1>19. \A a \in DOMAIN new : new[a] \in Int
  BY <1>4, <1>14, <1>15
<1>20. Cut(m, dest, new, lead, n)
  <2>1. IsText(m) /\ (\A a \in DOMAIN m : m[a] \in Int) /\ dest \in DOMAIN m
    OBVIOUS
  <2> QED BY <1>1, <1>9, <1>15, <1>16, <1>17, <2>1 DEF Cut, len
<1>21. Length(new, dest) = n /\ Text(new, dest) = SubSeq(text, lead + 1, lead + n)
  BY <1>20, CutIs DEF text
<1>22. Text(new, dest) = SubSeq(text, least, most)
  BY <1>1, <1>9, <1>21
<1>23. new[dest] \notin Blank /\ new[dest + n - 1] \notin Blank
  <2>1. 0 \in 0..n - 1 /\ n - 1 \in 0..n - 1 /\ dest + 0 = dest /\ dest + (n - 1) = dest + n - 1
    BY <1>2, <1>9
  <2> QED BY <1>5, <1>12, <1>17, <2>1
<1>24. n <= dmax
  BY <1>1, <1>7, <1>9
<1> QED BY <1>1, <1>8, <1>9, <1>15, <1>18, <1>19, <1>21, <1>22, <1>23, <1>24
        DEF n, most, least, keep, lead, text

\* A text that begins and ends with a character that is not blank is kept.
LEMMA NothingToTrim ==
  ASSUME NEW m, IsText(m), \A a \in DOMAIN m : m[a] \in Int, NEW dest \in DOMAIN m,
         Length(m, dest) > 0, m[dest] \notin Blank, m[dest + Length(m, dest) - 1] \notin Blank
  PROVE  LET text == Text(m, dest)
             keep == NotBlank(text)
         IN  keep # {} /\ SubSeq(text, Min(keep), Max(keep)) = text
<1> DEFINE len == Length(m, dest)
           text == Text(m, dest)
           keep == NotBlank(text)
           least == Min(keep)
           most == Max(keep)
           sub == SubSeq(text, least, most)
<1>1. dest \in Nat /\ len \in Nat /\ len > 0
  BY LengthIs
<1>2. text \in Seq(Int) /\ Len(text) = len /\ \A i \in 1..len : text[i] = m[dest + i - 1]
  BY TextIsSeq
<1>3. keep = {i \in 1..len : m[dest + i - 1] \notin Blank}
  BY <1>2 DEF NotBlank
<1>4. m[dest] \notin Blank /\ m[dest + len - 1] \notin Blank
  OBVIOUS
<1> HIDE DEF len, keep, text
<1>5. 1 \in keep /\ len \in keep
  <2>1. 1 \in 1..len /\ len \in 1..len /\ dest + 1 - 1 = dest
    BY <1>1
  <2> QED BY <1>3, <1>4, <2>1
<1>6. keep \subseteq Nat /\ keep \subseteq 0..len /\ keep # {} /\ \A y \in keep : y \in 1..len
  <2>1. \A y \in keep : y \in 1..len
    BY <1>3
  <2>2. \A y \in 1..len : y \in Nat /\ y \in 0..len
    BY <1>1
  <2> QED BY <1>5, <2>1, <2>2
<1>7. least \in keep /\ least <= 1
  BY <1>5, <1>6, MinIs
<1>8. most \in keep /\ most >= len
  BY <1>1, <1>5, <1>6, MaxIs
<1> HIDE DEF least, most
<1>9. least = 1 /\ most = len
  BY <1>1, <1>6, <1>7, <1>8
<1>10. sub = text
  <2>1. \A i \in 1..len : text[i] \in Int
    BY <1>2
  <2>2. /\ sub \in Seq(Int) /\ Len(sub) = len
        /\ \A i \in 1..len - 1 + 1 : sub[i] = text[1 + i - 1]
    BY <1>1, <1>9, <2>1, SubSeqProperties
  <2> HIDE DEF sub
  <2>3. \A i \in 1..Len(sub) : sub[i] = text[i]
    <3> SUFFICES ASSUME NEW i \in 1..Len(sub) PROVE sub[i] = text[i]
      OBVIOUS
    <3>1. i \in 1..len - 1 + 1 /\ 1 + i - 1 = i
      BY <1>1, <2>2
    <3> QED BY <2>2, <3>1
  <2> QED BY <1>2, <2>2, <2>3, SeqEqual
<1> QED BY <1>6, <1>10 DEF sub, least, most, keep, text

LEMMA TrimsHold ==
  ASSUME CallsInv
  PROVE  TrimsAreExact
<1> SUFFICES ASSUME Whole, N > 1, NotBlank(Text(mem, D)) # {}
             PROVE  LET old == Text(mem, D)
                        keep == NotBlank(old)
                        left == strljustify_s(mem, D, N)
                        both == strremovews_s(mem, D, N)
                    IN  /\ Text(left.mem, D) = SubSeq(old, Min(keep), Len(old))
                        /\ Text(both.mem, D) = SubSeq(old, Min(keep), Max(keep))
                        /\ Text(strremovews_s(both.mem, D, N).mem, D) = Text(both.mem, D)
  BY DEF TrimsAreExact
<1>1. /\ family = "class" /\ D # NULL /\ Length(mem, D) <= N
      /\ ArgsIn(ClassMemories) /\ mem \in ClassMemories
  BY DEF Whole, CallsInv, ArgsIn
<1>2. D \in DOMAIN mem /\ N \in 0..Cardinality(DOMAIN mem)
  BY <1>1 DEF ArgsIn
<1>3. /\ IsText(mem) /\ Cardinality(DOMAIN mem) \in Nat /\ Cardinality(DOMAIN mem) <= RSIZE_MAX_STR
      /\ RSIZE_MAX_STR \in Nat
  BY <1>1, TextIs, MemoriesAssumption, SafeStrAssumption
<1>4. \A a \in DOMAIN mem : mem[a] \in Int
  BY <1>1, MemoriesAssumption
<1>5. N \in Nat /\ N <= RSIZE_MAX_STR
  BY <1>2, <1>3
<1> DEFINE old == Text(mem, D)
           keep == NotBlank(old)
           lead == Leading(mem, D)
           both == strremovews_s(mem, D, N).mem
           n == Max(keep) - lead
           new == Text(both, D)
<1>6. Text(strljustify_s(mem, D, N).mem, D) = SubSeq(old, Min(keep), Len(old))
  BY <1>1, <1>2, <1>3, <1>4, <1>5, LeftIs
<1>7. /\ new = SubSeq(old, Min(keep), Max(keep))
      /\ IsText(both) /\ DOMAIN both = DOMAIN mem /\ (\A a \in DOMAIN both : both[a] \in Int)
      /\ n \in Nat /\ n > 0 /\ Length(both, D) = n /\ Length(both, D) <= N
      /\ both[D] \notin Blank /\ both[D + n - 1] \notin Blank
  BY <1>1, <1>2, <1>3, <1>4, <1>5, RemovedIs
<1> HIDE DEF n, both, new
<1>8. NotBlank(Text(both, D)) # {} /\ SubSeq(Text(both, D), Min(NotBlank(Text(both, D))), Max(NotBlank(Text(both, D)))) = Text(both, D)
  <2>1. /\ IsText(both) /\ (\A a \in DOMAIN both : both[a] \in Int) /\ D \in DOMAIN both
        /\ Length(both, D) > 0 /\ both[D] \notin Blank /\ both[D + Length(both, D) - 1] \notin Blank
    BY <1>2, <1>7
  <2> QED BY ONLY <2>1, NothingToTrim
<1>9. Text(strremovews_s(both, D, N).mem, D)
        = SubSeq(Text(both, D), Min(NotBlank(Text(both, D))), Max(NotBlank(Text(both, D))))
  <2>1. /\ IsText(both) /\ (\A a \in DOMAIN both : both[a] \in Int) /\ D \in DOMAIN both
        /\ N \in Nat /\ N > 1 /\ N <= RSIZE_MAX_STR /\ Length(both, D) <= N /\ NotBlank(Text(both, D)) # {}
    BY <1>2, <1>5, <1>7, <1>8
  <2> QED BY ONLY <2>1, RemovedIs
<1>10. Text(strremovews_s(both, D, N).mem, D) = Text(both, D)
  BY <1>8, <1>9
<1> QED BY <1>6, <1>7, <1>10 DEF both, new

\* On every memory and for every call, strcpy_s, strncpy_s, stpcpy_s, strcat_s,
\* strncat_s and their wide forms, u16cscpy, u16csncpy and u16cscat, and the two
\* functions that trim leave exactly the text of their definition, and they
\* succeed whenever it fits and the strings do not overlap.
THEOREM CopiesAlwaysExact == StringsSpec => []CopiesAreExact
<1>1. CallsInv => CopiesAreExact
  BY StringCopiesHold, WideCopiesHold, TrimsHold DEF CopiesAreExact
<1> QED BY <1>1, CallsAlways, PTL

=============================================================================
