------------------------ MODULE StringQueries_proofs ------------------------
(* Proofs about the functions of safestringlib that only look at memory, and *)
(* about the tokenizers, for memories of any size and any contents.  The     *)
(* queries: where two strings part, which decides every compare and          *)
(* difference, and which set of places each search takes its least or last   *)
(* from.  The tokenizers: how many fields of the text start before the place *)
(* they have come to.                                                        *)
EXTENDS Strings_proofs

-----------------------------------------------------------------------------
(* What the queries answer: the checks that a call passes, and the least   *)
(* number of a set.                                                        *)
LEMMA LeastIs ==
  ASSUME NEW s, s \subseteq Nat, NEW n \in s, \A y \in s : n <= y
  PROVE  Min(s) = n
<1> DEFINE least == Min(s)
<1>1. least \in s /\ \A y \in s : least <= y
  BY MinIs
<1> HIDE DEF least
<1>2. least <= n /\ n <= least /\ least \in Nat /\ n \in Nat
  BY <1>1
<1>3. least = n
  BY <1>2
<1> QED BY <1>3 DEF least

LEMMA GreatestIs ==
  ASSUME NEW top \in Nat, NEW s, s \subseteq 0..top, NEW n \in s, \A y \in s : n >= y
  PROVE  Max(s) = n
<1> DEFINE most == Max(s)
<1>1. most \in s /\ \A y \in s : most >= y
  BY MaxIs
<1> HIDE DEF most
<1>2. most >= n /\ n >= most /\ most \in Nat /\ n \in Nat
  BY <1>1
<1>3. most = n
  BY <1>2
<1> QED BY <1>3 DEF most

LEMMA AnswerIs ==
  ASSUME NEW checks, NEW unset, NEW result, Passes(checks)
  PROVE  Query(checks, unset, result) = result
BY DEF Passes, Query

LEMMA QueryPasses ==
  ASSUME NEW dest, NEW dmax, NEW src, NEW slen, NEW out, dest # NULL, src # NULL, dmax # 0,
         ~(dmax > RSIZE_MAX_STR), slen # 0, ~(slen > RSIZE_MAX_STR), out # NULL
  PROVE  /\ Passes(OutCheck(out) \o PairChecks(dest, dmax, src))
         /\ Passes(CharChecks(dest, dmax, out))
         /\ Passes(SubstringChecks(dest, dmax, src, slen, out))
         /\ Passes(SpanChecks(dest, dmax, src, slen, out))
<1> DEFINE o == <<out = NULL, ESNULLP>>
           d == <<dest = NULL, ESNULLP>>
           s == <<src = NULL, ESNULLP>>
           z == <<dmax = 0, ESZEROL>>
           x == <<dmax > RSIZE_MAX_STR, ESLEMAX>>
           l == <<slen = 0, ESZEROL>>
           y == <<slen > RSIZE_MAX_STR, ESLEMAX>>
<1>1. ~o[1] /\ ~d[1] /\ ~s[1] /\ ~z[1] /\ ~x[1] /\ ~l[1] /\ ~y[1]
  OBVIOUS
<1>2. /\ OutCheck(out) = <<o>> /\ PairChecks(dest, dmax, src) = <<d, s, z, x>>
      /\ LenChecks(slen) = <<l, y>>
      /\ CharChecks(dest, dmax, out) = OutCheck(out) \o <<d, z, x>>
      /\ SubstringChecks(dest, dmax, src, slen, out) = (CharChecks(dest, dmax, out) \o <<s>>) \o LenChecks(slen)
      /\ SpanChecks(dest, dmax, src, slen, out) = (OutCheck(out) \o PairChecks(dest, dmax, src)) \o LenChecks(slen)
  BY DEF OutCheck, PairChecks, LenChecks, CharChecks, SubstringChecks, SpanChecks
<1> DEFINE all == {o, d, s, z, x, l, y}
           one == <<o>>
           pair == <<d, s, z, x>>
           char == <<d, z, x>>
           null == <<s>>
           last == <<l, y>>
<1>3. one \in Seq(all) /\ pair \in Seq(all) /\ char \in Seq(all) /\ null \in Seq(all) /\ last \in Seq(all)
  <2> HIDE DEF o, d, s, z, x, l, y
  <2> QED OBVIOUS
<1>4. \A c \in all : ~c[1]
  <2> HIDE DEF o, d, s, z, x, l, y
  <2> QED BY <1>1
<1> HIDE DEF o, d, s, z, x, l, y
<1>5. ASSUME NEW t \in Seq(all) PROVE Passes(t)
  <2>1. \A n \in DOMAIN t : t[n] \in all
    BY <1>5
  <2> QED BY <1>4, <2>1 DEF Passes
<1> HIDE DEF all, one, pair, char, null, last
<1>6. one \o pair \in Seq(all) /\ one \o char \in Seq(all)
  BY <1>3, ConcatProperties
<1> DEFINE first == one \o pair
           second == one \o char
<1>7. first \in Seq(all) /\ second \in Seq(all)
  BY <1>6
<1> HIDE DEF first, second
<1>8. first \o last \in Seq(all) /\ second \o null \in Seq(all)
  BY <1>3, <1>7, ConcatProperties
<1> DEFINE third == second \o null
<1>9. third \in Seq(all)
  BY <1>8
<1> HIDE DEF third
<1>10. third \o last \in Seq(all)
  BY <1>3, <1>9, ConcatProperties
<1>11. /\ OutCheck(out) \o PairChecks(dest, dmax, src) = first /\ CharChecks(dest, dmax, out) = second
       /\ SubstringChecks(dest, dmax, src, slen, out) = third \o last
       /\ SpanChecks(dest, dmax, src, slen, out) = first \o last
  BY <1>2 DEF first, second, third, one, pair, char, null, last
<1> QED BY <1>5, <1>7, <1>8, <1>10, <1>11

LEMMA PrefixPasses ==
  ASSUME NEW m, NEW dest, NEW dmax, NEW src, dest # NULL, src # NULL, dmax # 0,
         ~(dmax > RSIZE_MAX_STR), Cell(m, src) # 0
  PROVE  Passes(PairChecks(dest, dmax, src) \o << <<Cell(m, src) = 0, ESNOTFND>> >>)
<1> DEFINE d == <<dest = NULL, ESNULLP>>
           s == <<src = NULL, ESNULLP>>
           z == <<dmax = 0, ESZEROL>>
           x == <<dmax > RSIZE_MAX_STR, ESLEMAX>>
           e == <<Cell(m, src) = 0, ESNOTFND>>
           all == {d, s, z, x, e}
           pair == <<d, s, z, x>>
           last == <<e>>
<1>1. ~d[1] /\ ~s[1] /\ ~z[1] /\ ~x[1] /\ ~e[1]
  OBVIOUS
<1>2. PairChecks(dest, dmax, src) \o << <<Cell(m, src) = 0, ESNOTFND>> >> = pair \o last
  BY DEF PairChecks
<1>3. pair \in Seq(all) /\ last \in Seq(all)
  <2> HIDE DEF d, s, z, x, e
  <2> QED OBVIOUS
<1>4. \A c \in all : ~c[1]
  <2> HIDE DEF d, s, z, x, e
  <2> QED BY <1>1
<1> HIDE DEF d, s, z, x, e
<1> HIDE DEF all, pair, last
<1> DEFINE t == pair \o last
<1>5. t \in Seq(all)
  BY <1>3, ConcatProperties
<1> HIDE DEF t
<1>6. Passes(t)
  <2>1. \A n \in DOMAIN t : t[n] \in all
    BY <1>5
  <2> QED BY <1>4, <2>1 DEF Passes
<1> QED BY <1>2, <1>6 DEF t

(* The order of two sequences is that of the first place where they differ. *)
LEMMA OrderIs ==
  ASSUME NEW s \in Seq(Int), NEW t \in Seq(Int), NEW n \in Nat, n <= Len(s), n <= Len(t),
         \A i \in 1..n : s[i] = t[i]
  PROVE  /\ n < Len(s) /\ n < Len(t) /\ s[n + 1] # t[n + 1] => Order(s, t) = Sign(s[n + 1] - t[n + 1])
         /\ n = Len(s) \/ n = Len(t) => Order(s, t) = Sign(Len(s) - Len(t))
<1> DEFINE p == Len(s)
           q == Len(t)
           k == Min({p, q})
           d == {i \in 1..k : s[i] # t[i]}
<1>1. p \in Nat /\ q \in Nat /\ n <= p /\ n <= q
  OBVIOUS
<1>2. Order(s, t) = IF d = {} THEN Sign(p - q) ELSE Sign(s[Min(d)] - t[Min(d)])
  BY DEF Order
<1> HIDE DEF p, q
<1>3. k \in Nat /\ k \in {p, q} /\ k <= p /\ k <= q
  BY <1>1, LeastOfTwo
<1> HIDE DEF k
<1>4. ASSUME n < p, n < q, s[n + 1] # t[n + 1] PROVE Order(s, t) = Sign(s[n + 1] - t[n + 1])
  <2>1. n + 1 \in d /\ d \subseteq Nat
    BY <1>1, <1>3, <1>4
  <2>2. ASSUME NEW y \in d PROVE n + 1 <= y
    <3>1. y \in Nat /\ ~(y \in 1..n) /\ y >= 1
      BY <1>3
    <3> QED BY <3>1
  <2> HIDE DEF d
  <2>3. Min(d) = n + 1
    BY <2>1, <2>2, LeastIs
  <2> QED BY <1>2, <2>1, <2>3
<1>5. ASSUME n = p \/ n = q PROVE Order(s, t) = Sign(p - q)
  <2>1. d = {}
    BY <1>1, <1>3, <1>5
  <2> QED BY <1>2, <2>1
<1> QED BY <1>4, <1>5 DEF p, q

(* Where the strings at d and s part: at their first difference, or where  *)
(* both of them end.                                                       *)
Part(m, d, s, at) ==
  /\ at \in Nat /\ at <= Length(m, d) /\ at <= Length(m, s)
  /\ \A j \in 0..at - 1 : m[d + j] = m[s + j]
  /\ m[d + at] # m[s + at] \/ m[d + at] = 0

LEMMA TheyPart ==
  ASSUME NEW m, IsText(m), NEW d \in DOMAIN m, NEW s \in DOMAIN m
  PROVE  \E at \in Nat : Part(m, d, s, at)
<1> DEFINE p == Length(m, d)
           q == Length(m, s)
           Stops(j) == m[d + j] # m[s + j] \/ m[d + j] = 0 \/ m[s + j] = 0
           stops == {j \in Nat : j <= p /\ j <= q /\ Stops(j)}
<1>1. p \in Nat /\ q \in Nat /\ m[d + p] = 0 /\ m[s + q] = 0
  BY LengthIs
<1> HIDE DEF p, q
<1>2. p \in stops \/ q \in stops
  BY <1>1
<1>3. stops \subseteq Nat /\ stops # {}
  BY <1>2
<1>4. PICK at \in stops : \A y \in stops : at <= y
  <2> HIDE DEF stops
  <2> QED BY <1>3, LeastNumber
<1>5. at \in Nat /\ at <= p /\ at <= q /\ Stops(at)
  OBVIOUS
<1>6. ASSUME NEW j \in 0..at - 1 PROVE m[d + j] = m[s + j]
  <2>1. j \in Nat /\ j < at /\ j <= p /\ j <= q
    BY <1>1, <1>5
  <2>2. j \notin stops
    BY <1>4, <1>5, <2>1
  <2> QED BY <2>1, <2>2
<1>7. Part(m, d, s, at)
  BY <1>5, <1>6 DEF Part, p, q
<1> QED BY <1>5, <1>7

LEMMA PartIs ==
  ASSUME NEW m, IsText(m), NEW d \in DOMAIN m, NEW s \in DOMAIN m, NEW at, Part(m, d, s, at)
  PROVE  /\ at \in Nat /\ d \in Nat /\ s \in Nat
         /\ d + at \in DOMAIN m /\ s + at \in DOMAIN m
         /\ \A j \in 0..at - 1 : /\ d + j \in DOMAIN m /\ s + j \in DOMAIN m
                                 /\ m[d + j] = m[s + j] /\ m[d + j] # 0
         /\ m[d + at] = 0 => at = Length(m, d)
         /\ m[s + at] = 0 => at = Length(m, s)
<1> DEFINE p == Length(m, d)
           q == Length(m, s)
<1>1. /\ p \in Nat /\ q \in Nat /\ d \in Nat /\ s \in Nat /\ d + p \in DOMAIN m /\ s + q \in DOMAIN m
      /\ m[d + p] = 0 /\ m[s + q] = 0
      /\ \A k \in 0..p - 1 : d + k \in DOMAIN m /\ m[d + k] # 0
      /\ \A k \in 0..q - 1 : s + k \in DOMAIN m /\ m[s + k] # 0
  BY LengthIs
<1>2. /\ at \in Nat /\ at <= p /\ at <= q
      /\ \A j \in 0..at - 1 : m[d + j] = m[s + j]
      /\ m[d + at] # m[s + at] \/ m[d + at] = 0
  BY DEF Part
<1> HIDE DEF p, q
<1>3. d + at \in DOMAIN m /\ s + at \in DOMAIN m
  <2>1. at = p \/ at \in 0..p - 1
    BY <1>1, <1>2
  <2>2. at = q \/ at \in 0..q - 1
    BY <1>1, <1>2
  <2> QED BY <1>1, <2>1, <2>2
<1>4. ASSUME NEW j \in 0..at - 1
      PROVE  d + j \in DOMAIN m /\ s + j \in DOMAIN m /\ m[d + j] = m[s + j] /\ m[d + j] # 0
  <2>1. j \in 0..p - 1 /\ j \in 0..q - 1
    BY <1>1, <1>2
  <2> QED BY <1>1, <1>2, <2>1
<1>5. ASSUME m[d + at] = 0 PROVE at = p
  <2>1. at \notin 0..p - 1
    BY <1>1, <1>5
  <2> QED BY <1>1, <1>2, <2>1
<1>6. ASSUME m[s + at] = 0 PROVE at = q
  <2>1. at \notin 0..q - 1
    BY <1>1, <1>6
  <2> QED BY <1>1, <1>2, <2>1
<1> QED BY <1>1, <1>2, <1>3, <1>4, <1>5, <1>6 DEF p, q

(* The order of the first n characters.                                    *)
LEMMA PrefixOrder ==
  ASSUME NEW m, IsText(m), NEW d \in DOMAIN m, NEW s \in DOMAIN m, \A a \in DOMAIN m : m[a] \in Nat,
         NEW at, Part(m, d, s, at), NEW n \in Nat
  PROVE  Order(Prefix(Text(m, d), n), Prefix(Text(m, s), n))
           = IF at < n THEN Sign(m[d + at] - m[s + at]) ELSE 0
<1> DEFINE p == Length(m, d)
           q == Length(m, s)
           k == Min({n, p})
           l == Min({n, q})
           t == Prefix(Text(m, d), n)
           u == Prefix(Text(m, s), n)
<1>1. \A a \in DOMAIN m : m[a] \in Int
  OBVIOUS
<1>2. /\ t \in Seq(Int) /\ Len(t) = k /\ \A i \in 1..k : t[i] = m[d + i - 1]
      /\ u \in Seq(Int) /\ Len(u) = l /\ \A i \in 1..l : u[i] = m[s + i - 1]
  BY <1>1, PrefixIs
<1>3. /\ at \in Nat /\ d \in Nat /\ s \in Nat
      /\ d + at \in DOMAIN m /\ s + at \in DOMAIN m
      /\ \A j \in 0..at - 1 : m[d + j] = m[s + j]
      /\ m[d + at] = 0 => at = p
      /\ m[s + at] = 0 => at = q
  BY PartIs
<1>4. p \in Nat /\ q \in Nat /\ m[d + p] = 0 /\ m[s + q] = 0
  BY LengthIs
<1>5. at <= p /\ at <= q /\ (m[d + at] # m[s + at] \/ m[d + at] = 0)
  BY DEF Part
<1> HIDE DEF p, q, t, u
<1>6. k \in Nat /\ k \in {n, p} /\ k <= n /\ k <= p /\ l \in Nat /\ l \in {n, q} /\ l <= n /\ l <= q
  BY <1>4, LeastOfTwo
<1> HIDE DEF k, l
<1>7. ASSUME at < n PROVE Order(t, u) = Sign(m[d + at] - m[s + at])
  <2>1. at <= k /\ at <= l
    BY <1>3, <1>4, <1>5, <1>6, <1>7
  <2>2. \A i \in 1..at : t[i] = u[i]
    <3> SUFFICES ASSUME NEW i \in 1..at PROVE t[i] = u[i]
      OBVIOUS
    <3>1. i \in 1..k /\ i \in 1..l /\ i - 1 \in 0..at - 1 /\ d + (i - 1) = d + i - 1 /\ s + (i - 1) = s + i - 1
      BY <1>3, <1>6, <2>1
    <3> QED BY <1>2, <1>3, <3>1
  <2>3. /\ at < Len(t) /\ at < Len(u) /\ t[at + 1] # u[at + 1] => Order(t, u) = Sign(t[at + 1] - u[at + 1])
        /\ at = Len(t) \/ at = Len(u) => Order(t, u) = Sign(Len(t) - Len(u))
    BY <1>2, <1>3, <2>1, <2>2, OrderIs
  <2>4. CASE m[d + at] # 0 /\ m[s + at] # 0
    <3>1. at < k /\ at < l
      <4>1. at # p /\ at # q
        BY <1>4, <2>4
      <4> QED BY <1>3, <1>4, <1>5, <1>6, <1>7, <4>1
    <3>2. at + 1 \in 1..k /\ at + 1 \in 1..l /\ d + (at + 1) - 1 = d + at /\ s + (at + 1) - 1 = s + at
      BY <1>3, <1>6, <3>1
    <3>3. t[at + 1] = m[d + at] /\ u[at + 1] = m[s + at]
      BY <1>2, <3>2
    <3>4. t[at + 1] # u[at + 1]
      BY <1>5, <2>4, <3>3
    <3> QED BY <1>2, <2>3, <3>1, <3>3, <3>4
  <2>5. CASE m[d + at] = 0 /\ m[s + at] = 0
    <3>1. at = p /\ at = q
      BY <1>3, <2>5
    <3>2. k = at /\ l = at
      BY <1>3, <1>6, <1>7, <3>1
    <3>3. k - l = 0 /\ m[d + at] - m[s + at] = 0
      BY <1>3, <2>5, <3>2
    <3>4. Order(t, u) = Sign(k - l)
      BY <1>2, <2>3, <3>2
    <3> QED BY <3>3, <3>4
  <2>6. CASE m[d + at] = 0 /\ m[s + at] # 0
    <3>1. at = p /\ at # q
      BY <1>3, <1>4, <2>6
    <3>2. k = at /\ l > at
      BY <1>3, <1>4, <1>5, <1>6, <1>7, <3>1
    <3>3. k - l < 0 /\ m[d + at] - m[s + at] < 0
      BY <1>3, <1>6, <2>6, <3>2
    <3>4. Order(t, u) = Sign(k - l)
      BY <1>2, <2>3, <3>2
    <3> QED BY <1>3, <1>6, <3>3, <3>4 DEF Sign
  <2>7. CASE m[d + at] # 0 /\ m[s + at] = 0
    <3>1. at # p /\ at = q
      BY <1>3, <1>4, <2>7
    <3>2. k > at /\ l = at
      BY <1>3, <1>4, <1>5, <1>6, <1>7, <3>1
    <3>3. k - l > 0 /\ m[d + at] - m[s + at] > 0
      BY <1>3, <1>6, <2>7, <3>2
    <3>4. Order(t, u) = Sign(k - l)
      BY <1>2, <2>3, <3>2
    <3> QED BY <1>3, <1>6, <3>3, <3>4 DEF Sign
  <2> QED BY <2>4, <2>5, <2>6, <2>7
<1>8. ASSUME ~(at < n) PROVE Order(t, u) = 0
  <2>1. k = n /\ l = n
    BY <1>3, <1>4, <1>5, <1>6, <1>8
  <2>2. \A i \in 1..n : t[i] = u[i]
    <3> SUFFICES ASSUME NEW i \in 1..n PROVE t[i] = u[i]
      OBVIOUS
    <3>1. i \in 1..k /\ i \in 1..l /\ i - 1 \in 0..at - 1 /\ d + (i - 1) = d + i - 1 /\ s + (i - 1) = s + i - 1
      BY <1>3, <1>8, <2>1
    <3> QED BY <1>2, <1>3, <3>1
  <2>3. n <= Len(t) /\ n <= Len(u) /\ n = Len(t)
    BY <1>2, <2>1
  <2>4. Order(t, u) = Sign(Len(t) - Len(u))
    BY <1>2, <2>2, <2>3, OrderIs
  <2>5. Len(t) - Len(u) = 0
    BY <1>2, <1>6, <2>1
  <2> QED BY <2>4, <2>5 DEF Sign
<1> QED BY <1>7, <1>8 DEF t, u

LEMMA TextOrder ==
  ASSUME NEW m, IsText(m), NEW d \in DOMAIN m, NEW s \in DOMAIN m, \A a \in DOMAIN m : m[a] \in Nat,
         NEW at, Part(m, d, s, at)
  PROVE  Order(Text(m, d), Text(m, s)) = Sign(m[d + at] - m[s + at])
<1> DEFINE p == Length(m, d)
           q == Length(m, s)
           n == p + q + 1
           t == Text(m, d)
           u == Text(m, s)
<1>1. p \in Nat /\ q \in Nat /\ at \in Nat /\ at <= p
  BY LengthIs DEF Part
<1>2. t \in Seq(Int) /\ Len(t) = p /\ u \in Seq(Int) /\ Len(u) = q
  <2>1. \A a \in DOMAIN m : m[a] \in Int
    OBVIOUS
  <2> QED BY <2>1, TextIsSeq
<1>3. Min({n, p}) = p /\ Min({n, q}) = q
  <2> HIDE DEF p, q
  <2>1. n \in Nat /\ p <= n /\ q <= n
    BY <1>1
  <2>2. {n, p} \subseteq Nat /\ p \in {n, p} /\ \A y \in {n, p} : p <= y
    BY <1>1, <2>1
  <2>3. {n, q} \subseteq Nat /\ q \in {n, q} /\ \A y \in {n, q} : q <= y
    BY <1>1, <2>1
  <2> HIDE DEF n
  <2> QED BY <2>2, <2>3, LeastIs
<1>4. n \in Nat /\ at < n
  <2> HIDE DEF p, q
  <2> QED BY <1>1
<1>5. Order(Prefix(t, n), Prefix(u, n)) = Sign(m[d + at] - m[s + at])
  <2> HIDE DEF n
  <2> QED BY <1>4, PrefixOrder
<1> HIDE DEF t, u, n
<1>6. Prefix(t, n) = SubSeq(t, 1, Len(t)) /\ Prefix(u, n) = SubSeq(u, 1, Len(u))
  BY <1>2, <1>3 DEF Prefix
<1>7. SubSeq(t, 1, Len(t)) = t /\ SubSeq(u, 1, Len(u)) = u
  BY <1>2
<1> QED BY <1>5, <1>6, <1>7 DEF t, u

-----------------------------------------------------------------------------
(* A query with both strings and both lengths, as the calls make it.       *)
Posed(m, d, n, s, l) ==
  /\ IsText(m) /\ \A a \in DOMAIN m : m[a] \in Nat
  /\ d \in DOMAIN m /\ s \in DOMAIN m
  /\ n \in Nat /\ n > 0 /\ n <= RSIZE_MAX_STR /\ d + n - 1 \in DOMAIN m
  /\ l \in Nat /\ l > 0 /\ l <= RSIZE_MAX_STR

LEMMA QueryText ==
  ASSUME NEW m \in CopyMemories \cup QueryMemories \cup ClassMemories \cup TokenMemories
  PROVE  /\ IsText(m) /\ \A a \in DOMAIN m : m[a] \in Nat
         /\ Cardinality(DOMAIN m) \in Nat /\ Cardinality(DOMAIN m) <= RSIZE_MAX_STR
         /\ DOMAIN m = 0..Cardinality(DOMAIN m) - 1
BY TextIs, MemoriesAssumption

LEMMA AskingPoses ==
  ASSUME ArgsIn(QueryMemories), L <= RSIZE_MAX_STR, D # NULL, S # NULL, N > 0, L > 0
  PROVE  Posed(mem, D, N, S, L)
<1>1. /\ mem \in QueryMemories /\ D \in DOMAIN mem /\ S \in DOMAIN mem /\ L \in Nat
      /\ N \in 0..Cardinality(DOMAIN mem) /\ D + N - 1 \in DOMAIN mem \cup {-1}
  BY DEF ArgsIn
<1> DEFINE size == Cardinality(DOMAIN mem)
<1>2. /\ IsText(mem) /\ \A a \in DOMAIN mem : mem[a] \in Nat
      /\ size \in Nat /\ size <= RSIZE_MAX_STR /\ DOMAIN mem = 0..size - 1
  BY <1>1, QueryText
<1>3. N \in 0..size
  BY <1>1
<1> HIDE DEF size
<1>4. N \in Nat /\ N <= RSIZE_MAX_STR /\ D + N - 1 \in DOMAIN mem
  BY <1>1, <1>2, <1>3, SafeStrAssumption
<1> QED BY <1>1, <1>2, <1>4 DEF Posed

LEMMA PosedPasses ==
  ASSUME NEW m, NEW d, NEW n, NEW s, NEW l, Posed(m, d, n, s, l)
  PROVE  /\ d # NULL /\ s # NULL /\ d \in Nat /\ s \in Nat
         /\ Passes(OutCheck(0) \o PairChecks(d, n, s))
         /\ Passes(CharChecks(d, n, 0))
         /\ Passes(SubstringChecks(d, n, s, l, 0))
         /\ Passes(SpanChecks(d, n, s, l, 0))
<1>1. d \in Nat /\ s \in Nat
  BY LengthIs DEF Posed
<1>2. d # NULL /\ s # NULL /\ 0 # NULL
  BY <1>1 DEF NULL
<1>3. n # 0 /\ l # 0 /\ ~(n > RSIZE_MAX_STR) /\ ~(l > RSIZE_MAX_STR)
  BY SafeStrAssumption DEF Posed
<1> QED BY <1>1, <1>2, <1>3, QueryPasses

-----------------------------------------------------------------------------
(* The compares of cells.                                                  *)
CellsOf(m, p, n) == [i \in 1..n |-> m[p + i - 1]]

LEMMA CellOrder ==
  ASSUME NEW m, NEW d \in Int, NEW s \in Int, NEW l \in Nat,
         \A k \in 0..l - 1 : m[d + k] \in Int /\ m[s + k] \in Int
  PROVE  LET order == Order(CellsOf(m, d, l), CellsOf(m, s, l))
             first == FirstDifference(m, d, s, l)
         IN  IF DifferingCells(m, d, s, l) = {} THEN order = 0
             ELSE /\ first \in Int /\ first # 0 /\ order = Sign(first)
                  /\ \E k \in 0..l - 1 : first = m[d + k] - m[s + k]
<1> DEFINE t == CellsOf(m, d, l)
           u == CellsOf(m, s, l)
           diff == DifferingCells(m, d, s, l)
           at == Min(diff)
<1>1. \A i \in 1..l : i - 1 \in 0..l - 1 /\ d + (i - 1) = d + i - 1 /\ s + (i - 1) = s + i - 1
  OBVIOUS
<1>2. /\ t \in Seq(Int) /\ Len(t) = l /\ \A i \in 1..l : t[i] = m[d + (i - 1)]
      /\ u \in Seq(Int) /\ Len(u) = l /\ \A i \in 1..l : u[i] = m[s + (i - 1)]
  BY <1>1 DEF CellsOf
<1>3. diff \subseteq 0..l - 1 /\ \A k \in 0..l - 1 : k \notin diff => m[d + k] = m[s + k]
  BY DEF DifferingCells
<1> HIDE DEF t, u
<1>4. ASSUME diff = {} PROVE Order(t, u) = 0
  <2>1. \A i \in 1..l : t[i] = u[i]
    BY <1>1, <1>2, <1>3, <1>4
  <2>2. Order(t, u) = Sign(l - l)
    BY <1>2, <2>1, OrderIs
  <2> QED BY <2>2 DEF Sign
<1>5. ASSUME diff # {}
      PROVE  LET first == m[d + at] - m[s + at]
             IN  /\ first \in Int /\ first # 0 /\ Order(t, u) = Sign(first)
                 /\ \E k \in 0..l - 1 : first = m[d + k] - m[s + k]
  <2>1. at \in diff /\ \A y \in diff : at <= y
    <3>1. diff \subseteq Nat
      BY <1>3
    <3> HIDE DEF diff
    <3> QED BY <1>5, <3>1, MinIs
  <2>2. m[d + at] # m[s + at]
    BY <2>1 DEF DifferingCells
  <2> HIDE DEF at, diff
  <2>3. at \in 0..l - 1 /\ at + 1 \in 1..l /\ (at + 1) - 1 = at
    BY <1>3, <2>1
  <2>4. \A i \in 1..at : t[i] = u[i]
    <3> SUFFICES ASSUME NEW i \in 1..at PROVE t[i] = u[i]
      OBVIOUS
    <3>1. i \in 1..l /\ i - 1 \in 0..l - 1 /\ i - 1 < at
      BY <2>3
    <3>2. i - 1 \notin diff
      BY <1>3, <2>1, <2>3, <3>1
    <3> QED BY <1>2, <1>3, <3>1, <3>2
  <2>5. t[at + 1] = m[d + at] /\ u[at + 1] = m[s + at]
    BY <1>2, <2>3
  <2>6. Order(t, u) = Sign(m[d + at] - m[s + at])
    <3>1. /\ at \in Nat /\ at < Len(t) /\ at < Len(u) /\ at <= Len(t) /\ at <= Len(u)
          /\ t[at + 1] # u[at + 1]
      BY <1>2, <2>2, <2>3, <2>5
    <3>2. Order(t, u) = Sign(t[at + 1] - u[at + 1])
      BY <1>2, <2>4, <3>1, OrderIs
    <3> QED BY <2>5, <3>2
  <2>7. m[d + at] \in Int /\ m[s + at] \in Int
    BY <2>3
  <2> QED BY <2>2, <2>3, <2>6, <2>7
<1>6. FirstDifference(m, d, s, l) = m[d + at] - m[s + at]
  BY DEF FirstDifference
<1> HIDE DEF at
<1> QED BY <1>4, <1>5, <1>6 DEF t, u

LEMMA ComparedIs ==
  ASSUME NEW m, NEW d, NEW n, NEW s, NEW l, NEW max, NEW unequal,
         d # NULL, s # NULL, n # 0, ~(n > max), l # 0, ~(l > n)
  PROVE  Compared(m, d, n, s, l, 0, max, unequal).diff
           = IF d = s \/ DifferingCells(m, d, s, l) = {} THEN 0 ELSE unequal
<1> DEFINE c1 == <<0 = NULL, ESNULLP, FALSE>>
           c2 == <<d = NULL, ESNULLP, FALSE>>
           c3 == <<s = NULL, ESNULLP, FALSE>>
           c4 == <<n = 0, ESZEROL, FALSE>>
           c5 == <<n > max, ESLEMAX, FALSE>>
           c6 == <<l = 0, ESZEROL, FALSE>>
           c7 == <<l > n, ESLEMAX, FALSE>>
           checks == <<c1, c2, c3, c4, c5, c6, c7>>
           hit == {i \in DOMAIN checks : checks[i][1]}
<1>1. ~c1[1] /\ ~c2[1] /\ ~c3[1] /\ ~c4[1] /\ ~c5[1] /\ ~c6[1] /\ ~c7[1]
  <2>1. 0 # NULL
    BY DEF NULL
  <2> QED BY <2>1
<1>2. Compared(m, d, n, s, l, 0, max, unequal)
        = IF hit # {} THEN [rc |-> checks[Min(hit)][2], diff |-> -1]
          ELSE [rc |-> EOK, diff |-> IF d = s \/ DifferingCells(m, d, s, l) = {} THEN 0 ELSE unequal]
  BY DEF Compared
<1>3. hit = {}
  <2> HIDE DEF c1, c2, c3, c4, c5, c6, c7
  <2>1. DOMAIN checks = 1..7
    OBVIOUS
  <2>2. \A i \in 1..7 : ~checks[i][1]
    BY <1>1
  <2> QED BY <2>1, <2>2
<1> HIDE DEF hit
<1> QED BY <1>2, <1>3

LEMMA SmallIsInt ==
  ASSUME NEW x \in Int, INT_MIN <= x, x <= INT_MAX
  PROVE  AsInt(x) = x
<1> DEFINE w == UINT_MAX + 1
           h == UINT_MAX \div 2
<1>1. UINT_MAX \in Nat /\ UINT_MAX = 2 * h + 1 /\ h \in Nat
  BY SafeMemAssumption
<1>2. INT_MAX = h /\ INT_MIN = -h - 1
  BY DEF INT_MAX, INT_MIN
<1> HIDE DEF h
<1>3. w \in Int /\ w > 0 /\ w = 2 * h + 2
  BY <1>1
<1>4. AsInt(x) = IF x % w <= h THEN x % w ELSE (x % w) - w
  BY <1>2 DEF AsInt
<1> HIDE DEF w
<1>5. CASE x >= 0
  <2>1. x \in 0..w - 1 /\ x = w * 0 + x
    BY <1>1, <1>2, <1>3, <1>5
  <2>2. x % w = x
    BY <1>3, <2>1, DivisionIs
  <2> QED BY <1>2, <1>4, <2>2
<1>6. CASE x < 0
  <2>1. x + w \in 0..w - 1 /\ x = w * (-1) + (x + w)
    BY <1>1, <1>2, <1>3, <1>6
  <2>2. x % w = x + w
    BY <1>3, <2>1, DivisionIs
  <2>3. x + w > h
    BY <1>1, <1>2, <1>3
  <2> QED BY <1>1, <1>3, <1>4, <2>2, <2>3
<1> QED BY <1>5, <1>6

LEMMA MemoryCompares ==
  ASSUME NEW m, NEW d, NEW n, NEW s, NEW l, Posed(m, d, n, s, l), l <= n, n <= RSIZE_MAX_MEM32,
         s + l - 1 \in DOMAIN m
  PROVE  LET order == Order(CellsOf(m, d, l), CellsOf(m, s, l))
         IN  /\ Sign(memcmp_s(m, d, n, s, l, 0).diff) = order
             /\ Sign(memcmp16_s(m, d, n, s, l, 0).diff) = order
             /\ (\A i \in 0..l - 1 : m[d + i] - m[s + i] \in INT_MIN .. INT_MAX) =>
                   /\ Sign(memcmp32_s(m, d, n, s, l, 0).diff) = order
                   /\ Sign(wmemcmp_s(m, d, n, s, l, 0).diff) = order
<1> DEFINE order == Order(CellsOf(m, d, l), CellsOf(m, s, l))
           first == FirstDifference(m, d, s, l)
           none == DifferingCells(m, d, s, l) = {}
<1>1. /\ d # NULL /\ s # NULL /\ d \in Nat /\ s \in Nat /\ l \in Nat /\ n \in Nat /\ n # 0 /\ l # 0
      /\ \A a \in DOMAIN m : m[a] \in Nat
      /\ \E top \in Nat : DOMAIN m = 0..top
      /\ d + n - 1 \in DOMAIN m
  <2>1. d # NULL /\ s # NULL /\ d \in Nat /\ s \in Nat
    BY PosedPasses
  <2> QED BY <2>1 DEF Posed, IsText
<1>2. \A k \in 0..l - 1 : d + k \in DOMAIN m /\ s + k \in DOMAIN m
  BY <1>1
<1>3. \A k \in 0..l - 1 : m[d + k] \in Int /\ m[s + k] \in Int
  BY <1>1, <1>2
<1>4. IF none THEN order = 0
      ELSE /\ first \in Int /\ first # 0 /\ order = Sign(first)
           /\ \E k \in 0..l - 1 : first = m[d + k] - m[s + k]
  <2>1. d \in Int /\ s \in Int /\ l \in Nat
    BY <1>1
  <2> QED BY ONLY <1>3, <2>1, CellOrder
<1>5. d = s => none
  BY DEF DifferingCells
<1>6. ~(n > RSIZE_MAX_MEM) /\ ~(n > RSIZE_MAX_MEM16) /\ ~(n > RSIZE_MAX_MEM32) /\ ~(l > n)
  BY <1>1, Sizes DEF RSIZE_MAX_MEM16, RSIZE_MAX_MEM32
<1> HIDE DEF order, first, none
<1>7. /\ memcmp_s(m, d, n, s, l, 0).diff = IF none THEN 0 ELSE IF first < 0 THEN -1 ELSE 1
      /\ memcmp16_s(m, d, n, s, l, 0).diff = IF none THEN 0 ELSE first
      /\ memcmp32_s(m, d, n, s, l, 0).diff = IF none THEN 0 ELSE AsInt(first)
      /\ wmemcmp_s(m, d, n, s, l, 0).diff = IF none THEN 0 ELSE AsInt(first)
  BY <1>1, <1>5, <1>6, ComparedIs DEF memcmp_s, memcmp16_s, memcmp32_s, wmemcmp_s, first, none
<1>8. ASSUME ~none PROVE Sign(IF first < 0 THEN -1 ELSE 1) = Sign(first)
  BY <1>4, <1>8 DEF Sign
<1>9. Sign(0) = 0
  BY DEF Sign
<1>10. ASSUME ~none, \A i \in 0..l - 1 : m[d + i] - m[s + i] \in INT_MIN .. INT_MAX
       PROVE  AsInt(first) = first
  <2>1. first \in Int /\ first \in INT_MIN .. INT_MAX
    BY <1>4, <1>10
  <2> QED BY <2>1, SmallIsInt, SafeMemAssumption DEF INT_MIN, INT_MAX
<1> QED BY <1>4, <1>7, <1>8, <1>9, <1>10 DEF order

-----------------------------------------------------------------------------
(* A loop that compares two strings stops where they part.                 *)
LEMMA StopsAt ==
  ASSUME NEW m, IsText(m), NEW d \in DOMAIN m, NEW s \in DOMAIN m, NEW n \in Nat,
         NEW at, Part(m, d, s, at), at <= n
  PROVE  Min(EndOrDiff(m, d, n, s)) = at
<1> DEFINE stops == {n} \cup {i \in 0 .. n : \/ Cell(m, d + i) = 0 \/ Cell(m, s + i) = 0
                                             \/ Cell(m, d + i) # Cell(m, s + i)}
<1>1. /\ at \in Nat /\ d \in Nat /\ s \in Nat
      /\ d + at \in DOMAIN m /\ s + at \in DOMAIN m
      /\ \A j \in 0..at - 1 : /\ d + j \in DOMAIN m /\ s + j \in DOMAIN m
                              /\ m[d + j] = m[s + j] /\ m[d + j] # 0
  BY PartIs
<1>2. m[d + at] # m[s + at] \/ m[d + at] = 0
  BY DEF Part
<1>3. stops \subseteq Nat
  OBVIOUS
<1>4. at \in stops
  <2>1. at \in 0..n /\ Cell(m, d + at) = m[d + at] /\ Cell(m, s + at) = m[s + at]
    BY <1>1 DEF Cell
  <2> QED BY <1>2, <2>1
<1>5. ASSUME NEW y \in stops PROVE at <= y
  <2>1. SUFFICES ASSUME y \in 0..at - 1 PROVE FALSE
    BY <1>1, <1>3
  <2>2. Cell(m, d + y) = m[d + y] /\ Cell(m, s + y) = m[s + y]
    BY <1>1, <2>1 DEF Cell
  <2>3. y # n
    BY <1>1, <2>1
  <2> QED BY <1>1, <2>1, <2>2, <2>3
<1>6. Min(stops) = at
  <2> HIDE DEF stops
  <2> QED BY <1>3, <1>4, <1>5, LeastIs
<1> QED BY <1>6 DEF EndOrDiff

(* A memory with the same zeros has the same strings, but for their        *)
(* characters.                                                             *)
LEMMA SameZeros ==
  ASSUME NEW m, IsText(m), NEW k, DOMAIN k = DOMAIN m, \A a \in DOMAIN m : k[a] = 0 <=> m[a] = 0
  PROVE  IsText(k) /\ \A p \in DOMAIN m : Length(k, p) = Length(m, p)
<1>1. PICK top \in Nat : DOMAIN m = 0..top /\ m[top] = 0
  BY DEF IsText
<1>2. DOMAIN k = 0..top /\ k[top] = 0
  BY <1>1
<1>3. IsText(k)
  BY <1>2 DEF IsText
<1>4. ASSUME NEW p \in DOMAIN m PROVE Length(k, p) = Length(m, p)
  <2> DEFINE n == Length(m, p)
  <2>1. /\ p \in Nat /\ n \in Nat /\ p + n \in DOMAIN m /\ m[p + n] = 0
        /\ \A j \in 0..n - 1 : p + j \in DOMAIN m /\ m[p + j] # 0
    BY LengthIs
  <2> HIDE DEF n
  <2>2. p + n <= top /\ k[p + n] = 0 /\ \A j \in 0..n - 1 : k[p + j] # 0
    BY <1>1, <2>1
  <2>3. Length(k, p) = n
    BY <1>1, <1>2, <2>1, <2>2, EndsAt
  <2> QED BY <2>3 DEF n
<1> QED BY <1>3, <1>4

(* The text in a memory whose characters are mapped.                       *)
LEMMA MappedText ==
  ASSUME NEW m, IsText(m), \A a \in DOMAIN m : m[a] \in Int, NEW p \in DOMAIN m,
         NEW k, Length(k, p) = Length(m, p), NEW u, u = [i \in DOMAIN Text(m, p) |-> u[i]],
         \A i \in DOMAIN Text(m, p) :
            p + i - 1 \in DOMAIN m /\ Text(m, p)[i] = m[p + i - 1] => u[i] = k[p + i - 1]
  PROVE  Text(k, p) = u
<1> DEFINE n == Length(m, p)
           t == Text(m, p)
<1>1. t \in Seq(Int) /\ Len(t) = n /\ \A i \in 1..n : t[i] = m[p + i - 1]
  BY TextIsSeq
<1>2. p \in Nat /\ n \in Nat /\ \A j \in 0..n - 1 : p + j \in DOMAIN m
  BY LengthIs
<1>3. Text(k, p) = [i \in 1..n |-> k[p + i - 1]]
  BY DEF Text
<1> HIDE DEF n, t
<1>4. DOMAIN t = 1..n
  BY <1>1
<1>5. ASSUME NEW i \in 1..n PROVE k[p + i - 1] = u[i]
  <2>1. i - 1 \in 0..n - 1 /\ p + (i - 1) = p + i - 1
    BY <1>2
  <2>2. p + i - 1 \in DOMAIN m /\ t[i] = m[p + i - 1]
    BY <1>1, <1>2, <2>1
  <2> QED BY <1>4, <2>2 DEF t
<1>6. u = [i \in 1..n |-> u[i]]
  BY <1>4 DEF t
<1> QED BY <1>3, <1>5, <1>6

UpperOf(t) == [i \in DOMAIN t |-> toupper(t[i])]

LEMMA FoldedIs ==
  ASSUME NEW m, IsText(m), \A a \in DOMAIN m : m[a] \in Nat
  PROVE  /\ IsText(Folded(m)) /\ DOMAIN Folded(m) = DOMAIN m
         /\ \A a \in DOMAIN m : /\ Folded(m)[a] \in Nat /\ Folded(m)[a] = toupper(m[a])
                                /\ Folded(m)[a] = 0 <=> m[a] = 0
         /\ \A p \in DOMAIN m : /\ Length(Folded(m), p) = Length(m, p)
                                /\ Text(Folded(m), p) = UpperOf(Text(m, p))
<1>1. DOMAIN Folded(m) = DOMAIN m
  BY DEF Folded
<1>2. \A a \in DOMAIN m : /\ Folded(m)[a] \in Nat /\ Folded(m)[a] = toupper(m[a])
                          /\ Folded(m)[a] = 0 <=> m[a] = 0
  BY DEF Folded, toupper, Lower
<1>3. IsText(Folded(m)) /\ \A p \in DOMAIN m : Length(Folded(m), p) = Length(m, p)
  BY <1>1, <1>2, SameZeros
<1>4. ASSUME NEW p \in DOMAIN m PROVE Text(Folded(m), p) = UpperOf(Text(m, p))
  <2> DEFINE u == UpperOf(Text(m, p))
  <2>1. u = [i \in DOMAIN Text(m, p) |-> toupper(Text(m, p)[i])]
    BY DEF UpperOf
  <2> HIDE DEF u
  <2>2. u = [i \in DOMAIN Text(m, p) |-> u[i]]
    BY <2>1
  <2>3. \A a \in DOMAIN m : m[a] \in Int
    OBVIOUS
  <2>4. Length(Folded(m), p) = Length(m, p)
    BY <1>3
  <2>5. \A i \in DOMAIN Text(m, p) :
            p + i - 1 \in DOMAIN m /\ Text(m, p)[i] = m[p + i - 1] => u[i] = Folded(m)[p + i - 1]
    BY <1>2, <2>1
  <2>6. Text(Folded(m), p) = u
    BY <2>2, <2>3, <2>4, <2>5, MappedText
  <2> QED BY <2>6 DEF u
<1> QED BY <1>1, <1>2, <1>3, <1>4

-----------------------------------------------------------------------------
(* strcmp_s, strcasecmp_s and strcmpfld_s.                                 *)
LEMMA StrcmpIs ==
  ASSUME NEW m, NEW d, NEW n, NEW s, NEW l, Posed(m, d, n, s, l)
  PROVE  /\ strcmp_s(m, d, n, s, 0).out
              = Cell(AsChars(m), d + Min(EndOrDiff(m, d, n, s)))
                  - Cell(AsChars(m), s + Min(EndOrDiff(m, d, n, s)))
         /\ strcasecmp_s(m, d, n, s, 0).out
              = Cell(Folded(m), d + Min(EndOrDiff(Folded(m), d, n, s)))
                  - Cell(Folded(m), s + Min(EndOrDiff(Folded(m), d, n, s)))
<1>1. Passes(OutCheck(0) \o PairChecks(d, n, s))
  BY PosedPasses
<1>2. \A k, stops : Query(OutCheck(0) \o PairChecks(d, n, s), 0, Indicator(k, d, s, stops)).out
                      = Cell(k, d + Min(stops)) - Cell(k, s + Min(stops))
  BY <1>1, AnswerIs DEF Indicator, Found
<1> QED BY <1>2 DEF strcmp_s, strcasecmp_s

LEMMA StringCompares ==
  ASSUME NEW m, NEW d, NEW n, NEW s, NEW l, Posed(m, d, n, s, l), Length(m, d) <= n,
         \A i \in 0..n : Cell(m, d + i) < 128 /\ Cell(m, s + i) < 128
  PROVE  /\ Sign(strcmp_s(m, d, n, s, 0).out) = Order(Text(m, d), Text(m, s))
         /\ Sign(strcasecmp_s(m, d, n, s, 0).out) = Order(UpperOf(Text(m, d)), UpperOf(Text(m, s)))
<1>1. IsText(m) /\ (\A a \in DOMAIN m : m[a] \in Nat) /\ d \in DOMAIN m /\ s \in DOMAIN m /\ n \in Nat
  BY DEF Posed
<1>2. Sign(strcmp_s(m, d, n, s, 0).out) = Order(Text(m, d), Text(m, s))
  <2>1. PICK at \in Nat : Part(m, d, s, at)
    BY <1>1, TheyPart
  <2>2. at <= n
    <3>1. at <= Length(m, d) /\ Length(m, d) \in Nat
      BY <1>1, <2>1, LengthIs DEF Part
    <3> QED BY <1>1, <3>1
  <2>3. Min(EndOrDiff(m, d, n, s)) = at
    BY <1>1, <2>1, <2>2, StopsAt
  <2>4. d + at \in DOMAIN m /\ s + at \in DOMAIN m
    BY <1>1, <2>1, PartIs
  <2>5. m[d + at] < 128 /\ m[s + at] < 128
    <3>1. at \in 0..n /\ Cell(m, d + at) = m[d + at] /\ Cell(m, s + at) = m[s + at]
      BY <1>1, <2>2, <2>4 DEF Cell
    <3> QED BY <3>1
  <2>6. Cell(AsChars(m), d + at) = m[d + at] /\ Cell(AsChars(m), s + at) = m[s + at]
    BY <1>1, <2>4, <2>5 DEF Cell, AsChars, Char
  <2>7. strcmp_s(m, d, n, s, 0).out = m[d + at] - m[s + at]
    BY <2>3, <2>6, StrcmpIs
  <2>8. Order(Text(m, d), Text(m, s)) = Sign(m[d + at] - m[s + at])
    BY <1>1, <2>1, TextOrder
  <2> QED BY <2>7, <2>8
<1>3. Sign(strcasecmp_s(m, d, n, s, 0).out) = Order(UpperOf(Text(m, d)), UpperOf(Text(m, s)))
  <2> DEFINE k == Folded(m)
  <2>1. /\ IsText(k) /\ (\A a \in DOMAIN k : k[a] \in Nat) /\ d \in DOMAIN k /\ s \in DOMAIN k
        /\ Length(k, d) = Length(m, d)
        /\ Text(k, d) = UpperOf(Text(m, d)) /\ Text(k, s) = UpperOf(Text(m, s))
    BY <1>1, FoldedIs
  <2>2. strcasecmp_s(m, d, n, s, 0).out
          = Cell(k, d + Min(EndOrDiff(k, d, n, s))) - Cell(k, s + Min(EndOrDiff(k, d, n, s)))
    BY StrcmpIs
  <2> HIDE DEF k
  <2>3. PICK at \in Nat : Part(k, d, s, at)
    BY <2>1, TheyPart
  <2>4. at <= n
    <3>1. at <= Length(k, d) /\ Length(k, d) \in Nat
      BY <2>1, <2>3, LengthIs DEF Part
    <3> QED BY <1>1, <2>1, <3>1
  <2>5. Min(EndOrDiff(k, d, n, s)) = at
    BY <1>1, <2>1, <2>3, <2>4, StopsAt
  <2>6. d + at \in DOMAIN k /\ s + at \in DOMAIN k
    BY <2>1, <2>3, PartIs
  <2>7. strcasecmp_s(m, d, n, s, 0).out = k[d + at] - k[s + at]
    BY <2>2, <2>5, <2>6 DEF Cell
  <2>8. Order(Text(k, d), Text(k, s)) = Sign(k[d + at] - k[s + at])
    BY <2>1, <2>3, TextOrder
  <2> QED BY <2>1, <2>7, <2>8
<1> QED BY <1>2, <1>3

LEMMA FieldCompares ==
  ASSUME NEW m, NEW d, NEW n, NEW s, NEW l, Posed(m, d, n, s, l), \A a \in DOMAIN m : m[a] < 256,
         strcmpfld_s(m, d, n, s, 0).out = 0
  PROVE  \A i \in 0..n - 1 : Cell(m, d + i) = Cell(m, s + i)
<1> DEFINE other == {i \in 0 .. n : Cell(m, d + i) # Cell(m, s + i)}
           stops == {n} \cup other
           at == Min(stops)
<1>1. n \in Nat /\ \A a \in DOMAIN m : m[a] \in Nat
  BY DEF Posed
<1>2. Cell(AsChars(m), d + at) - Cell(AsChars(m), s + at) = 0
  <2>1. Passes(OutCheck(0) \o PairChecks(d, n, s))
    BY PosedPasses
  <2>2. strcmpfld_s(m, d, n, s, 0) = Indicator(AsChars(m), d, s, stops)
    BY <2>1, AnswerIs DEF strcmpfld_s
  <2> QED BY <2>2 DEF Indicator, Found
<1>3. at \in stops /\ \A y \in stops : at <= y
  <2>1. stops \subseteq Nat /\ stops # {}
    BY <1>1
  <2> HIDE DEF stops
  <2> QED BY <2>1, MinIs
<1> HIDE DEF at
<1>4. \A a : Cell(m, a) \in 0..255 /\ Cell(AsChars(m), a) = Char(Cell(m, a))
  BY <1>1 DEF Cell, AsChars, Char
<1>5. Cell(m, d + at) = Cell(m, s + at)
  <2> DEFINE x == Cell(m, d + at)
             y == Cell(m, s + at)
  <2>1. x \in 0..255 /\ y \in 0..255 /\ Char(x) - Char(y) = 0
    BY <1>2, <1>4
  <2> HIDE DEF x, y
  <2>2. x = y
    BY <2>1 DEF Char
  <2> QED BY <2>2 DEF x, y
<1>6. at = n
  BY <1>3, <1>5
<1> QED BY <1>1, <1>3, <1>6

LEMMA ComparesHold ==
  ASSUME Posed(mem, D, N, S, L)
  PROVE  ComparesAgree
<1> DEFINE order == Order(Cells(D, L), Cells(S, L))
<1>1. /\ D \in DOMAIN mem /\ S \in DOMAIN mem /\ D \in Nat /\ S \in Nat /\ L \in Nat /\ L > 0
      /\ N \in Nat /\ N > 0 /\ S # NULL /\ D + N - 1 \in DOMAIN mem
      /\ \E top \in Nat : DOMAIN mem = 0..top
  <2>1. D \in Nat /\ S \in Nat /\ S # NULL
    BY PosedPasses
  <2> QED BY <2>1 DEF Posed, IsText
<1>2. ASSUME Readable(L), L <= N, N <= RSIZE_MAX_MEM32
      PROVE  /\ Sign(memcmp_s(mem, D, N, S, L, 0).diff) = order
             /\ Sign(memcmp16_s(mem, D, N, S, L, 0).diff) = order
             /\ (\A i \in 0 .. L - 1 : mem[D + i] - mem[S + i] \in INT_MIN .. INT_MAX) =>
                   /\ Sign(memcmp32_s(mem, D, N, S, L, 0).diff) = order
                   /\ Sign(wmemcmp_s(mem, D, N, S, L, 0).diff) = order
  <2>1. S + L - 1 \in DOMAIN mem
    BY <1>1, <1>2 DEF Readable
  <2>2. Cells(D, L) = CellsOf(mem, D, L) /\ Cells(S, L) = CellsOf(mem, S, L)
    <3>1. \A i \in 1..L : D + i - 1 \in DOMAIN mem /\ S + i - 1 \in DOMAIN mem
      BY <1>1, <1>2, <2>1
    <3> QED BY <3>1 DEF Cells, CellsOf, Cell
  <2> QED BY <1>2, <2>1, <2>2, MemoryCompares
<1>3. ASSUME Length(mem, D) <= N, ASCII(N)
      PROVE  /\ Sign(strcmp_s(mem, D, N, S, 0).out) = Order(Text(mem, D), Text(mem, S))
             /\ Sign(strcasecmp_s(mem, D, N, S, 0).out)
                  = Order(UpperOf(Text(mem, D)), UpperOf(Text(mem, S)))
  BY <1>3, StringCompares DEF ASCII
<1>4. ASSUME \A a \in DOMAIN mem : mem[a] < 256, strcmpfld_s(mem, D, N, S, 0).out = 0
      PROVE  Cells(D, N) = Cells(S, N)
  <2>1. \A i \in 0..N - 1 : Cell(mem, D + i) = Cell(mem, S + i)
    BY <1>4, FieldCompares
  <2>2. ASSUME NEW i \in 1..N PROVE Cell(mem, D + i - 1) = Cell(mem, S + i - 1)
    <3>1. i - 1 \in 0..N - 1 /\ D + (i - 1) = D + i - 1 /\ S + (i - 1) = S + i - 1
      BY <1>1
    <3> QED BY <2>1, <3>1
  <2> QED BY <2>2 DEF Cells
<1> HIDE DEF order
<1> QED BY <1>2, <1>3, <1>4 DEF ComparesAgree, UpperOf, order

-----------------------------------------------------------------------------
(* What the searches look at.                                              *)
LEMMA ScannedIs ==
  ASSUME NEW m, IsText(m), NEW p \in DOMAIN m, NEW max \in Nat
  PROVE  LET k == Scanned(m, p, max)
         IN  /\ p \in Nat /\ k \in Nat /\ k <= max /\ k <= Length(m, p) /\ k \in {max, Length(m, p)}
             /\ Length(m, p) \in Nat
             /\ \A i \in 0..k - 1 : p + i \in DOMAIN m /\ m[p + i] # 0
<1> DEFINE len == Length(m, p)
<1>1. len \in Nat /\ p \in Nat /\ \A i \in 0..len - 1 : p + i \in DOMAIN m /\ m[p + i] # 0
  BY LengthIs
<1> HIDE DEF len
<1> DEFINE k == Min({max, len})
<1>2. k \in Nat /\ k \in {max, len} /\ k <= max /\ k <= len
  BY <1>1, LeastOfTwo
<1>3. Scanned(m, p, max) = k
  BY DEF Scanned, len
<1> HIDE DEF k
<1>4. \A i \in 0..k - 1 : p + i \in DOMAIN m /\ m[p + i] # 0
  BY <1>1, <1>2
<1> QED BY <1>1, <1>2, <1>3, <1>4 DEF len

(* The least of a bound and of the numbers below it in a set.              *)
LEMMA LeastBelow ==
  ASSUME NEW n \in Nat, NEW s, s \subseteq 0..n - 1
  PROVE  LET k == Min({n} \cup s)
         IN  /\ k \in 0..n /\ (k = n <=> s = {}) /\ (k < n => k \in s) /\ \A y \in s : k <= y
<1> DEFINE t == {n} \cup s
           k == Min(t)
<1>1. t \subseteq Nat /\ t # {} /\ n \in t
  OBVIOUS
<1> HIDE DEF t
<1>2. k \in t /\ \A y \in t : k <= y
  BY <1>1, MinIs
<1> HIDE DEF k
<1>3. k \in 0..n /\ (k = n <=> s = {}) /\ (k < n => k \in s) /\ \A y \in s : k <= y
  BY <1>2 DEF t
<1> QED BY <1>3 DEF k, t

(* The parts of the property, of a call as it is posed.                    *)
SpansAgree(m, d, n, s, l) ==
  LET len == strnlen_s(m, d, n)
      c == strcspn_s(m, d, n, s, l, 0).out
      k == strspn_s(m, d, n, s, l, 0).out
      p == strpbrk_s(m, d, n, s, l, 0)
  IN  /\ Length(m, s) <= l =>
           IF c = len THEN p.rc = ESNOTFND ELSE p = [rc |-> EOK, out |-> d + c]
      /\ len > 0 /\ m[s] # 0 => (k = 0 <=> c > 0)

LEMMA StrnlenIs ==
  ASSUME NEW m, NEW d, NEW n, NEW s, NEW l, Posed(m, d, n, s, l)
  PROVE  strnlen_s(m, d, n) = Scanned(m, d, n)
<1>1. d # NULL /\ n # 0 /\ ~(n > RSIZE_MAX_STR)
  <2>1. d # NULL
    BY PosedPasses
  <2> QED BY <2>1, SafeStrAssumption DEF Posed
<1> QED BY <1>1 DEF strnlen_s

LEMMA SpansHold ==
  ASSUME NEW m, NEW d, NEW n, NEW s, NEW l, Posed(m, d, n, s, l)
  PROVE  SpansAgree(m, d, n, s, l)
<1> DEFINE len == Scanned(m, d, n)
           in == {i \in 0 .. len - 1 : m[d + i] \in Chars(m, s, l)}
           out == {i \in 0 .. len - 1 : m[d + i] \notin Chars(m, s, l)}
           c == Min({len} \cup in)
           k == Min({len} \cup out)
           found == {a \in d .. d + len - 1 : m[a] \in Chars(m, s, RSIZE_MAX_STR)}
<1>1. /\ IsText(m) /\ d \in DOMAIN m /\ s \in DOMAIN m /\ n \in Nat /\ l \in Nat /\ l <= RSIZE_MAX_STR
      /\ RSIZE_MAX_STR \in Nat
  BY SafeStrAssumption DEF Posed
<1>2. d \in Nat /\ len \in Nat
  BY <1>1, ScannedIs
<1>3. strnlen_s(m, d, n) = len
  BY StrnlenIs
<1>4. /\ strcspn_s(m, d, n, s, l, 0).out = c /\ strspn_s(m, d, n, s, l, 0).out = k
      /\ strpbrk_s(m, d, n, s, l, 0) = FirstAt(found, ESNOTFND, NULL)
  <2>1. Passes(SpanChecks(d, n, s, l, 0))
    BY PosedPasses
  <2>2. strcspn_s(m, d, n, s, l, 0) = Found(c)
    BY <2>1, AnswerIs DEF strcspn_s
  <2>3. strspn_s(m, d, n, s, l, 0) = Found(k)
    BY <2>1, AnswerIs DEF strspn_s
  <2>4. strpbrk_s(m, d, n, s, l, 0) = FirstAt(found, ESNOTFND, NULL)
    BY <2>1, AnswerIs DEF strpbrk_s
  <2> QED BY <2>2, <2>3, <2>4 DEF Found
<1>5. c \in 0..len /\ (c = len <=> in = {}) /\ (c < len => c \in in) /\ \A y \in in : c <= y
  <2> HIDE DEF len
  <2>1. in \subseteq 0..len - 1
    OBVIOUS
  <2> HIDE DEF in
  <2> QED BY <1>2, <2>1, LeastBelow
<1>6. k \in 0..len /\ (k = len <=> out = {}) /\ (k < len => k \in out) /\ \A y \in out : k <= y
  <2> HIDE DEF len
  <2>1. out \subseteq 0..len - 1
    OBVIOUS
  <2> HIDE DEF out
  <2> QED BY <1>2, <2>1, LeastBelow
<1> HIDE DEF c, k, len
<1>7. ASSUME Length(m, s) <= l
      PROVE  IF c = len THEN FirstAt(found, ESNOTFND, NULL).rc = ESNOTFND
             ELSE FirstAt(found, ESNOTFND, NULL) = [rc |-> EOK, out |-> d + c]
  <2>1. Scanned(m, s, l) = Length(m, s) /\ Scanned(m, s, RSIZE_MAX_STR) = Length(m, s)
    <3> DEFINE q == Length(m, s)
               x == Scanned(m, s, l)
               y == Scanned(m, s, RSIZE_MAX_STR)
    <3>1. q \in Nat /\ x \in Nat /\ x \in {l, q} /\ x <= q /\ y \in Nat /\ y \in {RSIZE_MAX_STR, q} /\ y <= q
      BY <1>1, ScannedIs
    <3>2. q <= l
      BY <1>7
    <3> HIDE DEF x, y, q
    <3>3. x = q /\ y = q
      BY <1>1, <3>1, <3>2
    <3> QED BY <3>3 DEF x, y, q
  <2>2. Chars(m, s, RSIZE_MAX_STR) = Chars(m, s, l)
    BY <2>1 DEF Chars
  <2>3. CASE c = len
    <3>1. in = {}
      BY <1>5, <2>3
    <3>2. ASSUME NEW a \in found PROVE FALSE
      <4>1. a - d \in 0..len - 1 /\ d + (a - d) = a
        BY <1>2
      <4>2. a - d \in in
        BY <2>2, <4>1
      <4> QED BY <3>1, <4>2
    <3>3. found = {}
      BY <3>2
    <3> QED BY <2>3, <3>3 DEF FirstAt
  <2>4. CASE c # len
    <3>1. c \in in /\ c \in 0..len - 1
      BY <1>2, <1>5, <2>4
    <3>2. d + c \in found /\ found \subseteq Nat
      BY <1>2, <2>2, <3>1
    <3>3. ASSUME NEW a \in found PROVE d + c <= a
      <4>1. a - d \in 0..len - 1 /\ d + (a - d) = a
        BY <1>2
      <4>2. a - d \in in
        BY <2>2, <4>1
      <4>3. c <= a - d
        BY <1>5, <4>2
      <4> QED BY <1>2, <3>1, <4>1, <4>3
    <3> HIDE DEF found
    <3>4. Min(found) = d + c
      BY <3>2, <3>3, LeastIs
    <3>5. found # {}
      BY <3>2
    <3> QED BY <2>4, <3>4, <3>5 DEF FirstAt, Found
  <2> QED BY <2>3, <2>4
<1>8. ASSUME len > 0 PROVE k = 0 <=> c > 0
  <2>1. 0 \in 0..len - 1
    BY <1>2, <1>8
  <2>2. 0 \in in <=> ~(0 \in out)
    BY <2>1
  <2>3. k = 0 <=> 0 \in out
    <3> HIDE DEF out
    <3> QED BY <1>2, <1>6, <1>8
  <2>4. c = 0 <=> 0 \in in
    <3> HIDE DEF in
    <3> QED BY <1>2, <1>5, <1>8
  <2>5. c \in Nat
    BY <1>2, <1>5
  <2> HIDE DEF in, out
  <2> QED BY <2>2, <2>3, <2>4, <2>5
<1> HIDE DEF found
<1> QED BY <1>3, <1>4, <1>7, <1>8 DEF SpansAgree

-----------------------------------------------------------------------------
SubstringsAgree(m, d, n, s, l) ==
  LET sub == strstr_s(m, d, n, s, l, 0)
      ci == strcasestr_s(m, d, n, s, l, 0)
      f == strfirstchar_s(m, d, n, m[s], 0)
  IN  /\ Length(m, s) <= Min({l, n}) /\ m[s] # 0 /\ d # s =>
            (strprefix_s(m, d, n, s).rc = EOK <=> sub.rc = EOK /\ sub.out = d)
      /\ sub.rc = EOK => ci.rc = EOK /\ ci.out <= sub.out
      /\ sub.rc = EOK /\ m[s] # 0 /\ d # s => f.rc = EOK /\ f.out <= sub.out

(* What FirstAt answers for addresses.                                     *)
LEMMA FirstIs ==
  ASSUME NEW s, s \subseteq Nat, NEW none, none # EOK, NEW unset
  PROVE  LET r == FirstAt(s, none, unset)
         IN  /\ r.rc = EOK <=> s # {}
             /\ s # {} => r.out \in s /\ \A y \in s : r.out <= y
<1>1. CASE s = {}
  BY <1>1 DEF FirstAt
<1>2. CASE s # {}
  <2>1. Min(s) \in s /\ \A y \in s : Min(s) <= y
    BY <1>2, MinIs
  <2>2. FirstAt(s, none, unset) = [rc |-> EOK, out |-> Min(s)]
    BY <1>2 DEF FirstAt, Found
  <2> QED BY <1>2, <2>1, <2>2
<1> QED BY <1>1, <1>2

LEMMA SubstringIs ==
  ASSUME NEW m, NEW d, NEW n, NEW s, NEW l, Posed(m, d, n, s, l), NEW k
  PROVE  Substring(k, d, n, s, l, 0)
           = IF k[s] = 0 \/ d = s THEN [rc |-> EOK, out |-> d]
             ELSE FirstAt(Matches(k, d, n, s, l), ESNOTFND, NULL)
<1>1. Passes(SubstringChecks(d, n, s, l, 0))
  BY PosedPasses
<1> QED BY <1>1, AnswerIs DEF Substring, Found

(* The places where src matches are in the string, and begin with its      *)
(* first character.                                                        *)
LEMMA MatchesAre ==
  ASSUME NEW m, NEW d, NEW n, NEW s, NEW l, Posed(m, d, n, s, l), m[s] # 0
  PROVE  /\ Matches(m, d, n, s, l) \subseteq {a \in DOMAIN m : m[a] = m[s]}
         /\ Matches(m, d, n, s, l) \subseteq d..d + Scanned(m, d, n) - 1
<1> DEFINE len == Scanned(m, d, n)
           k == Scanned(m, s, l)
<1>1. IsText(m) /\ d \in DOMAIN m /\ s \in DOMAIN m /\ n \in Nat /\ l \in Nat /\ l > 0
  BY DEF Posed
<1>2. d \in Nat /\ len \in Nat /\ (\A i \in 0..len - 1 : d + i \in DOMAIN m)
  BY <1>1, ScannedIs
<1>3. s \in Nat /\ k \in Nat /\ k > 0
  <2>1. k \in Nat /\ k \in {l, Length(m, s)} /\ s \in Nat
    BY <1>1, ScannedIs
  <2>2. Length(m, s) \in Nat /\ s + Length(m, s) \in DOMAIN m /\ m[s + Length(m, s)] = 0
    BY <1>1, LengthIs
  <2>3. Length(m, s) # 0
    <3>1. s + 0 = s
      BY <2>1
    <3> QED BY <2>2, <3>1
  <2> HIDE DEF k
  <2> QED BY <1>1, <2>1, <2>2, <2>3
<1>4. ASSUME NEW a \in Matches(m, d, n, s, l)
      PROVE  a \in d..d + len - 1 /\ a \in DOMAIN m /\ m[a] = m[s]
  <2>1. a \in d..d + len - 1 /\ \A i \in 0..k - 1 : Cell(m, a + i) = m[s + i]
    BY DEF Matches
  <2> HIDE DEF k, len
  <2>2. a - d \in 0..len - 1 /\ d + (a - d) = a /\ 0 \in 0..k - 1 /\ a + 0 = a /\ s + 0 = s
    BY <1>2, <1>3, <2>1
  <2>3. a \in DOMAIN m
    BY <1>2, <2>2
  <2>4. Cell(m, a) = m[s]
    BY <2>1, <2>2
  <2> QED BY <2>1, <2>3, <2>4 DEF Cell
<1> HIDE DEF len
<1> QED BY <1>4 DEF len

LEMMA FirstCharIs ==
  ASSUME NEW m, NEW d, NEW n, NEW s, NEW l, Posed(m, d, n, s, l)
  PROVE  /\ strfirstchar_s(m, d, n, m[s], 0) = FirstAt(At(m, d, n, m[s]), ESNOTFND, NULL)
         /\ strlastchar_s(m, d, n, m[s], 0) = LastAt(At(m, d, n, m[s]), ESNOTFND, NULL)
<1>1. Passes(CharChecks(d, n, 0))
  BY PosedPasses
<1> QED BY <1>1, AnswerIs DEF strfirstchar_s, strlastchar_s

LEMMA PrefixHolds ==
  ASSUME NEW m, NEW d, NEW n, NEW s, NEW l, Posed(m, d, n, s, l),
         Length(m, s) <= Min({l, n}), m[s] # 0, d # s
  PROVE  strprefix_s(m, d, n, s).rc = EOK
           <=> strstr_s(m, d, n, s, l, 0).rc = EOK /\ strstr_s(m, d, n, s, l, 0).out = d
<1> DEFINE q == Length(m, s)
           all == Matches(m, d, n, s, l)
           len == Scanned(m, d, n)
           Match == \A i \in 0..q - 1 : Cell(m, d + i) = m[s + i]
<1>1. /\ IsText(m) /\ d \in DOMAIN m /\ s \in DOMAIN m /\ n \in Nat /\ l \in Nat
      /\ n > 0 /\ n <= RSIZE_MAX_STR
  BY DEF Posed
<1>2. q \in Nat /\ q <= l /\ q <= n
  <2>1. q \in Nat
    BY <1>1, LengthIs
  <2>2. Min({l, n}) \in Nat /\ Min({l, n}) <= l /\ Min({l, n}) <= n
    BY <1>1, LeastOfTwo
  <2> QED BY <1>1, <2>1, <2>2
<1>3. Scanned(m, s, n) = q /\ Scanned(m, s, l) = q
  <2> DEFINE x == Scanned(m, s, n)
             y == Scanned(m, s, l)
  <2>1. x \in {n, q} /\ x <= q /\ x \in Nat /\ y \in {l, q} /\ y <= q /\ y \in Nat
    BY <1>1, ScannedIs
  <2> HIDE DEF x, y, q
  <2>2. x = q /\ y = q
    BY <1>1, <1>2, <2>1
  <2> QED BY <2>2 DEF x, y
<1>4. d # NULL /\ s # NULL /\ Cell(m, s) # 0 /\ d \in Nat
  <2>1. d # NULL /\ s # NULL /\ d \in Nat
    BY PosedPasses
  <2> QED BY <1>1, <2>1 DEF Cell
<1>5. strprefix_s(m, d, n, s).rc = EOK <=> Match
  <2> DEFINE checks == PairChecks(d, n, s) \o << <<Cell(m, s) = 0, ESNOTFND>> >>
             result == [rc |-> IF \A i \in 0..Scanned(m, s, n) - 1 : Cell(m, d + i) = m[s + i]
                               THEN EOK ELSE ESNOTFND, out |-> NULL]
  <2>1. Passes(checks)
    <3>1. n # 0 /\ ~(n > RSIZE_MAX_STR)
      BY <1>1, SafeStrAssumption
    <3> QED BY <1>4, <3>1, PrefixPasses
  <2>2. strprefix_s(m, d, n, s) = Query(checks, NULL, result)
    BY DEF strprefix_s
  <2> HIDE DEF checks
  <2>3. strprefix_s(m, d, n, s) = result
    BY <2>1, <2>2, AnswerIs
  <2>4. result.rc = IF Match THEN EOK ELSE ESNOTFND
    BY <1>3
  <2>5. EOK # ESNOTFND
    BY DEF EOK, ESNOTFND
  <2> HIDE DEF result, Match
  <2> QED BY <2>3, <2>4, <2>5
<1>6. strstr_s(m, d, n, s, l, 0) = FirstAt(all, ESNOTFND, NULL)
  <2>1. strstr_s(m, d, n, s, l, 0) = Substring(m, d, n, s, l, 0)
    BY DEF strstr_s
  <2> QED BY <2>1, SubstringIs
<1>7. len \in Nat /\ all \subseteq d..d + len - 1
  BY <1>1, ScannedIs, MatchesAre
<1>8. d \in all <=> Match
  <2>1. ASSUME d \in all PROVE Match
    <3>1. \A i \in 0..Scanned(m, s, l) - 1 : Cell(m, d + i) = m[s + i]
      BY <2>1 DEF Matches
    <3> QED BY <1>3, <3>1
  <2>2. ASSUME Match PROVE d \in all
    <3>1. q # 0
      <4>1. m[s + q] = 0 /\ s \in Nat
        BY <1>1, LengthIs
      <4> HIDE DEF q
      <4>2. q = 0 => s + q = s
        BY <4>1
      <4> QED BY <4>1, <4>2
    <3>2. 0 \in 0..q - 1 /\ d + 0 = d /\ s + 0 = s
      <4>1. s \in Nat
        BY <1>1, LengthIs
      <4> HIDE DEF q
      <4> QED BY <1>2, <1>4, <3>1, <4>1
    <3>3. Cell(m, d) = m[s]
      BY <2>2, <3>2
    <3>4. m[d] # 0
      BY <1>1, <3>3 DEF Cell
    <3>5. Length(m, d) # 0
      <4> DEFINE p == Length(m, d)
      <4>1. m[d + p] = 0
        BY <1>1, LengthIs
      <4> HIDE DEF p
      <4>2. p = 0 => d + p = d
        BY <1>4
      <4> QED BY <3>4, <4>1, <4>2 DEF p
    <3>6. len > 0
      <4>1. len \in Nat /\ len \in {n, Length(m, d)} /\ Length(m, d) \in Nat
        BY <1>1, ScannedIs
      <4> HIDE DEF len
      <4> QED BY <1>1, <3>5, <4>1
    <3>7. d \in d..d + len - 1 /\ q <= n - (d - d)
      <4>1. len \in Nat /\ d \in Nat /\ n \in Nat
        BY <1>1, <1>4, <1>7
      <4>2. q \in Nat /\ q <= n /\ d - d = 0 /\ n - 0 = n
        BY <1>2, <4>1
      <4> HIDE DEF len, q
      <4>3. d \in d..d + len - 1
        BY <3>6, <4>1
      <4> QED BY <4>2, <4>3
    <3> HIDE DEF len
    <3>8. d \in d..d + Scanned(m, d, n) - 1
      BY <3>7 DEF len
    <3> QED BY <1>3, <2>2, <3>7, <3>8 DEF Matches
  <2> QED BY <2>1, <2>2
<1> DEFINE r == FirstAt(all, ESNOTFND, NULL)
<1> HIDE DEF all, len, Match
<1>9. /\ r.rc = EOK <=> all # {}
      /\ all # {} => r.out \in all /\ \A y \in all : r.out <= y
  <2>1. all \subseteq Nat /\ ESNOTFND # EOK
    BY <1>4, <1>7 DEF EOK, ESNOTFND
  <2> QED BY <2>1, FirstIs
<1> HIDE DEF r
<1>10. r.rc = EOK /\ r.out = d <=> d \in all
  <2>1. ASSUME d \in all PROVE r.rc = EOK /\ r.out = d
    <3> DEFINE x == r.out
    <3>1. r.rc = EOK /\ x \in all /\ x <= d
      BY <1>9, <2>1
    <3> HIDE DEF x
    <3>2. x \in d..d + len - 1
      BY <1>7, <3>1
    <3>3. x = d
      BY <1>4, <1>7, <3>1, <3>2
    <3> QED BY <3>1, <3>3 DEF x
  <2> QED BY <1>9, <2>1
<1> QED BY <1>5, <1>6, <1>8, <1>10 DEF r

(* A case-blind search finds nothing later.                                *)
LEMMA CaseBlindHolds ==
  ASSUME NEW m, NEW d, NEW n, NEW s, NEW l, Posed(m, d, n, s, l), strstr_s(m, d, n, s, l, 0).rc = EOK
  PROVE  /\ strcasestr_s(m, d, n, s, l, 0).rc = EOK
         /\ strcasestr_s(m, d, n, s, l, 0).out <= strstr_s(m, d, n, s, l, 0).out
<1> DEFINE k == Folded(m)
           all == Matches(m, d, n, s, l)
           more == Matches(k, d, n, s, l)
           r == FirstAt(all, ESNOTFND, NULL)
           t == FirstAt(more, ESNOTFND, NULL)
           len == Scanned(m, d, n)
           q == Scanned(m, s, l)
<1>1. /\ IsText(m) /\ (\A a \in DOMAIN m : m[a] \in Nat) /\ d \in DOMAIN m /\ s \in DOMAIN m
      /\ n \in Nat /\ l \in Nat
  BY DEF Posed
<1>2. /\ DOMAIN k = DOMAIN m /\ \A a \in DOMAIN m : k[a] = toupper(m[a]) /\ (k[a] = 0 <=> m[a] = 0)
      /\ \A p \in DOMAIN m : Length(k, p) = Length(m, p)
  BY <1>1, FoldedIs
<1>3. Scanned(k, d, n) = len /\ Scanned(k, s, l) = q
  BY <1>1, <1>2 DEF Scanned
<1>4. d \in Nat /\ len \in Nat /\ q \in Nat /\ \A i \in 0..q - 1 : s + i \in DOMAIN m
  BY <1>1, ScannedIs
<1>5. strstr_s(m, d, n, s, l, 0) = IF m[s] = 0 \/ d = s THEN [rc |-> EOK, out |-> d] ELSE r
  BY SubstringIs DEF strstr_s
<1>6. strcasestr_s(m, d, n, s, l, 0) = IF k[s] = 0 \/ d = s THEN [rc |-> EOK, out |-> d] ELSE t
  BY SubstringIs DEF strcasestr_s
<1> HIDE DEF k
<1>7. ASSUME NEW a \in all PROVE a \in more
  <2>1. /\ a \in d..d + len - 1 /\ q <= n - (a - d)
        /\ \A i \in 0..q - 1 : Cell(m, a + i) = m[s + i]
    BY DEF Matches
  <2> HIDE DEF q, len
  <2>2. ASSUME NEW i \in 0..q - 1 PROVE Cell(k, a + i) = k[s + i]
    <3>1. s + i \in DOMAIN m /\ Cell(m, a + i) = m[s + i]
      BY <1>4, <2>1
    <3>2. CASE a + i \in DOMAIN m
      BY <1>2, <3>1, <3>2 DEF Cell
    <3>3. CASE a + i \notin DOMAIN m
      <4>1. m[s + i] = 0 /\ Cell(k, a + i) = 0
        BY <1>2, <3>1, <3>3 DEF Cell
      <4> QED BY <1>2, <3>1, <4>1
    <3> QED BY <3>2, <3>3
  <2> QED BY <1>3, <2>1, <2>2 DEF Matches
<1>8. CASE m[s] = 0 \/ d = s
  <2>1. k[s] = 0 \/ d = s
    BY <1>1, <1>2, <1>8
  <2> QED BY <1>4, <1>5, <1>6, <1>8, <2>1
<1>9. CASE ~(m[s] = 0 \/ d = s)
  <2>1. ~(k[s] = 0 \/ d = s)
    BY <1>1, <1>2, <1>9
  <2>2. all \subseteq Nat /\ more \subseteq Nat
    <3>1. all \subseteq d..d + Scanned(m, d, n) - 1 /\ more \subseteq d..d + Scanned(k, d, n) - 1
      BY DEF Matches
    <3> HIDE DEF all, more, len
    <3> QED BY <1>3, <1>4, <3>1 DEF len
  <2>3. ESNOTFND # EOK
    BY DEF EOK, ESNOTFND
  <2> HIDE DEF all, more
  <2>4. /\ r.rc = EOK <=> all # {}
        /\ all # {} => r.out \in all
    BY <2>2, <2>3, FirstIs
  <2>5. /\ t.rc = EOK <=> more # {}
        /\ more # {} => \A y \in more : t.out <= y
    BY <2>2, <2>3, FirstIs
  <2> HIDE DEF r, t
  <2> QED BY <1>5, <1>6, <1>7, <1>9, <2>1, <2>4, <2>5
<1> QED BY <1>8, <1>9

(* A match begins at or behind the first character of its kind.            *)
LEMMA FirstCharBefore ==
  ASSUME NEW m, NEW d, NEW n, NEW s, NEW l, Posed(m, d, n, s, l), strstr_s(m, d, n, s, l, 0).rc = EOK,
         m[s] # 0, d # s
  PROVE  /\ strfirstchar_s(m, d, n, m[s], 0).rc = EOK
         /\ strfirstchar_s(m, d, n, m[s], 0).out <= strstr_s(m, d, n, s, l, 0).out
<1> DEFINE all == Matches(m, d, n, s, l)
           at == At(m, d, n, m[s])
           r == FirstAt(all, ESNOTFND, NULL)
           f == FirstAt(at, ESNOTFND, NULL)
<1>1. strstr_s(m, d, n, s, l, 0) = r
  BY SubstringIs DEF strstr_s
<1>2. strfirstchar_s(m, d, n, m[s], 0) = f
  BY FirstCharIs
<1>3. /\ all \subseteq d..d + Scanned(m, d, n) - 1 /\ all \subseteq {a \in DOMAIN m : m[a] = m[s]}
  BY MatchesAre
<1>4. d \in Nat /\ Scanned(m, d, n) \in Nat
  BY ScannedIs DEF Posed
<1>5. at \subseteq Nat /\ all \subseteq at /\ all \subseteq Nat
  <2> DEFINE len == Scanned(m, d, n)
  <2>1. at = {a \in d..d + len - 1 : m[a] = m[s]}
    BY DEF At
  <2> HIDE DEF len, at, all
  <2> QED BY <1>3, <1>4, <2>1 DEF len
<1>6. ESNOTFND # EOK
  BY DEF EOK, ESNOTFND
<1> HIDE DEF all, at
<1>7. /\ r.rc = EOK <=> all # {}
      /\ all # {} => r.out \in all
  BY <1>5, <1>6, FirstIs
<1>8. /\ f.rc = EOK <=> at # {}
      /\ at # {} => \A y \in at : f.out <= y
  BY <1>5, <1>6, FirstIs
<1> HIDE DEF r, f
<1> QED BY <1>1, <1>2, <1>5, <1>7, <1>8

LEMMA SubstringsHold ==
  ASSUME NEW m, NEW d, NEW n, NEW s, NEW l, Posed(m, d, n, s, l)
  PROVE  SubstringsAgree(m, d, n, s, l)
BY PrefixHolds, CaseBlindHolds, FirstCharBefore DEF SubstringsAgree

-----------------------------------------------------------------------------
DifferencesAgree(m, d, n, s) ==
  LET diff == strfirstdiff_s(m, d, n, s, 0)
      last == strlastdiff_s(m, d, n, s, 0)
      same == strfirstsame_s(m, d, n, s, 0)
  IN  /\ diff.rc = EOK =>
            /\ Sign(strcmp_s(m, d, n, s, 0).out) = Sign(Char(m[d + diff.out]) - Char(m[s + diff.out]))
            /\ last.out >= diff.out
      /\ diff.rc # EOK => (same.rc = EOK => same.out = 0)

LEMMA DifferencesHold ==
  ASSUME NEW m, NEW d, NEW n, NEW s, NEW l, Posed(m, d, n, s, l)
  PROVE  DifferencesAgree(m, d, n, s)
<1> DEFINE p == Length(m, d)
           q == Length(m, s)
           k == Min({n, p, q})
           same == Same(m, d, n, s)
           diff == Differing(m, d, n, s)
           f == FirstAt(diff, ESNODIFF, 0)
           g == LastAt(diff, ESNODIFF, 0)
           h == FirstAt(same, ESNOTFND, 0)
<1>1. /\ IsText(m) /\ (\A a \in DOMAIN m : m[a] \in Nat) /\ d \in DOMAIN m /\ s \in DOMAIN m
      /\ n \in Nat
  BY DEF Posed
<1>2. /\ d \in Nat /\ s \in Nat /\ p \in Nat /\ q \in Nat
      /\ \A i \in 0..p - 1 : d + i \in DOMAIN m /\ m[d + i] # 0
      /\ \A i \in 0..q - 1 : s + i \in DOMAIN m /\ m[s + i] # 0
  BY <1>1, LengthIs
<1>3. /\ strfirstdiff_s(m, d, n, s, 0) = f /\ strlastdiff_s(m, d, n, s, 0) = g
      /\ strfirstsame_s(m, d, n, s, 0) = h
  <2>1. Passes(OutCheck(0) \o PairChecks(d, n, s))
    BY PosedPasses
  <2> QED BY <2>1, AnswerIs DEF strfirstdiff_s, strlastdiff_s, strfirstsame_s
<1>4. /\ same = {i \in 0..k - 1 : m[d + i] = m[s + i]}
      /\ diff = {i \in 0..k - 1 : m[d + i] # m[s + i]}
  <2>1. Common(m, d, n, s) = 0..k - 1
    BY DEF Common
  <2>2. same = {i \in 0..k - 1 : m[d + i] = m[s + i]}
    BY <2>1 DEF Same
  <2>3. diff = (0..k - 1) \ same
    BY <2>1 DEF Differing
  <2> HIDE DEF k, same, diff
  <2> QED BY <2>2, <2>3
<1> HIDE DEF p, q
<1>5. k \in Nat /\ k <= n /\ k <= p /\ k <= q
  BY <1>1, <1>2, LeastOfThree
<1> HIDE DEF k, same, diff
<1>6. diff \subseteq 0..k - 1 /\ same \subseteq 0..k - 1
  BY <1>4
<1>7. diff \subseteq Nat /\ same \subseteq Nat
  BY <1>5, <1>6
<1>8. ESNODIFF # EOK /\ ESNOTFND # EOK
  BY DEF EOK, ESNODIFF, ESNOTFND
<1>9. /\ f.rc = EOK <=> diff # {}
      /\ diff # {} => f.out \in diff /\ \A y \in diff : f.out <= y
  BY <1>7, <1>8, FirstIs
<1>10. /\ h.rc = EOK <=> same # {}
       /\ same # {} => h.out \in same /\ \A y \in same : h.out <= y
  BY <1>7, <1>8, FirstIs
<1>11. ASSUME diff # {} PROVE g.out \in diff
  <2>1. g = [rc |-> EOK, out |-> Max(diff)]
    BY <1>11 DEF LastAt, Found
  <2>2. k \in Nat /\ diff \subseteq 0..k
    BY <1>5, <1>6
  <2>3. Max(diff) \in diff
    BY <1>11, <2>2, MaxIs
  <2> QED BY <2>1, <2>3
<1> DEFINE x == f.out
<1> HIDE DEF f, g, h
<1>12. ASSUME diff # {}
       PROVE  /\ Sign(strcmp_s(m, d, n, s, 0).out) = Sign(Char(m[d + x]) - Char(m[s + x]))
              /\ g.out >= x
  <2>1. x \in diff /\ \A y \in diff : x <= y
    BY <1>9, <1>12
  <2> HIDE DEF x
  <2>2. x \in 0..k - 1 /\ m[d + x] # m[s + x]
    BY <1>4, <2>1
  <2>3. d + x \in DOMAIN m /\ s + x \in DOMAIN m
    BY <1>2, <1>5, <2>2
  <2>4. Part(m, d, s, x)
    <3>1. x \in Nat /\ x <= p /\ x <= q
      BY <1>2, <1>5, <2>2
    <3>2. ASSUME NEW j \in 0..x - 1 PROVE m[d + j] = m[s + j]
      <4>1. j \in 0..k - 1 /\ j < x
        BY <1>5, <2>2
      <4>2. j \notin diff
        BY <1>5, <2>1, <2>2, <4>1
      <4> QED BY <1>4, <4>1, <4>2
    <3> QED BY <2>2, <3>1, <3>2 DEF Part, p, q
  <2>5. x \in Nat /\ x <= n
    BY <1>1, <1>5, <2>2
  <2>6. Min(EndOrDiff(m, d, n, s)) = x
    BY <1>1, <2>4, <2>5, StopsAt
  <2>7. strcmp_s(m, d, n, s, 0).out = Cell(AsChars(m), d + x) - Cell(AsChars(m), s + x)
    BY <2>6, StrcmpIs
  <2>8. Cell(AsChars(m), d + x) = Char(m[d + x]) /\ Cell(AsChars(m), s + x) = Char(m[s + x])
    BY <2>3 DEF Cell, AsChars
  <2>9. g.out >= x
    <3> DEFINE y == g.out
    <3>1. y \in diff
      BY <1>11, <1>12
    <3> HIDE DEF y
    <3>2. x <= y /\ x \in Nat /\ y \in Nat
      BY <1>7, <2>1, <3>1
    <3>3. y >= x
      BY <3>2
    <3> QED BY <3>3 DEF y
  <2> QED BY <2>7, <2>8, <2>9
<1>13. ASSUME diff = {}, same # {} PROVE h.out = 0
  <2> DEFINE y == h.out
  <2>1. y \in same /\ \A z \in same : y <= z
    BY <1>10, <1>13
  <2> HIDE DEF y
  <2>2. y \in 0..k - 1
    BY <1>6, <2>1
  <2>3. 0 \in 0..k - 1
    BY <1>5, <2>2
  <2>4. 0 \in same
    BY <1>4, <1>13, <2>3
  <2>5. y = 0
    BY <2>1, <2>2, <2>4
  <2> QED BY <2>5 DEF y
<1> QED BY <1>3, <1>9, <1>10, <1>12, <1>13 DEF DifferencesAgree

-----------------------------------------------------------------------------
CharsAgree(m, d, n, s) ==
  LET f == strfirstchar_s(m, d, n, m[s], 0)
      l == strlastchar_s(m, d, n, m[s], 0)
  IN  /\ f.rc = l.rc
      /\ f.rc = EOK =>
            /\ f.out <= l.out
            /\ \A a \in d .. d + strnlen_s(m, d, n) - 1 : m[a] = m[s] => a \in f.out .. l.out

LEMMA CharsHold ==
  ASSUME NEW m, NEW d, NEW n, NEW s, NEW l, Posed(m, d, n, s, l)
  PROVE  CharsAgree(m, d, n, s)
<1> DEFINE len == Scanned(m, d, n)
           at == At(m, d, n, m[s])
           f == FirstAt(at, ESNOTFND, NULL)
           g == LastAt(at, ESNOTFND, NULL)
           x == f.out
           y == g.out
<1>1. d \in Nat /\ len \in Nat
  BY ScannedIs DEF Posed
<1>2. at = {a \in d..d + len - 1 : m[a] = m[s]}
  BY DEF At
<1>3. strnlen_s(m, d, n) = len /\ strfirstchar_s(m, d, n, m[s], 0) = f /\ strlastchar_s(m, d, n, m[s], 0) = g
  BY StrnlenIs, FirstCharIs
<1> HIDE DEF len, at
<1>4. at \subseteq Nat /\ at \subseteq 0..d + len
  BY <1>1, <1>2
<1>5. ESNOTFND # EOK
  BY DEF EOK, ESNOTFND
<1>6. /\ f.rc = EOK <=> at # {}
      /\ at # {} => x \in at /\ \A z \in at : x <= z
  BY <1>4, <1>5, FirstIs
<1>7. at = {} => f = g
  BY DEF FirstAt, LastAt
<1>8. ASSUME at # {} PROVE g.rc = EOK /\ y \in at /\ \A z \in at : y >= z
  <2>1. g = [rc |-> EOK, out |-> Max(at)]
    BY <1>8 DEF LastAt, Found
  <2>2. d + len \in Nat
    BY <1>1
  <2>3. Max(at) \in at /\ \A z \in at : Max(at) >= z
    BY <1>4, <1>8, <2>2, MaxIs
  <2> QED BY <2>1, <2>3
<1> HIDE DEF f, g
<1>9. ASSUME at # {}
      PROVE  x <= y /\ \A a \in d..d + len - 1 : m[a] = m[s] => a \in x..y
  <2>1. x \in at /\ (\A z \in at : x <= z) /\ y \in at /\ (\A z \in at : y >= z)
    BY <1>6, <1>8, <1>9
  <2> HIDE DEF x, y
  <2>2. \A a \in d..d + len - 1 : m[a] = m[s] => a \in at /\ a \in Nat
    BY <1>2, <1>4
  <2>3. x \in Nat /\ y \in Nat
    BY <1>4, <2>1
  <2> QED BY <2>1, <2>2, <2>3
<1>10. f.rc = g.rc
  BY <1>6, <1>7, <1>8
<1> QED BY <1>3, <1>6, <1>9, <1>10 DEF CharsAgree

LEMMA SearchesHold ==
  ASSUME Posed(mem, D, N, S, L)
  PROVE  SearchesAgree
<1>1. SpansAgree(mem, D, N, S, L)
  BY SpansHold
<1>2. SubstringsAgree(mem, D, N, S, L)
  BY SubstringsHold
<1>3. DifferencesAgree(mem, D, N, S)
  BY DifferencesHold
<1>4. CharsAgree(mem, D, N, S)
  BY CharsHold
<1> QED BY <1>1, <1>2, <1>3, <1>4 DEF SearchesAgree, SpansAgree, SubstringsAgree, DifferencesAgree, CharsAgree

-----------------------------------------------------------------------------
(* A string that ends within dmax.                                         *)
EndsIn(m, d, n) ==
  /\ IsText(m) /\ d \in DOMAIN m /\ (\A a \in DOMAIN m : m[a] \in Nat)
  /\ n \in Nat /\ n > 0 /\ n <= RSIZE_MAX_STR /\ Length(m, d) <= n

InClass(m, d, class) == \A i \in 0..Length(m, d) - 1 : m[d + i] \in class

LEMMA WholeEnds ==
  ASSUME CallsInv, Whole
  PROVE  EndsIn(mem, D, N)
<1>1. ArgsIn(ClassMemories) /\ D # NULL /\ N > 0 /\ Length(mem, D) <= N
  BY DEF Whole, CallsInv
<1> DEFINE size == Cardinality(DOMAIN mem)
<1>2. mem \in ClassMemories /\ D \in DOMAIN mem /\ N \in 0..size
  BY <1>1 DEF ArgsIn
<1>3. /\ IsText(mem) /\ (\A a \in DOMAIN mem : mem[a] \in Nat) /\ size \in Nat /\ size <= RSIZE_MAX_STR
  BY <1>2, QueryText
<1> HIDE DEF size
<1>4. N \in Nat /\ N <= RSIZE_MAX_STR
  BY <1>2, <1>3, SafeStrAssumption
<1> QED BY <1>1, <1>2, <1>3, <1>4 DEF EndsIn

LEMMA ScannedWhole ==
  ASSUME NEW m, NEW d, NEW n, EndsIn(m, d, n)
  PROVE  /\ Scanned(m, d, n) = Length(m, d) /\ Scanned(m, d, RSIZE_MAX_STR) = Length(m, d)
         /\ Scanned(m, d, Length(m, d)) = Length(m, d)
         /\ Length(m, d) \in Nat /\ d \in Nat /\ d # NULL
         /\ n # 0 /\ ~(n > RSIZE_MAX_STR) /\ Usable(d, n)
<1> DEFINE q == Length(m, d)
           x == Scanned(m, d, n)
           y == Scanned(m, d, RSIZE_MAX_STR)
           z == Scanned(m, d, q)
<1>1. /\ IsText(m) /\ d \in DOMAIN m /\ n \in Nat /\ n > 0 /\ n <= RSIZE_MAX_STR /\ q <= n
      /\ RSIZE_MAX_STR \in Nat
  BY SafeStrAssumption DEF EndsIn
<1>2. q \in Nat /\ d \in Nat
  BY <1>1, LengthIs
<1>3. /\ x \in {n, q} /\ x <= q /\ x \in Nat /\ y \in {RSIZE_MAX_STR, q} /\ y <= q /\ y \in Nat
      /\ z \in {q, q}
  <2> HIDE DEF q
  <2> QED BY <1>1, <1>2, ScannedIs DEF q
<1> HIDE DEF x, y, z, q
<1>4. x = q /\ y = q /\ z = q
  BY <1>1, <1>2, <1>3
<1>5. d # NULL
  BY <1>2 DEF NULL
<1>6. n # 0 /\ ~(n > RSIZE_MAX_STR)
  BY <1>1
<1> QED BY <1>1, <1>2, <1>4, <1>5, <1>6 DEF x, y, z, q, Usable

LEMMA ClassIs ==
  ASSUME NEW m, NEW d, NEW n, EndsIn(m, d, n), NEW class
  PROVE  /\ AllIn(m, d, n, class) <=> InClass(m, d, class)
         /\ AllIn(m, d, RSIZE_MAX_STR, class) <=> InClass(m, d, class)
         /\ AllIn(m, d, Length(m, d), class) <=> InClass(m, d, class)
BY ScannedWhole DEF AllIn, InClass

(* Letters made lower or upper case.                                       *)
CaseOf(letters, by) == (letters = Upper /\ by = 32) \/ (letters = Lower /\ by = -32)

LEMMA MappedIs ==
  ASSUME NEW m, NEW d, NEW n, EndsIn(m, d, n), NEW letters, NEW by, CaseOf(letters, by)
  PROVE  LET k == Mapped(m, d, n, letters, by)
         IN  /\ k = [a \in DOMAIN m |-> IF a \in d..d + Length(m, d) - 1 /\ m[a] \in letters
                                       THEN m[a] + by ELSE m[a]]
             /\ EndsIn(k, d, n) /\ Length(k, d) = Length(m, d)
             /\ k[d] = 0 <=> m[d] = 0
             /\ \A i \in 0..Length(m, d) - 1 :
                   k[d + i] = IF m[d + i] \in letters THEN m[d + i] + by ELSE m[d + i]
<1> DEFINE len == Length(m, d)
           k == [a \in DOMAIN m |-> IF a \in d..d + len - 1 /\ m[a] \in letters
                                    THEN m[a] + by ELSE m[a]]
<1>1. /\ IsText(m) /\ d \in DOMAIN m /\ (\A a \in DOMAIN m : m[a] \in Nat)
      /\ n \in Nat /\ n > 0 /\ n <= RSIZE_MAX_STR /\ len <= n
  BY DEF EndsIn
<1>2. len \in Nat /\ d \in Nat /\ \A i \in 0..len - 1 : d + i \in DOMAIN m /\ m[d + i] # 0
  BY <1>1, LengthIs
<1>3. Mapped(m, d, n, letters, by) = k
  <2>1. Scanned(m, d, n) = len
    BY ScannedWhole
  <2>2. Min({n, Length(m, d)}) = len
    BY <2>1 DEF Scanned
  <2>3. Mapped(m, d, n, letters, by)
          = [a \in DOMAIN m |-> IF a \in d..d + Min({n, Length(m, d)}) - 1 /\ m[a] \in letters
                                THEN m[a] + by ELSE m[a]]
    BY DEF Mapped
  <2> HIDE DEF len
  <2> QED BY <2>2, <2>3
<1> HIDE DEF len
<1>4. DOMAIN k = DOMAIN m
  OBVIOUS
<1>5. ASSUME NEW a \in DOMAIN m PROVE k[a] \in Nat /\ (k[a] = 0 <=> m[a] = 0)
  <2>1. m[a] \in Nat /\ (m[a] \in letters => m[a] + by \in Nat /\ m[a] + by # 0 /\ m[a] # 0)
    BY <1>1 DEF CaseOf, Upper, Lower
  <2>2. k[a] = m[a] \/ (m[a] \in letters /\ k[a] = m[a] + by)
    OBVIOUS
  <2> HIDE DEF k
  <2> QED BY <2>1, <2>2
<1>6. ASSUME NEW i \in 0..len - 1
      PROVE  k[d + i] = IF m[d + i] \in letters THEN m[d + i] + by ELSE m[d + i]
  <2>1. d + i \in DOMAIN m /\ d + i \in d..d + len - 1
    BY <1>2
  <2> QED BY <2>1
<1> DEFINE f == k
<1>7. f = k
  OBVIOUS
<1> HIDE DEF f
<1>8. IsText(f) /\ \A p \in DOMAIN m : Length(f, p) = Length(m, p)
  <2>1. DOMAIN f = DOMAIN m /\ \A a \in DOMAIN m : f[a] = 0 <=> m[a] = 0
    BY <1>4, <1>5, <1>7
  <2> QED BY <1>1, <2>1, SameZeros
<1>9. Length(f, d) = len /\ len <= n
  BY <1>1, <1>8 DEF len
<1>10. EndsIn(f, d, n)
  BY <1>1, <1>4, <1>5, <1>7, <1>8, <1>9 DEF EndsIn
<1>11. k[d] = 0 <=> m[d] = 0
  BY <1>1, <1>5
<1> QED BY <1>3, <1>6, <1>7, <1>9, <1>10, <1>11 DEF len

LEMMA CaseIs ==
  ASSUME NEW m, NEW d, NEW n, EndsIn(m, d, n)
  PROVE  /\ strtolowercase_s(m, d, n).mem = Mapped(m, d, n, Upper, 32)
         /\ strtouppercase_s(m, d, n).mem = Mapped(m, d, n, Lower, -32)
<1> DEFINE c1 == <<d = NULL, ESNULLP, FALSE>>
           c2 == <<n = 0, ESZEROL, FALSE>>
           c3 == <<n > RSIZE_MAX_STR, ESLEMAX, FALSE>>
           checks == <<c1, c2, c3>>
<1>1. ~c1[1] /\ ~c2[1] /\ ~c3[1]
  <2>1. d # NULL /\ n # 0 /\ ~(n > RSIZE_MAX_STR)
    BY ScannedWhole
  <2> QED BY <2>1
<1>2. StrDestChecks(d, n) = checks
  BY DEF StrDestChecks, DestChecks
<1>3. Passes(checks)
  <2> HIDE DEF c1, c2, c3
  <2>1. DOMAIN checks = 1..3
    OBVIOUS
  <2>2. \A i \in 1..3 : ~checks[i][1]
    BY <1>1
  <2> QED BY <2>1, <2>2 DEF Passes
<1> HIDE DEF checks
<1>4. \A result : Checked(m, d, n, StrDestChecks(d, n), result) = result
  BY <1>2, <1>3, PassedIs
<1> QED BY <1>4 DEF strtolowercase_s, strtouppercase_s, Done

ClassesAgreeOn(m, d, n) ==
  LET low == strtolowercase_s(m, d, n).mem
      up == strtouppercase_s(m, d, n).mem
  IN  /\ strismixedcase_s(m, d, n) <=> strislowercase_s(low, d, n)
      /\ strismixedcase_s(m, d, n) <=> strisuppercase_s(up, d, n)
      /\ strtolowercase_s(up, d, n).mem = low

LEMMA CasesHold ==
  ASSUME NEW m, NEW d, NEW n, EndsIn(m, d, n)
  PROVE  ClassesAgreeOn(m, d, n)
<1> DEFINE len == Length(m, d)
           low == Mapped(m, d, n, Upper, 32)
           up == Mapped(m, d, n, Lower, -32)
           again == Mapped(up, d, n, Upper, 32)
<1>1. strtolowercase_s(m, d, n).mem = low /\ strtouppercase_s(m, d, n).mem = up
  BY CaseIs
<1>2. CaseOf(Upper, 32) /\ CaseOf(Lower, -32)
  BY DEF CaseOf
<1>3. /\ low = [a \in DOMAIN m |-> IF a \in d..d + len - 1 /\ m[a] \in Upper
                                   THEN m[a] + 32 ELSE m[a]]
      /\ EndsIn(low, d, n) /\ Length(low, d) = len /\ (low[d] = 0 <=> m[d] = 0)
      /\ \A i \in 0..len - 1 : low[d + i] = IF m[d + i] \in Upper THEN m[d + i] + 32 ELSE m[d + i]
  <2> HIDE DEF len
  <2> QED BY <1>2, MappedIs DEF len
<1>4. /\ up = [a \in DOMAIN m |-> IF a \in d..d + len - 1 /\ m[a] \in Lower
                                  THEN m[a] + (-32) ELSE m[a]]
      /\ EndsIn(up, d, n) /\ Length(up, d) = len /\ (up[d] = 0 <=> m[d] = 0)
      /\ \A i \in 0..len - 1 : up[d + i] = IF m[d + i] \in Lower THEN m[d + i] + (-32) ELSE m[d + i]
  <2> HIDE DEF len
  <2> QED BY <1>2, MappedIs DEF len
<1> HIDE DEF low, up
<1>5. /\ strtolowercase_s(up, d, n).mem = again
      /\ again = [a \in DOMAIN up |-> IF a \in d..d + len - 1 /\ up[a] \in Upper
                                      THEN up[a] + 32 ELSE up[a]]
  <2>1. strtolowercase_s(up, d, n).mem = again
    BY <1>4, CaseIs
  <2>2. again = [a \in DOMAIN up |-> IF a \in d..d + Length(up, d) - 1 /\ up[a] \in Upper
                                     THEN up[a] + 32 ELSE up[a]]
    <3>1. EndsIn(up, d, n) /\ CaseOf(Upper, 32)
      BY <1>2, <1>4
    <3> QED BY ONLY <3>1, MappedIs
  <2> HIDE DEF again, len
  <2> QED BY <1>4, <2>1, <2>2
<1> HIDE DEF again
<1>6. \A a \in DOMAIN m : m[a] \in Nat
  BY DEF EndsIn
<1>7. \A i \in 0..len - 1 : d + i \in DOMAIN m
  BY LengthIs DEF EndsIn
<1>8. Usable(d, n) /\ len \in Nat
  BY ScannedWhole
<1> HIDE DEF len
<1>9. strismixedcase_s(m, d, n) <=> m[d] # 0 /\ \A i \in 0..len - 1 : m[d + i] \in Lower \cup Upper
  BY <1>8, ClassIs DEF strismixedcase_s, InClass, len
<1>10. strislowercase_s(low, d, n) <=> low[d] # 0 /\ \A i \in 0..len - 1 : low[d + i] \in Lower
  <2>1. AllIn(low, d, n, Lower) <=> InClass(low, d, Lower)
    BY <1>3, ClassIs
  <2> QED BY <1>3, <1>8, <2>1 DEF strislowercase_s, InClass
<1>11. strisuppercase_s(up, d, n) <=> up[d] # 0 /\ \A i \in 0..len - 1 : up[d + i] \in Upper
  <2>1. AllIn(up, d, RSIZE_MAX_STR, Upper) <=> InClass(up, d, Upper)
    BY <1>4, ClassIs
  <2> QED BY <1>4, <1>8, <2>1 DEF strisuppercase_s, InClass
<1>12. ASSUME NEW i \in 0..len - 1
       PROVE  /\ m[d + i] \in Lower \cup Upper <=> low[d + i] \in Lower
              /\ m[d + i] \in Lower \cup Upper <=> up[d + i] \in Upper
  <2>1. m[d + i] \in Nat
    BY <1>6, <1>7
  <2> QED BY <1>3, <1>4, <2>1 DEF Lower, Upper
<1>13. again = low
  <2>1. DOMAIN up = DOMAIN m
    BY <1>4
  <2>2. ASSUME NEW a \in DOMAIN m
        PROVE  (IF a \in d..d + len - 1 /\ up[a] \in Upper THEN up[a] + 32 ELSE up[a])
                 = IF a \in d..d + len - 1 /\ m[a] \in Upper THEN m[a] + 32 ELSE m[a]
    <3>1. up[a] = IF a \in d..d + len - 1 /\ m[a] \in Lower THEN m[a] + (-32) ELSE m[a]
      BY <1>4
    <3>2. m[a] \in Nat
      BY <1>6
    <3> QED BY <3>1, <3>2 DEF Lower, Upper
  <2> QED BY <1>3, <1>5, <2>1, <2>2
<1> QED BY <1>1, <1>3, <1>4, <1>5, <1>9, <1>10, <1>11, <1>12, <1>13 DEF ClassesAgreeOn

(* A class within another.                                                 *)
LEMMA Nested ==
  ASSUME NEW m, NEW d, NEW n, EndsIn(m, d, n)
  PROVE  /\ strishex_s(m, d, n) => strisalphanumeric_s(m, d, n)
         /\ strisdigit_s(m, d, n) => strishex_s(m, d, n)
         /\ strisalphanumeric_s(m, d, n) => strisascii_s(m, d, n)
<1> DEFINE hex == Digit \cup (97 .. 102) \cup (65 .. 70)
           word == Digit \cup Lower \cup Upper
<1>1. /\ hex \subseteq word /\ Digit \subseteq hex /\ word \subseteq 0 .. 127
  BY DEF Digit, Lower, Upper
<1> HIDE DEF hex, word
<1>2. \A x, y : x \subseteq y /\ InClass(m, d, x) => InClass(m, d, y)
  BY DEF InClass
<1>3. Usable(d, n)
  BY ScannedWhole
<1>4. /\ strishex_s(m, d, n) <=> m[d] # 0 /\ InClass(m, d, hex)
      /\ strisalphanumeric_s(m, d, n) <=> m[d] # 0 /\ InClass(m, d, word)
      /\ strisdigit_s(m, d, n) <=> m[d] # 0 /\ InClass(m, d, Digit)
      /\ strisascii_s(m, d, n) <=> InClass(m, d, 0 .. 127)
  BY <1>3, ClassIs DEF strishex_s, strisalphanumeric_s, strisdigit_s, strisascii_s, hex, word
<1> QED BY <1>1, <1>2, <1>4

LEMMA PasswordIs ==
  ASSUME NEW m, NEW d, NEW n, EndsIn(m, d, n), strispassword_s(m, d, n)
  PROVE  strisascii_s(m, d, n) /\ ~strisuppercase_s(m, d, n) /\ ~strislowercase_s(m, d, n)
<1> DEFINE len == Length(m, d)
           chars(class) == {i \in 0 .. len - 1 : m[d + i] \in class}
           all == Digit \cup Lower \cup Upper \cup Special
<1>1. /\ m[d] # 0 /\ AllIn(m, d, len, all)
      /\ Cardinality(chars(Lower)) >= SAFE_STR_MIN_LOWERCASE
      /\ Cardinality(chars(Upper)) >= SAFE_STR_MIN_UPPERCASE
  BY DEF strispassword_s
<1>2. SAFE_STR_MIN_LOWERCASE \in Nat /\ SAFE_STR_MIN_LOWERCASE > 0
      /\ SAFE_STR_MIN_UPPERCASE \in Nat /\ SAFE_STR_MIN_UPPERCASE > 0
  BY SafeStrQueryAssumption
<1>3. Usable(d, n)
  BY ScannedWhole
<1>4. all \subseteq 0 .. 127
  BY DEF Digit, Lower, Upper, Special
<1>5. strisascii_s(m, d, n)
  <2> HIDE DEF all
  <2>1. InClass(m, d, all)
    BY <1>1, ClassIs
  <2>2. InClass(m, d, 0 .. 127)
    BY <1>4, <2>1 DEF InClass
  <2> QED BY <1>3, <2>2, ClassIs DEF strisascii_s
<1>6. ASSUME NEW one, NEW other, \A c : ~(c \in one /\ c \in other), InClass(m, d, one),
             NEW least \in Nat, least > 0, Cardinality(chars(other)) >= least
      PROVE  FALSE
  <2>1. chars(other) = {}
    BY <1>6 DEF InClass
  <2>2. Cardinality(chars(other)) = 0
    BY <2>1, FS_EmptySet
  <2> HIDE DEF chars
  <2> QED BY <1>6, <2>2
<1>7. \A c : ~(c \in Upper /\ c \in Lower)
  BY DEF Upper, Lower
<1> HIDE DEF chars
<1>8. ~strisuppercase_s(m, d, n)
  <2> SUFFICES ASSUME strisuppercase_s(m, d, n) PROVE FALSE
    OBVIOUS
  <2>1. InClass(m, d, Upper)
    BY ClassIs DEF strisuppercase_s
  <2> QED BY <1>1, <1>2, <1>6, <1>7, <2>1
<1>9. ~strislowercase_s(m, d, n)
  <2> SUFFICES ASSUME strislowercase_s(m, d, n) PROVE FALSE
    OBVIOUS
  <2>1. InClass(m, d, Lower)
    BY ClassIs DEF strislowercase_s
  <2> QED BY <1>1, <1>2, <1>6, <1>7, <2>1
<1> QED BY <1>5, <1>8, <1>9

LEMMA ClassesHold ==
  ASSUME CallsInv
  PROVE  ClassesAgree
<1> SUFFICES ASSUME Whole
             PROVE  LET low == strtolowercase_s(mem, D, N).mem
                        up == strtouppercase_s(mem, D, N).mem
                    IN  /\ strismixedcase_s(mem, D, N) <=> strislowercase_s(low, D, N)
                        /\ strismixedcase_s(mem, D, N) <=> strisuppercase_s(up, D, N)
                        /\ strtolowercase_s(up, D, N).mem = low
                        /\ strishex_s(mem, D, N) => strisalphanumeric_s(mem, D, N)
                        /\ strisdigit_s(mem, D, N) => strishex_s(mem, D, N)
                        /\ strisalphanumeric_s(mem, D, N) => strisascii_s(mem, D, N)
                        /\ strispassword_s(mem, D, N) =>
                              /\ strisascii_s(mem, D, N) /\ ~strisuppercase_s(mem, D, N)
                              /\ ~strislowercase_s(mem, D, N)
                        /\ strnterminate_s(mem, D, N).ret = Min({wcsnlen_s(mem, D, N), N - 1})
  BY DEF ClassesAgree
<1>1. EndsIn(mem, D, N)
  BY WholeEnds
<1>2. ClassesAgreeOn(mem, D, N)
  BY <1>1, CasesHold
<1>3. strnterminate_s(mem, D, N).ret = Min({wcsnlen_s(mem, D, N), N - 1})
  <2> DEFINE q == Length(mem, D)
  <2>1. D # NULL /\ N # 0 /\ ~(N > RSIZE_MAX_STR) /\ Scanned(mem, D, N) = q
    BY <1>1, ScannedWhole
  <2>2. wcsnlen_s(mem, D, N) = q
    BY <2>1 DEF wcsnlen_s, strnlen_s
  <2>3. strnterminate_s(mem, D, N).ret = Min({N - 1, q})
    BY <2>1 DEF strnterminate_s
  <2> HIDE DEF q
  <2>4. {N - 1, q} = {q, N - 1}
    OBVIOUS
  <2> QED BY <2>2, <2>3, <2>4
<1> QED BY <1>1, <1>2, <1>3, Nested, PasswordIs DEF ClassesAgreeOn

-----------------------------------------------------------------------------
(* The 16-bit queries.                                                     *)
Counts(m) == /\ IsText(m) /\ (\A a \in DOMAIN m : m[a] \in Nat)
             /\ SIZE_MAX \in Nat /\ \A a \in DOMAIN m : a < SIZE_MAX

LEMMA CompareIs ==
  ASSUME NEW m, IsText(m), \A a \in DOMAIN m : m[a] \in Nat, NEW d \in DOMAIN m, NEW s \in DOMAIN m,
         NEW at, Part(m, d, s, at), NEW num \in Nat
  PROVE  u16csncmp(m, d, s, num) = IF at < num THEN m[d + at] - m[s + at] ELSE 0
<1>1. PICK top \in Nat : DOMAIN m = 0..top
  BY DEF IsText
<1>2. /\ at \in Nat /\ d \in Nat /\ s \in Nat
      /\ d + at \in DOMAIN m /\ s + at \in DOMAIN m
      /\ \A j \in 0..at - 1 : /\ d + j \in DOMAIN m /\ s + j \in DOMAIN m
                              /\ m[d + j] = m[s + j] /\ m[d + j] # 0
  BY PartIs
<1>3. m[d + at] # m[s + at] \/ m[d + at] = 0
  BY DEF Part
<1> DEFINE b == Min({num - 1, top})
           stops == {j \in 0 .. b : \/ Cell(m, d + j) # Cell(m, s + j) \/ Cell(m, d + j) = 0}
<1>4. d # NULL /\ s # NULL
  BY <1>2 DEF NULL
<1>5. u16csncmp(m, d, s, num)
        = IF stops = {} THEN 0 ELSE Cell(m, d + Min(stops)) - Cell(m, s + Min(stops))
  <2>1. Max(DOMAIN m) = top
    BY <1>1, MaxIsTop
  <2> QED BY <1>4, <2>1 DEF u16csncmp
<1>6. b \in Int /\ b <= num - 1 /\ (at < num => at <= b)
  <2>1. CASE num = 0
    <3>1. b = -1
      <4> DEFINE two == {num - 1, top}
      <4>1. (-1) \in two /\ \A y \in two : -1 <= y
        BY <1>1, <2>1
      <4>2. \A x \in two : (\A y \in two : x <= y) => x = -1
        BY <1>1, <2>1
      <4> HIDE DEF two
      <4>3. Min(two) \in two /\ \A y \in two : Min(two) <= y
        BY <4>1, Zenon DEF Min
      <4>4. Min(two) = -1
        BY <4>2, <4>3
      <4> QED BY <4>4 DEF two
    <3> HIDE DEF b
    <3> QED BY <1>2, <2>1, <3>1
  <2>2. CASE num # 0
    <3>1. num - 1 \in Nat
      BY <2>2
    <3>2. b \in Nat /\ b \in {num - 1, top} /\ b <= num - 1
      BY <3>1, LeastOfTwo
    <3> HIDE DEF b
    <3>3. at <= top
      BY <1>1, <1>2
    <3> QED BY <1>2, <3>2, <3>3
  <2> QED BY <2>1, <2>2
<1> HIDE DEF b
<1>7. \A j \in 0..at - 1 : Cell(m, d + j) = m[d + j] /\ Cell(m, s + j) = m[s + j]
  BY <1>2 DEF Cell
<1>8. Cell(m, d + at) = m[d + at] /\ Cell(m, s + at) = m[s + at]
  BY <1>2 DEF Cell
<1>9. ASSUME NEW j \in stops PROVE j \in Nat /\ j >= at
  BY <1>2, <1>6, <1>7
<1>10. CASE at < num
  <2>1. at \in stops
    BY <1>2, <1>3, <1>6, <1>8, <1>10
  <2>2. stops \subseteq Nat /\ stops # {} /\ \A y \in stops : at <= y
    <3> HIDE DEF stops
    <3> QED BY <1>2, <1>9, <2>1
  <2> HIDE DEF stops
  <2>3. Min(stops) = at
    BY <2>1, <2>2, LeastIs
  <2> QED BY <1>5, <1>8, <1>10, <2>2, <2>3
<1>11. CASE ~(at < num)
  <2>1. \A j \in stops : j <= num - 1 /\ j \in Nat
    BY <1>6
  <2>2. stops = {}
    <3> HIDE DEF stops
    <3> QED BY <1>2, <1>9, <1>11, <2>1
  <2> QED BY <1>5, <1>11, <2>2
<1> QED BY <1>10, <1>11

LEMMA WideCompares ==
  ASSUME NEW m, Counts(m), NEW d \in DOMAIN m, NEW s \in DOMAIN m, NEW l \in Nat
  PROVE  /\ Sign(u16cscmp(m, d, s)) = Order(Text(m, d), Text(m, s))
         /\ Sign(u16csncmp(m, d, s, l)) = Order(Prefix(Text(m, d), l), Prefix(Text(m, s), l))
<1>1. IsText(m) /\ (\A a \in DOMAIN m : m[a] \in Nat) /\ SIZE_MAX \in Nat
  BY DEF Counts
<1>2. PICK at \in Nat : Part(m, d, s, at)
  BY <1>1, TheyPart
<1>3. d \in Nat /\ d + at \in DOMAIN m
  BY <1>1, <1>2, PartIs
<1>4. d + at < SIZE_MAX
  BY <1>3 DEF Counts
<1>5. at < SIZE_MAX
  BY <1>1, <1>3, <1>4
<1>6. u16cscmp(m, d, s) = m[d + at] - m[s + at]
  BY <1>1, <1>2, <1>5, CompareIs DEF u16cscmp
<1>7. u16csncmp(m, d, s, l) = IF at < l THEN m[d + at] - m[s + at] ELSE 0
  BY <1>1, <1>2, CompareIs
<1>8. Order(Text(m, d), Text(m, s)) = Sign(m[d + at] - m[s + at])
  BY <1>1, <1>2, TextOrder
<1>9. Order(Prefix(Text(m, d), l), Prefix(Text(m, s), l))
        = IF at < l THEN Sign(m[d + at] - m[s + at]) ELSE 0
  BY <1>1, <1>2, PrefixOrder
<1>10. Sign(0) = 0
  BY DEF Sign
<1> QED BY <1>6, <1>7, <1>8, <1>9, <1>10

(* A memory whose capital letters are small ones.                          *)
Lowered(m) == [a \in DOMAIN m |-> IF m[a] \in Upper THEN m[a] + 32 ELSE m[a]]
LowerOf(t) == [i \in DOMAIN t |-> IF t[i] \in Upper THEN t[i] + 32 ELSE t[i]]

LEMMA LoweredIs ==
  ASSUME NEW m, IsText(m), \A a \in DOMAIN m : m[a] \in Nat
  PROVE  /\ IsText(Lowered(m)) /\ DOMAIN Lowered(m) = DOMAIN m
         /\ \A a \in DOMAIN m : Lowered(m)[a] \in Nat /\ (Lowered(m)[a] = 0 <=> m[a] = 0)
         /\ \A p \in DOMAIN m : /\ Length(Lowered(m), p) = Length(m, p)
                                /\ Text(Lowered(m), p) = LowerOf(Text(m, p))
<1> DEFINE k == Lowered(m)
<1>1. DOMAIN k = DOMAIN m
  BY DEF Lowered
<1>2. \A a \in DOMAIN m : k[a] = IF m[a] \in Upper THEN m[a] + 32 ELSE m[a]
  BY DEF Lowered
<1> HIDE DEF k
<1>3. \A a \in DOMAIN m : k[a] \in Nat /\ (k[a] = 0 <=> m[a] = 0)
  BY <1>2 DEF Upper
<1>4. IsText(k) /\ \A p \in DOMAIN m : Length(k, p) = Length(m, p)
  BY <1>1, <1>3, SameZeros
<1>5. ASSUME NEW p \in DOMAIN m PROVE Text(k, p) = LowerOf(Text(m, p))
  <2> DEFINE t == Text(m, p)
             u == LowerOf(t)
  <2>1. u = [i \in DOMAIN t |-> IF t[i] \in Upper THEN t[i] + 32 ELSE t[i]]
    BY DEF LowerOf
  <2> HIDE DEF u, t
  <2>2. u = [i \in DOMAIN t |-> u[i]]
    BY <2>1
  <2>3. \A a \in DOMAIN m : m[a] \in Int
    OBVIOUS
  <2>4. \A i \in DOMAIN t : p + i - 1 \in DOMAIN m /\ t[i] = m[p + i - 1] => u[i] = k[p + i - 1]
    BY <1>2, <2>1
  <2>5. Length(k, p) = Length(m, p)
    BY <1>4
  <2>6. Text(k, p) = u
    BY <2>2, <2>3, <2>4, <2>5, MappedText DEF t
  <2> QED BY <2>6 DEF u, t
<1> QED BY <1>1, <1>3, <1>4, <1>5 DEF k

LEMMA CaseBlindCompares ==
  ASSUME NEW m, IsText(m), \A a \in DOMAIN m : m[a] \in Nat, NEW d \in DOMAIN m, NEW s \in DOMAIN m
  PROVE  Sign(_u16csicmp(m, d, s)) = Order(LowerOf(Text(m, d)), LowerOf(Text(m, s)))
<1> DEFINE k == Lowered(m)
           Low(c) == IF c \in Upper THEN c + 32 ELSE c
           all(top) == {j \in 0 .. top : \/ Low(Cell(m, d + j)) # Low(Cell(m, s + j))
                                         \/ Cell(m, d + j) = 0}
<1>1. PICK top \in Nat : DOMAIN m = 0..top
  BY DEF IsText
<1> DEFINE stops == {j \in 0 .. top : Cell(k, d + j) # Cell(k, s + j) \/ Cell(k, d + j) = 0}
<1>2. /\ IsText(k) /\ DOMAIN k = DOMAIN m /\ (\A a \in DOMAIN k : k[a] \in Nat)
      /\ Text(k, d) = LowerOf(Text(m, d)) /\ Text(k, s) = LowerOf(Text(m, s))
      /\ \A a \in DOMAIN m : (k[a] = 0 <=> m[a] = 0)
  BY LoweredIs
<1>3. \A a : Low(Cell(m, a)) = Cell(k, a) /\ (Cell(m, a) = 0 <=> Cell(k, a) = 0)
  <2> SUFFICES ASSUME NEW a PROVE Low(Cell(m, a)) = Cell(k, a) /\ (Cell(m, a) = 0 <=> Cell(k, a) = 0)
    OBVIOUS
  <2>1. CASE a \in DOMAIN m
    BY <1>2, <2>1 DEF Cell, Lowered
  <2>2. CASE a \notin DOMAIN m
    BY <1>2, <2>2 DEF Cell, Upper
  <2> QED BY <2>1, <2>2
<1>4. d # NULL /\ s # NULL
  <2>1. d \in Nat /\ s \in Nat
    BY LengthIs
  <2> QED BY <2>1 DEF NULL
<1>5. _u16csicmp(m, d, s) = Low(Cell(m, d + Min(all(top)))) - Low(Cell(m, s + Min(all(top))))
  <2>1. Max(DOMAIN m) = top
    BY <1>1, MaxIsTop
  <2> QED BY <1>4, <2>1 DEF _u16csicmp
<1>6. all(top) = stops
  <2> HIDE DEF k, Low
  <2> QED BY <1>3
<1>7. _u16csicmp(m, d, s) = Cell(k, d + Min(stops)) - Cell(k, s + Min(stops))
  <2> HIDE DEF k, Low, all, stops
  <2> QED BY <1>3, <1>5, <1>6
<1> HIDE DEF k, Low, all
<1>8. PICK at \in Nat : Part(k, d, s, at)
  BY <1>2, TheyPart
<1>9. /\ d \in Nat /\ s \in Nat /\ d + at \in DOMAIN k /\ s + at \in DOMAIN k
      /\ \A j \in 0..at - 1 : /\ d + j \in DOMAIN k /\ s + j \in DOMAIN k
                              /\ k[d + j] = k[s + j] /\ k[d + j] # 0
  BY <1>2, <1>8, PartIs
<1>10. k[d + at] # k[s + at] \/ k[d + at] = 0
  BY <1>8 DEF Part
<1>11. Cell(k, d + at) = k[d + at] /\ Cell(k, s + at) = k[s + at]
  BY <1>9 DEF Cell
<1>12. at \in stops
  BY <1>1, <1>2, <1>9, <1>10, <1>11
<1>13. ASSUME NEW y \in stops PROVE at <= y
  <2>1. SUFFICES ASSUME y \in 0..at - 1 PROVE FALSE
    OBVIOUS
  <2>2. Cell(k, d + y) = k[d + y] /\ Cell(k, s + y) = k[s + y]
    BY <1>9, <2>1 DEF Cell
  <2> QED BY <1>9, <2>1, <2>2
<1>14. Min(stops) = at
  <2>1. stops \subseteq Nat
    OBVIOUS
  <2> HIDE DEF stops
  <2> QED BY <1>12, <1>13, <2>1, LeastIs
<1> HIDE DEF stops
<1>15. Order(Text(k, d), Text(k, s)) = Sign(k[d + at] - k[s + at])
  BY <1>2, <1>8, TextOrder
<1> QED BY <1>2, <1>7, <1>11, <1>14, <1>15

LEMMA SubSeqIs ==
  ASSUME NEW s \in Seq(Int), NEW t \in Seq(Int), NEW i \in Nat, i + Len(t) <= Len(s)
  PROVE  SubSeq(s, i + 1, i + Len(t)) = t <=> \A j \in 1..Len(t) : s[i + j] = t[j]
<1> DEFINE q == Len(t)
           u == SubSeq(s, i + 1, i + q)
<1>1. q \in Nat /\ Len(s) \in Nat /\ i + q <= Len(s)
  OBVIOUS
<1>2. \A x \in i + 1 .. i + q : s[x] \in Int
  <2> HIDE DEF q
  <2> QED BY <1>1
<1>3. i + 1 \in Int /\ i + q \in Int
  BY <1>1
<1>4. u \in Seq(Int) /\ Len(u) = q /\ \A j \in 1..q : u[j] = s[i + j]
  <2> DEFINE lo == i + 1
             hi == i + q
  <2>1. lo \in Int /\ hi \in Int /\ \A x \in lo..hi : s[x] \in Int
    BY <1>2, <1>3
  <2> HIDE DEF lo, hi
  <2>2. /\ SubSeq(s, lo, hi) \in Seq(Int)
        /\ Len(SubSeq(s, lo, hi)) = IF lo <= hi THEN hi - lo + 1 ELSE 0
        /\ \A j \in 1..hi - lo + 1 : SubSeq(s, lo, hi)[j] = s[lo + j - 1]
    BY <2>1, SubSeqProperties
  <2>3. hi - lo + 1 = q /\ (\A j \in 1..q : lo + j - 1 = i + j) /\ u = SubSeq(s, lo, hi)
    BY <1>1 DEF lo, hi
  <2> HIDE DEF u, q
  <2>4. Len(u) = q
    <3>1. lo <= hi <=> q >= 1
      BY <1>1, <2>1, <2>3
    <3> QED BY <1>1, <2>2, <2>3, <3>1
  <2>5. ASSUME NEW j \in 1..q PROVE u[j] = s[i + j]
    <3>1. j \in 1..hi - lo + 1 /\ lo + j - 1 = i + j
      BY <2>3
    <3> QED BY <2>2, <2>3, <3>1
  <2> QED BY <2>2, <2>3, <2>4, <2>5
<1> HIDE DEF u
<1>5. ASSUME \A j \in 1..q : t[j] = u[j] PROVE u = t
  <2>1. u \in Seq(Int) /\ t \in Seq(Int) /\ Len(u) = Len(t) /\ \A j \in 1..Len(u) : u[j] = t[j]
    BY <1>4, <1>5
  <2> QED BY ONLY <2>1, SeqEqual
<1>6. (u = t) <=> \A j \in 1..q : s[i + j] = t[j]
  <2> HIDE DEF q
  <2>1. ASSUME u = t, NEW j \in 1..q PROVE s[i + j] = t[j]
    BY <1>4, <2>1
  <2>2. ASSUME \A j \in 1..q : s[i + j] = t[j] PROVE u = t
    BY <1>4, <1>5, <2>2
  <2> QED BY <2>1, <2>2
<1> QED BY <1>6 DEF u

LEMMA CellsMatch ==
  ASSUME NEW m, Counts(m), NEW a \in DOMAIN m, NEW s \in DOMAIN m
  PROVE  LET q == Length(m, s)
         IN  /\ u16csncmp(m, a, s, q) = 0
                  <=> \A j \in 0..q - 1 : a + j \in DOMAIN m /\ m[a + j] = m[s + j]
             /\ q = 0 /\ m[a] # 0 => u16csncmp(m, a, s, SIZE_MAX) # 0
<1> DEFINE q == Length(m, s)
<1>1. IsText(m) /\ (\A c \in DOMAIN m : m[c] \in Nat) /\ SIZE_MAX \in Nat /\ SIZE_MAX > 0
  BY WideStrAssumption DEF Counts
<1>2. PICK at \in Nat : Part(m, a, s, at)
  BY <1>1, TheyPart
<1>3. /\ a \in Nat /\ s \in Nat /\ a + at \in DOMAIN m /\ s + at \in DOMAIN m
      /\ \A j \in 0..at - 1 : /\ a + j \in DOMAIN m /\ s + j \in DOMAIN m
                              /\ m[a + j] = m[s + j] /\ m[a + j] # 0
  BY <1>1, <1>2, PartIs
<1>4. at <= q /\ (m[a + at] # m[s + at] \/ m[a + at] = 0)
  BY <1>2 DEF Part
<1>5. q \in Nat /\ m[s + q] = 0 /\ \A k \in 0..q - 1 : s + k \in DOMAIN m /\ m[s + k] # 0
  BY <1>1, LengthIs
<1>6. \A num \in Nat : u16csncmp(m, a, s, num) = IF at < num THEN m[a + at] - m[s + at] ELSE 0
  BY <1>1, <1>2, CompareIs
<1> HIDE DEF q
<1>7. u16csncmp(m, a, s, q) = 0
        <=> \A j \in 0..q - 1 : a + j \in DOMAIN m /\ m[a + j] = m[s + j]
  <2>1. CASE at < q
    <3>1. m[s + at] # 0
      BY <1>2, <1>5, <2>1
    <3>2. m[a + at] # m[s + at] /\ m[a + at] \in Nat /\ m[s + at] \in Nat
      BY <1>1, <1>3, <1>4, <3>1
    <3>3. u16csncmp(m, a, s, q) # 0
      BY <1>5, <1>6, <2>1, <3>2
    <3> QED BY <1>2, <1>5, <2>1, <3>2, <3>3
  <2>2. CASE at = q
    <3>1. u16csncmp(m, a, s, q) = 0
      BY <1>5, <1>6, <2>2
    <3> QED BY <1>3, <2>2, <3>1
  <2> QED BY <1>2, <1>4, <1>5, <2>1, <2>2
<1>8. ASSUME q = 0, m[a] # 0 PROVE u16csncmp(m, a, s, SIZE_MAX) # 0
  <2>1. at = 0
    BY <1>4, <1>8
  <2>2. a + at = a /\ s + at = s + q
    BY <1>3, <1>8, <2>1
  <2>3. u16csncmp(m, a, s, SIZE_MAX) = m[a] - 0 /\ m[a] \in Nat
    BY <1>1, <1>5, <1>6, <2>1, <2>2
  <2> QED BY <1>8, <2>3
<1> QED BY <1>7, <1>8 DEF q

LEMMA SubtextIs ==
  ASSUME NEW m, Counts(m), NEW d \in DOMAIN m, NEW s \in DOMAIN m
  PROVE  LET x == Text(m, d)
             t == Text(m, s)
             at == {i \in 0 .. Len(x) - Len(t) : SubSeq(x, i + 1, i + Len(t)) = t}
         IN  u16csstr(m, d, s) = IF t = <<>> \/ at = {} THEN NULL ELSE d + Min(at)
<1> DEFINE x == Text(m, d)
           t == Text(m, s)
           at == {i \in 0 .. Len(x) - Len(t) : SubSeq(x, i + 1, i + Len(t)) = t}
           p == Length(m, d)
           q == Length(m, s)
           cklen == u16cslen(m, s)
           found == {a \in d .. d + p - 1 : u16csncmp(m, a, s, cklen) = 0}
<1>1. /\ IsText(m) /\ (\A a \in DOMAIN m : m[a] \in Nat) /\ SIZE_MAX \in Nat
      /\ \A a \in DOMAIN m : a < SIZE_MAX
  BY DEF Counts
<1>2. /\ p \in Nat /\ d \in Nat /\ d + p \in DOMAIN m /\ m[d + p] = 0
      /\ \A k \in 0..p - 1 : d + k \in DOMAIN m /\ m[d + k] # 0
  BY <1>1, LengthIs
<1>3. /\ q \in Nat /\ s \in Nat /\ s + q \in DOMAIN m /\ m[s + q] = 0
      /\ \A k \in 0..q - 1 : s + k \in DOMAIN m /\ m[s + k] # 0
  BY <1>1, LengthIs
<1>4. \A a \in DOMAIN m : m[a] \in Int
  BY <1>1
<1>5. /\ x \in Seq(Int) /\ Len(x) = p /\ \A i \in 1..p : x[i] = m[d + i - 1]
      /\ t \in Seq(Int) /\ Len(t) = q /\ \A i \in 1..q : t[i] = m[s + i - 1]
  BY <1>1, <1>4, TextIsSeq
<1>6. d # NULL /\ s # NULL
  BY <1>2, <1>3 DEF NULL
<1>7. u16csstr(m, d, s) = IF found = {} THEN NULL ELSE Min(found)
  BY <1>6 DEF u16csstr
<1>8. cklen = IF q = 0 THEN SIZE_MAX ELSE q
  <2> DEFINE least == Min({SIZE_MAX, q})
  <2>1. cklen = IF least = 0 THEN SIZE_MAX ELSE least
    BY <1>6 DEF u16cslen, u16csnlen
  <2>2. q < SIZE_MAX
    <3> HIDE DEF q
    <3>1. s + q < SIZE_MAX
      BY <1>1, <1>3
    <3> QED BY <1>1, <1>3, <3>1
  <2>3. {SIZE_MAX, q} \subseteq Nat /\ q \in {SIZE_MAX, q} /\ \A y \in {SIZE_MAX, q} : q <= y
    <3> HIDE DEF q
    <3> QED BY <1>1, <1>3, <2>2
  <2>4. least = q
    <3> DEFINE two == {SIZE_MAX, q}
    <3>1. two \subseteq Nat /\ q \in two /\ \A y \in two : q <= y
      BY <2>3
    <3> HIDE DEF two
    <3>2. Min(two) = q
      <4> HIDE DEF q
      <4> QED BY <3>1, LeastIs
    <3> QED BY <3>2 DEF two
  <2> HIDE DEF cklen, q, least
  <2> QED BY <2>1, <2>4
<1>9. ASSUME NEW a \in d .. d + p - 1 PROVE a \in DOMAIN m /\ m[a] # 0 /\ a \in Nat
  <2> DEFINE k == a - d
  <2>1. k \in 0..p - 1 /\ a = d + k /\ a \in Nat
    <3> HIDE DEF p
    <3> QED BY <1>2, <1>9
  <2> HIDE DEF p, k
  <2> QED BY <1>2, <2>1
<1>10. CASE q = 0
  <2>1. ASSUME NEW a \in d .. d + p - 1 PROVE u16csncmp(m, a, s, cklen) # 0
    <3>1. a \in DOMAIN m /\ m[a] # 0
      BY <1>9
    <3>2. u16csncmp(m, a, s, SIZE_MAX) # 0
      BY <1>10, <3>1, CellsMatch
    <3> QED BY <1>8, <1>10, <3>2
  <2>2. found = {}
    BY <2>1
  <2>3. t = <<>>
    <3> HIDE DEF t, q
    <3> QED BY <1>5, <1>10
  <2> HIDE DEF found, t
  <2> QED BY <1>7, <2>2, <2>3 DEF t
<1>11. CASE q # 0
  <2>1. t # <<>>
    <3> HIDE DEF t, q
    <3> QED BY <1>5, <1>11
  <2> DEFINE Here(a) == \A j \in 0..q - 1 : a + j \in DOMAIN m /\ m[a + j] = m[s + j]
  <2>2. ASSUME NEW a \in d .. d + p - 1 PROVE a \in found <=> Here(a)
    <3>1. a \in DOMAIN m
      BY <1>9
    <3>2. u16csncmp(m, a, s, q) = 0 <=> Here(a)
      BY <3>1, CellsMatch
    <3> HIDE DEF q, cklen, p
    <3> QED BY <1>8, <1>11, <3>2
  <2>3. ASSUME NEW i \in 0..p - 1, Here(d + i) PROVE i + q <= p
    <3>1. SUFFICES ASSUME i + q > p PROVE FALSE
      <4> HIDE DEF p, q
      <4> QED BY <1>2, <1>3
    <3> DEFINE j == p - i
    <3>2. j \in 0..q - 1 /\ d + i + j = d + p
      <4> HIDE DEF p, q
      <4> QED BY <1>2, <1>3, <3>1
    <3>3. m[d + i + j] = m[s + j] /\ m[s + j] # 0
      <4> HIDE DEF p, q, j
      <4> QED BY <1>3, <2>3, <3>2
    <3> HIDE DEF p, q, j
    <3> QED BY <1>2, <3>2, <3>3
  <2>4. ASSUME NEW i \in Nat, i + q <= p PROVE i \in at <=> Here(d + i)
    <3>1. SubSeq(x, i + 1, i + Len(t)) = t <=> \A j \in 1..Len(t) : x[i + j] = t[j]
      <4>1. x \in Seq(Int) /\ t \in Seq(Int) /\ i + Len(t) <= Len(x)
        BY <1>5, <2>4
      <4> HIDE DEF x, t
      <4> QED BY <4>1, SubSeqIs
    <3>2. i \in 0 .. Len(x) - Len(t)
      <4> HIDE DEF x, t, p, q
      <4> QED BY <1>2, <1>3, <1>5, <2>4
    <3>3. (\A j \in 1..Len(t) : x[i + j] = t[j]) <=> \A j \in 0..q - 1 : m[d + i + j] = m[s + j]
      <4> HIDE DEF x, t, p, q
      <4>1. ASSUME NEW j \in 1..q PROVE x[i + j] = m[d + i + (j - 1)] /\ t[j] = m[s + (j - 1)]
        <5>1. i + j \in 1..p /\ d + (i + j) - 1 = d + i + (j - 1) /\ s + j - 1 = s + (j - 1)
          BY <1>2, <1>3, <2>4
        <5> QED BY <1>5, <5>1
      <4>2. \A j \in 0..q - 1 : j + 1 \in 1..q /\ (j + 1) - 1 = j
        BY <1>3
      <4>3. \A j \in 1..q : j - 1 \in 0..q - 1
        BY <1>3
      <4>4. ASSUME \A j \in 1..Len(t) : x[i + j] = t[j], NEW j \in 0..q - 1
            PROVE  m[d + i + j] = m[s + j]
        <5>1. x[i + (j + 1)] = t[j + 1]
          BY <1>5, <4>2, <4>4
        <5> QED BY <4>1, <4>2, <5>1
      <4>5. ASSUME \A j \in 0..q - 1 : m[d + i + j] = m[s + j], NEW j \in 1..q
            PROVE  x[i + j] = t[j]
        BY <4>1, <4>3, <4>5
      <4> QED BY <1>5, <4>4, <4>5
    <3>4. \A j \in 0..q - 1 : d + i + j \in DOMAIN m
      <4>1. \A j \in 0..q - 1 : i + j \in 0..p - 1 /\ d + (i + j) = d + i + j
        <5> HIDE DEF p, q
        <5> QED BY <1>2, <1>3, <2>4
      <4> HIDE DEF p, q
      <4> QED BY <1>2, <4>1
    <3> HIDE DEF x, t, p, q
    <3>5. i \in at <=> SubSeq(x, i + 1, i + Len(t)) = t
      BY <3>2
    <3> QED BY <3>1, <3>3, <3>4, <3>5
  <2>5. at \subseteq Nat /\ \A i \in at : i + q <= p
    <3>1. \A i \in 0 .. p - q : i \in Nat /\ i + q <= p
      <4> HIDE DEF p, q
      <4> QED BY <1>2, <1>3
    <3>2. at \subseteq 0 .. p - q
      <4> HIDE DEF x, t, p, q
      <4> QED BY <1>5
    <3> HIDE DEF at, p, q
    <3> QED BY <3>1, <3>2
  <2>6. ASSUME NEW i \in at PROVE d + i \in found
    <3>1. i \in Nat /\ i + q <= p /\ Here(d + i)
      BY <2>4, <2>5
    <3>2. d + i \in d .. d + p - 1
      <4> HIDE DEF p, q, Here, at
      <4> QED BY <1>2, <1>3, <1>11, <3>1
    <3> HIDE DEF found, Here, p
    <3> QED BY <2>2, <3>1, <3>2
  <2>7. ASSUME NEW a \in found PROVE a - d \in at
    <3>1. a \in d .. d + p - 1
      OBVIOUS
    <3>2. Here(a)
      <4> HIDE DEF Here, found, p
      <4> QED BY <2>2, <2>7, <3>1
    <3>3. a - d \in 0..p - 1 /\ d + (a - d) = a
      <4> HIDE DEF p
      <4> QED BY <1>2, <3>1
    <3>4. Here(d + (a - d))
      <4> HIDE DEF Here
      <4> QED BY <3>2, <3>3
    <3>5. a - d + q <= p
      <4> HIDE DEF Here, p, q
      <4> QED BY <2>3, <3>3, <3>4
    <3>6. a - d \in Nat
      <4> HIDE DEF p
      <4> QED BY <3>3
    <3> HIDE DEF Here, p, q, at
    <3> QED BY <2>4, <3>4, <3>5, <3>6
  <2>8. found \subseteq Nat
    BY <1>9
  <2> HIDE DEF found, at
  <2>9. CASE at = {}
    <3>1. found = {}
      BY <2>7, <2>9
    <3> HIDE DEF t
    <3> QED BY <1>7, <2>9, <3>1 DEF at, t
  <2>10. CASE at # {}
    <3> DEFINE least == Min(at)
    <3>1. least \in at /\ least \in Nat /\ \A y \in at : least <= y
      BY <2>5, <2>10, MinIs
    <3> HIDE DEF least
    <3>2. d + least \in found
      BY <2>6, <3>1
    <3>3. ASSUME NEW y \in found PROVE d + least <= y
      <4>1. least <= y - d /\ y \in Nat
        BY <2>7, <2>8, <3>1
      <4> QED BY <1>2, <3>1, <4>1
    <3>4. Min(found) = d + least
      BY <2>8, <3>2, <3>3, LeastIs
    <3>5. found # {}
      BY <3>2
    <3> HIDE DEF t
    <3> QED BY <1>7, <2>1, <2>10, <3>4, <3>5 DEF at, t, least
  <2> QED BY <2>9, <2>10 DEF at
<1> QED BY <1>10, <1>11

LEMMA WideQueriesHold ==
  ASSUME CallsInv
  PROVE  WideQueriesAgree
<1> SUFFICES ASSUME family = "query", D # NULL, S # NULL
             PROVE  LET s == Text(mem, D)
                        t == Text(mem, S)
                        Low(x) == [i \in DOMAIN x |-> IF x[i] \in Upper THEN x[i] + 32 ELSE x[i]]
                        at == {i \in 0 .. Len(s) - Len(t) : SubSeq(s, i + 1, i + Len(t)) = t}
                    IN  /\ Sign(u16cscmp(mem, D, S)) = Order(s, t)
                        /\ Sign(u16csncmp(mem, D, S, L)) = Order(Prefix(s, L), Prefix(t, L))
                        /\ Sign(_u16csicmp(mem, D, S)) = Order(Low(s), Low(t))
                        /\ u16csstr(mem, D, S) = IF t = <<>> \/ at = {} THEN NULL ELSE D + Min(at)
  BY DEF WideQueriesAgree
<1>1. mem \in QueryMemories /\ D \in DOMAIN mem /\ S \in DOMAIN mem /\ L \in Nat
  BY DEF CallsInv, ArgsIn
<1>2. /\ IsText(mem) /\ (\A a \in DOMAIN mem : mem[a] \in Nat)
      /\ Cardinality(DOMAIN mem) \in Nat /\ DOMAIN mem = 0..Cardinality(DOMAIN mem) - 1
  BY <1>1, QueryText
<1>3. Cardinality(DOMAIN mem) <= SIZE_MAX
  BY <1>1, StringsAssumption
<1>4. Counts(mem)
  BY <1>2, <1>3, WideStrAssumption DEF Counts
<1>5. /\ Sign(u16cscmp(mem, D, S)) = Order(Text(mem, D), Text(mem, S))
      /\ Sign(u16csncmp(mem, D, S, L)) = Order(Prefix(Text(mem, D), L), Prefix(Text(mem, S), L))
  BY <1>1, <1>4, WideCompares
<1>6. Sign(_u16csicmp(mem, D, S)) = Order(LowerOf(Text(mem, D)), LowerOf(Text(mem, S)))
  BY <1>1, <1>2, CaseBlindCompares
<1>7. LET s == Text(mem, D)
          t == Text(mem, S)
          at == {i \in 0 .. Len(s) - Len(t) : SubSeq(s, i + 1, i + Len(t)) = t}
      IN  u16csstr(mem, D, S) = IF t = <<>> \/ at = {} THEN NULL ELSE D + Min(at)
  BY <1>1, <1>4, SubtextIs
<1> QED BY <1>5, <1>6, <1>7 DEF LowerOf

LEMMA QueriesHold ==
  ASSUME CallsInv
  PROVE  QueriesAgree
<1>1. ASSUME Asking PROVE Posed(mem, D, N, S, L)
  <2>1. /\ ArgsIn(QueryMemories) /\ L <= RSIZE_MAX_STR
        /\ D # NULL /\ S # NULL /\ N > 0 /\ L > 0
    BY <1>1 DEF Asking, CallsInv
  <2> QED BY <2>1, AskingPoses
<1>2. ComparesAgree
  <2>1. CASE Asking
    BY <1>1, <2>1, ComparesHold
  <2>2. CASE ~Asking
    BY <2>2 DEF ComparesAgree
  <2> QED BY <2>1, <2>2
<1>3. SearchesAgree
  <2>1. CASE Asking
    BY <1>1, <2>1, SearchesHold
  <2>2. CASE ~Asking
    BY <2>2 DEF SearchesAgree
  <2> QED BY <2>1, <2>2
<1> QED BY <1>2, <1>3, ClassesHold, WideQueriesHold DEF QueriesAgree

\* On every memory and for every call, the functions that compare (memcmp*_s,
\* str*cmp_s, u16cscmp), search (strspn_s, strstr_s, strfirstdiff_s, u16csstr
\* and their kin), classify (stris*_s) and change case answer as the order, the
\* occurrences and the classes of the texts say, narrow and wide.
THEOREM QueriesAlwaysAgree == StringsSpec => []QueriesAgree
<1>1. CallsInv => QueriesAgree
  BY QueriesHold
<1> QED BY <1>1, CallsAlways, PTL

-----------------------------------------------------------------------------
(* The fields of a text, in which a place is one of 1 to its length.  Taken *)
(* counts the fields that start up to a place; a cursor stands at a place   *)
(* that is not between two characters of a field.                          *)
InField(t, delims) == {i \in DOMAIN t : t[i] \notin delims}
Starts(t, delims) == {i \in InField(t, delims) : i - 1 \notin InField(t, delims)}
StartsTo(t, delims, p) == {j \in Starts(t, delims) : j <= p}
Taken(t, delims, p) == Cardinality(StartsTo(t, delims, p))
IsField(t, delims, i, e) ==
  /\ i \in Starts(t, delims) /\ e \in i..Len(t) /\ e + 1 \notin InField(t, delims)
  /\ \A x \in i..e : x \in InField(t, delims)

LEMMA StartsAre ==
  ASSUME NEW t \in Seq(Int), NEW delims
  PROVE  /\ Starts(t, delims) \subseteq 1..Len(t) /\ IsFiniteSet(Starts(t, delims))
         /\ \A p : /\ StartsTo(t, delims, p) \subseteq Starts(t, delims)
                   /\ IsFiniteSet(StartsTo(t, delims, p)) /\ Taken(t, delims, p) \in Nat
         /\ Cardinality(Starts(t, delims)) \in Nat
<1>1. Starts(t, delims) \subseteq 1..Len(t) /\ Len(t) \in Nat
  BY DEF Starts, InField
<1>2. IsFiniteSet(1..Len(t))
  BY <1>1, FS_Interval
<1>3. IsFiniteSet(Starts(t, delims))
  BY <1>1, <1>2, FS_Subset
<1>4. ASSUME NEW p PROVE /\ StartsTo(t, delims, p) \subseteq Starts(t, delims)
                         /\ IsFiniteSet(StartsTo(t, delims, p)) /\ Taken(t, delims, p) \in Nat
  <2>1. StartsTo(t, delims, p) \subseteq Starts(t, delims)
    BY DEF StartsTo
  <2>2. IsFiniteSet(StartsTo(t, delims, p))
    BY <1>3, <2>1, FS_Subset
  <2>3. Taken(t, delims, p) \in Nat
    BY <2>2, FS_CardinalityType DEF Taken
  <2> QED BY <2>1, <2>2, <2>3
<1>5. Cardinality(Starts(t, delims)) \in Nat
  BY <1>3, FS_CardinalityType
<1> QED BY <1>1, <1>3, <1>4, <1>5

(* Two fields do not start with the same count.                            *)
LEMMA StartByCount ==
  ASSUME NEW t \in Seq(Int), NEW delims, NEW i \in Starts(t, delims), NEW j \in Starts(t, delims),
         Taken(t, delims, i) = Taken(t, delims, j)
  PROVE  i = j
<1> DEFINE s(p) == StartsTo(t, delims, p)
<1>1. i \in Int /\ j \in Int
  BY StartsAre
<1>2. i \in s(i) /\ j \in s(j) /\ IsFiniteSet(s(i)) /\ IsFiniteSet(s(j))
  BY <1>1, StartsAre DEF StartsTo
<1>3. Cardinality(s(i)) = Cardinality(s(j))
  BY DEF Taken
<1>4. CASE i <= j
  <2>1. s(i) \subseteq s(j)
    BY <1>1, <1>4, StartsAre DEF StartsTo
  <2> HIDE DEF s
  <2>2. s(j) = s(i)
    BY <1>2, <1>3, <2>1, FS_Subset
  <2>3. j \in s(i)
    BY <1>2, <2>2
  <2> QED BY <1>1, <1>4, <2>3 DEF s, StartsTo
<1>5. CASE j <= i
  <2>1. s(j) \subseteq s(i)
    BY <1>1, <1>5, StartsAre DEF StartsTo
  <2> HIDE DEF s
  <2>2. s(i) = s(j)
    BY <1>2, <1>3, <2>1, FS_Subset
  <2>3. i \in s(j)
    BY <1>2, <2>2
  <2> QED BY <1>1, <1>5, <2>3 DEF s, StartsTo
<1> QED BY <1>1, <1>4, <1>5

LEMMA SameInterval ==
  ASSUME NEW x \in Nat, NEW y \in Nat, 1..x = 1..y
  PROVE  x = y
<1>1. x < y => y \in 1..y /\ y \notin 1..x
  OBVIOUS
<1>2. y < x => x \in 1..x /\ x \notin 1..y
  OBVIOUS
<1> QED BY <1>1, <1>2

LEMMA FieldsAre ==
  ASSUME NEW t \in Seq(Int), NEW delims
  PROVE  /\ DOMAIN FieldsOf(t, delims) = 1..Cardinality(Starts(t, delims))
         /\ Len(FieldsOf(t, delims)) = Cardinality(Starts(t, delims))
         /\ \E r : FieldsOf(t, delims) \in Seq(r)
         /\ \A i, e : IsField(t, delims, i, e) =>
              /\ Taken(t, delims, i) \in 1..Cardinality(Starts(t, delims))
              /\ FieldsOf(t, delims)[Taken(t, delims, i)] = SubSeq(t, i, e)
<1> DEFINE in == InField(t, delims)
           starts == Starts(t, delims)
           n == Cardinality(starts)
           Start(k) == CHOOSE i \in starts : Cardinality({j \in starts : j <= i}) = k
           End(i) == Min({j \in i .. Len(t) : j + 1 \notin in})
           fields == FieldsOf(t, delims)
<1>1. starts = {i \in in : i - 1 \notin in} /\ in = {i \in DOMAIN t : t[i] \notin delims}
  BY DEF Starts, InField
<1>2. fields = [k \in 1 .. n |-> SubSeq(t, Start(k), End(Start(k)))]
  BY <1>1 DEF FieldsOf
<1>3. starts \subseteq 1..Len(t) /\ IsFiniteSet(starts) /\ n \in Nat /\ Len(t) \in Nat
  BY StartsAre
<1> HIDE DEF n
<1>4. ASSUME NEW i, NEW e, IsField(t, delims, i, e)
      PROVE  /\ Taken(t, delims, i) \in 1..n
             /\ fields[Taken(t, delims, i)] = SubSeq(t, i, e)
  <2> DEFINE k == Taken(t, delims, i)
             ends == {j \in i .. Len(t) : j + 1 \notin in}
  <2>1. i \in starts /\ e \in i..Len(t) /\ e + 1 \notin in /\ \A x \in i..e : x \in in
    BY <1>4 DEF IsField
  <2>2. i \in Nat /\ i <= Len(t) /\ i > 0
    BY <1>3, <2>1
  <2>3. k = Cardinality({j \in starts : j <= i})
    BY DEF Taken, StartsTo
  <2>4. Start(k) = i
    <3> HIDE DEF starts
    <3> DEFINE found == CHOOSE y \in starts : Cardinality({j \in starts : j <= y}) = k
    <3>1. found \in starts /\ Cardinality({j \in starts : j <= found}) = k
      BY <2>1, <2>3, Zenon
    <3> HIDE DEF found
    <3>2. Taken(t, delims, found) = Taken(t, delims, i)
      BY <2>3, <3>1 DEF Taken, StartsTo, starts
    <3>3. found = i
      BY <2>1, <3>1, <3>2, StartByCount DEF starts
    <3> QED BY <3>3 DEF found
  <2>5. End(i) = e
    <3>1. ends \subseteq Nat /\ e \in ends
      BY <2>1, <2>2
    <3>2. ASSUME NEW y \in ends PROVE e <= y
      <4>1. SUFFICES ASSUME y < e PROVE FALSE
        BY <2>1, <2>2
      <4>2. y + 1 \in i..e
        BY <2>1, <2>2, <4>1
      <4> QED BY <2>1, <4>2
    <3> HIDE DEF ends
    <3>3. Min(ends) = e
      BY <3>1, <3>2, LeastIs
    <3> QED BY <3>3 DEF ends
  <2>6. k \in 1..n
    <3> DEFINE some == StartsTo(t, delims, i)
    <3>1. some \subseteq starts /\ IsFiniteSet(some) /\ k = Cardinality(some)
      BY StartsAre DEF Taken
    <3>2. i \in some
      BY <2>1, <2>2 DEF StartsTo
    <3> HIDE DEF some, starts
    <3>3. Cardinality(some) <= Cardinality(starts)
      BY <1>3, <3>1, FS_Subset
    <3>4. Cardinality(some) # 0
      BY <3>1, <3>2, FS_EmptySet
    <3>5. Cardinality(some) \in Nat
      BY <3>1, FS_CardinalityType
    <3> HIDE DEF k
    <3> QED BY <1>3, <3>1, <3>3, <3>4, <3>5 DEF n, starts
  <2> HIDE DEF k, Start, End, fields
  <2>7. fields[k] = SubSeq(t, Start(k), End(Start(k)))
    BY <1>2, <2>6
  <2> QED BY <2>4, <2>5, <2>6, <2>7 DEF k
<1>5. DOMAIN fields = 1..n /\ Len(fields) = n /\ \E r : fields \in Seq(r)
  <2> DEFINE all == {fields[k] : k \in 1..n}
  <2>1. DOMAIN fields = 1..n /\ fields = [k \in 1..n |-> fields[k]]
    BY <1>2
  <2> HIDE DEF fields
  <2>2. fields \in [1..n -> all]
    BY <2>1
  <2> HIDE DEF all
  <2>3. fields \in Seq(all)
    BY <1>3, <2>2
  <2>4. Len(fields) = n
    <3>1. Len(fields) \in Nat /\ 1..Len(fields) = 1..n
      BY <2>1, <2>3, LenProperties
    <3> QED BY <1>3, <3>1, SameInterval
  <2> QED BY <2>1, <2>3, <2>4
<1> HIDE DEF fields
<1> QED BY <1>4, <1>5 DEF n, fields

(* From a cursor at place p over a gap to place i, where a field starts.    *)
LEMMA NextStart ==
  ASSUME NEW t \in Seq(Int), NEW delims, NEW p \in Nat,
         p \notin InField(t, delims) \/ p + 1 \notin InField(t, delims),
         NEW i \in InField(t, delims), i > p, \A x \in p + 1 .. i - 1 : x \notin InField(t, delims)
  PROVE  i \in Starts(t, delims) /\ Taken(t, delims, i) = Taken(t, delims, p) + 1
<1> DEFINE in == InField(t, delims)
           s(q) == StartsTo(t, delims, q)
<1>1. in \subseteq Nat /\ i \in Nat
  BY DEF InField
<1>2. i - 1 \notin in
  <2> HIDE DEF in
  <2>1. CASE i = p + 1
    <3>1. p \notin in
      BY <2>1 DEF in
    <3> QED BY <2>1, <3>1
  <2>2. CASE i # p + 1
    <3>1. i - 1 \in p + 1 .. i - 1
      BY <1>1, <2>2
    <3> QED BY <3>1 DEF in
  <2> QED BY <2>1, <2>2
<1>3. i \in Starts(t, delims)
  BY <1>2 DEF Starts
<1>4. IsFiniteSet(s(p)) /\ i \notin s(p)
  <2>1. i \notin s(p)
    BY <1>1 DEF StartsTo
  <2> HIDE DEF s
  <2>2. IsFiniteSet(s(p))
    BY StartsAre DEF s
  <2> QED BY <2>1, <2>2
<1>5. s(i) = s(p) \cup {i}
  <2>1. ASSUME NEW j \in Starts(t, delims) PROVE j <= i <=> j <= p \/ j = i
    <3>1. j \in Nat /\ j \in in
      BY <1>1 DEF Starts
    <3>2. ~(j > p /\ j < i)
      <4>1. j > p /\ j < i => j \in p + 1 .. i - 1
        BY <1>1, <3>1
      <4> QED BY <3>1, <4>1
    <3> QED BY <1>1, <3>1, <3>2
  <2> QED BY <1>3, <2>1 DEF StartsTo
<1> HIDE DEF s
<1>6. Cardinality(s(i)) = Cardinality(s(p)) + 1
  BY <1>4, <1>5, FS_AddElement
<1> QED BY <1>3, <1>6 DEF Taken, s

(* Behind a field, and behind its delimiter, it has been taken.            *)
LEMMA BehindField ==
  ASSUME NEW t \in Seq(Int), NEW delims, NEW i, NEW e, IsField(t, delims, i, e)
  PROVE  /\ Taken(t, delims, e) = Taken(t, delims, i)
         /\ Taken(t, delims, e + 1) = Taken(t, delims, i)
         /\ e = Len(t) => Cardinality(Starts(t, delims)) = Taken(t, delims, i)
<1>1. i \in Starts(t, delims) /\ e \in i..Len(t) /\ e + 1 \notin InField(t, delims)
      /\ \A x \in i..e : x \in InField(t, delims)
  BY DEF IsField
<1>2. i \in Nat /\ e \in Nat /\ i <= e /\ Len(t) \in Nat
  BY <1>1, StartsAre
<1>3. ASSUME NEW j \in Starts(t, delims), j <= e + 1 PROVE j <= i
  <2>0. j \in Nat
    BY StartsAre
  <2>1. j \in Nat /\ j \in InField(t, delims) /\ j - 1 \notin InField(t, delims)
    BY <2>0 DEF Starts
  <2>2. SUFFICES ASSUME j > i PROVE FALSE
    BY <1>2, <2>1
  <2>3. j - 1 \in i..e
    BY <1>2, <1>3, <2>1, <2>2
  <2> QED BY <1>1, <2>1, <2>3
<1>4. ASSUME NEW q \in Nat, i <= q, q <= e + 1
      PROVE  StartsTo(t, delims, q) = StartsTo(t, delims, i)
  <2>1. ASSUME NEW j \in Starts(t, delims) PROVE j <= q <=> j <= i
    <3>1. j \in Nat
      BY StartsAre
    <3> QED BY <1>2, <1>3, <1>4, <3>1
  <2> QED BY <2>1 DEF StartsTo
<1>5. StartsTo(t, delims, e) = StartsTo(t, delims, i) /\ StartsTo(t, delims, e + 1) = StartsTo(t, delims, i)
  BY <1>2, <1>4
<1>6. ASSUME e = Len(t) PROVE Starts(t, delims) = StartsTo(t, delims, i)
  <2>1. ASSUME NEW j \in Starts(t, delims) PROVE j <= i
    <3>1. j \in 1..Len(t)
      BY StartsAre
    <3>2. j <= e + 1
      BY <1>2, <1>6, <3>1
    <3> QED BY <1>3, <3>2
  <2> QED BY <2>1 DEF StartsTo
<1> QED BY <1>5, <1>6 DEF Taken

(* Behind the last field, all are taken.                                   *)
LEMMA AllTaken ==
  ASSUME NEW t \in Seq(Int), NEW delims, NEW p \in Nat,
         \A x \in p + 1 .. Len(t) : x \notin InField(t, delims)
  PROVE  Taken(t, delims, p) = Cardinality(Starts(t, delims))
<1>1. ASSUME NEW j \in Starts(t, delims) PROVE j <= p
  <2>1. j \in 1..Len(t) /\ j \in InField(t, delims)
    BY StartsAre DEF Starts
  <2>2. ~(j \in p + 1 .. Len(t))
    BY <2>1
  <2> QED BY <2>1, <2>2
<1>2. StartsTo(t, delims, p) = Starts(t, delims)
  BY <1>1 DEF StartsTo
<1> QED BY <1>2 DEF Taken

LEMMA NoneTaken ==
  ASSUME NEW t \in Seq(Int), NEW delims
  PROVE  Taken(t, delims, 0) = 0
<1>1. StartsTo(t, delims, 0) = {}
  <2>1. \A j \in Starts(t, delims) : ~(j <= 0)
    BY StartsAre
  <2> QED BY <2>1 DEF StartsTo
<1> QED BY <1>1, FS_EmptySet DEF Taken

(* One call at offset p of a text: it passes a gap and finds the field from *)
(* offset b to before offset e, or nothing but delimiters.                 *)
FieldLies(m, from, delims, p, b, e) ==
  /\ IsText(m) /\ (\A a \in DOMAIN m : m[a] \in Int) /\ from \in DOMAIN m
  /\ p \in Nat /\ b \in Nat /\ e \in Nat /\ p <= b /\ b < e /\ e <= Length(m, from)
  /\ p \notin InField(Text(m, from), delims) \/ p + 1 \notin InField(Text(m, from), delims)
  /\ \A x \in p..b - 1 : m[from + x] \in delims
  /\ \A x \in b..e - 1 : m[from + x] \notin delims
  /\ e = Length(m, from) \/ m[from + e] \in delims

FieldText(m, from, b, e) == [k \in 1..e - b |-> m[from + b + k - 1]]

LEMMA OneField ==
  ASSUME NEW m, NEW from, NEW delims, NEW p, NEW b, NEW e, FieldLies(m, from, delims, p, b, e)
  PROVE  LET t == Text(m, from)
             all == Cardinality(Starts(t, delims))
             c == Taken(t, delims, p)
             field == FieldText(m, from, b, e)
         IN  /\ c \in Nat /\ all \in Nat /\ c + 1 <= all /\ field \in Seq(Int)
             /\ FieldsOf(t, delims)[c + 1] = field
             /\ Taken(t, delims, e) = c + 1 /\ Taken(t, delims, e + 1) = c + 1
             /\ e = Length(m, from) => all = c + 1
             /\ e + 1 \notin InField(t, delims)
<1>0. /\ IsText(m) /\ (\A a \in DOMAIN m : m[a] \in Int) /\ from \in DOMAIN m
      /\ p \in Nat /\ b \in Nat /\ e \in Nat /\ p <= b /\ b < e /\ e <= Length(m, from)
      /\ p \notin InField(Text(m, from), delims) \/ p + 1 \notin InField(Text(m, from), delims)
      /\ \A x \in p..b - 1 : m[from + x] \in delims
      /\ \A x \in b..e - 1 : m[from + x] \notin delims
      /\ e = Length(m, from) \/ m[from + e] \in delims
  BY DEF FieldLies
<1> USE <1>0
<1> DEFINE t == Text(m, from)
           in == InField(t, delims)
           n == Length(m, from)
           field == [k \in 1..e - b |-> m[from + b + k - 1]]
<1>1. from \in Nat /\ n \in Nat /\ \A k \in 0..n - 1 : from + k \in DOMAIN m
  BY LengthIs
<1>2. t \in Seq(Int) /\ Len(t) = n /\ \A i \in 1..n : t[i] = m[from + i - 1]
  BY TextIsSeq
<1>3. b < n /\ e <= n
  <2>1. e <= n
    OBVIOUS
  <2> HIDE DEF n
  <2> QED BY <1>1, <2>1
<1> HIDE DEF n
<1>4. \A i : i \in in <=> i \in 1..n /\ m[from + (i - 1)] \notin delims
  <2>1. DOMAIN t = 1..n
    BY <1>1, <1>2
  <2>2. \A i \in 1..n : from + i - 1 = from + (i - 1)
    BY <1>1
  <2> QED BY <1>2, <2>1, <2>2 DEF InField
<1> HIDE DEF in, t
<1>5. \A x \in b + 1 .. e : x \in in
  <2> SUFFICES ASSUME NEW x \in b + 1 .. e PROVE x \in in
    OBVIOUS
  <2>1. x - 1 \in b..e - 1 /\ x \in 1..n
    BY <1>1, <1>3
  <2> QED BY <1>4, <2>1
<1>6. \A x \in p + 1 .. b : x \notin in
  <2> SUFFICES ASSUME NEW x \in p + 1 .. b PROVE x \notin in
    OBVIOUS
  <2>1. x - 1 \in p..b - 1
    OBVIOUS
  <2> QED BY <1>4, <2>1
<1>7. e + 1 \notin in
  <2>1. CASE e = n
    <3>1. e + 1 \notin 1..n
      BY <1>1, <2>1
    <3> QED BY <1>4, <3>1
  <2>2. CASE m[from + e] \in delims
    <3>1. (e + 1) - 1 = e
      OBVIOUS
    <3> QED BY <1>4, <2>2, <3>1
  <2> QED BY <2>1, <2>2 DEF n
<1>8. b + 1 \in Starts(t, delims) /\ Taken(t, delims, b + 1) = Taken(t, delims, p) + 1
  <2> DEFINE i == b + 1
  <2>1. i \in in /\ i > p /\ i - 1 = b
    <3>1. p \in Nat /\ b \in Nat /\ e \in Nat /\ p <= b /\ b < e
      OBVIOUS
    <3>2. i \in b + 1 .. e /\ i > p /\ i - 1 = b
      BY ONLY <3>1
    <3> QED BY ONLY <1>5, <3>2
  <2>2. p \notin in \/ p + 1 \notin in
    BY DEF in, t
  <2>3. \A x \in p + 1 .. i - 1 : x \notin in
    BY <1>6, <2>1
  <2> HIDE DEF i
  <2>4. i \in Starts(t, delims) /\ Taken(t, delims, i) = Taken(t, delims, p) + 1
    <3>1. /\ t \in Seq(Int) /\ p \in Nat /\ i \in InField(t, delims) /\ i > p
          /\ p \notin InField(t, delims) \/ p + 1 \notin InField(t, delims)
          /\ \A x \in p + 1 .. i - 1 : x \notin InField(t, delims)
      BY <1>2, <2>1, <2>2, <2>3 DEF in
    <3> QED BY ONLY <3>1, NextStart
  <2> QED BY <2>4 DEF i
<1>9. IsField(t, delims, b + 1, e)
  <2>1. e \in b + 1 .. Len(t)
    BY <1>1, <1>2, <1>3
  <2> QED BY <1>5, <1>7, <1>8, <2>1 DEF IsField, in
<1>10. /\ Taken(t, delims, b + 1) \in 1..Cardinality(Starts(t, delims))
       /\ FieldsOf(t, delims)[Taken(t, delims, b + 1)] = SubSeq(t, b + 1, e)
       /\ Cardinality(Starts(t, delims)) \in Nat /\ Taken(t, delims, p) \in Nat
  <2>1. \A i, x : IsField(t, delims, i, x) =>
             /\ Taken(t, delims, i) \in 1..Cardinality(Starts(t, delims))
             /\ FieldsOf(t, delims)[Taken(t, delims, i)] = SubSeq(t, i, x)
    BY <1>2, FieldsAre
  <2>2. Cardinality(Starts(t, delims)) \in Nat /\ Taken(t, delims, p) \in Nat
    BY <1>2, StartsAre
  <2> QED BY <1>9, <2>1, <2>2
<1>11. /\ Taken(t, delims, e) = Taken(t, delims, b + 1)
       /\ Taken(t, delims, e + 1) = Taken(t, delims, b + 1)
       /\ e = n => Cardinality(Starts(t, delims)) = Taken(t, delims, b + 1)
  BY <1>2, <1>9, BehindField
<1>12. SubSeq(t, b + 1, e) = field /\ field \in Seq(Int)
  <2> DEFINE lo == b + 1
             sub == SubSeq(t, lo, e)
  <2>1. lo \in Int /\ e \in Int /\ (\A x \in lo..e : t[x] \in Int) /\ lo <= e
    <3>1. \A x \in lo..e : x \in 1..n
      BY <1>1, <1>3
    <3> QED BY <1>2, <3>1
  <2>2. e - lo + 1 = e - b /\ e - b \in Nat
    OBVIOUS
  <2> HIDE DEF lo
  <2>3. sub \in Seq(Int) /\ Len(sub) = e - b /\ \A i \in 1..e - b : sub[i] = t[lo + i - 1]
    BY <2>1, <2>2, SubSeqProperties
  <2>4. ASSUME NEW i \in 1..e - b PROVE t[lo + i - 1] = m[from + b + i - 1] /\ m[from + b + i - 1] \in Int
    <3>1. lo + i - 1 \in 1..n /\ from + (lo + i - 1) - 1 = from + b + i - 1 /\ b + i - 1 \in 0..n - 1
          /\ from + b + i - 1 = from + (b + i - 1)
      BY <1>1, <1>3 DEF lo
    <3>2. from + b + i - 1 \in DOMAIN m
      BY <1>1, <3>1
    <3> QED BY <1>2, <3>1, <3>2
  <2> HIDE DEF sub
  <2>5. field \in [1..e - b -> Int]
    BY <2>4
  <2>6. field \in Seq(Int) /\ Len(field) = e - b
    <3> HIDE DEF field
    <3>1. field \in Seq(Int)
      BY <2>2, <2>5
    <3>2. DOMAIN field = 1..e - b
      BY <2>5
    <3>3. Len(field) \in Nat /\ DOMAIN field = 1..Len(field)
      BY <3>1, LenProperties
    <3>4. Len(field) = e - b
      <4>1. e - b \in Nat /\ Len(field) \in Nat /\ 1..Len(field) = 1..e - b
        BY <2>2, <3>2, <3>3
      <4> QED BY ONLY <4>1, SameInterval
    <3> QED BY <3>1, <3>4
  <2>7. \A i \in 1..Len(sub) : sub[i] = field[i]
    BY <2>3, <2>4
  <2> HIDE DEF field
  <2>8. sub = field
    BY <2>3, <2>6, <2>7, SeqEqual
  <2> QED BY <2>6, <2>8 DEF sub, lo
<1> DEFINE all == Cardinality(Starts(t, delims))
           c == Taken(t, delims, p)
           fields == FieldsOf(t, delims)
           sub == SubSeq(t, b + 1, e)
           first == Taken(t, delims, b + 1)
<1>13. first = c + 1 /\ first \in 1..all /\ fields[first] = sub /\ all \in Nat /\ c \in Nat
       /\ (e = n => all = first) /\ sub = field
  BY <1>8, <1>10, <1>11, <1>12
<1>14. Taken(t, delims, e) = first /\ Taken(t, delims, e + 1) = first
  BY <1>11
<1> HIDE DEF field, all, c, fields, sub, first
<1>15. c + 1 <= all /\ fields[c + 1] = field /\ (e = n => all = c + 1)
  BY <1>13
<1>16. Taken(t, delims, e) = c + 1 /\ Taken(t, delims, e + 1) = c + 1
  BY <1>13, <1>14
<1> QED BY <1>7, <1>12, <1>13, <1>15, <1>16 DEF t, n, in, field, all, c, fields, FieldText

LEMMA NoField ==
  ASSUME NEW m, IsText(m), \A a \in DOMAIN m : m[a] \in Int, NEW from \in DOMAIN m, NEW delims,
         NEW p \in Nat, \A x \in p..Length(m, from) - 1 : m[from + x] \in delims
  PROVE  Taken(Text(m, from), delims, p) = Cardinality(Starts(Text(m, from), delims))
<1> DEFINE t == Text(m, from)
           n == Length(m, from)
<1>1. from \in Nat /\ n \in Nat
  BY LengthIs
<1>2. t \in Seq(Int) /\ Len(t) = n /\ \A i \in 1..n : t[i] = m[from + i - 1]
  BY TextIsSeq
<1>3. ASSUME NEW x \in p + 1 .. n PROVE x \notin InField(t, delims)
  <2>1. x - 1 \in p..n - 1 /\ x \in 1..n /\ from + x - 1 = from + (x - 1)
    <3> HIDE DEF n
    <3> QED BY <1>1
  <2>2. t[x] = m[from + (x - 1)]
    BY <1>2, <2>1
  <2>3. m[from + (x - 1)] \in delims
    BY <2>1
  <2> HIDE DEF t
  <2> QED BY <2>2, <2>3 DEF InField
<1> HIDE DEF t, n
<1>4. Taken(t, delims, p) = Cardinality(Starts(t, delims))
  BY <1>2, <1>3, AllTaken
<1> QED BY <1>4 DEF t

(* The list of delimiters, when all of it is read.                         *)
LEMMA DelimsWhole ==
  ASSUME NEW m \in TokenMemories, NEW max \in Nat, Length(m, Delimiters) <= max
  PROVE  Chars(m, Delimiters, max) = {m[a] : a \in Delimiters..Delimiters + Length(m, Delimiters) - 1}
<1>1. IsText(m) /\ Delimiters \in DOMAIN m
  BY TextIs, MemoriesAssumption
<1> DEFINE k == Scanned(m, Delimiters, max)
           len == Length(m, Delimiters)
<1>2. k <= max /\ k <= len /\ k \in {max, len} /\ k \in Nat /\ len \in Nat
  BY <1>1, ScannedIs
<1>3. k = len
  <2>1. len <= max
    OBVIOUS
  <2> HIDE DEF k, len
  <2> QED BY <1>2, <2>1
<1> HIDE DEF k, len
<1> QED BY <1>3 DEF Chars, k, len

Delims(m) == Chars(m, Delimiters, RSIZE_MAX_STR)

LEMMA DelimsAre ==
  ASSUME NEW m \in TokenMemories
  PROVE  Delims(m) = {m[a] : a \in Delimiters..Delimiters + Length(m, Delimiters) - 1}
<1>1. /\ IsText(m) /\ Delimiters \in DOMAIN m /\ Cardinality(DOMAIN m) \in Nat
      /\ DOMAIN m = 0..Cardinality(DOMAIN m) - 1 /\ Cardinality(DOMAIN m) <= RSIZE_MAX_STR
  BY QueryText, MemoriesAssumption
<1>2. /\ Length(m, Delimiters) \in Nat /\ Delimiters \in Nat
      /\ Delimiters + Length(m, Delimiters) \in DOMAIN m
  BY <1>1, LengthIs
<1>3. RSIZE_MAX_STR \in Nat /\ Length(m, Delimiters) <= RSIZE_MAX_STR
  BY <1>1, <1>2, SafeStrAssumption
<1> QED BY <1>3, DelimsWhole DEF Delims

(* What Token returns: the next field of the text that it was started on.   *)
FieldIs(m, p, b, e) ==
  /\ p <= b /\ b < e /\ e <= Length(m, 0)
  /\ \A x \in p..b - 1 : m[x] \in Delims(m)
  /\ \A x \in b..e - 1 : m[x] \notin Delims(m)
  /\ e = Length(m, 0) \/ m[e] \in Delims(m)

SameFrom(orig, m, p) == \A a \in DOMAIN orig : a >= p => m[a] = orig[a]
TokenIs(orig, m, at, dmax, ptr, r, b, e) ==
  /\ FieldIs(orig, at, b, e)
  /\ Text(r.mem, r.tok) = FieldText(orig, 0, b, e)
  /\ e < Length(orig, 0) => /\ r.ptr = e + 1 /\ SameFrom(orig, r.mem, e + 1)
                            /\ r.ptr + r.dmax = at + dmax
  /\ e = Length(orig, 0) => r.ptr = ptr /\ r.mem = m

LEMMA TokenFinds ==
  ASSUME NEW orig \in TokenMemories, NEW size \in 1..Delimiters, NEW m, Nulled(orig, size, m),
         NEW at \in Nat, at <= Length(orig, 0), SameFrom(orig, m, at),
         NEW dmax \in Nat, NEW ptr, Token(m, at, dmax, Delimiters, ptr).tok # NULL
  PROVE  \E b, e \in Nat : TokenIs(orig, m, at, dmax, ptr, Token(m, at, dmax, Delimiters, ptr), b, e)
<1> DEFINE n == Length(orig, 0)
           len == Length(m, at)
           delims == Chars(m, Delimiters, STRTOK_DELIM_MAX_LEN)
           short == Length(m, Delimiters) <= STRTOK_DELIM_MAX_LEN
           starts == {len} \cup {i \in 0 .. len - 1 : delims # {} /\ m[at + i] \notin delims}
           begin == Min(starts)
           ends == {len} \cup {i \in begin + 1 .. Length(m, at) - 1 : m[at + i] \in delims}
           end == TokenEnd(m, at, begin, delims)
           No(p, left) == [tok |-> NULL, ptr |-> p, dmax |-> left, mem |-> m]
           bad == \/ begin >= dmax /\ len > dmax
                  \/ begin < len /\ ~short
                  \/ begin < len /\ end >= dmax /\ len > dmax
           found == [tok |-> at + begin, ptr |-> at + end + 1, dmax |-> dmax - end - 1,
                     mem |-> Stored(m, at + end, 1, 0)]
           last == [tok |-> at + begin, ptr |-> ptr, dmax |-> dmax - len, mem |-> m]
           r == Token(m, at, dmax, Delimiters, ptr)
<1>1. r = IF bad THEN No(NULL, dmax) ELSE IF begin = len THEN No(ptr, dmax - len)
          ELSE IF end < len THEN found ELSE last
  BY DEF Token
<1>2. ~bad /\ begin # len /\ r = (IF end < len THEN found ELSE last)
  <2>1. No(NULL, dmax).tok = NULL /\ No(ptr, dmax - len).tok = NULL /\ r.tok # NULL
    OBVIOUS
  <2> HIDE DEF No, bad, found, last, begin, end, len, r
  <2> QED BY <1>1, <2>1
<1>3. end = Min(ends)
  BY DEF TokenEnd
<1>4. /\ IsText(orig) /\ 0 \in DOMAIN orig /\ DOMAIN m = DOMAIN orig
      /\ Length(m, Delimiters) = Length(orig, Delimiters)
      /\ delims = Chars(orig, Delimiters, STRTOK_DELIM_MAX_LEN)
  <2>1. IsText(orig)
    BY TextIs
  <2>2. 0 \in DOMAIN orig
    BY <2>1 DEF IsText
  <2> QED BY <2>1, <2>2, SameDelimiters DEF Nulled
<1>5. PICK top \in Nat : DOMAIN orig = 0..top
  BY <1>4 DEF IsText
<1>6. n \in Nat /\ n <= top /\ orig[n] = 0 /\ \A k \in 0..n - 1 : orig[k] # 0
  <2>1. n \in Nat /\ 0 + n \in DOMAIN orig /\ orig[0 + n] = 0 /\ \A k \in 0..n - 1 : orig[0 + k] # 0
    BY <1>4, LengthIs
  <2> HIDE DEF n
  <2>2. 0 + n = n /\ \A k \in 0..n - 1 : 0 + k = k
    BY <2>1
  <2> QED BY <1>5, <2>1, <2>2
<1>7. at <= n /\ \A a \in DOMAIN orig : a >= at => m[a] = orig[a]
  BY DEF SameFrom
<1> HIDE DEF n
<1>8. len = n - at
  <2> DEFINE k == n - at
  <2>1. k \in Nat /\ at + k = n
    BY <1>6, <1>7
  <2>2. ASSUME NEW x \in 0..k - 1 PROVE m[at + x] # 0
    <3>1. at + x \in 0..n - 1 /\ at + x \in DOMAIN orig /\ at + x >= at
      BY <1>5, <1>6, <2>1
    <3> QED BY <1>6, <1>7, <3>1
  <2>3. m[at + k] = 0 /\ at + k <= top
    <3>1. n \in DOMAIN orig /\ n >= at
      BY <1>5, <1>6, <1>7
    <3> QED BY <1>6, <1>7, <2>1, <3>1
  <2>4. DOMAIN m = 0..top
    BY <1>4, <1>5
  <2> HIDE DEF k
  <2> QED BY <2>1, <2>2, <2>3, <2>4, EndsAt DEF k
<1>9. len \in Nat /\ at + len = n
  BY <1>6, <1>7, <1>8
<1> HIDE DEF len
<1>10. /\ begin \in 0..len /\ begin < len /\ delims # {} /\ m[at + begin] \notin delims
       /\ \A i \in 0..begin - 1 : m[at + i] \in delims
  <2>1. starts \subseteq Nat /\ starts # {}
    BY <1>9
  <2>2. begin \in starts /\ \A y \in starts : begin <= y
    <3> HIDE DEF starts
    <3> QED BY <2>1, MinIs
  <2> HIDE DEF begin
  <2>3. begin \in 0..len - 1 /\ delims # {} /\ m[at + begin] \notin delims
    BY <1>2, <2>2
  <2>4. ASSUME NEW i \in 0..begin - 1 PROVE m[at + i] \in delims
    <3>1. i \in 0..len - 1 /\ ~(begin <= i)
      BY <1>9, <2>3
    <3>2. i \notin starts
      BY <2>2, <3>1
    <3> QED BY <2>3, <3>1, <3>2
  <2> QED BY <1>9, <2>3, <2>4
<1>11. short
  BY <1>2, <1>10
<1> HIDE DEF begin, end
<1>12. /\ end \in Nat /\ begin < end /\ end <= len /\ (end # len => m[at + end] \in delims)
       /\ \A i \in begin..end - 1 : m[at + i] \notin delims
  <2>1. ends \subseteq 0..len /\ len \in ends
    BY <1>9, <1>10 DEF len
  <2>2. \A y : y \in ends <=> y = len \/ (y \in begin + 1 .. len - 1 /\ m[at + y] \in delims)
    BY DEF len
  <2> HIDE DEF ends
  <2>3. ends \subseteq Nat /\ ends # {}
    BY <1>9, <2>1
  <2>4. end \in ends /\ \A y \in ends : end <= y
    BY <1>3, <2>3, MinIs
  <2>5. end \in 0..len /\ begin < end
    BY <1>9, <1>10, <2>1, <2>2, <2>4
  <2>6. ASSUME NEW i \in begin..end - 1 PROVE m[at + i] \notin delims
    <3>1. CASE i = begin
      BY <1>10, <3>1
    <3>2. CASE i # begin
      <4>1. i \in begin + 1 .. len - 1 /\ ~(end <= i)
        BY <1>9, <1>10, <2>5, <3>2
      <4>2. i \notin ends
        BY <2>4, <4>1
      <4> QED BY <2>2, <4>1, <4>2
    <3> QED BY <3>1, <3>2
  <2> QED BY <2>2, <2>4, <2>5, <2>6
<1>13. delims = Delims(orig)
  <2>1. STRTOK_DELIM_MAX_LEN \in Nat
    BY SafeStrQueryAssumption
  <2>2. Length(orig, Delimiters) <= STRTOK_DELIM_MAX_LEN
    BY <1>4, <1>11
  <2> HIDE DEF delims
  <2> QED BY <1>4, <2>1, <2>2, DelimsWhole, DelimsAre
<1> HIDE DEF delims, short, bad
<1> DEFINE b == at + begin
           e == at + end
<1>14. b \in Nat /\ e \in Nat /\ at <= b /\ b < e /\ e <= n /\ e - b = end - begin /\ (e < n <=> end < len)
  BY <1>6, <1>9, <1>10, <1>12
<1>15. \A x \in at..n : x \in DOMAIN orig /\ m[x] = orig[x]
  BY <1>5, <1>6, <1>7
<1>16. FieldIs(orig, at, b, e)
  <2>1. ASSUME NEW x \in at..b - 1 PROVE orig[x] \in Delims(orig)
    <3>1. x - at \in 0..begin - 1 /\ at + (x - at) = x /\ x \in at..n
      BY <1>6, <1>9, <1>10
    <3> QED BY <1>10, <1>13, <1>15, <3>1
  <2>2. ASSUME NEW x \in b..e - 1 PROVE orig[x] \notin Delims(orig)
    <3>1. x - at \in begin..end - 1 /\ at + (x - at) = x /\ x \in at..n
      BY <1>6, <1>9, <1>10, <1>12
    <3> QED BY <1>12, <1>13, <1>15, <3>1
  <2>3. e = n \/ orig[e] \in Delims(orig)
    <3>1. e \in at..n
      BY <1>14
    <3> QED BY <1>9, <1>12, <1>13, <1>15, <3>1
  <2> HIDE DEF b, e
  <2> QED BY <1>14, <2>1, <2>2, <2>3 DEF FieldIs, n
<1>17. ASSUME NEW k, DOMAIN k = DOMAIN orig, k[e] = 0, \A x \in b..e - 1 : k[x] = orig[x]
       PROVE  Text(k, b) = FieldText(orig, 0, b, e)
  <2> HIDE DEF b, e
  <2> DEFINE q == e - b
  <2>1. q \in Nat /\ b + q = e /\ b + q <= top /\ DOMAIN k = 0..top
    BY <1>5, <1>6, <1>14, <1>17
  <2>2. ASSUME NEW x \in 0..q - 1 PROVE k[b + x] = orig[b + x] /\ k[b + x] # 0
    <3>1. b + x \in b..e - 1 /\ b + x \in 0..n - 1
      BY <1>6, <1>14, <2>1
    <3> QED BY <1>6, <1>17, <3>1
  <2>3. k[b + q] = 0
    BY <1>17, <2>1
  <2> HIDE DEF q
  <2>4. Length(k, b) = q
    BY <1>14, <2>1, <2>2, <2>3, EndsAt
  <2>5. \A i \in 1..q : k[b + i - 1] = orig[b + i - 1]
    <3> SUFFICES ASSUME NEW i \in 1..q PROVE k[b + i - 1] = orig[b + i - 1]
      OBVIOUS
    <3>1. i - 1 \in 0..q - 1 /\ b + (i - 1) = b + i - 1
      BY <1>14, <2>1
    <3> QED BY <2>2, <3>1
  <2>6. \A i \in 1..q : orig[0 + b + i - 1] = orig[b + i - 1]
    BY <1>14
  <2> QED BY <2>4, <2>5, <2>6 DEF Text, FieldText, q
<1>18. CASE end < len
  <2> DEFINE next == Stored(m, at + end, 1, 0)
  <2>1. /\ r = found /\ found.tok = b /\ found.ptr = e + 1 /\ found.mem = next
        /\ found.dmax = dmax - end - 1
    <3> HIDE DEF found
    <3>1. r = found
      BY <1>2, <1>18
    <3> QED BY <3>1 DEF found
  <2>2. e..e + 1 - 1 = {e}
    BY <1>14
  <2>3. DOMAIN next = DOMAIN m /\ \A a \in DOMAIN m : next[a] = IF a = e THEN 0 ELSE m[a]
    <3> HIDE DEF e
    <3>1. next = Stored(m, e, 1, 0)
      BY DEF e
    <3> HIDE DEF next
    <3> QED BY <2>2, <3>1 DEF Stored
  <2> HIDE DEF next, b, e, r, found
  <2>4. next[e] = 0 /\ \A x \in b..e - 1 : next[x] = orig[x]
    <3>1. e \in at..n /\ \A x \in b..e - 1 : x \in at..n /\ x # e
      BY <1>6, <1>14
    <3> QED BY <1>4, <1>15, <2>3, <3>1
  <2>5. Text(next, b) = FieldText(orig, 0, b, e)
    BY <1>4, <1>17, <2>3, <2>4
  <2>6. SameFrom(orig, next, e + 1)
    <3>1. \A a \in DOMAIN orig : a >= e + 1 => a >= at /\ a # e
      BY <1>5, <1>14
    <3> QED BY <1>4, <2>3, <3>1 DEF SameFrom
  <2>7. e < n /\ e # n
    BY <1>6, <1>14, <1>18
  <2>8. r.ptr + r.dmax = at + dmax
    <3>1. e + 1 + (dmax - end - 1) = at + dmax
      BY <1>12 DEF e
    <3> QED BY <2>1, <3>1
  <2>9. TokenIs(orig, m, at, dmax, ptr, r, b, e)
    BY <1>16, <2>1, <2>5, <2>6, <2>7, <2>8 DEF TokenIs, n
  <2> QED BY <1>14, <2>9 DEF r
<1>19. CASE ~(end < len)
  <2>1. r = last /\ last.tok = b /\ last.ptr = ptr /\ last.mem = m
    <3> HIDE DEF last
    <3>1. r = last
      BY <1>2, <1>19
    <3> QED BY <3>1 DEF last
  <2>2. e = n
    BY <1>9, <1>12, <1>19
  <2> HIDE DEF b, e, r, last
  <2>3. m[e] = 0 /\ \A x \in b..e - 1 : m[x] = orig[x]
    BY <1>6, <1>14, <1>15, <2>2
  <2>4. Text(m, b) = FieldText(orig, 0, b, e)
    BY <1>4, <1>17, <2>3
  <2>5. ~(e < n)
    BY <1>6, <2>2
  <2>6. TokenIs(orig, m, at, dmax, ptr, r, b, e)
    BY <1>16, <2>1, <2>2, <2>4, <2>5 DEF TokenIs, n
  <2> QED BY <1>14, <2>6 DEF r
<1> QED BY <1>18, <1>19

(* Between the calls the text from ptr on is as it was, and as many fields  *)
(* start before ptr as tokens were returned; only behind the last field,    *)
(* which is returned again and again, are there fewer.                      *)
TheFields(orig) == TextFields(orig, 0)
AtCursor(orig, m, p, got) ==
  /\ p \in Nat /\ p <= Length(orig, 0)
  /\ p \notin InField(Text(orig, 0), Delims(orig)) \/ p + 1 \notin InField(Text(orig, 0), Delims(orig))
  /\ SameFrom(orig, m, p)
  /\ \/ Taken(Text(orig, 0), Delims(orig), p) = Len(got)
     \/ /\ Taken(Text(orig, 0), Delims(orig), p) + 1 >= Len(TheFields(orig))
        /\ Len(got) >= Len(TheFields(orig)) /\ EndsInField(orig)
GotFields(orig, got) ==
  /\ got \in Seq(Seq(Int))
  /\ \A k \in 1..Len(got) : got[k] = TheFields(orig)[Min({k, Len(TheFields(orig))})]
  /\ Len(got) > Len(TheFields(orig)) => EndsInField(orig)

(* Until all fields are taken, dmax is what ptr leaves of the object.       *)
RoomLeft(orig, size, dmax, p, got) == p + dmax = size \/ Len(got) >= Len(TheFields(orig))
Exhausted(orig, size, got) == Tokenizable(orig, size) => Len(got) >= Len(TheFields(orig))

FieldInv ==
  family \in {"token", "tokend"} =>
    /\ GotFields(args.orig, args.got)
    /\ family = "token" /\ args.ptr # NULL =>
         /\ AtCursor(args.orig, mem, args.ptr, args.got)
         /\ RoomLeft(args.orig, args.size, args.dmax, args.ptr, args.got)
    /\ family = "tokend" => Exhausted(args.orig, args.size, args.got)

LEMMA TextOfTokens ==
  ASSUME NEW m \in TokenMemories
  PROVE  /\ IsText(m) /\ (\A a \in DOMAIN m : m[a] \in Int) /\ 0 \in DOMAIN m
         /\ Text(m, 0) \in Seq(Int) /\ Len(Text(m, 0)) = Length(m, 0) /\ Length(m, 0) \in Nat
<1>1. IsText(m) /\ \A a \in DOMAIN m : m[a] \in Int
  <2>1. IsText(m) /\ \A a \in DOMAIN m : m[a] \in Nat
    BY QueryText
  <2> QED BY <2>1
<1>2. 0 \in DOMAIN m
  BY <1>1 DEF IsText
<1>3. Text(m, 0) \in Seq(Int) /\ Len(Text(m, 0)) = Length(m, 0)
  BY <1>1, <1>2, TextIsSeq
<1>4. Length(m, 0) \in Nat
  BY <1>1, <1>2, LengthIs
<1> QED BY <1>1, <1>2, <1>3, <1>4

(* Where only delimiters are left, all fields are taken.                   *)
LEMMA RestTaken ==
  ASSUME NEW orig \in TokenMemories, NEW at \in Nat,
         \A x \in at..Length(orig, 0) - 1 : orig[x] \in Delims(orig)
  PROVE  Taken(Text(orig, 0), Delims(orig), at) = Cardinality(Starts(Text(orig, 0), Delims(orig)))
<1>1. IsText(orig) /\ (\A a \in DOMAIN orig : orig[a] \in Int) /\ Length(orig, 0) \in Nat
  BY TextOfTokens
<1>2. PICK z \in DOMAIN orig : z = 0
  BY <1>1 DEF IsText
<1>3. \A x \in at..Length(orig, z) - 1 : orig[z + x] \in Delims(orig)
  <2> SUFFICES ASSUME NEW x \in at..Length(orig, 0) - 1 PROVE orig[0 + x] \in Delims(orig)
    BY <1>2
  <2>1. 0 + x = x
    BY <1>1
  <2> QED BY <2>1
<1> DEFINE delims == Delims(orig)
<1> HIDE DEF delims
<1>4. \A x \in at..Length(orig, z) - 1 : orig[z + x] \in delims
  BY <1>3 DEF delims
<1>5. Taken(Text(orig, z), delims, at) = Cardinality(Starts(Text(orig, z), delims))
  BY <1>1, <1>4, NoField
<1> QED BY <1>2, <1>5 DEF delims

(* What is left when no field is found: delimiters only, if the text is one *)
(* that can be tokenized to its end.                                       *)
LEMMA TokenEnds ==
  ASSUME NEW orig \in TokenMemories, NEW size \in 1..Delimiters, NEW m, Nulled(orig, size, m),
         NEW at \in Nat, at <= Length(orig, 0), SameFrom(orig, m, at),
         NEW dmax \in Nat, at + dmax = size, NEW ptr, Tokenizable(orig, size),
         Token(m, at, dmax, Delimiters, ptr).tok = NULL
  PROVE  Taken(Text(orig, 0), Delims(orig), at) = Cardinality(Starts(Text(orig, 0), Delims(orig)))
<1> DEFINE n == Length(orig, 0)
           len == Length(m, at)
           delims == Chars(m, Delimiters, STRTOK_DELIM_MAX_LEN)
           short == Length(m, Delimiters) <= STRTOK_DELIM_MAX_LEN
           starts == {len} \cup {i \in 0 .. len - 1 : delims # {} /\ m[at + i] \notin delims}
           begin == Min(starts)
           end == TokenEnd(m, at, begin, delims)
           No(p, left) == [tok |-> NULL, ptr |-> p, dmax |-> left, mem |-> m]
           bad == \/ begin >= dmax /\ len > dmax
                  \/ begin < len /\ ~short
                  \/ begin < len /\ end >= dmax /\ len > dmax
           found == [tok |-> at + begin, ptr |-> at + end + 1, dmax |-> dmax - end - 1,
                     mem |-> Stored(m, at + end, 1, 0)]
           last == [tok |-> at + begin, ptr |-> ptr, dmax |-> dmax - len, mem |-> m]
           r == Token(m, at, dmax, Delimiters, ptr)
<1>1. r = IF bad THEN No(NULL, dmax) ELSE IF begin = len THEN No(ptr, dmax - len)
          ELSE IF end < len THEN found ELSE last
  BY DEF Token
<1>2. found.tok = at + begin /\ last.tok = at + begin /\ r.tok = NULL
  OBVIOUS
<1>3. /\ IsText(orig) /\ 0 \in DOMAIN orig /\ DOMAIN m = DOMAIN orig
      /\ Length(m, Delimiters) = Length(orig, Delimiters)
      /\ delims = Chars(orig, Delimiters, STRTOK_DELIM_MAX_LEN)
  <2>1. IsText(orig)
    BY TextIs
  <2>2. 0 \in DOMAIN orig
    BY <2>1 DEF IsText
  <2> QED BY <2>1, <2>2, SameDelimiters DEF Nulled
<1>4. PICK top \in Nat : DOMAIN orig = 0..top
  BY <1>3 DEF IsText
<1>5. n \in Nat /\ n <= top /\ orig[n] = 0 /\ \A k \in 0..n - 1 : orig[k] # 0
  <2>1. n \in Nat /\ 0 + n \in DOMAIN orig /\ orig[0 + n] = 0 /\ \A k \in 0..n - 1 : orig[0 + k] # 0
    BY <1>3, LengthIs
  <2> HIDE DEF n
  <2>2. 0 + n = n /\ \A k \in 0..n - 1 : 0 + k = k
    BY <2>1
  <2> QED BY <1>4, <2>1, <2>2
<1>6. at <= n /\ \A a \in DOMAIN orig : a >= at => m[a] = orig[a]
  BY DEF SameFrom
<1> HIDE DEF n
<1>7. len = n - at
  <2> DEFINE k == n - at
  <2>1. k \in Nat /\ at + k = n
    BY <1>5, <1>6
  <2>2. ASSUME NEW x \in 0..k - 1 PROVE m[at + x] # 0
    <3>1. at + x \in 0..n - 1 /\ at + x \in DOMAIN orig /\ at + x >= at
      BY <1>4, <1>5, <2>1
    <3> QED BY <1>5, <1>6, <3>1
  <2>3. m[at + k] = 0 /\ at + k <= top
    <3>1. n \in DOMAIN orig /\ n >= at
      BY <1>4, <1>5, <1>6
    <3> QED BY <1>5, <1>6, <2>1, <3>1
  <2>4. DOMAIN m = 0..top
    BY <1>3, <1>4
  <2> HIDE DEF k
  <2> QED BY <2>1, <2>2, <2>3, <2>4, EndsAt DEF k
<1>8. n <= size /\ short /\ Length(orig, Delimiters) >= 1 /\ Length(orig, Delimiters) \in Nat
  <2> DEFINE k == Length(orig, Delimiters)
  <2>1. n <= size /\ k \in 1..STRTOK_DELIM_MAX_LEN
    BY DEF Tokenizable, n
  <2>2. k = Length(m, Delimiters)
    BY <1>3
  <2> HIDE DEF k
  <2>3. k \in Nat /\ k >= 1 /\ k <= STRTOK_DELIM_MAX_LEN
    BY <2>1, SafeStrQueryAssumption
  <2> QED BY <2>1, <2>2, <2>3 DEF k
<1>9. len \in Nat /\ at + len = n /\ ~(len > dmax)
  BY <1>5, <1>6, <1>7, <1>8
<1>10. delims = Delims(orig) /\ delims # {}
  <2> DEFINE k == Length(orig, Delimiters)
             cells == Delimiters..Delimiters + k - 1
  <2>1. STRTOK_DELIM_MAX_LEN \in Nat /\ k <= STRTOK_DELIM_MAX_LEN
    BY <1>3, <1>8, SafeStrQueryAssumption
  <2>2. delims = {orig[a] : a \in cells} /\ delims = Delims(orig)
    <3> HIDE DEF delims
    <3> QED BY <1>3, <2>1, DelimsWhole, DelimsAre
  <2>3. Delimiters \in cells
    <3>1. Delimiters \in Nat
      BY TextIs, MemoriesAssumption
    <3> HIDE DEF k
    <3> QED BY <1>8, <3>1 DEF k
  <2> HIDE DEF delims, cells
  <2> QED BY <2>2, <2>3
<1> HIDE DEF delims, short, len
<1>11. begin = len
  <2>1. begin \in Nat
    <3>1. starts \subseteq Nat /\ starts # {}
      BY <1>9
    <3> HIDE DEF starts
    <3> QED BY <3>1, MinIs
  <2>2. at + begin # NULL
    <3> HIDE DEF begin
    <3> QED BY <2>1 DEF NULL
  <2> HIDE DEF begin, end, found, last, r
  <2>3. ~bad
    BY <1>8, <1>9
  <2> HIDE DEF bad, No
  <2> QED BY <1>1, <1>2, <2>2, <2>3
<1>12. ASSUME NEW i \in 0..len - 1 PROVE m[at + i] \in delims
  <2>1. starts \subseteq Nat /\ starts # {}
    BY <1>9
  <2>2. \A y \in starts : begin <= y
    <3> HIDE DEF starts
    <3> QED BY <2>1, MinIs
  <2> HIDE DEF begin
  <2>3. ~(begin <= i)
    BY <1>9, <1>11
  <2>4. i \notin starts
    BY <2>2, <2>3
  <2> QED BY <1>10, <2>4
<1>13. \A x \in at..n - 1 : orig[x] \in delims
  <2> SUFFICES ASSUME NEW x \in at..n - 1 PROVE orig[x] \in delims
    OBVIOUS
  <2>1. x - at \in 0..len - 1 /\ at + (x - at) = x /\ x \in DOMAIN orig /\ x >= at
    BY <1>4, <1>5, <1>9
  <2> QED BY <1>6, <1>12, <2>1
<1> QED BY <1>10, <1>13, RestTaken DEF n

(* One more token.                                                         *)
LEMMA OneMoreToken ==
  ASSUME NEW orig \in TokenMemories, NEW m, NEW p \in Nat, NEW got, AtCursor(orig, m, p, got),
         GotFields(orig, got), NEW b \in Nat, NEW e \in Nat, FieldIs(orig, p, b, e), NEW after
  PROVE  LET now == Append(got, FieldText(orig, 0, b, e))
         IN  /\ GotFields(orig, now)
             /\ e < Length(orig, 0) /\ SameFrom(orig, after, e + 1) => AtCursor(orig, after, e + 1, now)
             /\ e = Length(orig, 0) => AtCursor(orig, m, p, now) /\ Len(now) >= Len(TheFields(orig))
             /\ Len(got) >= Len(TheFields(orig)) => Len(now) >= Len(TheFields(orig))
<1> DEFINE t == Text(orig, 0)
           delims == Delims(orig)
           n == Length(orig, 0)
           fields == TheFields(orig)
           all == Cardinality(Starts(t, delims))
           c == Taken(t, delims, p)
           field == FieldText(orig, 0, b, e)
           now == Append(got, field)
<1>1. /\ IsText(orig) /\ (\A a \in DOMAIN orig : orig[a] \in Int) /\ 0 \in DOMAIN orig
      /\ t \in Seq(Int) /\ Len(t) = n /\ n \in Nat
  BY TextOfTokens
<1>2. /\ p <= b /\ b < e /\ e <= n
      /\ (\A x \in p..b - 1 : orig[x] \in delims) /\ (\A x \in b..e - 1 : orig[x] \notin delims)
      /\ e = n \/ orig[e] \in delims
  BY DEF FieldIs
<1>3. p \notin InField(t, delims) \/ p + 1 \notin InField(t, delims)
  BY DEF AtCursor
<1>4. /\ c \in Nat /\ all \in Nat /\ c + 1 <= all /\ field \in Seq(Int)
      /\ FieldsOf(t, delims)[c + 1] = field
      /\ Taken(t, delims, e + 1) = c + 1 /\ (e = n => all = c + 1)
      /\ e + 1 \notin InField(t, delims)
  <2>1. /\ (\A x \in p..b - 1 : orig[0 + x] \in delims) /\ (\A x \in b..e - 1 : orig[0 + x] \notin delims)
        /\ e = n \/ orig[0 + e] \in delims
    <3> HIDE DEF delims, n
    <3>1. \A x \in p..b - 1 : 0 + x = x
      OBVIOUS
    <3>2. (\A x \in b..e - 1 : 0 + x = x) /\ 0 + e = e
      OBVIOUS
    <3> QED BY <1>2, <3>1, <3>2
  <2> HIDE DEF delims, field
  <2>3. PICK z \in DOMAIN orig : z = 0
    BY <1>1
  <2> DEFINE s == Text(orig, z)
             these == FieldText(orig, z, b, e)
             in == InField(s, delims)
  <2>4. /\ IsText(orig) /\ (\A a \in DOMAIN orig : orig[a] \in Int) /\ z \in DOMAIN orig
        /\ p \in Nat /\ b \in Nat /\ e \in Nat /\ p <= b /\ b < e /\ e <= Length(orig, z)
        /\ p \notin InField(Text(orig, z), delims) \/ p + 1 \notin InField(Text(orig, z), delims)
        /\ (\A x \in p..b - 1 : orig[z + x] \in delims) /\ (\A x \in b..e - 1 : orig[z + x] \notin delims)
        /\ e = Length(orig, z) \/ orig[z + e] \in delims
    BY <1>1, <1>2, <1>3, <2>1, <2>3
  <2> HIDE DEF s, in, these
  <2>5. FieldLies(orig, z, delims, p, b, e)
    BY <2>4 DEF FieldLies
  <2> USE DEF s, in, these
  <2>6. /\ Taken(s, delims, p) \in Nat /\ Cardinality(Starts(s, delims)) \in Nat
        /\ Taken(s, delims, p) + 1 <= Cardinality(Starts(s, delims)) /\ these \in Seq(Int)
        /\ FieldsOf(s, delims)[Taken(s, delims, p) + 1] = these
        /\ Taken(s, delims, e) = Taken(s, delims, p) + 1
        /\ Taken(s, delims, e + 1) = Taken(s, delims, p) + 1
        /\ (e = Length(orig, z) => Cardinality(Starts(s, delims)) = Taken(s, delims, p) + 1)
        /\ e + 1 \notin in
    BY ONLY <2>5, OneField
  <2>7. s = t /\ these = field
    BY <2>3 DEF field
  <2> HIDE DEF s, these, t
  <2> QED BY <2>3, <2>6, <2>7 DEF n
<1>5. fields = FieldsOf(t, delims) /\ Len(fields) = all
  <2>1. fields = FieldsOf(t, delims)
    BY DEF TheFields, TextFields, Delims
  <2> HIDE DEF t, delims
  <2> QED BY <1>1, <2>1, FieldsAre
<1>6. got \in Seq(Seq(Int)) /\ \A k \in 1..Len(got) : got[k] = fields[Min({k, Len(fields)})]
  BY DEF GotFields
<1>7. c = Len(got) \/ (c + 1 >= Len(fields) /\ Len(got) >= Len(fields) /\ EndsInField(orig))
  BY DEF AtCursor
<1>8. SameFrom(orig, m, p)
  BY DEF AtCursor
<1> HIDE DEF field, fields, c, all, t, delims
<1>9. /\ now \in Seq(Seq(Int)) /\ Len(now) = Len(got) + 1 /\ Len(got) \in Nat
      /\ (\A k \in 1..Len(got) : now[k] = got[k]) /\ now[Len(got) + 1] = field
  <2>1. field \in Seq(Int)
    BY <1>4
  <2> QED BY <1>6, <2>1, AppendProperties
<1> HIDE DEF now, n
<1>10. Min({Len(got) + 1, all}) = c + 1
  <2> DEFINE next == Len(got) + 1
             least == Min({next, all})
  <2>1. next \in Nat
    BY <1>9
  <2>2. least \in {next, all} /\ least <= next /\ least <= all
    <3> HIDE DEF next
    <3> QED BY <1>4, <2>1, LeastOfTwo
  <2>3. (next = c + 1 /\ c + 1 <= all) \/ (c + 1 = all /\ next >= all)
    BY <1>4, <1>5, <1>7, <1>9
  <2> HIDE DEF least
  <2>4. least = c + 1
    <3> HIDE DEF next
    <3> QED BY <1>4, <2>1, <2>2, <2>3
  <2> QED BY <2>4 DEF least
<1>11. GotFields(orig, now)
  <2>1. ASSUME NEW i \in 1..Len(now) PROVE now[i] = fields[Min({i, Len(fields)})]
    <3>1. CASE i = Len(got) + 1
      BY <1>4, <1>5, <1>9, <1>10, <3>1
    <3>2. CASE i # Len(got) + 1
      <4>1. i \in 1..Len(got)
        BY <1>9, <3>2
      <4> QED BY <1>6, <1>9, <4>1
    <3> QED BY <3>1, <3>2
  <2>2. Len(now) > Len(fields) => EndsInField(orig)
    BY <1>4, <1>5, <1>7, <1>9
  <2> QED BY <1>9, <2>1, <2>2 DEF GotFields, fields
<1>12. ASSUME e < n, SameFrom(orig, after, e + 1)
       PROVE  AtCursor(orig, after, e + 1, now)
  <2>1. c + 1 = Len(now) \/ (c + 1 + 1 >= Len(fields) /\ Len(now) >= Len(fields) /\ EndsInField(orig))
    BY <1>4, <1>5, <1>7, <1>9
  <2>2. e + 1 \in Nat /\ e + 1 <= n
    BY <1>1, <1>12
  <2>3. Taken(t, delims, e + 1) = Len(now)
        \/ (Taken(t, delims, e + 1) + 1 >= Len(fields) /\ Len(now) >= Len(fields) /\ EndsInField(orig))
    BY <1>4, <2>1
  <2> QED BY <1>4, <1>12, <2>2, <2>3 DEF AtCursor, t, delims, n, fields
<1>13. ASSUME e = n PROVE AtCursor(orig, m, p, now) /\ Len(now) >= Len(fields)
  <2>1. c + 1 >= Len(fields) /\ Len(now) >= Len(fields)
    BY <1>4, <1>5, <1>7, <1>9, <1>13
  <2>2. p \in Nat /\ p <= n /\ n > 0 /\ n - 1 \in b..e - 1
    BY <1>1, <1>2, <1>13
  <2>3. EndsInField(orig)
    <3>1. orig[n - 1] \notin delims
      BY <1>2, <2>2
    <3> QED BY <2>2, <3>1 DEF EndsInField, Delims, delims, n
  <2>4. AtCursor(orig, m, p, now)
    BY <1>3, <1>8, <2>1, <2>2, <2>3 DEF AtCursor, t, delims, n, fields, c
  <2> QED BY <2>1, <2>4
<1>14. Len(got) >= Len(fields) => Len(now) >= Len(fields)
  <2>1. Len(fields) \in Nat
    BY <1>4, <1>5
  <2> QED BY <1>9, <2>1
<1> QED BY <1>11, <1>12, <1>13, <1>14 DEF now, field, n, fields

(* One call of strtok_s, the first or a later one.                         *)
LEMMA TokenizeCollects ==
  ASSUME NEW orig \in TokenMemories, NEW size \in 1..Delimiters, NEW got, NEW m,
         Nulled(orig, size, m), NEW dest \in Nat \cup {NULL}, NEW dmax \in Nat, NEW ptr,
         NEW at \in Nat, at = IF dest = NULL THEN ptr ELSE dest, ptr \in {NULL, at},
         AtCursor(orig, m, at, got), GotFields(orig, got), RoomLeft(orig, size, dmax, at, got),
         Tokenize(orig, size, got, m, dest, dmax, ptr)
  PROVE  FieldInv'
<1> DEFINE r == strtok_s(m, dest, dmax, Delimiters, ptr)
           found == Token(m, at, dmax, Delimiters, ptr)
           now == IF r.tok = NULL THEN got ELSE Append(got, Text(r.mem, r.tok))
<1>1. r = [tok |-> NULL, ptr |-> ptr, dmax |-> dmax, mem |-> m] \/ r = found
  BY DEF strtok_s
<1>2. /\ family' = IF r.tok = NULL THEN "tokend" ELSE "token"
      /\ mem' = r.mem /\ args'.orig = orig /\ args'.ptr = r.ptr /\ args'.got = now
      /\ args'.size = size /\ args'.dmax = r.dmax
  BY DEF Tokenize
<1> HIDE DEF r
<1>3. ASSUME r.tok # NULL
      PROVE  /\ GotFields(orig, now)
             /\ r.ptr # NULL => AtCursor(orig, r.mem, r.ptr, now) /\ RoomLeft(orig, size, r.dmax, r.ptr, now)
  <2>1. r = found
    BY <1>1, <1>3
  <2> HIDE DEF found
  <2>2. at <= Length(orig, 0) /\ SameFrom(orig, m, at)
    BY DEF AtCursor
  <2>3. \E b, e \in Nat : TokenIs(orig, m, at, dmax, ptr, r, b, e)
    <3>1. found.tok # NULL
      BY <1>3, <2>1
    <3> USE DEF found
    <3>2. \E b, e \in Nat : TokenIs(orig, m, at, dmax, ptr, found, b, e)
      BY <2>2, <3>1, TokenFinds
    <3> HIDE DEF found
    <3> QED BY <2>1, <3>2
  <2>4. PICK b \in Nat, e \in Nat : TokenIs(orig, m, at, dmax, ptr, r, b, e)
    BY <2>3
  <2> DEFINE more == Append(got, FieldText(orig, 0, b, e))
  <2>5. now = more
    BY <1>3, <2>4 DEF TokenIs
  <2>6. FieldIs(orig, at, b, e)
    BY <2>4 DEF TokenIs
  <2> DEFINE k == r.mem
  <2> HIDE DEF k
  <2>7. /\ GotFields(orig, more)
        /\ e < Length(orig, 0) /\ SameFrom(orig, k, e + 1) => AtCursor(orig, k, e + 1, more)
        /\ e = Length(orig, 0) => AtCursor(orig, m, at, more) /\ Len(more) >= Len(TheFields(orig))
        /\ Len(got) >= Len(TheFields(orig)) => Len(more) >= Len(TheFields(orig))
    BY <2>6, OneMoreToken
  <2> HIDE DEF now, more
  <2>8. e < Length(orig, 0) \/ e = Length(orig, 0)
    <3>1. e <= Length(orig, 0) /\ Length(orig, 0) \in Nat
      BY <2>6, TextOfTokens DEF FieldIs
    <3> QED BY <3>1
  <2>9. CASE e < Length(orig, 0)
    <3>1. r.ptr = e + 1 /\ SameFrom(orig, k, e + 1) /\ r.ptr + r.dmax = at + dmax
      BY <2>4, <2>9 DEF TokenIs, k
    <3>2. AtCursor(orig, r.mem, e + 1, more)
      BY <2>7, <2>9, <3>1 DEF k
    <3>3. RoomLeft(orig, size, r.dmax, r.ptr, more)
      BY <2>7, <3>1 DEF RoomLeft
    <3> QED BY <2>5, <2>7, <3>1, <3>2, <3>3
  <2>10. CASE e = Length(orig, 0)
    <3>1. r.ptr = ptr /\ r.mem = m
      BY <2>4, <2>10 DEF TokenIs
    <3>2. RoomLeft(orig, size, r.dmax, r.ptr, more)
      BY <2>7, <2>10 DEF RoomLeft
    <3> QED BY <2>5, <2>7, <2>10, <3>1, <3>2
  <2> QED BY <2>8, <2>9, <2>10
<1>4. ASSUME r.tok = NULL PROVE Exhausted(orig, size, got)
  <2>1. CASE Len(got) >= Len(TheFields(orig))
    BY <2>1 DEF Exhausted
  <2>2. CASE at + dmax = size /\ Tokenizable(orig, size) /\ ~(Len(got) >= Len(TheFields(orig)))
    <3> DEFINE all == Cardinality(Starts(Text(orig, 0), Delims(orig)))
    <3>1. at <= Length(orig, 0) /\ SameFrom(orig, m, at)
      BY DEF AtCursor
    <3>2. Taken(Text(orig, 0), Delims(orig), at) = all
      <4>1. CASE r = found
        <5>1. found.tok = NULL
          BY <1>4, <4>1
        <5> USE DEF found
        <5> QED BY <2>2, <3>1, <5>1, TokenEnds
      <4>2. CASE r # found
        <5>1. dmax = 0
          <6>1. dmax = 0 \/ dmax > RSIZE_MAX_STR \/ Delimiters = NULL
            BY <4>2 DEF r, found, strtok_s
          <6>2. Delimiters \in Nat /\ Delimiters <= RSIZE_MAX_STR /\ RSIZE_MAX_STR \in Nat
            <7>1. /\ Cardinality(DOMAIN orig) \in Nat /\ Cardinality(DOMAIN orig) <= RSIZE_MAX_STR
                  /\ DOMAIN orig = 0..Cardinality(DOMAIN orig) - 1 /\ Delimiters \in DOMAIN orig
              BY TextIs, MemoriesAssumption
            <7> QED BY <7>1, SafeStrAssumption
          <6> QED BY <2>2, <6>1, <6>2 DEF NULL
        <5>2. Length(orig, 0) \in Nat /\ Length(orig, 0) <= size
          BY <2>2, TextOfTokens DEF Tokenizable
        <5>3. \A x \in at..Length(orig, 0) - 1 : orig[x] \in Delims(orig)
          BY <2>2, <5>1, <5>2
        <5> QED BY <5>3, RestTaken
      <4> QED BY <4>1, <4>2
    <3>3. Len(TheFields(orig)) = all /\ all \in Nat
      <4>1. TheFields(orig) = FieldsOf(Text(orig, 0), Delims(orig))
        BY DEF TheFields, TextFields, Delims
      <4> QED BY <4>1, TextOfTokens, FieldsAre
    <3>4. Taken(Text(orig, 0), Delims(orig), at) = Len(got)
      BY <2>2 DEF AtCursor
    <3> HIDE DEF all
    <3> QED BY <2>2, <3>2, <3>3, <3>4
  <2> QED BY <2>1, <2>2 DEF RoomLeft, Exhausted
<1>5. CASE r.tok = NULL
  <2>1. now = got /\ family' = "tokend"
    BY <1>2, <1>5
  <2> HIDE DEF now
  <2>2. GotFields(args'.orig, args'.got) /\ Exhausted(args'.orig, args'.size, args'.got)
    BY <1>2, <1>5, <1>4, <2>1
  <2> QED BY <2>1, <2>2 DEF FieldInv
<1>6. CASE r.tok # NULL
  <2> HIDE DEF now
  <2>1. /\ GotFields(args'.orig, args'.got) /\ family' = "token"
        /\ args'.ptr # NULL => /\ AtCursor(args'.orig, mem', args'.ptr, args'.got)
                               /\ RoomLeft(args'.orig, args'.size, args'.dmax, args'.ptr, args'.got)
    BY <1>2, <1>3, <1>6
  <2> QED BY <2>1 DEF FieldInv
<1> QED BY <1>5, <1>6

(* Before the first call.                                                  *)
LEMMA NothingTaken ==
  ASSUME NEW m \in TokenMemories
  PROVE  AtCursor(m, m, 0, <<>>) /\ GotFields(m, <<>>)
<1> DEFINE t == Text(m, 0)
           delims == Delims(m)
           in == InField(t, delims)
<1>1. t \in Seq(Int) /\ Length(m, 0) \in Nat
  BY TextOfTokens
<1>2. 0 \notin in
  <2>1. DOMAIN t = 1..Len(t)
    BY <1>1
  <2> HIDE DEF t
  <2> QED BY <2>1 DEF InField
<1>3. Taken(t, delims, 0) = 0
  BY <1>1, NoneTaken
<1>4. Len(<<>>) = 0 /\ <<>> \in Seq(Seq(Int))
  OBVIOUS
<1> HIDE DEF t, delims
<1>5. AtCursor(m, m, 0, <<>>)
  <2> USE DEF t, delims
  <2>1. /\ 0 \in Nat /\ 0 <= Length(m, 0) /\ 0 \notin InField(Text(m, 0), Delims(m))
        /\ Taken(Text(m, 0), Delims(m), 0) = Len(<<>>)
    BY <1>1, <1>2, <1>3, <1>4
  <2>2. SameFrom(m, m, 0)
    BY DEF SameFrom
  <2> QED BY <2>1, <2>2 DEF AtCursor
<1>6. GotFields(m, <<>>)
  <2> DEFINE fields == TheFields(m)
  <2>1. fields = FieldsOf(t, delims)
    BY DEF TheFields, TextFields, Delims, t, delims
  <2>2. Len(fields) = Cardinality(Starts(t, delims)) /\ Cardinality(Starts(t, delims)) \in Nat
    <3> HIDE DEF fields
    <3> QED BY <1>1, <2>1, FieldsAre
  <2>3. ~(0 > Len(fields))
    BY <2>2
  <2> QED BY <1>4, <2>3 DEF GotFields
<1> QED BY <1>5, <1>6

LEMMA FieldsAlways == StringsSpec => []FieldInv
<1>1. Init => FieldInv
  BY DEF Init, FieldInv
<1>2. TokenInv /\ FieldInv /\ [StringsNext]_vars => FieldInv'
  <2> SUFFICES ASSUME TokenInv, FieldInv, [StringsNext]_vars PROVE FieldInv'
    OBVIOUS
  <2>0. NULL \notin Nat
    BY DEF NULL
  <2>1. CASE FirstToken
    <3>1. PICK m \in TokenMemories, n \in 1..Delimiters : Tokenize(m, n, <<>>, m, 0, n, NULL)
      BY <2>1 DEF FirstToken
    <3>2. Nulled(m, n, m)
      BY DEF Nulled
    <3>3. Delimiters \in Nat
      BY TextIs, MemoriesAssumption
    <3>4. n \in Nat /\ 0 = (IF 0 = NULL THEN NULL ELSE 0) /\ 0 \in Nat \cup {NULL} /\ NULL \in {NULL, 0}
      BY <2>0, <3>3
    <3>5. AtCursor(m, m, 0, <<>>) /\ GotFields(m, <<>>) /\ RoomLeft(m, n, n, 0, <<>>)
      BY <3>4, NothingTaken DEF RoomLeft
    <3> QED BY <3>1, <3>2, <3>4, <3>5, TokenizeCollects
  <2>2. CASE NextToken
    <3> DEFINE orig == args.orig
               size == args.size
               dmax == args.dmax
               ptr == args.ptr
               got == args.got
    <3>1. family = "token" /\ ptr # NULL /\ Tokenize(orig, size, got, mem, NULL, dmax, ptr)
      BY <2>2 DEF NextToken
    <3>2. /\ orig \in TokenMemories /\ size \in 1..Delimiters
          /\ Nulled(orig, size, mem) /\ LeftInside(size, dmax, ptr)
      BY <3>1 DEF TokenInv
    <3>3. ptr \in Nat /\ dmax \in Nat
      BY <3>1, <3>2 DEF LeftInside
    <3>4. GotFields(orig, got) /\ AtCursor(orig, mem, ptr, got) /\ RoomLeft(orig, size, dmax, ptr, got)
      BY <3>1 DEF FieldInv
    <3> HIDE DEF orig, size, dmax, ptr, got
    <3>5. ptr = (IF NULL = NULL THEN ptr ELSE NULL) /\ ptr \in {NULL, ptr} /\ NULL \in Nat \cup {NULL}
      OBVIOUS
    <3> QED BY <3>1, <3>2, <3>3, <3>4, <3>5, TokenizeCollects
  <2>3. CASE Calls
    BY <2>3, CallsMadeIn DEF FieldInv
  <2>4. CASE StringsNext /\ ~Calls /\ ~FirstToken /\ ~NextToken
    <3>1. CallFormat \/ SetHandler => family' \in {"format", "handler"}
      BY DEF CallFormat, SetHandler
    <3>2. CallConversion \/ CallSplit \/ CallNumber \/ CallPrint
            => family' \in {"text", "path", "number", "print"}
      BY DEF CallConversion, CallSplit, CallNumber, CallPrint
    <3>3. StartTokens \/ RestartTokens \/ ContinueTokens => family' = "wtoken"
      BY DEF StartTokens, RestartTokens, ContinueTokens, Tokenized
    <3> QED BY <2>4, <3>1, <3>2, <3>3 DEF StringsNext, Next, Calls, FieldInv
  <2>5. CASE UNCHANGED vars
    BY <2>5 DEF vars, FieldInv
  <2> QED BY <2>1, <2>2, <2>3, <2>4, <2>5
<1> QED BY <1>1, <1>2, TokensAlways, PTL DEF StringsSpec

LEMMA TokensHold ==
  ASSUME FieldInv
  PROVE  TokensAreTheFields
<1> SUFFICES ASSUME family \in {"token", "tokend"}
             PROVE  LET fields == TextFields(args.orig, 0)
                        got == args.got
                    IN  /\ \A k \in DOMAIN got : got[k] = fields[Min({k, Len(fields)})]
                        /\ Len(got) > Len(fields) => EndsInField(args.orig)
                        /\ family = "tokend" /\ Tokenizable(args.orig, args.size) => Len(got) >= Len(fields)
  BY DEF TokensAreTheFields
<1>1. GotFields(args.orig, args.got) /\ (family = "tokend" => Exhausted(args.orig, args.size, args.got))
  BY DEF FieldInv
<1>2. DOMAIN args.got = 1..Len(args.got)
  BY <1>1 DEF GotFields
<1> QED BY <1>1, <1>2 DEF GotFields, TheFields, Exhausted

(* u16cstok.  A call at offset p of the text that starts at `from` finds    *)
(* nothing but delimiters, or the field from offset b to before e.          *)
WideTokenIs(m, from, p, r, buffer, b, e) ==
  /\ b \in Nat /\ e \in Nat /\ p <= b /\ b < e /\ e <= Length(m, from)
  /\ \A x \in p..b - 1 : m[from + x] \in Delims(m)
  /\ \A x \in b..e - 1 : m[from + x] \notin Delims(m)
  /\ e = Length(m, from) \/ m[from + e] \in Delims(m)
  /\ r = [tok |-> "buffer", lastcursor |-> from + e,
          buffer |-> TokenBuffer(m, buffer, from + b, from + e)]
NoWideToken(m, from, p, r, buffer) ==
  /\ r = [tok |-> "null", lastcursor |-> from + Length(m, from), buffer |-> buffer]
  /\ \A x \in p..Length(m, from) - 1 : m[from + x] \in Delims(m)

(* The list of delimiters as u16cstok reads it.                            *)
LEMMA WideDelims ==
  ASSUME NEW m \in TokenMemories, m[Delimiters] # 0
  PROVE  LET num == u16cslen(m, Delimiters)
         IN  /\ num # 0 /\ 0 \notin Delims(m)
             /\ {m[a] : a \in (Delimiters .. Delimiters + num - 1) \cap DOMAIN m} = Delims(m)
<1> DEFINE num == u16cslen(m, Delimiters)
           len == Length(m, Delimiters)
<1>1. /\ IsText(m) /\ Delimiters \in DOMAIN m /\ Cardinality(DOMAIN m) \in Nat
      /\ DOMAIN m = 0..Cardinality(DOMAIN m) - 1 /\ Cardinality(DOMAIN m) <= SIZE_MAX
  BY QueryText, MemoriesAssumption, StringsAssumption
<1>2. /\ Delimiters \in Nat /\ len \in Nat /\ Delimiters + len \in DOMAIN m
      /\ m[Delimiters + len] = 0
      /\ \A k \in 0..len - 1 : Delimiters + k \in DOMAIN m /\ m[Delimiters + k] # 0
  BY <1>1, LengthIs
<1>3. SIZE_MAX \in Nat /\ len <= SIZE_MAX /\ len # 0
  <2>1. SIZE_MAX \in Nat
    BY WideStrAssumption
  <2> HIDE DEF len
  <2>2. len <= SIZE_MAX
    BY <1>1, <1>2, <2>1
  <2>3. len # 0
    BY <1>2
  <2> QED BY <2>1, <2>2, <2>3
<1>4. num = len
  <2> DEFINE least == Min({SIZE_MAX, len})
  <2>1. num = IF least = 0 THEN SIZE_MAX ELSE least
    <3>1. Delimiters # NULL
      BY <1>2 DEF NULL
    <3> QED BY <3>1 DEF u16cslen, u16csnlen
  <2>2. least = len
    <3> HIDE DEF len
    <3>1. least \in {SIZE_MAX, len} /\ least <= SIZE_MAX /\ least <= len
      BY <1>2, <1>3, LeastOfTwo
    <3> HIDE DEF least
    <3> QED BY <1>2, <1>3, <3>1
  <2> HIDE DEF least, len, num
  <2> QED BY <1>3, <2>1, <2>2
<1> HIDE DEF num
<1>5. Delims(m) = {m[a] : a \in Delimiters..Delimiters + len - 1}
  BY DelimsAre
<1> HIDE DEF len
<1>6. \A a \in Delimiters..Delimiters + len - 1 : a \in DOMAIN m /\ m[a] # 0
  <2> SUFFICES ASSUME NEW a \in Delimiters..Delimiters + len - 1 PROVE a \in DOMAIN m /\ m[a] # 0
    OBVIOUS
  <2>1. a - Delimiters \in 0..len - 1 /\ Delimiters + (a - Delimiters) = a
    BY <1>2
  <2> QED BY <1>2, <2>1
<1>7. (Delimiters .. Delimiters + num - 1) \cap DOMAIN m = Delimiters..Delimiters + len - 1
  BY <1>4, <1>6
<1>8. num # 0 /\ 0 \notin Delims(m)
  BY <1>3, <1>4, <1>5, <1>6
<1> QED BY <1>5, <1>7, <1>8 DEF num

(* Where a scan stops.                                                     *)
StopAt(m, at, stops) == Min({a \in at .. Max(DOMAIN m) : m[a] \in stops})
FirstStop(m, from, p, stops, b) ==
  /\ StopAt(m, from + p, stops) = from + b
  /\ m[from + b] \in stops /\ \A x \in p..b - 1 : m[from + x] \notin stops

LEMMA ScanStops ==
  ASSUME NEW m, NEW top \in Nat, DOMAIN m = 0..top, NEW from \in Nat, NEW n \in Nat, from + n <= top,
         m[from + n] = 0, NEW p \in 0..n, NEW stops, 0 \in stops
  PROVE  \E b \in p..n : FirstStop(m, from, p, stops, b)
<1> DEFINE s == {a \in from + p .. top : m[a] \in stops}
           least == Min(s)
<1>1. Max(DOMAIN m) = top
  BY MaxIsTop
<1>2. from + n \in s /\ s \subseteq Nat
  OBVIOUS
<1> HIDE DEF s
<1>3. least \in s /\ \A y \in s : least <= y
  BY <1>2, MinIs
<1> HIDE DEF least
<1>4. least \in from + p .. from + n /\ m[least] \in stops
  BY <1>2, <1>3 DEF s
<1>5. least - from \in p..n /\ from + (least - from) = least
  BY <1>4
<1>6. ASSUME NEW x \in p..(least - from) - 1 PROVE m[from + x] \notin stops
  <2>1. from + x < least /\ from + x \in from + p .. top
    BY <1>4, <1>5
  <2>2. from + x \notin s
    BY <1>3, <1>4, <2>1
  <2> QED BY <2>1, <2>2 DEF s
<1> QED BY <1>1, <1>4, <1>5, <1>6 DEF least, s, FirstStop, StopAt

LEMMA WideFinds ==
  ASSUME NEW m \in TokenMemories, m[Delimiters] # 0, NEW from \in DOMAIN m,
         NEW p \in Nat, p <= Length(m, from), NEW wcs, NEW static,
         (IF wcs # NULL THEN wcs ELSE static.lastcursor) = from + p
  PROVE  LET r == u16cstok(m, wcs, Delimiters, static)
         IN  \/ NoWideToken(m, from, p, r, static.buffer)
             \/ \E b, e \in Nat : WideTokenIs(m, from, p, r, static.buffer, b, e)
<1> DEFINE n == Length(m, from)
           num == u16cslen(m, Delimiters)
           delims == {m[a] : a \in (Delimiters .. Delimiters + num - 1) \cap DOMAIN m}
           cursor == IF wcs # NULL THEN wcs ELSE static.lastcursor
           Ends(at, stop) == Min({a \in at .. Max(DOMAIN m) : m[a] = 0 \/ (m[a] \in delims <=> stop)})
           begin == Ends(cursor, FALSE)
           end == Ends(begin, TRUE)
           none == [tok |-> "null", lastcursor |-> begin, buffer |-> static.buffer]
           found == [tok |-> "buffer", lastcursor |-> end,
                     buffer |-> TokenBuffer(m, static.buffer, begin, end)]
           r == u16cstok(m, wcs, Delimiters, static)
<1>1. IsText(m) /\ \A a \in DOMAIN m : m[a] \in Int
  BY TextOfTokens
<1>2. PICK top \in Nat : DOMAIN m = 0..top
  BY <1>1 DEF IsText
<1>3. /\ from \in Nat /\ n \in Nat /\ from + n \in DOMAIN m /\ m[from + n] = 0
      /\ \A k \in 0..n - 1 : from + k \in DOMAIN m /\ m[from + k] # 0
  BY <1>1, LengthIs
<1>4. num # 0 /\ 0 \notin delims /\ delims = Delims(m)
  BY WideDelims
<1>5. cursor = from + p /\ cursor # NULL
  BY <1>3 DEF NULL
<1>6. r = IF m[begin] = 0 THEN none ELSE found
  BY <1>4, <1>5 DEF u16cstok
<1>7. p <= n
  OBVIOUS
<1> HIDE DEF n, num, delims, cursor, r
<1> DEFINE gap == Int \ delims
           stops == delims \cup {0}
<1>8. \A at \in Nat : Ends(at, FALSE) = StopAt(m, at, gap)
  <2> SUFFICES ASSUME NEW at \in Nat PROVE Ends(at, FALSE) = StopAt(m, at, gap)
    OBVIOUS
  <2>1. Max(DOMAIN m) = top
    BY <1>2, MaxIsTop
  <2>2. \A a \in at..top : m[a] = 0 \/ (m[a] \in delims <=> FALSE) <=> m[a] \in gap
    BY <1>1, <1>2, <1>4
  <2>3. {a \in at .. top : m[a] = 0 \/ (m[a] \in delims <=> FALSE)} = {a \in at .. top : m[a] \in gap}
    BY <2>2
  <2> QED BY <2>1, <2>3 DEF StopAt
<1>9. \A at : Ends(at, TRUE) = StopAt(m, at, stops)
  <2> SUFFICES ASSUME NEW at PROVE Ends(at, TRUE) = StopAt(m, at, stops)
    OBVIOUS
  <2>1. {a \in at .. Max(DOMAIN m) : m[a] = 0 \/ (m[a] \in delims <=> TRUE)}
          = {a \in at .. Max(DOMAIN m) : m[a] \in stops}
    OBVIOUS
  <2> QED BY <2>1 DEF StopAt
<1> HIDE DEF Ends
<1>10. PICK b \in p..n : begin = from + b /\ m[from + b] \in gap /\ \A x \in p..b - 1 : m[from + x] \notin gap
  <2>1. 0 \in gap /\ p \in 0..n /\ from + n <= top
    BY <1>2, <1>3, <1>4, <1>7
  <2> HIDE DEF gap
  <2>2. PICK b \in p..n : FirstStop(m, from, p, gap, b)
    BY <1>2, <1>3, <2>1, ScanStops
  <2>3. begin = StopAt(m, from + p, gap)
    <3>1. from + p \in Nat
      BY <1>3
    <3> QED BY <1>5, <1>8, <3>1
  <2> QED BY <2>2, <2>3 DEF FirstStop
<1> HIDE DEF begin
<1>11. \A x \in p..b - 1 : m[from + x] \in delims
  <2> SUFFICES ASSUME NEW x \in p..b - 1 PROVE m[from + x] \in delims
    OBVIOUS
  <2>1. from + x \in DOMAIN m
    BY <1>3, <1>10
  <2> QED BY <1>1, <1>10, <2>1
<1>12. CASE b = n
  <2>1. r = none
    BY <1>3, <1>6, <1>10, <1>12
  <2>2. NoWideToken(m, from, p, r, static.buffer)
    BY <1>4, <1>10, <1>11, <1>12, <2>1 DEF NoWideToken, n
  <2> QED BY <2>2 DEF r
<1>13. CASE b # n
  <2>1. b \in 0..n - 1 /\ m[begin] # 0 /\ b \in 0..n
    BY <1>3, <1>10, <1>13
  <2>2. r = found
    BY <1>6, <2>1
  <2>3. PICK e \in b..n : end = from + e /\ m[from + e] \in stops /\ \A x \in b..e - 1 : m[from + x] \notin stops
    <3>1. 0 \in stops /\ from + n <= top
      BY <1>2, <1>3
    <3> HIDE DEF stops
    <3>2. PICK e \in b..n : FirstStop(m, from, b, stops, e)
      BY <1>2, <1>3, <2>1, <3>1, ScanStops
    <3>3. end = StopAt(m, from + b, stops)
      BY <1>9, <1>10
    <3> QED BY <3>2, <3>3 DEF FirstStop
  <2> HIDE DEF end
  <2>4. b < e
    <3>1. m[from + b] \notin stops
      BY <1>10, <2>1
    <3> QED BY <2>1, <2>3, <3>1
  <2>5. e = n \/ m[from + e] \in delims
    <3>1. e # n => m[from + e] # 0
      BY <1>3, <2>1, <2>3
    <3> QED BY <2>3, <3>1
  <2>6. /\ b \in Nat /\ e \in Nat /\ p <= b /\ e <= n
        /\ \A x \in b..e - 1 : m[from + x] \notin delims
    BY <1>3, <1>10, <2>3
  <2>7. r = [tok |-> "buffer", lastcursor |-> from + e,
             buffer |-> TokenBuffer(m, static.buffer, from + b, from + e)]
    BY <1>10, <2>2, <2>3
  <2>8. WideTokenIs(m, from, p, r, static.buffer, b, e)
    BY <1>4, <1>11, <2>4, <2>5, <2>6, <2>7 DEF WideTokenIs, n
  <2> QED BY <2>6, <2>8 DEF r
<1> QED BY <1>12, <1>13

(* What the buffer holds behind a call.                                    *)
HasCells(buffer) == \E k \in Nat : DOMAIN buffer = 0..k - 1
Holds(m, from, b, e) == b < e /\ \A x \in b..e - 1 : m[from + x] # 0

LEMMA BufferIs ==
  ASSUME NEW m, NEW from \in Nat, NEW b \in Nat, NEW e \in Nat, Holds(m, from, b, e),
         NEW old, HasCells(old)
  PROVE  LET buffer == TokenBuffer(m, old, from + b, from + e)
         IN  Text(buffer, 0) = FieldText(m, from, b, e) /\ HasCells(buffer)
<1> DEFINE tsize == from + e - (from + b) + 1
           q == e - b
           size == Cardinality(DOMAIN old)
           most == Max({size, tsize})
           buffer == TokenBuffer(m, old, from + b, from + e)
<1>0. PICK k \in Nat : DOMAIN old = 0..k - 1
  BY DEF HasCells
<1>1. tsize = q + 1 /\ q \in Nat /\ tsize \in Nat /\ \A x \in b..e - 1 : m[from + x] # 0
  BY DEF Holds
<1>2. size = k
  <2>1. Cardinality(0..k - 1) = k
    <3>1. 0 \in Int /\ k - 1 \in Int
      OBVIOUS
    <3>2. Cardinality(0..k - 1) = IF 0 > k - 1 THEN 0 ELSE k - 1 - 0 + 1
      BY <3>1, FS_Interval
    <3> QED BY <3>2
  <2> QED BY <1>0, <2>1
<1> HIDE DEF size
<1>3. most \in Nat /\ most >= tsize
  <2> HIDE DEF tsize
  <2>1. most \in {size, tsize} /\ most >= tsize
    BY <1>1, <1>2, MaxOfTwo
  <2> HIDE DEF most
  <2> QED BY <1>1, <1>2, <2>1
<1>4. buffer = [i \in 0..most - 1 |-> IF i < tsize - 1 THEN m[from + b + i]
                                      ELSE IF i = tsize - 1 THEN 0 ELSE old[i]]
  BY DEF TokenBuffer, size
<1> HIDE DEF most, tsize, buffer
<1> DEFINE top == most - 1
<1>5. top \in Nat /\ DOMAIN buffer = 0..top /\ q <= top
  BY <1>1, <1>3, <1>4
<1>6. buffer[0 + q] = 0
  BY <1>1, <1>4, <1>5
<1>7. ASSUME NEW i \in 0..q - 1 PROVE buffer[0 + i] = m[from + (b + i)] /\ buffer[0 + i] # 0
  <2>1. i \in 0..top /\ i < tsize - 1 /\ from + b + i = from + (b + i) /\ 0 + i = i
    BY <1>1, <1>5
  <2>2. b + i \in b..e - 1
    BY <1>1
  <2>3. buffer[i] = m[from + b + i]
    BY <1>4, <2>1
  <2> QED BY <1>1, <2>1, <2>2, <2>3
<1>8. Length(buffer, 0) = q
  <2> HIDE DEF q, top
  <2>1. 0 + q <= top
    BY <1>1, <1>5
  <2>2. \A i \in 0..q - 1 : buffer[0 + i] # 0
    BY <1>7
  <2> QED BY <1>1, <1>5, <1>6, <2>1, <2>2, EndsAt
<1>9. Text(buffer, 0) = FieldText(m, from, b, e)
  <2>1. ASSUME NEW i \in 1..q PROVE buffer[0 + i - 1] = m[from + b + i - 1]
    <3>1. i - 1 \in 0..q - 1 /\ 0 + (i - 1) = 0 + i - 1 /\ from + (b + (i - 1)) = from + b + i - 1
      BY <1>1
    <3> QED BY <1>7, <3>1
  <2> QED BY <1>8, <2>1 DEF Text, FieldText
<1>10. HasCells(buffer)
  BY <1>3, <1>4 DEF HasCells
<1> QED BY <1>9, <1>10 DEF buffer

(* Between the calls the cursor stands at no inner place of a field, and as  *)
(* many fields start before it as tokens were returned.                    *)
CursorAt(m, from, p, static, got) ==
  /\ p \in Nat /\ p <= Length(m, from) /\ static.lastcursor = from + p
  /\ p \notin InField(Text(m, from), Delims(m)) \/ p + 1 \notin InField(Text(m, from), Delims(m))
  /\ Taken(Text(m, from), Delims(m), p) = Len(got)
GotTexts(m, from, got) ==
  /\ got \in Seq(Seq(Int)) /\ Len(got) <= Cardinality(Starts(Text(m, from), Delims(m)))
  /\ \A k \in 1..Len(got) : got[k] = TextFields(m, from)[k]
WideAt(m, from, static, got, ended) ==
  /\ \E p : CursorAt(m, from, p, static, got)
  /\ GotTexts(m, from, got) /\ HasCells(static.buffer)
  /\ ended => Len(got) = Cardinality(Starts(Text(m, from), Delims(m)))

LEMMA WideCall ==
  ASSUME NEW m \in TokenMemories, m[Delimiters] # 0, NEW from \in DOMAIN m, NEW p, NEW got,
         NEW wcs, NEW static, NEW now, now.lastcursor = (IF wcs # NULL THEN wcs ELSE static.lastcursor),
         CursorAt(m, from, p, now, got), GotTexts(m, from, got), HasCells(static.buffer)
  PROVE  LET r == u16cstok(m, wcs, Delimiters, static)
         IN  WideAt(m, from, [lastcursor |-> r.lastcursor, buffer |-> r.buffer],
                    IF r.tok = "buffer" THEN Append(got, Text(r.buffer, 0)) ELSE got, r.tok = "null")
<1> DEFINE r == u16cstok(m, wcs, Delimiters, static)
           t == Text(m, from)
           n == Length(m, from)
           delims == Delims(m)
           all == Cardinality(Starts(t, delims))
           c == Taken(t, delims, p)
           new == IF r.tok = "buffer" THEN Append(got, Text(r.buffer, 0)) ELSE got
           static2 == [lastcursor |-> r.lastcursor, buffer |-> r.buffer]
           fields == TextFields(m, from)
<1>1. IsText(m) /\ (\A a \in DOMAIN m : m[a] \in Int) /\ from \in Nat
  <2>1. IsText(m) /\ \A a \in DOMAIN m : m[a] \in Int
    BY TextOfTokens
  <2> QED BY <2>1, LengthIs
<1>2. t \in Seq(Int) /\ Len(t) = n /\ n \in Nat /\ \A k \in 0..n - 1 : m[from + k] # 0
  BY <1>1, TextIsSeq, LengthIs
<1>3. /\ p \in Nat /\ p <= n /\ (IF wcs # NULL THEN wcs ELSE static.lastcursor) = from + p
      /\ p \notin InField(t, delims) \/ p + 1 \notin InField(t, delims)
      /\ c = Len(got)
  BY DEF CursorAt
<1>4. /\ got \in Seq(Seq(Int)) /\ Len(got) <= all /\ \A k \in 1..Len(got) : got[k] = fields[k]
  BY DEF GotTexts
<1>6. \/ NoWideToken(m, from, p, r, static.buffer)
      \/ \E b, e \in Nat : WideTokenIs(m, from, p, r, static.buffer, b, e)
  BY <1>3, WideFinds
<1>7. fields = FieldsOf(t, delims)
  BY DEF TextFields, Delims
<1> HIDE DEF r, t, n, delims, all, c, fields
<1>8. ASSUME NoWideToken(m, from, p, r, static.buffer)
      PROVE  WideAt(m, from, static2, new, r.tok = "null")
  <2>1. /\ r.tok = "null" /\ r.lastcursor = from + n /\ r.buffer = static.buffer /\ new = got
        /\ \A x \in p..n - 1 : m[from + x] \in delims
    BY <1>8 DEF NoWideToken, n, delims
  <2>2. c = all
    <3> USE DEF t, n, delims, all, c
    <3> QED BY <1>1, <1>3, <2>1, NoField
  <2>3. Taken(t, delims, n) = all
    <3>1. \A x \in n + 1 .. Len(t) : x \notin InField(t, delims)
      BY <1>2
    <3> QED BY <1>2, <3>1, AllTaken DEF all
  <2>4. n + 1 \notin InField(t, delims)
    <3>1. DOMAIN t = 1..n
      BY <1>2
    <3>2. n + 1 \notin 1..n
      BY <1>2
    <3> QED BY <3>1, <3>2 DEF InField
  <2> HIDE DEF new
  <2>5. static2.lastcursor = from + n /\ static2.buffer = static.buffer
    BY <2>1
  <2> HIDE DEF static2
  <2>6. CursorAt(m, from, n, static2, new)
    <3>1. n <= n /\ Taken(t, delims, n) = Len(new)
      BY <1>2, <1>3, <2>1, <2>2, <2>3
    <3> QED BY <1>2, <2>4, <2>5, <3>1 DEF CursorAt, t, n, delims
  <2>7. GotTexts(m, from, new) /\ HasCells(static2.buffer)
    BY <2>1, <2>5
  <2>8. Len(new) = all
    BY <1>3, <2>1, <2>2
  <2> QED BY <2>6, <2>7, <2>8 DEF WideAt, all, t, delims
<1>9. ASSUME NEW b \in Nat, NEW e \in Nat, WideTokenIs(m, from, p, r, static.buffer, b, e)
      PROVE  WideAt(m, from, static2, new, r.tok = "null")
  <2> DEFINE field == FieldText(m, from, b, e)
             buffer == TokenBuffer(m, static.buffer, from + b, from + e)
  <2>1. /\ p <= b /\ b < e /\ e <= n
        /\ \A x \in p..b - 1 : m[from + x] \in delims
        /\ \A x \in b..e - 1 : m[from + x] \notin delims
        /\ e = n \/ m[from + e] \in delims
    BY <1>9 DEF WideTokenIs, n, delims
  <2>2. r.tok = "buffer" /\ r.lastcursor = from + e /\ r.buffer = buffer /\ r.tok # "null"
    BY <1>9 DEF WideTokenIs
  <2>3. FieldLies(m, from, delims, p, b, e)
    BY <1>1, <1>3, <2>1 DEF FieldLies, t, n
  <2>4. /\ c \in Nat /\ all \in Nat /\ c + 1 <= all /\ field \in Seq(Int)
        /\ fields[c + 1] = field /\ Taken(t, delims, e) = c + 1 /\ e + 1 \notin InField(t, delims)
    BY <1>7, <2>3, OneField DEF c, all, t
  <2>5. Text(buffer, 0) = field /\ HasCells(buffer)
    <3>1. Holds(m, from, b, e)
      BY <1>2, <1>3, <2>1 DEF Holds
    <3>2. HasCells(static.buffer)
      OBVIOUS
    <3> DEFINE old == static.buffer
    <3> HIDE DEF old
    <3>3. HasCells(old)
      BY <3>2 DEF old
    <3>4. /\ Text(TokenBuffer(m, old, from + b, from + e), 0) = FieldText(m, from, b, e)
          /\ HasCells(TokenBuffer(m, old, from + b, from + e))
      BY <1>1, <3>1, <3>3, BufferIs
    <3> QED BY <3>4 DEF old
  <2> HIDE DEF field, buffer
  <2>6. new = Append(got, field)
    BY <2>2, <2>5
  <2>7. static2.lastcursor = from + e /\ static2.buffer = buffer
    BY <2>2
  <2> HIDE DEF new, static2
  <2>8. /\ new \in Seq(Seq(Int)) /\ Len(new) = Len(got) + 1 /\ Len(got) \in Nat
        /\ (\A i \in 1..Len(got) : new[i] = got[i]) /\ new[Len(got) + 1] = field
    <3>1. field \in Seq(Int)
      BY <2>4
    <3> QED BY <1>4, <2>6, <3>1, AppendProperties
  <2>9. ASSUME NEW i \in 1..Len(new) PROVE new[i] = fields[i]
    <3>1. CASE i = Len(got) + 1
      BY <1>3, <2>4, <2>8, <3>1
    <3>2. CASE i # Len(got) + 1
      <4>1. i \in 1..Len(got)
        BY <2>8, <3>2
      <4> QED BY <1>4, <2>8, <4>1
    <3> QED BY <3>1, <3>2
  <2>10. GotTexts(m, from, new)
    <3>1. Len(new) <= all
      BY <1>3, <2>4, <2>8
    <3> QED BY <2>8, <2>9, <3>1 DEF GotTexts, all, t, delims, fields
  <2>11. CursorAt(m, from, e, static2, new)
    <3>1. Taken(t, delims, e) = Len(new)
      BY <1>3, <2>4, <2>8
    <3> QED BY <2>1, <2>4, <2>7, <3>1 DEF CursorAt, t, n, delims
  <2>12. HasCells(static2.buffer)
    BY <2>5, <2>7
  <2> QED BY <2>2, <2>10, <2>11, <2>12 DEF WideAt
<1>10. WideAt(m, from, static2, new, r.tok = "null")
  BY <1>6, <1>8, <1>9
<1> QED BY <1>10 DEF r

WideInv ==
  family = "wtoken" =>
    /\ mem \in TokenMemories /\ args.from \in 0..Delimiters - 1
    /\ mem[Delimiters] # 0 => WideAt(mem, args.from, args.static, args.got, args.ended)

LEMMA ListBehind ==
  ASSUME NEW m \in TokenMemories, NEW from \in 0..Delimiters - 1
  PROVE  from \in DOMAIN m /\ from # NULL
<1>1. /\ Delimiters \in DOMAIN m /\ Cardinality(DOMAIN m) \in Nat
      /\ DOMAIN m = 0..Cardinality(DOMAIN m) - 1
  BY TextIs, MemoriesAssumption
<1> HIDE DEF NULL
<1>2. from \in Nat /\ from \in DOMAIN m
  BY <1>1
<1> QED BY <1>2 DEF NULL

(* A text that is started.                                                 *)
LEMMA WideStart ==
  ASSUME NEW m \in TokenMemories, m[Delimiters] # 0, NEW from \in 0..Delimiters - 1,
         NEW static, static.lastcursor = from
  PROVE  CursorAt(m, from, 0, static, <<>>) /\ GotTexts(m, from, <<>>)
<1> DEFINE t == Text(m, from)
           delims == Delims(m)
           all == Cardinality(Starts(t, delims))
<1>1. IsText(m) /\ (\A a \in DOMAIN m : m[a] \in Int) /\ from \in DOMAIN m
  BY TextOfTokens, ListBehind
<1>2. t \in Seq(Int) /\ Length(m, from) \in Nat /\ from \in Nat
  BY <1>1, TextIsSeq, LengthIs
<1>3. all \in Nat
  BY <1>2, StartsAre
<1>4. Taken(t, delims, 0) = 0
  BY <1>2, NoneTaken
<1>5. 0 \notin InField(t, delims)
  <2>1. DOMAIN t = 1..Len(t)
    BY <1>2
  <2> HIDE DEF t
  <2> QED BY <2>1 DEF InField
<1>6. Len(<<>>) = 0 /\ <<>> \in Seq(Seq(Int))
  OBVIOUS
<1> HIDE DEF t, delims, all
<1>7. CursorAt(m, from, 0, static, <<>>)
  <2>1. 0 \in Nat /\ 0 <= Length(m, from) /\ static.lastcursor = from + 0
        /\ Taken(t, delims, 0) = Len(<<>>)
    BY <1>2, <1>4, <1>6
  <2> QED BY <1>5, <2>1 DEF CursorAt, t, delims
<1>8. GotTexts(m, from, <<>>)
  <2>1. Len(<<>>) <= all /\ \A k \in 1..Len(<<>>) : FALSE
    BY <1>3, <1>6
  <2> QED BY <1>6, <2>1 DEF GotTexts, all, t, delims
<1> QED BY <1>7, <1>8

(* One call, of whatever kind.                                             *)
LEMMA TokenizedKeeps ==
  ASSUME NEW m \in TokenMemories, NEW from \in 0..Delimiters - 1, NEW got, NEW n, NEW wcs, NEW static,
         Tokenized(m, from, got, n, u16cstok(m, wcs, Delimiters, static)),
         m[Delimiters] # 0 =>
           LET r == u16cstok(m, wcs, Delimiters, static)
           IN  WideAt(m, from, [lastcursor |-> r.lastcursor, buffer |-> r.buffer],
                      IF r.tok = "buffer" THEN Append(got, Text(r.buffer, 0)) ELSE got, r.tok = "null")
  PROVE  WideInv'
<1> DEFINE r == u16cstok(m, wcs, Delimiters, static)
           new == IF r.tok = "buffer" THEN Append(got, Text(r.buffer, 0)) ELSE got
           static2 == [lastcursor |-> r.lastcursor, buffer |-> r.buffer]
           ended == r.tok = "null"
<1>1. /\ mem' = m /\ args'.from = from /\ args'.got = new /\ args'.static = static2
      /\ args'.ended = ended
  BY DEF Tokenized
<1>2. m[Delimiters] # 0 => WideAt(m, from, static2, new, ended)
  OBVIOUS
<1> HIDE DEF new, static2, ended
<1>3. /\ mem' \in TokenMemories /\ args'.from \in 0..Delimiters - 1
      /\ mem'[Delimiters] # 0 => WideAt(mem', args'.from, args'.static, args'.got, args'.ended)
  BY <1>1, <1>2
<1> QED BY <1>3 DEF WideInv

LEMMA WideAlways == StringsSpec => []WideInv
<1>1. Init => WideInv
  BY DEF Init, WideInv
<1>2. WideInv /\ [StringsNext]_vars => WideInv'
  <2> SUFFICES ASSUME WideInv, [StringsNext]_vars PROVE WideInv'
    OBVIOUS
  <2>1. CASE StartTokens
    <3> DEFINE static == [lastcursor |-> NULL, buffer |-> <<>>]
    <3>1. PICK m \in TokenMemories, p \in 0..Delimiters - 1 :
            Tokenized(m, p, <<>>, 0, u16cstok(m, p, Delimiters, static))
      BY <2>1 DEF StartTokens
    <3>2. HasCells(static.buffer)
      <4>1. DOMAIN <<>> = 0..0 - 1
        OBVIOUS
      <4> QED BY <4>1 DEF HasCells
    <3>3. ASSUME m[Delimiters] # 0
          PROVE  LET r == u16cstok(m, p, Delimiters, static)
                 IN  WideAt(m, p, [lastcursor |-> r.lastcursor, buffer |-> r.buffer],
                            IF r.tok = "buffer" THEN Append(<<>>, Text(r.buffer, 0)) ELSE <<>>, r.tok = "null")
      <4> DEFINE now == [lastcursor |-> p]
      <4>1. p \in DOMAIN m /\ p # NULL
        BY ListBehind
      <4>2. now.lastcursor = p /\ now.lastcursor = (IF p # NULL THEN p ELSE static.lastcursor)
        BY <4>1
      <4> HIDE DEF now, static
      <4>3. CursorAt(m, p, 0, now, <<>>) /\ GotTexts(m, p, <<>>)
        BY <3>3, <4>2, WideStart
      <4> QED BY <3>2, <3>3, <4>1, <4>2, <4>3, WideCall
    <3> HIDE DEF static
    <3> QED BY <3>1, <3>3, TokenizedKeeps
  <2>2. CASE RestartTokens
    <3> DEFINE m == mem
               static == args.static
    <3>1. PICK p \in 0..Delimiters - 1 :
            Tokenized(m, p, <<>>, args.n, u16cstok(m, p, Delimiters, static))
      BY <2>2 DEF RestartTokens
    <3>2. m \in TokenMemories /\ (m[Delimiters] # 0 => HasCells(static.buffer))
      BY <2>2 DEF RestartTokens, WideInv, WideAt
    <3> HIDE DEF m, static
    <3>3. ASSUME m[Delimiters] # 0
          PROVE  LET r == u16cstok(m, p, Delimiters, static)
                 IN  WideAt(m, p, [lastcursor |-> r.lastcursor, buffer |-> r.buffer],
                            IF r.tok = "buffer" THEN Append(<<>>, Text(r.buffer, 0)) ELSE <<>>, r.tok = "null")
      <4> DEFINE now == [lastcursor |-> p]
      <4>1. p \in DOMAIN m /\ p # NULL
        BY <3>2, ListBehind
      <4>2. now.lastcursor = p /\ now.lastcursor = (IF p # NULL THEN p ELSE static.lastcursor)
        BY <4>1
      <4> HIDE DEF now
      <4>3. CursorAt(m, p, 0, now, <<>>) /\ GotTexts(m, p, <<>>)
        BY <3>2, <3>3, <4>2, WideStart
      <4> QED BY <3>2, <3>3, <4>1, <4>2, <4>3, WideCall
    <3> QED BY <3>1, <3>2, <3>3, TokenizedKeeps
  <2>3. CASE ContinueTokens
    <3> DEFINE m == mem
               from == args.from
               got == args.got
               static == args.static
    <3>1. Tokenized(m, from, got, args.n, u16cstok(m, NULL, Delimiters, static))
      BY <2>3 DEF ContinueTokens
    <3>2. /\ m \in TokenMemories /\ from \in 0..Delimiters - 1
          /\ m[Delimiters] # 0 => WideAt(m, from, static, got, args.ended)
      BY <2>3 DEF ContinueTokens, WideInv
    <3> HIDE DEF m, from, got, static
    <3>3. ASSUME m[Delimiters] # 0
          PROVE  LET r == u16cstok(m, NULL, Delimiters, static)
                 IN  WideAt(m, from, [lastcursor |-> r.lastcursor, buffer |-> r.buffer],
                            IF r.tok = "buffer" THEN Append(got, Text(r.buffer, 0)) ELSE got, r.tok = "null")
      <4>1. from \in DOMAIN m
        BY <3>2, ListBehind
      <4>2. PICK p : CursorAt(m, from, p, static, got)
        BY <3>2, <3>3 DEF WideAt
      <4>3. GotTexts(m, from, got) /\ HasCells(static.buffer)
        BY <3>2, <3>3 DEF WideAt
      <4>4. static.lastcursor = (IF NULL # NULL THEN NULL ELSE static.lastcursor)
        OBVIOUS
      <4> QED BY <3>2, <3>3, <4>1, <4>2, <4>3, <4>4, WideCall
    <3> QED BY <3>1, <3>2, <3>3, TokenizedKeeps
  <2>4. CASE StringsNext /\ ~StartTokens /\ ~RestartTokens /\ ~ContinueTokens
    <3>1. CallFormat \/ SetHandler => family' \in {"format", "handler"}
      BY DEF CallFormat, SetHandler
    <3>2. CallConversion \/ CallSplit \/ CallNumber \/ CallPrint
            => family' \in {"text", "path", "number", "print"}
      BY DEF CallConversion, CallSplit, CallNumber, CallPrint
    <3>3. FirstToken \/ NextToken => family' \in {"token", "tokend"}
      BY DEF FirstToken, NextToken, Tokenize
    <3>4. Calls => family' # "wtoken"
      BY CallsMadeIn
    <3> QED BY <2>4, <3>1, <3>2, <3>3, <3>4 DEF StringsNext, Next, Calls, WideInv
  <2>5. CASE UNCHANGED vars
    BY <2>5 DEF vars, WideInv
  <2> QED BY <2>1, <2>2, <2>3, <2>4, <2>5
<1> QED BY <1>1, <1>2, PTL DEF StringsSpec

LEMMA WideTokensHold ==
  ASSUME WideInv
  PROVE  WideTokensAreTheFields
<1> SUFFICES ASSUME family = "wtoken", mem[Delimiters] # 0
             PROVE  LET fields == TextFields(mem, args.from)
                    IN  /\ args.got = Prefix(fields, Len(args.got))
                        /\ args.ended => args.got = fields
  BY DEF WideTokensAreTheFields
<1> DEFINE m == mem
           from == args.from
           got == args.got
           fields == TextFields(m, from)
           t == Text(m, from)
           delims == Delims(m)
           all == Cardinality(Starts(t, delims))
           k == Len(got)
<1>1. /\ m \in TokenMemories /\ from \in 0..Delimiters - 1
      /\ WideAt(m, from, args.static, got, args.ended)
  BY DEF WideInv
<1> HIDE DEF m, from, got
<1>2. t \in Seq(Int)
  BY <1>1, TextOfTokens, ListBehind, TextIsSeq
<1>3. /\ got \in Seq(Seq(Int)) /\ k <= all /\ (\A i \in 1..k : got[i] = fields[i])
      /\ args.ended => k = all
  BY <1>1 DEF WideAt, GotTexts
<1>4. fields = FieldsOf(t, delims)
  BY DEF TextFields, Delims
<1> HIDE DEF fields, t, delims
<1>5. PICK r : fields \in Seq(r)
  BY <1>2, <1>4, FieldsAre
<1>6. Len(fields) = all /\ all \in Nat /\ k \in Nat
  <2>1. Len(fields) = all
    BY <1>2, <1>4, FieldsAre
  <2> HIDE DEF all
  <2> QED BY <1>3, <1>5, <2>1
<1> HIDE DEF all, k
<1>7. Min({k, all}) = k
  <2> DEFINE least == Min({k, all})
  <2>1. least \in {k, all} /\ least <= k /\ least <= all
    BY <1>6, LeastOfTwo
  <2> HIDE DEF least
  <2>2. least = k
    BY <1>3, <1>6, <2>1
  <2> QED BY <2>2 DEF least
<1> DEFINE start == SubSeq(fields, 1, k)
<1>8. start = Prefix(fields, k)
  BY <1>6, <1>7 DEF Prefix
<1>9. start \in Seq(r) /\ Len(start) = k /\ \A i \in 1..k : start[i] = fields[i]
  <2>1. \A i \in 1..k : fields[i] \in r
    BY <1>3, <1>5, <1>6
  <2>2. /\ start \in Seq(r) /\ Len(start) = (IF 1 <= k THEN k - 1 + 1 ELSE 0)
        /\ \A i \in 1..k - 1 + 1 : start[i] = fields[1 + i - 1]
    BY <1>6, <2>1, SubSeqProperties
  <2> HIDE DEF start
  <2> QED BY <1>6, <2>2
<1> HIDE DEF start
<1>10. got \in Seq(r)
  <2>1. Len(got) = k /\ DOMAIN got = 1..k
    BY <1>3 DEF k
  <2>2. \A i \in 1..k : got[i] \in r
    BY <1>3, <1>5, <1>6
  <2> QED BY <1>3, <1>6, <2>1, <2>2
<1>11. got = start
  <2>1. Len(got) = k
    BY DEF k
  <2> QED BY <1>3, <1>9, <1>10, <2>1, SeqEqual
<1>12. args.ended => got = fields
  <2> SUFFICES ASSUME args.ended PROVE got = fields
    OBVIOUS
  <2>1. Len(got) = Len(fields)
    BY <1>3, <1>6 DEF k
  <2>2. \A i \in 1..Len(got) : got[i] = fields[i]
    BY <1>3 DEF k
  <2> QED BY <1>5, <1>10, <2>1, <2>2, SeqEqual
<1> QED BY <1>8, <1>11, <1>12 DEF m, from, got, fields, k

(* Calls of strtok_s return the fields of the text they were started on, in *)
(* their order and all of them before a null pointer, and nothing more, but *)
(* for a text whose last field its end terminates: that one is returned     *)
(* again.  Calls of u16cstok return the fields of the text that was started *)
(* last, and then no more.                                                  *)
THEOREM TokenizersAlwaysAgree == StringsSpec => []TokenizersAgree
<1>1. FieldInv /\ WideInv => TokenizersAgree
  BY TokensHold, WideTokensHold DEF TokenizersAgree
<1> QED BY <1>1, FieldsAlways, WideAlways, PTL
=============================================================================
