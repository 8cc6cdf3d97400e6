------------------------------ MODULE SafeMem ------------------------------
(* The memory half of safestringlib: mem_primitives_lib.c and the           *)
(* bounds-checked mem*_s and wmem*_s functions built on it.                 *)
(*                                                                          *)
(* Memory is a function from the addresses 0 .. N to values; a cell is one  *)
(* element of the function's type (byte, uint16_t, uint32_t or wchar_t).  A *)
(* call is an operator from the memory before and its arguments to the      *)
(* record [rc, mem] (and [rc, diff] for the comparisons).                   *)
EXTENDS Integers, Sequences, FiniteSetsExt, SequencesExt

CONSTANTS
    WordSize,        \* sizeof(uint32_t): 4 in the code
    Unroll,          \* stores in one block of the unrolled loops: 16 in the code
    RSIZE_MAX_MEM,   \* 256UL << 20 in the code
    UINT_MAX         \* of an int, and of the cells of memcmp32_s: 2^32 - 1

ASSUME SafeMemAssumption ==
    /\ WordSize \in Nat \ {0} /\ Unroll \in Nat \ {0}
    /\ RSIZE_MAX_MEM \in Nat
    /\ UINT_MAX \in Nat /\ UINT_MAX % 2 = 1

NULL == -1
EOK == 0
ESNULLP == 400
ESZEROL == 401
ESLEMIN == 402
ESLEMAX == 403
ESOVRLP == 404
ESEMPTY == 405
ESNOSPC == 406
ESUNTERM == 407
ESNODIFF == 408
ESNOTFND == 409
ESBADFMT == 410
ESFMTTYP == 411

RSIZE_MAX_MEM16 == RSIZE_MAX_MEM \div 2
RSIZE_MAX_MEM32 == RSIZE_MAX_MEM \div 4

----------------------------------------------------------------------------
(* mem_primitives_lib.c.                                                    *)

\* Store value into the n cells from p on.
Stored(m, p, n, value) ==
    [a \in DOMAIN m |-> IF a \in p .. p + n - 1 THEN value ELSE m[a]]

\* Copy n cells at once, as one load and one store do.
Loaded(m, d, s, n) ==
    [a \in DOMAIN m |-> IF a \in d .. d + n - 1 THEN m[s + (a - d)] ELSE m[a]]

\* What the unrolled "while (len != 0) switch (len)" loops store: whole blocks,
\* then the fall-through cases finish the rest.
Stores(len) == (len \div Unroll) * Unroll + (len % Unroll)

\* Bytes up to the first word boundary, then words, then the rest.
mem_prim_set(m, dest, len, value) ==
    LET head == Min({len, (WordSize - (dest % WordSize)) % WordSize})
        words == Stores((len - head) \div WordSize)
        tail == (len - head) % WordSize
        body == Stored(Stored(m, dest, head, value),
                       dest + head, words * WordSize, value)
    IN  Stored(body, dest + head + words * WordSize, tail, value)

mem_prim_set16(m, dp, len, value) == Stored(m, dp, Stores(len), value)

mem_prim_set32(m, dp, len, value) == Stored(m, dp, Stores(len), value)

\* Single bytes to copy until both pointers are on a word boundary: none when
\* they are, all when they never are both.
AlignBytes(dest, src, len, forward) ==
    LET Low(p) == (IF forward THEN p ELSE p + len) % WordSize
        short == IF forward THEN len < WordSize ELSE len <= WordSize
    IN  IF Low(dest) = 0 /\ Low(src) = 0 THEN 0
        ELSE IF Low(dest) # Low(src) \/ short THEN len
        ELSE IF forward THEN WordSize - Low(src) ELSE Low(src)

\* The loads and stores of mem_prim_move in order, each [d, s, n].  Forward
\* when dest is below src, backward otherwise; single bytes, then words, then
\* the remaining bytes.
MovePlan(dest, src, len) ==
    LET forward == dest < src
        head == AlignBytes(dest, src, len, forward)
        words == (len - head) \div WordSize
        tail == (len - head) % WordSize
        Bytes(from, n) == [i \in 1 .. n |-> [at |-> from + i - 1, n |-> 1]]
        chunks == Bytes(0, head)
                  \o [i \in 1 .. words |->
                        [at |-> head + (i - 1) * WordSize, n |-> WordSize]]
                  \o Bytes(head + words * WordSize, tail)
        Offset(c) == IF forward THEN c.at ELSE len - c.at - c.n
    IN  [i \in DOMAIN chunks |->
            [d |-> dest + Offset(chunks[i]), s |-> src + Offset(chunks[i]),
             n |-> chunks[i].n]]

(* Mutant: always upwards, as memcpy does. *)
CellPlanUpwards(dp, sp, len) ==
    [i \in 1 .. Stores(len) |-> [d |-> dp + i - 1, s |-> sp + i - 1, n |-> 1]]

\* The loads and stores of mem_prim_move8/16/32: one cell at a time.
CellPlan(dp, sp, len) ==
    [i \in 1 .. Stores(len) |->
        LET at == IF dp < sp THEN i - 1 ELSE len - i
        IN  [d |-> dp + at, s |-> sp + at, n |-> 1]]

\* Carry out a plan, one load and store after the other.
Moved(m, plan) ==
    FoldLeft(LAMBDA mem, c : Loaded(mem, c.d, c.s, c.n), m, plan)

mem_prim_move(m, dest, src, len) == Moved(m, MovePlan(dest, src, len))

mem_prim_move8(m, dp, sp, len) == Moved(m, CellPlan(dp, sp, len))

mem_prim_move16(m, dp, sp, len) == Moved(m, CellPlan(dp, sp, len))

mem_prim_move32(m, dp, sp, len) == Moved(m, CellPlan(dp, sp, len))

\* mem_prim_move on wide characters: byte addresses are multiples of the word
\* size, so that every chunk of the plan is one cell.
WideMoved(m, dest, src, len) ==
    LET plan == MovePlan(dest * WordSize, src * WordSize, len * WordSize)
    IN  Moved(m, [i \in DOMAIN plan |->
                    [d |-> plan[i].d \div WordSize, s |-> plan[i].s \div WordSize,
                     n |-> plan[i].n \div WordSize]])

----------------------------------------------------------------------------
(* Runtime constraints.  A check is <<condition, code, clears>>: the first  *)
(* condition that holds ends the call with its code, after the destination  *)
(* has been cleared where the code says so.                                 *)

Checked(m, dest, dmax, checks, result) ==
    LET hit == {i \in DOMAIN checks : checks[i][1]}
        c == checks[Min(hit)]
    IN  IF hit = {} THEN result
        ELSE [rc |-> c[2],
              mem |-> IF c[3] THEN Stored(m, dest, dmax, 0) ELSE m]

Done(m) == [rc |-> EOK, mem |-> m]

\* The constraints every writing function tests first.
DestChecks(dest, dmax, max) ==
    << <<dest = NULL, ESNULLP, FALSE>>,
       <<dmax = 0, ESZEROL, FALSE>>,
       <<dmax > max, ESLEMAX, FALSE>> >>

CopyChecks(dest, dmax, src, smax, max) ==
    DestChecks(dest, dmax, max)
    \o << <<smax = 0, ESZEROL, TRUE>>,
          <<smax > dmax, ESLEMAX, TRUE>>,
          <<src = NULL, ESNULLP, TRUE>> >>

Overlap(dest, dmax, src, smax) ==
    \/ dest > src /\ dest < src + smax
    \/ src > dest /\ src < dest + dmax

OverlapCheck(dest, dmax, src, smax) ==
    << <<Overlap(dest, dmax, src, smax), ESOVRLP, TRUE>> >>

----------------------------------------------------------------------------
(* memcpy*_s, memmove*_s, memset*_s, memzero*_s.                            *)

memcpy_s(m, dest, dmax, src, smax) ==
    Checked(m, dest, dmax,
            CopyChecks(dest, dmax, src, smax, RSIZE_MAX_MEM)
                \o OverlapCheck(dest, dmax, src, smax),
            Done(mem_prim_move(m, dest, src, smax)))

memcpy16_s(m, dest, dmax, src, smax) ==
    Checked(m, dest, dmax,
            CopyChecks(dest, dmax, src, smax, RSIZE_MAX_MEM16)
                \o OverlapCheck(dest, dmax, src, smax),
            Done(mem_prim_move16(m, dest, src, smax)))

memcpy32_s(m, dest, dmax, src, smax) ==
    Checked(m, dest, dmax,
            CopyChecks(dest, dmax, src, smax, RSIZE_MAX_MEM32)
                \o OverlapCheck(dest, dmax, src, smax),
            Done(mem_prim_move32(m, dest, src, smax)))

wmemcpy_s(m, dest, dmax, src, smax) ==
    Checked(m, dest, dmax,
            CopyChecks(dest, dmax, src, smax, RSIZE_MAX_MEM)
                \o OverlapCheck(dest, dmax, src, smax),
            Done(WideMoved(m, dest, src, smax)))

memmove_s(m, dest, dmax, src, smax) ==
    Checked(m, dest, dmax, CopyChecks(dest, dmax, src, smax, RSIZE_MAX_MEM),
            Done(mem_prim_move(m, dest, src, smax)))

memmove16_s(m, dest, dmax, src, smax) ==
    Checked(m, dest, dmax, CopyChecks(dest, dmax, src, smax, RSIZE_MAX_MEM16),
            Done(mem_prim_move16(m, dest, src, smax)))

memmove32_s(m, dest, dmax, src, smax) ==
    Checked(m, dest, dmax, CopyChecks(dest, dmax, src, smax, RSIZE_MAX_MEM32),
            Done(mem_prim_move32(m, dest, src, smax)))

wmemmove_s(m, dest, dmax, src, smax) ==
    Checked(m, dest, dmax,
            CopyChecks(dest, dmax, src, smax, RSIZE_MAX_MEM32),
            Done(WideMoved(m, dest, src, smax)))

memset_s(m, dest, len, value) ==
    Checked(m, dest, len, DestChecks(dest, len, RSIZE_MAX_MEM),
            Done(mem_prim_set(m, dest, len, value)))

memset16_s(m, dest, len, value) ==
    Checked(m, dest, len, DestChecks(dest, len, RSIZE_MAX_MEM16),
            Done(mem_prim_set16(m, dest, len, value)))

memset32_s(m, dest, len, value) ==
    Checked(m, dest, len, DestChecks(dest, len, RSIZE_MAX_MEM32),
            Done(mem_prim_set32(m, dest, len, value)))

wmemset_s(m, dest, len, value) ==
    Checked(m, dest, len, DestChecks(dest, len, RSIZE_MAX_MEM32),
            Done(mem_prim_set32(m, dest, len, value)))

memzero_s(m, dest, len) == memset_s(m, dest, len, 0)

memzero16_s(m, dest, len) == memset16_s(m, dest, len, 0)

memzero32_s(m, dest, len) == memset32_s(m, dest, len, 0)

----------------------------------------------------------------------------
(* memcmp*_s.  diff is the pointer argument: NULL or not.                   *)

INT_MAX == UINT_MAX \div 2
INT_MIN == -INT_MAX - 1

\* A difference of two cells stored into an int.
AsInt(x) ==
    LET w == x % (UINT_MAX + 1)
    IN  IF w <= INT_MAX THEN w ELSE w - (UINT_MAX + 1)

DifferingCells(m, dest, src, smax) == {i \in 0 .. smax - 1 : m[dest + i] # m[src + i]}

\* The difference of the first two cells that differ.
FirstDifference(m, dest, src, smax) ==
    LET at == Min(DifferingCells(m, dest, src, smax)) IN m[dest + at] - m[src + at]

\* `unequal` is what *diff becomes when cells differ.
Compared(m, dest, dmax, src, smax, diff, max, unequal) ==
    LET checks == << <<diff = NULL, ESNULLP, FALSE>>, <<dest = NULL, ESNULLP, FALSE>>,
                     <<src = NULL, ESNULLP, FALSE>>, <<dmax = 0, ESZEROL, FALSE>>,
                     <<dmax > max, ESLEMAX, FALSE>>, <<smax = 0, ESZEROL, FALSE>>,
                     <<smax > dmax, ESLEMAX, FALSE>> >>
        hit == {i \in DOMAIN checks : checks[i][1]}
    IN  IF hit # {} THEN [rc |-> checks[Min(hit)][2], diff |-> -1]
        ELSE [rc |-> EOK,
              diff |-> IF dest = src \/ DifferingCells(m, dest, src, smax) = {} THEN 0
                       ELSE unequal]

memcmp_s(m, dest, dmax, src, smax, diff) ==
    Compared(m, dest, dmax, src, smax, diff, RSIZE_MAX_MEM,
             IF FirstDifference(m, dest, src, smax) < 0 THEN -1 ELSE 1)

memcmp16_s(m, dest, dmax, src, smax, diff) ==
    Compared(m, dest, dmax, src, smax, diff, RSIZE_MAX_MEM16,
             FirstDifference(m, dest, src, smax))

memcmp32_s(m, dest, dmax, src, smax, diff) ==
    Compared(m, dest, dmax, src, smax, diff, RSIZE_MAX_MEM32,
             AsInt(FirstDifference(m, dest, src, smax)))

wmemcmp_s(m, dest, dmax, src, smax, diff) ==
    Compared(m, dest, dmax, src, smax, diff, RSIZE_MAX_MEM32,
             AsInt(FirstDifference(m, dest, src, smax)))
============================================================================
