---------------------------- MODULE SafeStrQuery ----------------------------
(* The string functions of safestringlib that only look: lengths, compares, *)
(* searches, character classes and the password test; and the tokenizer,    *)
(* which also writes the nulls that end its tokens.                         *)
EXTENDS SafeStr

CONSTANTS
    STRTOK_DELIM_MAX_LEN,           \* 16 in the code
    SAFE_STR_PASSWORD_MIN_LENGTH,   \* 6
    SAFE_STR_PASSWORD_MAX_LENGTH,   \* 32
    SAFE_STR_MIN_LOWERCASE,         \* 2
    SAFE_STR_MIN_UPPERCASE,         \* 2
    SAFE_STR_MIN_NUMBERS,           \* 1
    SAFE_STR_MIN_SPECIALS           \* 1

ASSUME SafeStrQueryAssumption ==
    /\ STRTOK_DELIM_MAX_LEN \in Nat
    /\ {SAFE_STR_MIN_LOWERCASE, SAFE_STR_MIN_UPPERCASE} \subseteq Nat \ {0}

\* A cell one past an object may be read: what lies there is the memory's
\* next cell, 0 after the last one.
Cell(m, a) == IF a \in DOMAIN m THEN m[a] ELSE 0

\* A plain char is signed in this build.
Char(c) == IF c > 127 THEN c - 256 ELSE c

toupper(c) == IF c \in Lower THEN c - 32 ELSE c

\* The memory as a loop over plain chars, or one that calls toupper, sees it.
AsChars(m) == [a \in DOMAIN m |-> Char(m[a])]
Folded(m) == [a \in DOMAIN m |-> toupper(m[a])]

\* Characters of the string at p that a loop bounded by max looks at.
Scanned(m, p, max) == Min({max, Length(m, p)})

strnlen_s(m, dest, dmax) ==
    IF dest = NULL \/ dmax = 0 \/ dmax > RSIZE_MAX_STR THEN 0
    ELSE Scanned(m, dest, dmax)

wcsnlen_s(m, dest, dmax) == strnlen_s(m, dest, dmax)

----------------------------------------------------------------------------
(* A query is [rc, out]: the out parameter is set to `unset` first, and to  *)
(* its result when no constraint is violated.                               *)

Query(checks, unset, result) ==
    LET hit == {i \in DOMAIN checks : checks[i][1]}
    IN  IF hit = {} THEN result ELSE [rc |-> checks[Min(hit)][2], out |-> unset]

Found(out) == [rc |-> EOK, out |-> out]

OutCheck(ptr) == << <<ptr = NULL, ESNULLP>> >>

\* dest, src, dmax, in this order.
PairChecks(dest, dmax, src) ==
    << <<dest = NULL, ESNULLP>>, <<src = NULL, ESNULLP>>,
       <<dmax = 0, ESZEROL>>, <<dmax > RSIZE_MAX_STR, ESLEMAX>> >>

LenChecks(slen) == << <<slen = 0, ESZEROL>>, <<slen > RSIZE_MAX_STR, ESLEMAX>> >>

----------------------------------------------------------------------------
(* Comparing.  The loop ends at dmax too, and the indicator is then the     *)
(* difference of the characters after the last one compared.                *)

Indicator(m, dest, src, stops) ==
    LET at == Min(stops)
    IN  Found(Cell(m, dest + at) - Cell(m, src + at))

(* Mutant: the loop runs over a difference. *)
EndOnly(m, dest, dmax, src) ==
    {dmax} \cup {i \in 0 .. dmax : Cell(m, dest + i) = 0 \/ Cell(m, src + i) = 0}

EndOrDiff(m, dest, dmax, src) ==
    {dmax} \cup {i \in 0 .. dmax : \/ Cell(m, dest + i) = 0 \/ Cell(m, src + i) = 0
                                   \/ Cell(m, dest + i) # Cell(m, src + i)}

strcmp_s(m, dest, dmax, src, indicator) ==
    Query(OutCheck(indicator) \o PairChecks(dest, dmax, src), 0,
          Indicator(AsChars(m), dest, src, EndOrDiff(m, dest, dmax, src)))

strcasecmp_s(m, dest, dmax, src, indicator) ==
    Query(OutCheck(indicator) \o PairChecks(dest, dmax, src), 0,
          Indicator(Folded(m), dest, src, EndOrDiff(Folded(m), dest, dmax, src)))

\* A field has no terminator: only a difference or dmax ends the loop.
strcmpfld_s(m, dest, dmax, src, indicator) ==
    Query(OutCheck(indicator) \o PairChecks(dest, dmax, src), 0,
          Indicator(AsChars(m), dest, src,
                    {dmax} \cup {i \in 0 .. dmax : Cell(m, dest + i) # Cell(m, src + i)}))

----------------------------------------------------------------------------
(* Positions.                                                               *)

\* The first or the last of a set of offsets, or the code for none.
FirstAt(offsets, none, unset) ==
    IF offsets = {} THEN [rc |-> none, out |-> unset] ELSE Found(Min(offsets))

LastAt(offsets, none, unset) ==
    IF offsets = {} THEN [rc |-> none, out |-> unset] ELSE Found(Max(offsets))

\* Offsets at which both strings have characters within dmax.
Common(m, dest, dmax, src) ==
    0 .. Min({dmax, Length(m, dest), Length(m, src)}) - 1

Same(m, dest, dmax, src) == {i \in Common(m, dest, dmax, src) : m[dest + i] = m[src + i]}

Differing(m, dest, dmax, src) == Common(m, dest, dmax, src) \ Same(m, dest, dmax, src)

strfirstdiff_s(m, dest, dmax, src, index) ==
    Query(OutCheck(index) \o PairChecks(dest, dmax, src), 0,
          FirstAt(Differing(m, dest, dmax, src), ESNODIFF, 0))

strlastdiff_s(m, dest, dmax, src, index) ==
    Query(OutCheck(index) \o PairChecks(dest, dmax, src), 0,
          LastAt(Differing(m, dest, dmax, src), ESNODIFF, 0))

strfirstsame_s(m, dest, dmax, src, index) ==
    Query(OutCheck(index) \o PairChecks(dest, dmax, src), 0,
          FirstAt(Same(m, dest, dmax, src), ESNOTFND, 0))

strlastsame_s(m, dest, dmax, src, index) ==
    Query(OutCheck(index) \o PairChecks(dest, dmax, src), 0,
          LastAt(Same(m, dest, dmax, src), ESNOTFND, 0))

\* Addresses of the character c in the string.
At(m, dest, dmax, c) == {a \in dest .. dest + Scanned(m, dest, dmax) - 1 : m[a] = c}

CharChecks(dest, dmax, ptr) ==
    OutCheck(ptr) \o << <<dest = NULL, ESNULLP>>, <<dmax = 0, ESZEROL>>,
                        <<dmax > RSIZE_MAX_STR, ESLEMAX>> >>

strfirstchar_s(m, dest, dmax, c, first) ==
    Query(CharChecks(dest, dmax, first), NULL, FirstAt(At(m, dest, dmax, c), ESNOTFND, NULL))

strlastchar_s(m, dest, dmax, c, last) ==
    Query(CharChecks(dest, dmax, last), NULL, LastAt(At(m, dest, dmax, c), ESNOTFND, NULL))

strprefix_s(m, dest, dmax, src) ==
    LET checks == PairChecks(dest, dmax, src) \o << <<Cell(m, src) = 0, ESNOTFND>> >>
    IN  Query(checks, NULL,
              [rc |-> IF \A i \in 0 .. Scanned(m, src, dmax) - 1 :
                            Cell(m, dest + i) = m[src + i]
                      THEN EOK ELSE ESNOTFND, out |-> NULL])

----------------------------------------------------------------------------
(* Searching.                                                               *)

\* Addresses at which all of src (slen characters at most) matches within dmax.
Matches(m, dest, dmax, src, slen) ==
    LET n == Scanned(m, src, slen)
    IN  {a \in dest .. dest + Scanned(m, dest, dmax) - 1 :
            /\ n <= dmax - (a - dest)
            /\ \A i \in 0 .. n - 1 : Cell(m, a + i) = m[src + i]}

SubstringChecks(dest, dmax, src, slen, substring) ==
    CharChecks(dest, dmax, substring) \o << <<src = NULL, ESNULLP>> >> \o LenChecks(slen)

Substring(m, dest, dmax, src, slen, substring) ==
    Query(SubstringChecks(dest, dmax, src, slen, substring), NULL,
          IF m[src] = 0 \/ dest = src THEN Found(dest)
          ELSE FirstAt(Matches(m, dest, dmax, src, slen), ESNOTFND, NULL))

strstr_s(m, dest, dmax, src, slen, substring) ==
    Substring(m, dest, dmax, src, slen, substring)

strcasestr_s(m, dest, dmax, src, slen, substring) ==
    Substring(Folded(m), dest, dmax, src, slen, substring)

\* The characters of the list at src, slen of them at most.
Chars(m, src, slen) == {m[a] : a \in src .. src + Scanned(m, src, slen) - 1}

SpanChecks(dest, dmax, src, slen, count) ==
    OutCheck(count) \o PairChecks(dest, dmax, src) \o LenChecks(slen)

\* Characters before the first one in (out of) the set.
strcspn_s(m, dest, dmax, src, slen, count) ==
    LET n == Scanned(m, dest, dmax)
    IN  Query(SpanChecks(dest, dmax, src, slen, count), 0,
              Found(Min({n} \cup {i \in 0 .. n - 1 : m[dest + i] \in Chars(m, src, slen)})))

strspn_s(m, dest, dmax, src, slen, count) ==
    LET n == Scanned(m, dest, dmax)
    IN  Query(SpanChecks(dest, dmax, src, slen, count), 0,
              Found(Min({n} \cup {i \in 0 .. n - 1 : m[dest + i] \notin Chars(m, src, slen)})))

\* slen is decremented but never tested: the whole list counts.
strpbrk_s(m, dest, dmax, src, slen, first) ==
    Query(SpanChecks(dest, dmax, src, slen, first), NULL,
          FirstAt({a \in dest .. dest + Scanned(m, dest, dmax) - 1 :
                        m[a] \in Chars(m, src, RSIZE_MAX_STR)}, ESNOTFND, NULL))

----------------------------------------------------------------------------
(* Character classes.                                                       *)

Usable(dest, dmax) == dest # NULL /\ dmax # 0 /\ dmax <= RSIZE_MAX_STR

\* The first `max` characters of the string are in the class.
AllIn(m, dest, max, class) ==
    \A i \in 0 .. Scanned(m, dest, max) - 1 : m[dest + i] \in class

strisascii_s(m, dest, dmax) == Usable(dest, dmax) /\ AllIn(m, dest, dmax, 0 .. 127)

strisalphanumeric_s(m, dest, dmax) ==
    Usable(dest, dmax) /\ m[dest] # 0 /\ AllIn(m, dest, dmax, Digit \cup Lower \cup Upper)

strishex_s(m, dest, dmax) ==
    Usable(dest, dmax) /\ m[dest] # 0 /\ AllIn(m, dest, dmax, Digit \cup (97 .. 102) \cup (65 .. 70))

strislowercase_s(m, dest, dmax) ==
    Usable(dest, dmax) /\ m[dest] # 0 /\ AllIn(m, dest, dmax, Lower)

\* The next three run to the terminating null, whatever dmax.
strisdigit_s(m, dest, dmax) ==
    Usable(dest, dmax) /\ m[dest] # 0 /\ AllIn(m, dest, RSIZE_MAX_STR, Digit)

strisuppercase_s(m, dest, dmax) ==
    Usable(dest, dmax) /\ m[dest] # 0 /\ AllIn(m, dest, RSIZE_MAX_STR, Upper)

strismixedcase_s(m, dest, dmax) ==
    Usable(dest, dmax) /\ m[dest] # 0 /\ AllIn(m, dest, RSIZE_MAX_STR, Lower \cup Upper)

Special == (33 .. 47) \cup (58 .. 64) \cup (91 .. 96) \cup (123 .. 126)

strispassword_s(m, dest, dmax) ==
    LET len == Length(m, dest)
        Count(class) == Cardinality({i \in 0 .. len - 1 : m[dest + i] \in class})
    IN  /\ dest # NULL
        /\ dmax \in SAFE_STR_PASSWORD_MIN_LENGTH .. SAFE_STR_PASSWORD_MAX_LENGTH
        /\ m[dest] # 0
        /\ len <= dmax
        /\ AllIn(m, dest, len, Digit \cup Lower \cup Upper \cup Special)
        /\ len < SAFE_STR_PASSWORD_MAX_LENGTH
        /\ Count(Digit) >= SAFE_STR_MIN_NUMBERS
        /\ Count(Lower) >= SAFE_STR_MIN_LOWERCASE
        /\ Count(Upper) >= SAFE_STR_MIN_UPPERCASE
        /\ Count(Special) >= SAFE_STR_MIN_SPECIALS

----------------------------------------------------------------------------
(* strtok_s.  dmax and ptr are in-out: the result holds their new values.   *)

(* Mutant: the token ends at the last delimiter. *)
TokenEndAtLast(m, at, begin, delims) ==
    Max({begin + 1} \cup {i \in begin + 1 .. Length(m, at) - 1 : m[at + i] \in delims})

\* Offset behind the token that begins at `begin`.
TokenEnd(m, at, begin, delims) ==
    Min({Length(m, at)} \cup {i \in begin + 1 .. Length(m, at) - 1 : m[at + i] \in delims})

\* The token found from `at` on.
Token(m, at, dmax, src, ptr) ==
    LET len == Length(m, at)
        delims == Chars(m, src, STRTOK_DELIM_MAX_LEN)
        short == Length(m, src) <= STRTOK_DELIM_MAX_LEN
        \* an empty list makes every character part of the gap
        begin == Min({len} \cup {i \in 0 .. len - 1 : delims # {} /\ m[at + i] \notin delims})
        end == TokenEnd(m, at, begin, delims)
        No(p, left) == [tok |-> NULL, ptr |-> p, dmax |-> left, mem |-> m]
    IN  \* dest unterminated, or a list that is too long
        IF \/ begin >= dmax /\ len > dmax
           \/ begin < len /\ ~short
           \/ begin < len /\ end >= dmax /\ len > dmax
        THEN No(NULL, dmax)
        ELSE IF begin = len THEN No(ptr, dmax - len)
        ELSE IF end < len
        THEN [tok |-> at + begin, ptr |-> at + end + 1, dmax |-> dmax - end - 1,
              mem |-> Stored(m, at + end, 1, 0)]
        ELSE [tok |-> at + begin, ptr |-> ptr, dmax |-> dmax - len, mem |-> m]

strtok_s(m, dest, dmax, src, ptr) ==
    IF dmax = 0 \/ dmax > RSIZE_MAX_STR \/ src = NULL
    THEN [tok |-> NULL, ptr |-> ptr, dmax |-> dmax, mem |-> m]
    ELSE Token(m, IF dest = NULL THEN ptr ELSE dest, dmax, src, ptr)
============================================================================
