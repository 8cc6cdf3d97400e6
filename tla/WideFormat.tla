----------------------------- MODULE WideFormat -----------------------------
(* Numbers and formats as text: _i64toa and _ui64toa, u16cstol and u16cstoi, *)
(* and vsu16printf.  A text is a sequence of one-character strings.          *)
EXTENDS SafeFormat, WideStr

CONSTANT UINT64_MAX    \* of 64 bits: 2^64 - 1

ASSUME WideFormatAssumption == UINT64_MAX \in Nat /\ UINT64_MAX % 2 = 1

Letters == <<"a", "b", "c", "d", "e", "f", "g", "h", "i", "j", "k", "l", "m",
             "n", "o", "p", "q", "r", "s", "t", "u", "v", "w", "x", "y", "z">>
DigitChars == <<"0", "1", "2", "3", "4", "5", "6", "7", "8", "9">> \o Letters
HexUpper == <<"A", "B", "C", "D", "E", "F">>

\* The greatest unsigned long of the 32-bit builds and of the 64-bit one: what
\* depends on the width of a long takes it as the parameter ulong.
LongMaxes == {UINT_MAX, UINT64_MAX}

\* The bits of a number as one from 0 to max, and in two's complement.
Unsigned(v, max) == v % (max + 1)
Signed(v, max) == LET u == Unsigned(v, max) IN IF u <= max \div 2 THEN u ELSE u - max - 1

SignedRange(max) == -(max \div 2) - 1 .. max \div 2

\* The stack of remainders, popped: zero has no digits.
Digits(v, radix) ==
    LET of[x \in 0 .. v] ==
            IF x = 0 THEN <<>> ELSE Append(of[x \div radix], DigitChars[(x % radix) + 1])
    IN  of[v]

\* What printf and the streams write: zero is one digit.
Decimal(v) == IF v = 0 THEN <<"0">>
              ELSE IF v < 0 THEN <<"-">> \o Digits(-v, 10) ELSE Digits(v, 10)
Based(v, radix) == IF v = 0 THEN <<"0">> ELSE Digits(v, radix)

Unset == <<"unset">>
Undefined == -2

\* Written only when the radix is one; ret is the buffer in any case.  In
\* decimal, %ld and %lu take a long of the 64-bit argument, its low word.
_i64toa(value, radix, ulong) ==
    IF radix \notin 2 .. 36 THEN Unset
    ELSE IF radix = 10 THEN Decimal(Signed(value, ulong))
    ELSE Digits(Unsigned(value, UINT64_MAX), radix)

_ui64toa(value, radix, ulong) ==
    IF radix \notin 2 .. 36 THEN Unset
    ELSE IF radix = 10 THEN Decimal(Unsigned(value, ulong)) ELSE Digits(value, radix)

----------------------------------------------------------------------------

\* atoi and strtol on a text: a sign and the digits that follow it.
Parsed(text, radix) ==
    LET sign == IF text # <<>> /\ text[1] \in {"-", "+"} THEN 1 ELSE 0
        Value(c) == Min({radix} \cup {d \in 0 .. radix - 1 : DigitChars[d + 1] = c})
        end == Min({i \in sign + 1 .. Len(text) + 1 :
                        i > Len(text) \/ Value(text[i]) = radix})
        v == FoldLeft(LAMBDA acc, c : acc * radix + Value(c), 0, SubSeq(text, sign + 1, end - 1))
    IN  [digits |-> end - 1 - sign, value |-> IF sign = 1 /\ text[1] = "-" THEN -v ELSE v]

\* atoi is the int of the long that strtol gives, the nearest one when the
\* number is none.
u16cstoi(wcstr, ulong) ==
    LET v == Parsed(wcstr, 10).value
        Clamp(r) == IF v \in r THEN v ELSE IF v < 0 THEN Min(r) ELSE Max(r)
    IN  Signed(Clamp(SignedRange(ulong)), UINT_MAX)

\* The source is converted to ASCII with its zero.  What iconv does not reach,
\* after a character it cannot convert, and all of it when str is empty
\* (u16cslen + 1 is 0), leaves std::stol what the work buffer held: leftover.
\* An exception of stol, without digits or out of the range of a long, is
\* caught and makes the result 0.
u16cstol(str, base, leftover, ulong) ==
    LET wide == Min({i \in 1 .. Len(str) + 1 : i > Len(str) \/ str[i] = "wide"})
        reached == str # <<>> /\ wide > Len(str)
        p == Parsed(SubSeq(str, 1, wide - 1) \o (IF reached THEN <<>> ELSE leftover), base)
    IN  IF p.digits = 0 \/ p.value \notin SignedRange(ulong) THEN 0 ELSE p.value

----------------------------------------------------------------------------
(* vsu16printf.  args are the arguments: numbers, characters and texts.     *)

Rendered(conv, arg, max) ==
    LET u == Unsigned(arg, max)
        hex == Based(u, 16)
    IN  IF conv = "d" THEN Decimal(arg)
        ELSE IF conv = "u" THEN Based(u, 10)
        ELSE IF conv = "o" THEN Based(u, 8)
        ELSE IF conv = "x" THEN hex
        ELSE [i \in DOMAIN hex |->
                LET d == {k \in 1 .. 6 : Letters[k] = hex[i]}
                IN  IF d = {} THEN hex[i] ELSE HexUpper[Max(d)]]

\* memset writes width zeros, the text goes over the last of them.
Padded(text, width) ==
    IF width > Len(text) THEN [i \in 1 .. width - Len(text) |-> "0"] \o text ELSE text

\* One round of the loop at i: the index of the next, the text written and the
\* arguments used; or an error.  The digits of a width are collected in an
\* array that is not terminated: leftover are the digits that follow them.
\* After %l an unknown character is skipped, the format's own zero included.
PrintStep(f, i, args, leftover, ulong) ==
    LET conv == FormatChar(f, i + 1)
        end == SkipDigits(f, i + 1)
        padded == FormatChar(f, end)
        after == FormatChar(f, i + 2)
        width == Parsed(SubSeq(f, i + 1, end - 1) \o leftover, 10).value
        Step(next, text, used) == [next |-> next, text |-> text, used |-> used, ok |-> TRUE]
        Wrong == [next |-> 0, text |-> <<>>, used |-> 0, ok |-> FALSE]
    IN  IF f[i] # "%" THEN Step(i + 1, <<f[i]>>, 0)
        ELSE IF conv = "0"
        THEN IF padded \in {"d", "x", "X"}
             THEN Step(end + 1, Padded(Rendered(padded, args[1], UINT_MAX), width), 1) ELSE Wrong
        ELSE IF conv = "c" THEN Step(i + 2, <<args[1]>>, 1)
        ELSE IF conv \in {"d", "u", "o", "x", "X"}
        THEN Step(i + 2, Rendered(conv, args[1], UINT_MAX), 1)
        ELSE IF conv = "s" THEN Step(i + 2, args[1], 1)
        ELSE IF conv = "l"
        THEN IF after \in {"d", "u", "o", "x"}
             THEN Step(i + 3, Rendered(after, args[1], ulong), 1) ELSE Step(i + 3, <<>>, 0)
        ELSE IF conv = "%" THEN Step(i + 2, <<"%">>, 0) ELSE Wrong

\* The end of the loop: the work buffer, terminated, goes to u16buffer.  ret is
\* Undefined when the format is left behind or the work buffer is full.
Emitted(maxlen, printed) ==
    LET cells == printed.text \o <<"end">>
    IN  IF printed.ret # 0 THEN [ret |-> printed.ret, out |-> <<>>]
        ELSE IF Len(cells) > 2 * HEAP_WORK_SIZE THEN [ret |-> Undefined, out |-> <<>>]
        ELSE [ret |-> 0, out |-> SubSeq(cells, 1, Min({maxlen, Len(cells)}))]

\* [ret, out]: out are the cells stored into u16buffer, none after an error.
vsu16printf(maxlen, f, args, leftover, ulong) ==
    LET from[i \in 1 .. Len(f) + 2, n \in 1 .. Len(args) + 1] ==
            IF i > Len(f) THEN [ret |-> IF i = Len(f) + 1 THEN 0 ELSE Undefined, text |-> <<>>]
            ELSE LET s == PrintStep(f, i, SubSeq(args, n, Len(args)), leftover, ulong)
                     rest == from[s.next, n + s.used]
                 IN  IF ~s.ok THEN [ret |-> -1, text |-> <<>>]
                     ELSE [ret |-> rest.ret, text |-> s.text \o rest.text]
    IN  Emitted(maxlen, from[1, 1])

\* The caller's len is not passed on.
su16printf(len, f, args, leftover, ulong) == vsu16printf(SIZE_MAX, f, args, leftover, ulong)

\* What is printed: nothing is known of the buffer after an error.  Its 65536
\* cells are more than the work buffer's.
u16printf(f, args, leftover, ulong) ==
    LET r == vsu16printf(SIZE_MAX, f, args, leftover, ulong)
    IN  IF r.ret = 0 THEN r.out ELSE Unset
=============================================================================
