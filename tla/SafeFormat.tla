----------------------------- MODULE SafeFormat -----------------------------
(* snprintf_support.c of safestringlib: the parser that counts and types    *)
(* the conversions of a printf format, and the typed snprintf_s_* functions *)
(* that compare its answer with the arguments they were given.  A format is *)
(* a sequence of one-character strings.                                     *)
EXTENDS Integers, Sequences, FiniteSetsExt

CONSTANT MAX_FORMAT_ELEMENTS   \* 16 in the code

ASSUME SafeFormatAssumption == MAX_FORMAT_ELEMENTS \in Nat

FormatDigits == {"0", "1", "2", "3", "4", "5", "6", "7", "8", "9"}
FormatFlags == {"#", "0", "-", " ", "+"}

FormatChar(f, i) == IF i \in DOMAIN f THEN f[i] ELSE "end"

SkipDigits(f, i) == Min({j \in i .. Len(f) + 1 : FormatChar(f, j) \notin FormatDigits})

(* Mutant: 'hh' and 'll' are not known. *)
LengthModifierOnce(f, i) ==
    LET c == FormatChar(f, i)
    IN  [lmod |-> IF c \in {"h", "l", "L"} THEN c ELSE " ",
         at |-> IF c \in {"h", "l", "j", "z", "t"} THEN i + 1 ELSE i]

\* The length modifier at i, and the index of the conversion character.  For
\* 'L' the index stays where it is.
LengthModifier(f, i) ==
    LET c == FormatChar(f, i)
        twice == FormatChar(f, i + 1) = c
    IN  IF c = "h" THEN IF twice THEN [lmod |-> "H", at |-> i + 2]
                                 ELSE [lmod |-> "h", at |-> i + 1]
        ELSE IF c = "l" THEN IF twice THEN [lmod |-> "d", at |-> i + 2]
                                      ELSE [lmod |-> "l", at |-> i + 1]
        ELSE IF c = "L" THEN [lmod |-> "L", at |-> i]
        ELSE [lmod |-> " ", at |-> IF c \in {"j", "z", "t"} THEN i + 1 ELSE i]

Conversions ==
    [c |-> {"c"}, d |-> {"d", "i", "o", "u", "x", "X"},
     g |-> {"e", "E", "f", "F", "g", "G", "a", "A"}, s |-> {"s"}, p |-> {"p"},
     n |-> {"n"}, m |-> {"m"}]

\* FMT_* of a conversion, "none" where no argument is recorded.
FormatType(conv, lmod) ==
    LET Is(k) == conv \in Conversions[k]
    IN  IF Is("c") THEN IF lmod = "l" THEN "WCHAR" ELSE "CHAR"
        ELSE IF Is("d")
        THEN IF lmod = "H" THEN "CHAR" ELSE IF lmod = "l" THEN "LONG"
             ELSE IF lmod = "h" THEN "SHORT" ELSE "INT"
        ELSE IF Is("g") THEN IF lmod = "L" THEN "LDOUBLE" ELSE "DOUBLE"
        ELSE IF Is("s") THEN IF lmod \in {"l", "L"} THEN "WSTRING" ELSE "STRING"
        ELSE IF Is("p") THEN "VOID"
        ELSE IF Is("n")
        THEN IF lmod = "H" THEN "PCHAR" ELSE IF lmod = "l" THEN "PLONG"
             ELSE IF lmod = "h" THEN "PSHORT" ELSE "PINT"
        ELSE "none"

\* One round of the loop at index i: where the next round starts and the type
\* recorded.  After "%%" the next round starts at the second percent sign; a
\* conversion that is not recognised is not skipped.
FormatStep(f, i) ==
    LET afterFlag == IF FormatChar(f, i + 1) \in FormatFlags THEN i + 2 ELSE i + 1
        afterWidth == SkipDigits(f, afterFlag)
        afterPrecision == IF FormatChar(f, afterWidth) = "."
                          THEN SkipDigits(f, afterWidth + 1) ELSE afterWidth
        mod == LengthModifier(f, afterPrecision)
        conv == FormatChar(f, mod.at)
        known == \E k \in DOMAIN Conversions : conv \in Conversions[k]
    IN  IF f[i] # "%" \/ FormatChar(f, i + 1) \in {"end", "%"}
        THEN [next |-> i + 1, type |-> "none"]
        ELSE [next |-> IF known THEN mod.at + 1 ELSE mod.at,
              type |-> FormatType(conv, mod.lmod)]

parse_format(f, maxFormats) ==
    LET from[i \in 1 .. Len(f) + 1] ==
            IF i > Len(f) THEN <<>>
            ELSE LET step == FormatStep(f, i)
                 IN  (IF step.type = "none" THEN <<>> ELSE <<step.type>>) \o from[step.next]
        all == from[1]
    IN  SubSeq(all, 1, Min({Len(all), maxFormats}))

\* The types it accepts.
check_integer_format == {"CHAR", "SHORT", "INT"}

\* What a typed function answers: an error with dest emptied, or snprintf's.
\* `types` has the types each argument may have.
Typed(f, types) ==
    LET list == parse_format(f, MAX_FORMAT_ELEMENTS)
    IN  IF Len(list) # Len(types) THEN "ESBADFMT"
        ELSE IF \E i \in DOMAIN list : list[i] \notin types[i] THEN "ESFMTTYP" ELSE "snprintf"

snprintf_s_i(f) == Typed(f, <<check_integer_format>>)

snprintf_s_l(f) == Typed(f, << {"LONG"} >>)

snprintf_s_si(f) == Typed(f, << {"STRING"}, check_integer_format >>)

snprintf_s_sl(f) == Typed(f, << {"STRING"}, {"LONG"} >>)
============================================================================
