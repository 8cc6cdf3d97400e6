------------------------------ MODULE Strings ------------------------------
(* The string functions of Compat together: safestringlib, and the 16-bit   *)
(* strings, conversions and formats of tchar.cpp and stdlib_win.cpp.  The   *)
(* calls of SafeStringLib serve for the 16-bit functions of the same kind;  *)
(* the others have their own.                                               *)
EXTENDS SafeStringLib, WideText, WideFormat

CONSTANTS
    Texts, Rooms,             \* texts to convert, sizes of buffers
    Paths, Buffers,           \* paths to split and buffers for their parts
    Numbers, Radixes,
    WidePieces, OddFormats,   \* parts of good formats of each build, and bad formats
    MaxPieces,
    MaxTokens                 \* bound: calls of u16cstok

\* Nor is any larger than SIZE_MAX, the same number.
ASSUME StringsAssumption ==
    \A m \in CopyMemories \cup QueryMemories \cup TokenMemories : Cardinality(DOMAIN m) <= SIZE_MAX

CallConversion ==
    /\ family = "idle"
    /\ family' = "text"
    /\ \E t \in Texts, cp \in CodePages \cup {"CP_SYMBOL"}, r \in Rooms, c \in Rooms :
          args' = [text |-> t, cp |-> cp, room |-> r, count |-> c]
    /\ UNCHANGED mem

CallSplit ==
    /\ family = "idle"
    /\ family' = "path"
    /\ \E p \in Paths, b \in [1 .. 4 -> Buffers] : args' = [path |-> p, bufs |-> b]
    /\ UNCHANGED mem

CallNumber ==
    /\ family = "idle"
    /\ family' = "number"
    /\ \E v \in Numbers, r \in Radixes, ulong \in LongMaxes :
          args' = [value |-> v, radix |-> r, ulong |-> ulong]
    /\ UNCHANGED mem

CallPrint ==
    /\ family = "idle"
    /\ family' = "print"
    /\ \E n \in 0 .. MaxPieces, l \in {<<>>, <<"0">>, <<"7">>}, r \in Rooms, ulong \in LongMaxes :
          \E ps \in [1 .. n -> WidePieces[ulong]], f \in OddFormats \cup {<<>>} :
             args' = [pieces |-> ps, odd |-> f, leftover |-> l, room |-> r, ulong |-> ulong]
    /\ UNCHANGED mem

\* Two users of u16cstok: one may start a string of its own at any time.
Tokenized(m, from, got, n, r) ==
    /\ family' = "wtoken"
    /\ mem' = m
    /\ args' = [from |-> from, n |-> n + 1, ended |-> r.tok = "null",
                got |-> IF r.tok = "buffer" THEN Append(got, Text(r.buffer, 0)) ELSE got,
                static |-> [lastcursor |-> r.lastcursor, buffer |-> r.buffer]]

StartTokens ==
    /\ family = "idle"
    /\ \E m \in TokenMemories, p \in 0 .. Delimiters - 1 :
          Tokenized(m, p, <<>>, 0,
                    u16cstok(m, p, Delimiters, [lastcursor |-> NULL, buffer |-> <<>>]))

RestartTokens ==
    /\ family = "wtoken" /\ args.n < MaxTokens
    /\ \E p \in 0 .. Delimiters - 1 :
          Tokenized(mem, p, <<>>, args.n, u16cstok(mem, p, Delimiters, args.static))

ContinueTokens ==
    /\ family = "wtoken" /\ args.n < MaxTokens
    /\ Tokenized(mem, args.from, args.got, args.n, u16cstok(mem, NULL, Delimiters, args.static))

StringsNext ==
    \/ Next
    \/ CallConversion \/ CallSplit \/ CallNumber \/ CallPrint
    \/ StartTokens \/ RestartTokens \/ ContinueTokens

StringsSpec == Init /\ [][StringsNext]_vars

----------------------------------------------------------------------------

\* u16cscpy, u16csncpy and u16cscat store the promised text and change no other
\* cell, as long as the target does not start inside the source: then the copy
\* never meets the zero, which it has overwritten.
WideCopiesAreExact ==
    (family = "copy" /\ D # NULL /\ S # NULL) =>
        LET len == Length(mem, S)
            end == CatCursor(mem, D)
            Inside(p) == p \in S + 1 .. S + len
            Fits(p, n) == p + n - 1 \in DOMAIN mem
            n == Min({L, len + 1})
        IN  /\ ~Inside(D) /\ Fits(D, len + 1) => u16cscpy(mem, D, S) = Loaded(mem, D, S, len + 1)
            /\ ~Inside(D) /\ Fits(D, n) => u16csncpy(mem, D, S, L) = Loaded(mem, D, S, n)
            /\ ~Inside(end) /\ Fits(end, len + 1) =>
                    u16cscat(mem, D, S) = Loaded(mem, end, S, len + 1)
            /\ Inside(D) => RunsAway(mem, D, S, SIZE_MAX)

\* u16cscmp, u16csncmp and _u16csicmp answer with the order of the texts, of
\* their first characters, and of the texts without case; u16csstr finds the
\* first occurrence, and an empty text nowhere.
WideQueriesAgree ==
    (family = "query" /\ D # NULL /\ S # NULL) =>
        LET s == Text(mem, D)
            t == Text(mem, S)
            Low(x) == [i \in DOMAIN x |-> IF x[i] \in Upper THEN x[i] + 32 ELSE x[i]]
            at == {i \in 0 .. Len(s) - Len(t) : SubSeq(s, i + 1, i + Len(t)) = t}
        IN  /\ Sign(u16cscmp(mem, D, S)) = Order(s, t)
            /\ Sign(u16csncmp(mem, D, S, L)) = Order(Prefix(s, L), Prefix(t, L))
            /\ Sign(_u16csicmp(mem, D, S)) = Order(Low(s), Low(t))
            /\ u16csstr(mem, D, S) = IF t = <<>> \/ at = {} THEN NULL ELSE D + Min(at)

\* Calls of u16cstok with a list of delimiters return the fields of the string
\* that was started last, in their order and each with its own end, and then no
\* more: whatever was in the shared buffer, and wherever the cursor had been left
\* by another string.
WideTokensAreTheFields ==
    (family = "wtoken" /\ mem[Delimiters] # 0) =>
        LET fields == TextFields(mem, args.from)
        IN  /\ args.got = Prefix(fields, Len(args.got))
            /\ args.ended => args.got = fields

----------------------------------------------------------------------------

Wide == Utf16(args.text)
Multi == Utf8(args.text)

\* Asking for the size, allocating it and converting, there and back, keeps the
\* text, fills exactly what was asked for and leaves no converter open; the way
\* there is refused only for a character that the code page has not or a text
\* beyond the work buffer.  (An empty text has the size 0, not 1.)
ConversionsKeepText ==
    (family = "text" /\ args.text # <<>> /\ args.cp \in CodePages) =>
        LET n == WideCharToMultiByte(args.cp, Wide, -1, 0).ret
            there == WideCharToMultiByte(args.cp, Wide, -1, n)
            k == MultiByteToWideChar(args.cp, Multi, -1, 0).ret
            back == MultiByteToWideChar(args.cp, Multi, -1, k)
        IN  /\ n = -1 <=> \/ \E i \in DOMAIN args.text : ~Convertible(args.cp, args.text[i])
                          \/ Len(Multi) + 1 > HEAP_WORK_SIZE
            /\ n # -1 => there = Answer(n, Multi \o <<Zero>>, 0) /\ n = Len(Multi) + 1
            /\ n # -1 /\ k # -1 => back = Answer(Len(Wide) + 1, Wide, 0)

\* No conversion writes more than it has room for.  The two of Windows write all
\* or nothing; mbstou16cs_s and u16cstombs_s write the whole text with its zero
\* if there is room, and otherwise fill the room without one.
ConversionsFit ==
    (family = "text") =>
        LET room == Min({args.room, args.count})
            AllOrNothing(r, all) ==
                /\ Len(r.out) <= args.room
                /\ r.out \in {<<>>, all}
                /\ r.ret = -1 => r.out = <<>>
            Cut(r, all) ==
                IF Len(all) < room
                THEN r.out = all \o <<Zero>> /\ (all # <<>> => r.ret = Len(r.out))
                ELSE r.out = Prefix(all, room) /\ r.ret = room
        IN  /\ AllOrNothing(WideCharToMultiByte(args.cp, Wide, -1, args.room), Multi \o <<Zero>>)
            /\ AllOrNothing(MultiByteToWideChar(args.cp, Multi, -1, args.room), Wide)
            /\ args.count <= Len(Wide) =>
                 AllOrNothing(WideCharToMultiByte(args.cp, Wide, args.count, args.room),
                              Utf8(Decoded(Prefix(Wide, args.count), "char16_t")))
            /\ args.count <= Len(Multi) =>
                 AllOrNothing(MultiByteToWideChar(args.cp, Multi, args.count, args.room),
                              Utf16(Decoded(Prefix(Multi, args.count), "char")))
            /\ Cut(mbstou16cs_s(args.room, args.text, args.count), Wide)
            /\ Cut(u16cstombs_s(args.room, args.text, args.count), Multi)
            /\ mbstou16cs(args.text, room) = mbstou16cs_s(args.room, args.text, args.count)
            /\ u16cstombs(args.text, room) = u16cstombs_s(args.room, args.text, args.count)

\* _u16splitpath_s writes every part whole and terminated or leaves it empty,
\* never beyond its buffer although it compares bytes and copies units; with 0
\* all parts asked for are there, with ERANGE one of them had no room as bytes.
SplitPathsFit ==
    (family = "path") =>
        LET r == _u16splitpath_s(args.path, args.bufs)
            parts == PathParts(args.path)
            Whole16(i) == Utf16(parts[i]) \o <<Zero>>
        IN  /\ \A i \in 1 .. 4 : Len(r.out[i]) <= args.bufs[i].n
            /\ \A i \in 1 .. 4 : r.rc # EINVAL /\ args.bufs[i].ptr =>
                    r.out[i] \in {Whole16(i), <<Zero>>}
            /\ r.rc = 0 => \A i \in 1 .. 4 : args.bufs[i].ptr => r.out[i] = Whole16(i)
            /\ r.rc = ERANGE => \E i \in 1 .. 4 :
                    args.bufs[i].ptr /\ Len(Utf8(parts[i])) >= args.bufs[i].n

----------------------------------------------------------------------------

\* stdlib_win.cpp:20: a number written by _i64toa is read back by u16cstol in
\* the same base, and in decimal by u16cstoi, exactly when it fits the result.
\* One that does not fit a long of the build has lost its high word when it was
\* written in decimal, and reads as 0 in another base, as a negative one does
\* there.  _ui64toa writes the same as _i64toa if no word is lost.  Zero, which
\* has no digits unless they are decimal, does not come back: u16cstol then
\* reads an unset buffer.
NumbersReadBack ==
    (family = "number" /\ args.radix \in 2 .. 36) =>
        LET v == args.value
            decimal == args.radix = 10
            s == _i64toa(v, args.radix, args.ulong)
            fits == v \in SignedRange(args.ulong)
            Read(junk) == u16cstol(s, args.radix, junk, args.ulong)
        IN  /\ decimal => (u16cstoi(s, args.ulong) = v <=> v \in SignedRange(UINT_MAX))
            /\ \A junk \in {<<>>, <<"7">>} :
                 /\ v # 0 \/ decimal => (Read(junk) = v <=> fits /\ (decimal \/ v > 0))
                 /\ decimal => Unsigned(Read(junk), args.ulong) = Unsigned(v, args.ulong)
                 /\ ~decimal /\ (v < 0 \/ ~fits) => Read(junk) = 0
            /\ v > 0 /\ (fits \/ ~decimal) => s = _ui64toa(v, args.radix, args.ulong)
            /\ Len(s) > 1 => s[1] # "0"

\* vsu16printf writes what its format says, cut to maxlen, and su16printf all of
\* it whatever len is; a wrong format stores nothing.  Where digits happen to
\* follow a width in the unterminated array, the width is another.
FormatsRender ==
    (family = "print") =>
        LET ps == args.pieces
            f == Flat(ps) \o args.odd
            given == FlattenSeq([i \in DOMAIN ps |-> ps[i].args])
            out == FlattenSeq([i \in DOMAIN ps |-> ps[i].out]) \o <<"end">>
            r == vsu16printf(args.room, f, given, args.leftover, args.ulong)
        IN  IF args.odd # <<>>
            THEN r.ret # 0 /\ r.out = <<>> /\ u16printf(f, given, <<>>, args.ulong) = Unset
            ELSE ((\A i \in DOMAIN ps : ~ps[i].pads) \/ args.leftover = <<>>) =>
                    /\ r = [ret |-> 0, out |-> Prefix(out, args.room)]
                    /\ su16printf(args.room, f, given, args.leftover, args.ulong).out = out
                    /\ u16printf(f, given, args.leftover, args.ulong) = out

----------------------------------------------------------------------------

\* The word, byte and cell moves and fills of mem_primitives_lib.c, and the
\* mem*_s functions over them, have the effect of one simultaneous assignment.
MemoryIsExact ==
    MoveIsSimultaneous /\ WordsAreAligned /\ SetFillsExactly /\ MemoryCopiesAreExact

\* What a call of safestringlib writes is inside its object, except by the two
\* calls that run out of it (WritesStayInside names them); a dest whose call
\* fails is cleared, except by the calls that do not keep what is documented of
\* them (FailureLeavesNoPart names them); strtok_s stays in its string, and
\* constraint handlers can be put back.
FailuresAreContained ==
    /\ WritesStayInside /\ FailureLeavesNoPart
    /\ TokenizerStaysInside /\ HandlersCanBeRestored

\* The functions that write text, narrow and wide (strcpy_s, strcat_s, trims,
\* u16cscpy, u16cscat), leave exactly the text of their definition.
CopiesAreExact == StringCopiesAreExact /\ WideCopiesAreExact /\ TrimsAreExact

\* The functions that compare, search and classify, narrow and wide, agree
\* with the order of sequences and with each other.
QueriesAgree == ComparesAgree /\ SearchesAgree /\ ClassesAgree /\ WideQueriesAgree

\* Sequences of strtok_s and of u16cstok calls return the fields of the text and
\* then nothing, except that strtok_s returns a last field again that the end
\* of the text terminates (TokensAreTheFields).
TokenizersAgree == TokensAreTheFields /\ WideTokensAreTheFields

\* Conversions between 16-bit text and bytes, and the parts of a path, are
\* whole, within their buffers, and come back as the text they were.
ConversionsAreExact == ConversionsKeepText /\ ConversionsFit /\ SplitPathsFit

\* Typed snprintf_s, 16-bit formats, and numbers to and from text.  Formats of
\* snprintf_s with "%%" are excepted, against the comment snprintf_support.c:73
\* (the second sign is taken for a conversion), and so are those with the
\* modifier L; numbers come back exactly where NumbersReadBack says so.
FormatsAgree == FormatsAreTyped /\ FormatsRender /\ NumbersReadBack

============================================================================
