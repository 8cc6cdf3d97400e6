------------------------------ MODULE WideText ------------------------------
(* Text between char16_t and bytes: WideCharToMultiByte, MultiByteToWideChar *)
(* and _u16splitpath_s of tchar.cpp, mbstou16cs and u16cstombs of            *)
(* stdlib_win.cpp.  A text is a sequence of code points.  The units and the  *)
(* bytes of its encodings are pairs <<c, k>>, the k-th unit or byte of c, so *)
(* that a text cut within a character is told from a whole one.              *)
EXTENDS WideStr

Units(c) == IF c < 65536 THEN 1 ELSE 2
Bytes(c) == IF c < 128 THEN 1 ELSE IF c < 2048 THEN 2 ELSE IF c < 65536 THEN 3 ELSE 4

\* How many elements of a C type a character has.
Size(c, type) == IF type = "char" THEN Bytes(c) ELSE Units(c)

Encoded(text, type) ==
    FlattenSeq([i \in DOMAIN text |-> [k \in 1 .. Size(text[i], type) |-> <<text[i], k>>]])
Utf16(text) == Encoded(text, "char16_t")
Utf8(text) == Encoded(text, "char")

Zero == <<0, 1>>

\* The code points that are whole in a sequence of units or bytes.
Decoded(s, type) ==
    LET whole == SelectSeq([i \in DOMAIN s |-> i],
                    LAMBDA i : s[i][2] = 1 /\ i + Size(s[i][1], type) - 1 <= Len(s))
    IN  [j \in DOMAIN whole |-> s[whole[j]][1]]

----------------------------------------------------------------------------
(* iconv.  UCS-2 has no characters of two units; the code page of a program *)
(* that never calls setlocale is ASCII.  Of UTF-7 only the characters that  *)
(* stand for themselves are looked at.                                      *)

CodePages == {"CP_ACP", "CP_UTF7", "CP_UTF8"}

Convertible(cp, c) == IF cp = "CP_UTF8" THEN Units(c) = 1 ELSE c < 128

\* Whether iconv leaves nothing of the source: all its characters are whole and
\* can be converted, and the result fits into the work buffer.
ConvertsAll(cp, s, from, to, width) ==
    LET text == Decoded(s, from)
    IN  /\ \A i \in DOMAIN text : Convertible(cp, text[i])
        /\ Encoded(text, from) = s
        /\ Len(Encoded(text, to)) * width <= HEAP_WORK_SIZE

\* ret, the units or bytes written, and the converters left open.
Answer(ret, out, open) == [ret |-> ret, out |-> out, open |-> open]

\* cchWideChar is -1 for a terminated string: its length and its zero are
\* converted, none of them when it is empty (u16cslen + 1 is 0).  With no room
\* the bytes needed are returned.
WideCharToMultiByte(CodePage, lpWideCharStr, cchWideChar, cbMultiByte) ==
    LET source == lpWideCharStr \o <<Zero>>
        chars == IF cchWideChar = -1
                 THEN IF lpWideCharStr = <<>> THEN 0 ELSE Len(source) ELSE cchWideChar
        src == SubSeq(source, 1, chars)
        dst == Utf8(Decoded(src, "char16_t"))
    IN  IF CodePage \notin CodePages THEN Answer(-1, <<>>, 0)
        ELSE IF cchWideChar = 0 THEN Answer(-1, <<>>, 1)
        ELSE IF ~ConvertsAll(CodePage, src, "char16_t", "char", 1) THEN Answer(-1, <<>>, 0)
        ELSE IF cbMultiByte = 0 THEN Answer(Len(dst), <<>>, 0)
        ELSE IF cbMultiByte >= Len(dst) THEN Answer(Len(dst), dst, 0)
        ELSE Answer(-1, <<>>, 0)

\* cbMultiByte is -1 for a terminated string; its zero is not converted, but
\* counted in the result.  The room is looked at where the source's length is
\* meant, so a call that asks for the room of a counted source is refused.
MultiByteToWideChar(CodePage, lpMultiByteStr, cbMultiByte, cchWideChar) ==
    LET src == IF cbMultiByte = -1 THEN lpMultiByteStr
               ELSE SubSeq(lpMultiByteStr \o <<Zero>>, 1, cbMultiByte)
        dst == Utf16(Decoded(src, "char"))
        ret == IF cbMultiByte >= 0 THEN Len(dst) ELSE Len(dst) + 1
    IN  IF CodePage \notin CodePages THEN Answer(-1, <<>>, 0)
        ELSE IF cbMultiByte # -1 /\ cchWideChar = 0 THEN Answer(-1, <<>>, 1)
        ELSE IF ~ConvertsAll(CodePage, src, "char", "char16_t", 2) THEN Answer(-1, <<>>, 1)
        ELSE IF cchWideChar = 0 THEN Answer(ret, <<>>, 1)
        ELSE IF cchWideChar >= Len(dst) THEN Answer(ret, dst, 0)
        ELSE Answer(-1, <<>>, 1)

----------------------------------------------------------------------------
(* stdlib_win.cpp: ret is what goes to *pReturnValue.                       *)

\* The length of an empty string is (size_t)-1 for u16csnlen, 0 for strnlen.
mbstou16cs_s(sizeInWords, mbstr, count) ==
    LET dst == Utf16(mbstr) \o <<Zero>>
        room == Min({count, sizeInWords})
        len == Min({Len(dst) - 1, room})
        ret == IF len = 0 THEN room ELSE Min({len + 1, room})
    IN  [ret |-> ret, out |-> SubSeq(dst, 1, Min({ret, Len(dst)}))]

(* Mutant: only the length is held against the room. *)
u16cstombs_sBeyond(sizeInBytes, wcstr, count) ==
    LET dst == Utf8(wcstr) \o <<Zero>>
        room == Min({count, sizeInBytes})
        ret == Min({Len(dst) - 1, room}) + 1
    IN  [ret |-> ret, out |-> SubSeq(dst, 1, Min({ret, Len(dst)}))]

u16cstombs_s(sizeInBytes, wcstr, count) ==
    LET dst == Utf8(wcstr) \o <<Zero>>
        room == Min({count, sizeInBytes})
        ret == Min({Min({Len(dst) - 1, room}) + 1, room})
    IN  [ret |-> ret, out |-> SubSeq(dst, 1, ret)]

mbstou16cs(mbstr, count) == mbstou16cs_s(count, mbstr, count)

u16cstombs(wcstr, count) == u16cstombs_s(count, wcstr, count)

----------------------------------------------------------------------------
(* _u16splitpath_s.  A path is [root, dirs, stem, ext]; a part asked for is *)
(* [ptr, n], the buffer and its elements.                                   *)

EINVAL == 22
ERANGE == 34
Slash == 47

\* boost::filesystem's parts of a path: root_path, parent_path, stem, extension.
PathParts(path) ==
    LET root == IF path.root THEN <<Slash>> ELSE <<>>
        dirs == FlattenSeq([i \in DOMAIN path.dirs |->
                    (IF i > 1 THEN <<Slash>> ELSE <<>>) \o path.dirs[i]])
    IN  <<root, root \o dirs, path.stem, path.ext>>

\* The length that is compared is that of the bytes, the units are copied.
PartFits(part, n) == Len(Utf8(part)) + 1 <= n

_u16splitpath_s(path, bufs) ==
    LET parts == PathParts(path)
        asked == {i \in DOMAIN bufs : bufs[i].ptr /\ parts[i] # <<>>}
        tight == {i \in asked : ~PartFits(parts[i], bufs[i].n)}
        good == IF tight = {} THEN asked ELSE {i \in asked : i < Min(tight)}
    IN  IF \E i \in DOMAIN bufs : bufs[i].ptr # (bufs[i].n > 0)
        THEN [rc |-> EINVAL, out |-> [i \in DOMAIN bufs |-> <<>>]]
        ELSE [rc |-> IF tight = {} THEN 0 ELSE ERANGE,
              out |-> [i \in DOMAIN bufs |->
                        IF ~bufs[i].ptr THEN <<>>
                        ELSE IF i \in good THEN Utf16(parts[i]) \o <<Zero>> ELSE <<Zero>>]]
=============================================================================
