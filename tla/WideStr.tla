------------------------------ MODULE WideStr ------------------------------
(* The 16-bit string functions of tchar.cpp that _tcs* names stand for in a *)
(* UNICODE build.  Memory is as in SafeMem; a cell is a char16_t.           *)
EXTENDS SafeStrQuery

CONSTANTS
    SIZE_MAX,         \* (size_t)-1
    INT32_MAX,        \* _NLSCMPERROR
    HEAP_WORK_SIZE    \* bytes of a work buffer: 2048 in the code

ASSUME WideStrAssumption ==
    SIZE_MAX \in Nat \ {0} /\ INT32_MAX \in Nat /\ HEAP_WORK_SIZE \in Nat

----------------------------------------------------------------------------

\* Cell i of a copy that goes forward: when the target starts inside the
\* source, it reads again what it has written.
Streamed(m, dst, src, i) ==
    Cell(m, src + (IF dst > src THEN i % (dst - src) ELSE i))

\* Cells that u16csncpy stores: up to and with the first zero, at most n.
StoredCells(m, dst, src, n) ==
    Min({n} \cup {i + 1 : i \in {j \in 0 .. Min({n - 1, Max(DOMAIN m)}) :
                                    Streamed(m, dst, src, j) = 0}})

\* The copy leaves the memory.
RunsAway(m, dst, src, n) == dst + StoredCells(m, dst, src, n) - 1 > Max(DOMAIN m)

u16csncpy(m, dst, src, n) ==
    IF dst = NULL \/ src = NULL \/ n = 0 THEN m
    ELSE LET count == StoredCells(m, dst, src, n)
         IN  [a \in DOMAIN m |-> IF a \in dst .. dst + count - 1
                                 THEN Streamed(m, dst, src, a - dst) ELSE m[a]]

\* The length of an empty string, or of none of the characters, is (size_t)-1:
\* ret is only set after the first character.
u16csnlen(m, str, n) ==
    IF str = NULL THEN 0
    ELSE LET length == Min({n, Length(m, str)})
         IN  IF length = 0 THEN SIZE_MAX ELSE length

u16cslen(m, str) == u16csnlen(m, str, SIZE_MAX)

u16cscpy(m, destination, source) == u16csncpy(m, destination, source, SIZE_MAX)

\* Where u16cscat appends.
CatCursor(m, destination) == destination + Length(m, destination)

u16cscat(m, destination, source) ==
    IF destination = NULL \/ source = NULL THEN m
    ELSE u16cscpy(m, CatCursor(m, destination), source)

u16csncmp(m, wcs1, wcs2, num) ==
    IF wcs1 = NULL \/ wcs2 = NULL THEN INT32_MAX
    ELSE LET stops == {j \in 0 .. Min({num - 1, Max(DOMAIN m)}) :
                        \/ Cell(m, wcs1 + j) # Cell(m, wcs2 + j) \/ Cell(m, wcs1 + j) = 0}
         IN  IF stops = {} THEN 0
             ELSE Cell(m, wcs1 + Min(stops)) - Cell(m, wcs2 + Min(stops))

u16cscmp(m, wcs1, wcs2) == u16csncmp(m, wcs1, wcs2, SIZE_MAX)

\* An empty wcs2 is compared with the whole of wcs1, and is found nowhere.
u16csstr(m, wcs1, wcs2) ==
    IF wcs1 = NULL \/ wcs2 = NULL THEN NULL
    ELSE LET cklen == u16cslen(m, wcs2)
             found == {a \in wcs1 .. wcs1 + Length(m, wcs1) - 1 :
                            u16csncmp(m, a, wcs2, cklen) = 0}
         IN  IF found = {} THEN NULL ELSE Min(found)

\* tolower on the bytes of UTF-8 changes the letters of ASCII only, and strcmp
\* orders the bytes as the code points are (within one plane).
_u16csicmp(m, string1, string2) ==
    IF string1 = NULL \/ string2 = NULL THEN INT32_MAX
    ELSE LET Low(c) == IF c \in Upper THEN c + 32 ELSE c
             stops == {j \in 0 .. Max(DOMAIN m) :
                        \/ Low(Cell(m, string1 + j)) # Low(Cell(m, string2 + j))
                        \/ Cell(m, string1 + j) = 0}
         IN  Low(Cell(m, string1 + Min(stops))) - Low(Cell(m, string2 + Min(stops)))

----------------------------------------------------------------------------
(* u16cstok.  Its statics are [lastcursor, buffer]; the buffer, a function  *)
(* from 0 .. buffer_size - 1, holds the token returned and is used again.   *)

\* The buffer with the cells begin .. end - 1 as a string, grown if need be.
TokenBuffer(m, old, begin, end) ==
    LET tsize == end - begin + 1
        size == Cardinality(DOMAIN old)
    IN  [i \in 0 .. Max({size, tsize}) - 1 |->
            IF i < tsize - 1 THEN m[begin + i] ELSE IF i = tsize - 1 THEN 0 ELSE old[i]]

\* In: the statics.  Out: tok, "buffer" or "string" (the rest, when there are
\* no delimiters) or "null", and the statics.  An empty list has (size_t)-1
\* delimiters: whatever lies behind it.
u16cstok(m, wcs, delimiters, static) ==
    LET num == u16cslen(m, delimiters)
        delims == {m[a] : a \in (delimiters .. delimiters + num - 1) \cap DOMAIN m}
        cursor == IF wcs # NULL THEN wcs ELSE static.lastcursor
        Ends(from, stop) == Min({a \in from .. Max(DOMAIN m) : m[a] = 0 \/ (m[a] \in delims <=> stop)})
        begin == Ends(cursor, FALSE)
        end == Ends(begin, TRUE)
        Result(tok, at, buffer) == [tok |-> tok, lastcursor |-> at, buffer |-> buffer]
    IN  IF cursor = NULL THEN Result("null", NULL, static.buffer)
        ELSE IF num = 0 THEN Result("string", cursor, static.buffer)
        ELSE IF m[begin] = 0 THEN Result("null", begin, static.buffer)
        ELSE Result("buffer", end, TokenBuffer(m, static.buffer, begin, end))
============================================================================
