------------------------------ MODULE SafeStr ------------------------------
(* The string functions of safestringlib that write: copying, appending,    *)
(* fields, and editing in place.  Wide and narrow variants share their      *)
(* algorithm; a cell is one character.  The memory's last cell is always 0, *)
(* so that a string that is not terminated earlier ends there.              *)
EXTENDS SafeMem

CONSTANT RSIZE_MAX_STR   \* (size_t)-1 in the code

ASSUME SafeStrAssumption == RSIZE_MAX_STR \in Nat

RSIZE_MIN_STR == 1

\* Number of characters before the terminating null of the string at p.
Length(m, p) == Min({i \in 0 .. Max(DOMAIN m) - p : m[p + i] = 0})

\* handle_error and handle_wc_error: clear the whole destination.
handle_error(m, dest, dmax, code) ==
    [rc |-> code, mem |-> Stored(m, dest, dmax, 0)]

StrDestChecks(dest, dmax) == DestChecks(dest, dmax, RSIZE_MAX_STR)

\* src = NULL with the destination cleared.
NullSrcCheck(src) == << <<src = NULL, ESNULLP, TRUE>> >>

----------------------------------------------------------------------------
(* Copying character by character with an overlap bumper.                   *)

(* Mutant: the bumper is one cell too early. *)
BumpEarly(dest, to, src) == (IF dest < src THEN src - to ELSE dest - src) - 1

\* Position at which the running pointer meets the other object's start: the
\* write pointer (from `to` on) meets src, or the read pointer meets dest.
Bump(dest, to, src) == IF dest < src THEN src - to ELSE dest - src

(* Mutant: the room is tested after the copy. *)
CopyLoopLateTest(m, dest, dmax, to, room, src, slen) ==
    LET n == Min({room + 1, Bump(dest, to, src), slen, Length(m, src)})
    IN  IF n = room + 1 THEN handle_error(m, dest, dmax, ESNOSPC)
        ELSE IF n = Bump(dest, to, src) THEN handle_error(m, dest, dmax, ESOVRLP)
        ELSE Done(Stored(Loaded(m, to, src, n), to + n, Max({1, room - n}), 0))

\* The copy loop, entered with `room` cells left at `to`: each round tests the
\* room, the bumper and the remaining slen, in this order, then copies.  The
\* cells after the copied characters are nulled.
CopyLoop(m, dest, dmax, to, room, src, slen) ==
    LET bump == Bump(dest, to, src)
        n == Min({room, bump, slen, Length(m, src)})
    IN  IF n = room THEN handle_error(m, dest, dmax, ESNOSPC)
        ELSE IF n = bump THEN handle_error(m, dest, dmax, ESOVRLP)
        ELSE Done(Stored(Loaded(m, to, src, n), to + n, room - n, 0))

strcpy_s(m, dest, dmax, src) ==
    Checked(m, dest, dmax, StrDestChecks(dest, dmax) \o NullSrcCheck(src),
            IF dest = src THEN Done(m)
            ELSE CopyLoop(m, dest, dmax, dest, dmax, src, RSIZE_MAX_STR))

\* As strcpy_s, but a string copied onto itself must fit into dmax.
wcscpy_s(m, dest, dmax, src) ==
    Checked(m, dest, dmax, StrDestChecks(dest, dmax) \o NullSrcCheck(src),
            IF dest = src
            THEN [rc |-> IF Length(m, src) > dmax THEN ESLEMAX ELSE EOK, mem |-> m]
            ELSE CopyLoop(m, dest, dmax, dest, dmax, src, RSIZE_MAX_STR))

\* A call with the pointer it returns: the end of the nulled slack.
WithEnd(r, end) == [rc |-> r.rc, mem |-> r.mem,
                    ret |-> IF r.rc = EOK THEN end ELSE NULL]

wcpcpy_s(m, dest, dmax, src) ==
    LET r == wcscpy_s(m, dest, dmax, src)
    IN  WithEnd(r, IF dest = src THEN dest + Length(m, dest) ELSE dest + dmax)

stpcpy_s(m, dest, dmax, src) ==
    WithEnd(Checked(m, dest, dmax, StrDestChecks(dest, dmax) \o NullSrcCheck(src),
                IF dest # src
                THEN CopyLoop(m, dest, dmax, dest, dmax, src, RSIZE_MAX_STR)
                ELSE IF Length(m, dest) >= dmax
                THEN handle_error(m, dest, dmax, ESNOSPC)
                ELSE Done(Stored(m, dest + Length(m, dest),
                                 dmax - Length(m, dest), 0))),
            dest + dmax)

\* The constraints of the functions that take the source's length.
LengthChecks(dest, dmax, src, slen) ==
    StrDestChecks(dest, dmax) \o NullSrcCheck(src)
    \o << <<slen = 0, ESZEROL, TRUE>>, <<slen > RSIZE_MAX_STR, ESLEMAX, TRUE>> >>

\* slen = RSIZE_MAX_STR asks for truncation: one cell is kept for the null.
strncpy_s(m, dest, dmax, src, slen) ==
    LET truncating == slen = RSIZE_MAX_STR
        room == IF truncating THEN dmax - 1 ELSE dmax
        cut == Min({room, Bump(dest, dest, src), Length(m, src)})
    IN  Checked(m, dest, dmax, LengthChecks(dest, dmax, src, slen),
                IF truncating /\ cut = room
                THEN Done(Stored(Loaded(m, dest, src, room), dest + room, 1, 0))
                ELSE CopyLoop(m, dest, dmax, dest, room, src, slen))

wcsncpy_s(m, dest, dmax, src, slen) ==
    Checked(m, dest, dmax, LengthChecks(dest, dmax, src, slen),
            CopyLoop(m, dest, dmax, dest, dmax, src, slen))

----------------------------------------------------------------------------
(* Appending.                                                               *)

CatChecks(dest, dmax, src, slen) ==
    << <<dest = NULL, ESNULLP, FALSE>>, <<src = NULL, ESNULLP, FALSE>>,
       <<slen > RSIZE_MAX_STR, ESLEMAX, FALSE>>,
       <<dmax = 0, ESZEROL, FALSE>>, <<dmax > RSIZE_MAX_STR, ESLEMAX, FALSE>> >>

\* Find the end of dest, watching the bumper when dest is below src, then copy.
Append_s(m, dest, dmax, src, slen) ==
    LET end == Length(m, dest)
        bump == IF dest < src THEN src - dest ELSE dmax
        n == Min({end, bump, dmax - 1})
    IN  Checked(m, dest, dmax, CatChecks(dest, dmax, src, slen),
                IF n = end
                THEN CopyLoop(m, dest, dmax, dest + end, dmax - end, src, slen)
                ELSE handle_error(m, dest, dmax,
                                  IF n = bump THEN ESOVRLP ELSE ESUNTERM))

strcat_s(m, dest, dmax, src) == Append_s(m, dest, dmax, src, RSIZE_MAX_STR)

wcscat_s(m, dest, dmax, src) == Append_s(m, dest, dmax, src, RSIZE_MAX_STR)

strncat_s(m, dest, dmax, src, slen) == Append_s(m, dest, dmax, src, slen)

wcsncat_s(m, dest, dmax, src, slen) == Append_s(m, dest, dmax, src, slen)

----------------------------------------------------------------------------
(* stpncpy_s.                                                               *)

\* The unsigned smax runs below zero (or starts at its maximum): the loops that
\* null "the rest of smax" then go on through the whole address space.
FillRunsAway(m, dest, src, smax) ==
    \/ smax = RSIZE_MAX_STR
    \/ dest = src /\ smax = 0 /\ m[dest] # 0

stpncpy_s(m, dest, dmax, src, smax) ==
    LET Near(n) == \/ src < dest /\ src + n >= dest
                   \/ dest < src /\ dest + n >= src
        code == Min({i \in 1 .. 7 :
                     << dest = NULL, src = NULL, dmax = 0, dmax > RSIZE_MAX_STR,
                        smax # RSIZE_MAX_STR /\ dmax < smax + 1,
                        (smax # RSIZE_MAX_STR /\ Near(smax)) \/ Near(dmax), TRUE >>[i]})
        first == \/ code \in {2, 5}
                 \/ code = 6 /\ smax # RSIZE_MAX_STR /\ Near(smax)
        n == IF dest = src /\ smax = 0 THEN Length(m, dest)
             ELSE Min({Length(m, src), smax})
        to == IF FillRunsAway(m, dest, src, smax) THEN Max(DOMAIN m) + 1
              ELSE dest + dmax
    IN  IF code < 7
        THEN [rc |-> <<ESNULLP, ESNULLP, ESZEROL, ESLEMAX, ESNOSPC, ESOVRLP>>[code],
              mem |-> IF first THEN Stored(m, dest, 1, 0) ELSE m, ret |-> NULL]
        ELSE IF n >= dmax
        THEN [rc |-> ESNOSPC, mem |-> Stored(m, dest, dmax, 0), ret |-> NULL]
        ELSE [rc |-> EOK, ret |-> dest + n,
              mem |-> Stored(Loaded(m, dest, src, n), dest + n, to - (dest + n), 0)]

----------------------------------------------------------------------------
(* Fixed-width fields.                                                      *)

FieldChecks(dest, dmax, src, slen) ==
    StrDestChecks(dest, dmax) \o NullSrcCheck(src)
    \o << <<slen = 0, ESZEROL, TRUE>>, <<slen > dmax, ESLEMAX, TRUE>> >>

\* Copy exactly `count` characters unless the bumper is met on the way.
FieldLoop(m, dest, dmax, src, count) ==
    IF Bump(dest, dest, src) < count
    THEN handle_error(m, dest, dmax, ESOVRLP)
    ELSE Done(Stored(Loaded(m, dest, src, count), dest + count, dmax - count, 0))

strcpyfld_s(m, dest, dmax, src, slen) ==
    Checked(m, dest, dmax, FieldChecks(dest, dmax, src, slen),
            FieldLoop(m, dest, dmax, src, slen))

\* slen is checked but the loop is bounded by dmax and the string's end; that
\* end is gone when it lies in dest[0], which the first round overwrites.
strcpyfldin_s(m, dest, dmax, src, slen) ==
    LET len == Length(m, src)
        ends == IF dest > src /\ dest - src = len THEN len + 1 ELSE len
    IN  Checked(m, dest, dmax, FieldChecks(dest, dmax, src, slen),
                FieldLoop(m, dest, dmax, src, Min({dmax, ends})))

strcpyfldout_s(m, dest, dmax, src, slen) ==
    Checked(m, dest, dmax, FieldChecks(dest, dmax, src, slen),
            FieldLoop(m, dest, dmax, src, Min({dmax - 1, slen})))

----------------------------------------------------------------------------
(* Editing in place.  Characters are their ASCII codes.                     *)

Upper == 65 .. 90
Lower == 97 .. 122
Digit == 48 .. 57
Blank == {9, 32}

strzero_s(m, dest, dmax) ==
    Checked(m, dest, dmax, StrDestChecks(dest, dmax), Done(Stored(m, dest, dmax, 0)))

\* Apply F to the characters of the string, dmax at most.
Mapped(m, dest, dmax, letters, by) ==
    LET n == Min({dmax, Length(m, dest)})
    IN  [a \in DOMAIN m |-> IF a \in dest .. dest + n - 1 /\ m[a] \in letters
                          THEN m[a] + by ELSE m[a]]

strtolowercase_s(m, dest, dmax) ==
    Checked(m, dest, dmax, StrDestChecks(dest, dmax),
            Done(Mapped(m, dest, dmax, Upper, 32)))

strtouppercase_s(m, dest, dmax) ==
    Checked(m, dest, dmax, StrDestChecks(dest, dmax),
            Done(Mapped(m, dest, dmax, Lower, -32)))

\* Returns the count it leaves before the null it writes.
strnterminate_s(m, dest, dmax) ==
    IF dest = NULL \/ dmax = 0 \/ dmax > RSIZE_MAX_STR THEN [ret |-> 0, mem |-> m]
    ELSE LET n == Min({dmax - 1, Length(m, dest)})
         IN  [ret |-> n, mem |-> Stored(m, dest + n, 1, 0)]

\* The corner case and the unterminated case of both trimming functions.
Trimmed(m, dest, dmax, result) ==
    Checked(m, dest, dmax, StrDestChecks(dest, dmax),
            IF m[dest] = 0 \/ dmax <= RSIZE_MIN_STR THEN Done(Stored(m, dest, 1, 0))
            ELSE IF Length(m, dest) > dmax THEN handle_error(m, dest, dmax, ESUNTERM)
            ELSE result)

Leading(m, p) == Min({i \in 0 .. Length(m, p) : m[p + i] \notin Blank})

\* Move the text left over its leading blanks; each character moved leaves a
\* blank behind, which a later character may overwrite.
ShiftLeft(m, dest) ==
    LET len == Length(m, dest)
        lead == Leading(m, dest)
    IN  IF lead \in {0, len} THEN m
        ELSE LET free == Max({lead, len - lead})
             IN  Stored(Loaded(m, dest, dest + lead, len - lead),
                        dest + free, len - free, 32)

strljustify_s(m, dest, dmax) ==
    LET len == Length(m, dest)
        lead == Leading(m, dest)
    IN  Trimmed(m, dest, dmax,
            Done(IF lead \in {0, len} THEN m
                 ELSE Stored(ShiftLeft(m, dest), dest + len - lead, 1, 0)))

\* The trailing blanks are stripped from the old end downwards, with no test
\* for the string's start.
strremovews_s(m, dest, dmax) ==
    LET len == Length(m, dest)
        shifted == ShiftLeft(m, dest)
        kept == {a \in 0 .. dest + len - 1 : shifted[a] \notin Blank}
        from == IF kept = {} THEN 0 ELSE Max(kept) + 1
    IN  Trimmed(m, dest, dmax, Done(Stored(shifted, from, dest + len - from, 0)))
============================================================================
