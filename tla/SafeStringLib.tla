--------------------------- MODULE SafeStringLib ---------------------------
(* safestringlib as its callers use it.  The functions are the operators of *)
(* SafeMem, SafeStr, SafeStrQuery and SafeFormat; here a state is a memory  *)
(* and the arguments of a call on it, and the invariants say what every     *)
(* function does on every such call.  The tokenizer, whose calls build on   *)
(* each other, and the constraint handlers have their own actions.          *)
EXTENDS SafeStrQuery, SafeFormat

CONSTANTS
    MoveMemories, CopyMemories, QueryMemories, ClassMemories, TokenMemories,
                    \* memories the calls of each family are made on
    Lengths,        \* slen and smax of the copies
    Spans,          \* slen of the queries
    Delimiters,     \* address of the delimiter list in TokenMemories
    Pieces,         \* parts of formats: [text, type], type "none" without argument
    Handlers        \* constraint handlers an application may set

\* A memory is a function from the addresses 0 .. n to the values of its cells;
\* where strings are, no cell is negative and the last is always 0.  No object
\* is larger than the (size_t)-1 that RSIZE_MAX_STR is.
ASSUME MemoriesAssumption ==
    LET strings == CopyMemories \cup QueryMemories \cup ClassMemories \cup TokenMemories
    IN  /\ \A m \in MoveMemories \cup strings :
              IsFiniteSet(DOMAIN m) /\ m \in [0 .. Cardinality(DOMAIN m) - 1 -> Int]
        /\ \A m \in strings : /\ DOMAIN m # {} /\ m[Cardinality(DOMAIN m) - 1] = 0
                             /\ \A a \in DOMAIN m : m[a] \in Nat
                             /\ Cardinality(DOMAIN m) <= RSIZE_MAX_STR
        /\ \A m \in TokenMemories : Delimiters \in DOMAIN m

ASSUME LengthsAssumption == Lengths \cup Spans \subseteq 0 .. RSIZE_MAX_STR

VARIABLES
    family,   \* which functions the state is about: "idle" before the call
    mem,      \* the memory before the call
    args      \* [dest, dmax, src, slen, out]

vars == <<family, mem, args>>

\* Dest objects that lie in the memory; also NULL, and a dmax of zero.
DestArgs(m) ==
    {dd \in (DOMAIN m \cup {NULL}) \X (0 .. Cardinality(DOMAIN m)) :
        dd[1] = NULL \/ dd[1] + dd[2] - 1 \in DOMAIN m \cup {-1}}

Call(kind, memories, lengths, outs) ==
    /\ family = "idle"
    /\ family' = kind
    /\ \E m \in memories, l \in lengths, o \in outs :
          \E s \in DOMAIN m \cup {NULL}, dd \in DestArgs(m) :
            /\ mem' = m
            /\ args' = [dest |-> dd[1], dmax |-> dd[2], src |-> s, slen |-> l, out |-> o]

CallMem == Call("mem", MoveMemories,
                0 .. Cardinality(DOMAIN (CHOOSE x \in MoveMemories : TRUE)), {0})

CallCopy == Call("copy", CopyMemories, Lengths, {0})

CallQuery == Call("query", QueryMemories, Spans, {NULL, 0})

CallClass == Call("class", ClassMemories, {0}, {0})

CallFormat ==
    /\ family = "idle"
    /\ family' = "format"
    /\ \E n \in 0 .. MAX_FORMAT_ELEMENTS + 1 :
          \E ps \in [1 .. n -> Pieces] : args' = [pieces |-> ps]
    /\ UNCHANGED mem

----------------------------------------------------------------------------
(* The tokenizer.  The text starts at address 0 of its memory; size is dmax *)
(* and orig the memory before the first call, got the tokens returned so    *)
(* far.  ptr is not set before the first call.                              *)

Text(m, p) == [i \in 1 .. Length(m, p) |-> m[p + i - 1]]

Tokenize(orig, size, got, m, dest, dmax, ptr) ==
    LET r == strtok_s(m, dest, dmax, Delimiters, ptr)
    IN  /\ family' = IF r.tok = NULL THEN "tokend" ELSE "token"
        /\ mem' = r.mem
        /\ args' = [orig |-> orig, size |-> size, dmax |-> r.dmax, ptr |-> r.ptr,
                    got |-> IF r.tok = NULL THEN got
                            ELSE Append(got, Text(r.mem, r.tok))]

FirstToken ==
    /\ family = "idle"
    /\ \E m \in TokenMemories, n \in 1 .. Delimiters : Tokenize(m, n, <<>>, m, 0, n, NULL)

NextToken ==
    /\ family = "token"
    /\ args.ptr # NULL
    /\ Tokenize(args.orig, args.size, args.got, mem, NULL, args.dmax, args.ptr)

----------------------------------------------------------------------------
(* Constraint handlers: the static pointers mem_handler and str_handler     *)
(* start as NULL, the functions that set them return the previous value.    *)

sl_default_handler == "ignore_handler_s"

set_mem_constraint_handler_s(mem_handler, handler) ==
    [prev |-> mem_handler, now |-> IF handler = "NULL" THEN sl_default_handler ELSE handler]

set_str_constraint_handler_s(str_handler, handler) ==
    [prev |-> str_handler, now |-> IF handler = "NULL" THEN sl_default_handler ELSE handler]

\* The handler that a violation reaches.
invoke_safe_mem_constraint_handler(mem_handler) ==
    IF mem_handler # "NULL" THEN mem_handler ELSE sl_default_handler

invoke_safe_str_constraint_handler(str_handler) ==
    IF str_handler # "NULL" THEN str_handler ELSE sl_default_handler

\* An application sets a handler, later puts back what it got.
SetHandler ==
    /\ family = "idle"
    /\ family' = "handler"
    /\ \E before \in Handlers \cup {"NULL"}, h \in Handlers \cup {"NULL"} :
          LET s == set_str_constraint_handler_s(before, h)
              q == set_mem_constraint_handler_s(before, h)
          IN  args' = [before |-> before, asked |-> h,
                       set |-> {s.now, q.now}, saved |-> {s.prev, q.prev}]
    /\ UNCHANGED mem

----------------------------------------------------------------------------

Init == family = "idle" /\ mem = <<>> /\ args = <<>>

Next == \/ CallMem \/ CallCopy \/ CallQuery \/ CallClass \/ CallFormat
        \/ FirstToken \/ NextToken \/ SetHandler

Spec == Init /\ [][Next]_vars

----------------------------------------------------------------------------
(* Properties.  D, N, S and L are the arguments of the call.                *)

D == args.dest
N == args.dmax
S == args.src
L == args.slen

\* src[0 .. n) lies in the memory.
Readable(n) == S = NULL \/ S + n - 1 \in DOMAIN mem \cup {-1}

Moving == family = "mem" /\ D # NULL /\ S # NULL /\ L > 0 /\ L <= N /\ Readable(L)

\* A move copies what src held before the call, however the two objects overlap
\* and whatever their alignment: mem_prim_move in words and bytes, the unrolled
\* cell loops of mem_prim_move8/16/32, and the wide functions.
MoveIsSimultaneous ==
    Moving => \A r \in {mem_prim_move(mem, D, S, L), mem_prim_move8(mem, D, S, L),
                        mem_prim_move16(mem, D, S, L), mem_prim_move32(mem, D, S, L),
                        WideMoved(mem, D, S, L)} : r = Loaded(mem, D, S, L)

\* mem_prim_move loads and stores words only where both pointers are on a word
\* boundary (the code casts to uint32_t *), and every cell exactly once.
WordsAreAligned ==
    Moving => LET plan == MovePlan(D, S, L)
              IN  /\ \A i \in DOMAIN plan : plan[i].n > 1 =>
                        plan[i].d % WordSize = 0 /\ plan[i].s % WordSize = 0
                  /\ \A a \in D .. D + L - 1 :
                        Cardinality({i \in DOMAIN plan :
                            a \in plan[i].d .. plan[i].d + plan[i].n - 1}) = 1

\* mem_prim_set and its variants set the len cells asked for and no other.
SetFillsExactly ==
    (family = "mem" /\ D # NULL) =>
        \A r \in {mem_prim_set(mem, D, N, 99), mem_prim_set16(mem, D, N, 99),
                  mem_prim_set32(mem, D, N, 99)} : r = Stored(mem, D, N, 99)

----------------------------------------------------------------------------

MemCopies ==
    {memcpy_s(mem, D, N, S, L), memcpy16_s(mem, D, N, S, L),
     memcpy32_s(mem, D, N, S, L), wmemcpy_s(mem, D, N, S, L)}

MemMoves ==
    {memmove_s(mem, D, N, S, L), memmove16_s(mem, D, N, S, L),
     memmove32_s(mem, D, N, S, L), wmemmove_s(mem, D, N, S, L)}

MemSets ==
    {memset_s(mem, D, N, 99), memset16_s(mem, D, N, 99), memset32_s(mem, D, N, 99),
     wmemset_s(mem, D, N, 99), memzero_s(mem, D, N), memzero16_s(mem, D, N),
     memzero32_s(mem, D, N)}

Plain(r) == [rc |-> r.rc, mem |-> r.mem]

\* The text a string copy is to leave in dest, with the characters it takes.
Prefix(s, n) == SubSeq(s, 1, Min({n, Len(s)}))

StrCopies ==
    LET src == Text(mem, S)
        old == Text(mem, D)
        Copied(r, n) == [r |-> Plain(r), text |-> Prefix(src, n), taken |-> Prefix(src, n)]
        Appended(r, n) == [r |-> Plain(r), text |-> old \o Prefix(src, n), taken |-> Prefix(src, n)]
    IN  {Copied(strcpy_s(mem, D, N, S), RSIZE_MAX_STR),
         Copied(wcscpy_s(mem, D, N, S), RSIZE_MAX_STR),
         Copied(stpcpy_s(mem, D, N, S), RSIZE_MAX_STR),
         Copied(wcpcpy_s(mem, D, N, S), RSIZE_MAX_STR),
         Copied(strncpy_s(mem, D, N, S, L), IF L = RSIZE_MAX_STR THEN N - 1 ELSE L),
         Copied(wcsncpy_s(mem, D, N, S, L), L),
         Appended(strcat_s(mem, D, N, S), RSIZE_MAX_STR),
         Appended(wcscat_s(mem, D, N, S), RSIZE_MAX_STR),
         Appended(strncat_s(mem, D, N, S, L), L),
         Appended(wcsncat_s(mem, D, N, S, L), L)}

Fields ==
    IF ~Readable(L) THEN {}
    ELSE {strcpyfld_s(mem, D, N, S, L), strcpyfldin_s(mem, D, N, S, L),
          strcpyfldout_s(mem, D, N, S, L)}

Edits ==
    {strzero_s(mem, D, N), strtolowercase_s(mem, D, N), strtouppercase_s(mem, D, N),
     strljustify_s(mem, D, N), [rc |-> EOK, mem |-> strnterminate_s(mem, D, N).mem]}

\* Every way a call of the state's family can end.
Written ==
    IF family = "mem"
    THEN MemSets \cup (IF Readable(L) THEN MemCopies \cup MemMoves ELSE {})
    ELSE IF family = "class" THEN Edits
    ELSE IF family = "copy"
    THEN Fields \cup (IF D = NULL \/ S = NULL
                      THEN {Plain(strcpy_s(mem, D, N, S)), Plain(strncat_s(mem, D, N, S, L))}
                      ELSE {c.r : c \in StrCopies})
    ELSE {}

NotBlank(s) == {i \in DOMAIN s : s[i] \notin Blank}

\* No function writes a cell outside dest[0 .. dmax), whichever of its paths it
\* takes, but two: stpncpy_s whose fill runs away (smax is RSIZE_MAX_STR, or 0
\* for a string copied onto itself), and strremovews_s on a string of blanks
\* only, write outside.  Nothing is said of those two cases.
WritesStayInside ==
    LET inside == D .. D + N - 1
        Stays(m, cells) == \A a \in DOMAIN mem \ cells : m[a] = mem[a]
    IN  /\ \A r \in Written : Stays(r.mem, inside)
        /\ (family = "copy" /\ (D = NULL \/ S = NULL \/ ~FillRunsAway(mem, D, S, L))) =>
                Stays(stpncpy_s(mem, D, N, S, L).mem, inside \cup {D})
        /\ (family = "class" /\ D # NULL /\ NotBlank(Text(mem, D)) # {}) =>
                Stays(strremovews_s(mem, D, N).mem, inside)

\* The calls that do not clear dest where they fail: an append of no text and
\* a wide string copied onto itself without room.
Keeping ==
    IF family # "copy" \/ D = NULL THEN {}
    ELSE IF S = NULL THEN {Plain(strncat_s(mem, D, N, S, L))}
    ELSE IF D = S THEN {Plain(wcscpy_s(mem, D, N, S)), Plain(wcpcpy_s(mem, D, N, S))} ELSE {}

\* A call that fails has cleared all of a dest that has room (and is not too
\* large), so that no part of a copy is in it, and nothing else.  The exceptions
\* are against the documentation: those of Keeping leave dest as it was, where
\* strncat_s.c:84-87 sets its first character to null; and stpncpy_s, which is to
\* fill dest with nulls (stpncpy_s.c:98-101), clears all of it only when it finds
\* no room in the end, and when it refuses its arguments the first character or
\* nothing.
FailureLeavesNoPart ==
    LET usable == D # NULL /\ N > 0 /\ (family = "mem" => N <= RSIZE_MAX_MEM32)
        LeavesOneOf(r, memories) == r.rc # EOK => r.mem \in memories
        cleared == Stored(mem, D, N, 0)
    IN  /\ \A r \in Written : LeavesOneOf(r, {mem, cleared})
        /\ \A r \in Written \ Keeping : usable => LeavesOneOf(r, {cleared})
        /\ \A r \in Keeping : LeavesOneOf(r, {mem})
        /\ family = "copy" =>
             LeavesOneOf(stpncpy_s(mem, D, N, S, L), {mem, Stored(mem, D, 1, 0), cleared})

\* memcpy*_s succeeds only on objects that do not overlap (or are the same) and
\* then, like memmove*_s whatever the overlap, dest holds what src held.
MemoryCopiesAreExact ==
    Moving => /\ \A r \in MemCopies : r.rc = EOK =>
                    D = S \/ (D .. D + N - 1) \cap (S .. S + L - 1) = {}
              /\ \A r \in MemCopies \cup MemMoves : r.rc = EOK =>
                    r.mem = Loaded(mem, D, S, L)

Disjoint(c) ==
    (D .. D + Len(c.text)) \cap (S .. S + Len(c.taken)) = {}

\* A string copy or append that succeeds leaves exactly the promised text,
\* terminated within dmax, and it succeeds whenever the text and its null fit
\* and the two strings do not overlap.
StringCopiesAreExact ==
    (family = "copy" /\ D # NULL /\ S # NULL /\ N > 0 /\ L > 0 /\ D # S) =>
        \A c \in StrCopies :
            /\ c.r.rc = EOK => Text(c.r.mem, D) = c.text /\ Len(c.text) < N
            /\ Len(c.text) < N /\ Disjoint(c) => c.r.rc = EOK

----------------------------------------------------------------------------

Sign(x) == IF x < 0 THEN -1 ELSE IF x > 0 THEN 1 ELSE 0

\* Order of two sequences, -1, 0 or 1: the reference for the compares.
Order(s, t) ==
    LET n == Min({Len(s), Len(t)})
        d == {i \in 1 .. n : s[i] # t[i]}
    IN  IF d = {} THEN Sign(Len(s) - Len(t)) ELSE Sign(s[Min(d)] - t[Min(d)])

Cells(p, n) == [i \in 1 .. n |-> Cell(mem, p + i - 1)]

Asking == family = "query" /\ D # NULL /\ S # NULL /\ N > 0 /\ L > 0 /\ args.out # NULL

ASCII(n) == \A i \in 0 .. n : Cell(mem, D + i) < 128 /\ Cell(mem, S + i) < 128

\* The compares answer with the order of what they compare: memcmp*_s of smax
\* cells, if they take objects of that size at all (memcmp32_s and wmemcmp_s
\* where no difference exceeds an int), strcmp_s and strcasecmp_s of strings when
\* dest ends within dmax, and a strcmpfld_s of zero means equal fields of bytes.
ComparesAgree ==
    Asking =>
      /\ Readable(L) /\ L <= N /\ N <= RSIZE_MAX_MEM32 =>
           LET order == Order(Cells(D, L), Cells(S, L))
           IN  /\ Sign(memcmp_s(mem, D, N, S, L, 0).diff) = order
               /\ Sign(memcmp16_s(mem, D, N, S, L, 0).diff) = order
               /\ (\A i \in 0 .. L - 1 :
                        mem[D + i] - mem[S + i] \in INT_MIN .. INT_MAX) =>
                    /\ Sign(memcmp32_s(mem, D, N, S, L, 0).diff) = order
                    /\ Sign(wmemcmp_s(mem, D, N, S, L, 0).diff) = order
      /\ Length(mem, D) <= N /\ ASCII(N) =>
           LET Up(s) == [i \in DOMAIN s |-> toupper(s[i])]
           IN  /\ Sign(strcmp_s(mem, D, N, S, 0).out) = Order(Text(mem, D), Text(mem, S))
               /\ Sign(strcasecmp_s(mem, D, N, S, 0).out)
                    = Order(Up(Text(mem, D)), Up(Text(mem, S)))
      /\ (\A a \in DOMAIN mem : mem[a] < 256) /\ strcmpfld_s(mem, D, N, S, 0).out = 0 =>
           Cells(D, N) = Cells(S, N)

\* The searches agree with each other: strpbrk_s stops where strcspn_s stops,
\* strcspn_s where strspn_s of the same list cannot go on, strprefix_s is a
\* strstr_s at the front, a case-blind search finds nothing later, the first
\* difference is what strcmp_s reports, and first and last enclose the rest.
SearchesAgree ==
    Asking =>
      LET len == strnlen_s(mem, D, N)
          c == strcspn_s(mem, D, N, S, L, 0).out
          n == strspn_s(mem, D, N, S, L, 0).out
          p == strpbrk_s(mem, D, N, S, L, 0)
          sub == strstr_s(mem, D, N, S, L, 0)
          ci == strcasestr_s(mem, D, N, S, L, 0)
          diff == strfirstdiff_s(mem, D, N, S, 0)
          f == strfirstchar_s(mem, D, N, mem[S], 0)
          l == strlastchar_s(mem, D, N, mem[S], 0)
      IN  /\ Length(mem, S) <= L =>
                IF c = len THEN p.rc = ESNOTFND ELSE p = [rc |-> EOK, out |-> D + c]
          /\ len > 0 /\ mem[S] # 0 => (n = 0 <=> c > 0)
          /\ Length(mem, S) <= Min({L, N}) /\ mem[S] # 0 /\ D # S =>
                (strprefix_s(mem, D, N, S).rc = EOK <=> sub.rc = EOK /\ sub.out = D)
          /\ sub.rc = EOK => ci.rc = EOK /\ ci.out <= sub.out
          /\ diff.rc = EOK =>
                /\ Sign(strcmp_s(mem, D, N, S, 0).out)
                     = Sign(Char(mem[D + diff.out]) - Char(mem[S + diff.out]))
                /\ strlastdiff_s(mem, D, N, S, 0).out >= diff.out
          /\ diff.rc # EOK =>
                (strfirstsame_s(mem, D, N, S, 0).rc = EOK => strfirstsame_s(mem, D, N, S, 0).out = 0)
          /\ f.rc = l.rc
          /\ f.rc = EOK =>
                /\ f.out <= l.out
                /\ \A a \in D .. D + len - 1 : mem[a] = mem[S] => a \in f.out .. l.out
          /\ sub.rc = EOK /\ mem[S] # 0 /\ D # S =>
                f.rc = EOK /\ f.out <= sub.out

----------------------------------------------------------------------------

Whole == family = "class" /\ D # NULL /\ N > 0 /\ Length(mem, D) <= N

\* Classification and conversion agree on strings that end within dmax: letters
\* become all lower (upper) case and nothing else changes, the classes are
\* nested as their names say, and a password has the kinds it must have.
ClassesAgree ==
    Whole =>
      LET low == strtolowercase_s(mem, D, N).mem
          up == strtouppercase_s(mem, D, N).mem
      IN  /\ strismixedcase_s(mem, D, N) <=> strislowercase_s(low, D, N)
          /\ strismixedcase_s(mem, D, N) <=> strisuppercase_s(up, D, N)
          /\ strtolowercase_s(up, D, N).mem = low
          /\ strishex_s(mem, D, N) => strisalphanumeric_s(mem, D, N)
          /\ strisdigit_s(mem, D, N) => strishex_s(mem, D, N)
          /\ strisalphanumeric_s(mem, D, N) => strisascii_s(mem, D, N)
          /\ strispassword_s(mem, D, N) =>
                /\ strisascii_s(mem, D, N) /\ ~strisuppercase_s(mem, D, N)
                /\ ~strislowercase_s(mem, D, N)
          /\ strnterminate_s(mem, D, N).ret = Min({wcsnlen_s(mem, D, N), N - 1})

\* strljustify_s removes the leading blanks and strremovews_s the trailing ones
\* too, on every string that has a character to keep; both leave a result that
\* a second call does not change.
TrimsAreExact ==
    (Whole /\ N > 1) =>
      LET old == Text(mem, D)
          left == strljustify_s(mem, D, N)
          both == strremovews_s(mem, D, N)
          keep == NotBlank(old)
      IN  keep # {} =>
            /\ Text(left.mem, D) = SubSeq(old, Min(keep), Len(old))
            /\ Text(both.mem, D) = SubSeq(old, Min(keep), Max(keep))
            /\ Text(strremovews_s(both.mem, D, N).mem, D) = Text(both.mem, D)

----------------------------------------------------------------------------

\* The fields of a text: its maximal runs of characters that are no delimiter.
FieldsOf(s, delims) ==
    LET in == {i \in DOMAIN s : s[i] \notin delims}
        starts == {i \in in : i - 1 \notin in}
        Start(k) == CHOOSE i \in starts : Cardinality({j \in starts : j <= i}) = k
        End(i) == Min({j \in i .. Len(s) : j + 1 \notin in})
    IN  [k \in 1 .. Cardinality(starts) |-> SubSeq(s, Start(k), End(Start(k)))]

TextFields(m, p) == FieldsOf(Text(m, p), Chars(m, Delimiters, RSIZE_MAX_STR))

\* The null of the text stands behind a character that is no delimiter, and so
\* ends the last field; a text longer than its object, and a list of delimiters
\* that is empty or too long, cannot be tokenized to the end.
EndsInField(m) ==
    LET n == Length(m, 0)
    IN  n > 0 /\ m[n - 1] \notin Chars(m, Delimiters, RSIZE_MAX_STR)

Tokenizable(m, size) ==
    Length(m, 0) <= size /\ Length(m, Delimiters) \in 1 .. STRTOK_DELIM_MAX_LEN

\* A sequence of strtok_s calls returns the fields in their order, and the null
\* pointer after the last and not before.  One kind of text is excepted, against
\* the documentation: strtok_s.c:75-78 (and the example, 156-157) promises a null
\* pointer after a token that extends to the end of the string, but the code
\* does not move ptr behind that token and returns it again, until dmax, which
\* is reduced each time, is used up.
TokensAreTheFields ==
    family \in {"token", "tokend"} =>
        LET fields == TextFields(args.orig, 0)
            got == args.got
        IN  /\ \A k \in DOMAIN got : got[k] = fields[Min({k, Len(fields)})]
            /\ Len(got) > Len(fields) => EndsInField(args.orig)
            /\ family = "tokend" /\ Tokenizable(args.orig, args.size) =>
                    Len(got) >= Len(fields)

\* What is left for the next call never reaches beyond the object, and the text
\* is changed only where a delimiter inside the object became a null.
TokenizerStaysInside ==
    family \in {"token", "tokend"} =>
        /\ args.ptr # NULL => args.dmax >= 0 /\ args.ptr + args.dmax <= args.size
        /\ \A a \in DOMAIN mem : mem[a] # args.orig[a] =>
                /\ mem[a] = 0 /\ a < args.size
                /\ args.orig[a] \in Chars(args.orig, Delimiters, STRTOK_DELIM_MAX_LEN)

----------------------------------------------------------------------------

Flat(ps) == FlattenSeq([i \in DOMAIN ps |-> ps[i].text])

\* parse_format finds the conversions of a format and their types, and a typed
\* function passes on only a format that takes exactly its arguments; formats
\* with "%%" (the second sign starts a conversion of its own) and with the
\* modifier L (whose conversion is not recognised) are not of this kind.
FormatsAreTyped ==
    (family = "format" /\ \A i \in DOMAIN args.pieces : args.pieces[i].type # "odd") =>
        LET f == Flat(args.pieces)
            types == SelectSeq([i \in DOMAIN args.pieces |-> args.pieces[i].type],
                               LAMBDA x : x # "none")
        IN  /\ parse_format(f, MAX_FORMAT_ELEMENTS) = Prefix(types, MAX_FORMAT_ELEMENTS)
            /\ snprintf_s_i(f) = "snprintf" =>
                    Len(types) = 1 /\ types[1] \in {"CHAR", "SHORT", "INT"}
            /\ snprintf_s_l(f) = "snprintf" => types = <<"LONG">>
            /\ snprintf_s_si(f) = "snprintf" =>
                    Len(types) = 2 /\ types[1] = "STRING" /\ types[2] \in {"CHAR", "SHORT", "INT"}
            /\ snprintf_s_sl(f) = "snprintf" => types = <<"STRING", "LONG">>

\* Whoever sets a constraint handler and later puts back the one it was given
\* leaves violations going where they went before, the first time included, when
\* the pointer is still NULL.
HandlersCanBeRestored ==
    family = "handler" =>
        \A now \in args.set, old \in args.saved :
            /\ invoke_safe_mem_constraint_handler(set_mem_constraint_handler_s(now, old).now)
                 = invoke_safe_mem_constraint_handler(args.before)
            /\ invoke_safe_str_constraint_handler(set_str_constraint_handler_s(now, old).now)
                 = invoke_safe_str_constraint_handler(args.before)
============================================================================
