----------------------------- MODULE HandleTable -----------------------------
(***************************************************************************)
(* Compat/common_handle.cpp: the process-wide unordered_map<int, header>   *)
(* behind every HANDLE.  Each function takes lock_mutex for its whole      *)
(* body, so each is one step; what callers do between two of them is       *)
(* theirs.                                                                 *)
(*                                                                         *)
(* A header is a type and a union.  The first member of every alternative  *)
(* of the union (fd, tid, nativeHandle, mutex, hEvent) lies at offset 0:   *)
(* `word' stands for it, `more' for exitCode and attr, `text' for the      *)
(* path, fullPath or name and `pattern' for findPattern.  No getter looks  *)
(* at the type: it reads the bytes that are there.                         *)
(***************************************************************************)
EXTENDS Integers, FiniteSets

CONSTANTS
  MinInt, MaxInt,   \* the range of int: a handle is an int
  Word,             \* fds, thread ids, pointers
  NullWord,         \* nullptr, tid 0
  Text, NoText      \* paths, names and patterns; the empty string

ASSUME TableAssumption ==
  /\ MinInt \in Int /\ MaxInt \in Int
  /\ MinInt < 0 /\ 0 < MaxInt
  /\ NullWord \in Word
  /\ NoText \in Text

VARIABLE map

Key     == MinInt..MaxInt
NULL    == 0                       \* the NULL handle, "not found"
INVALID == "INVALID"
Types   == {"FILE", "MODULE", "THREAD", "MUTEX", "EVENT"}
Header  == [type : Types, word : Word, more : Word, text : Text, pattern : Text]

TypeOK ==
  /\ DOMAIN map \subseteq Key
  /\ \A h \in DOMAIN map : map[h] \in Header

Init == map = [h \in {} |-> NULL]

-----------------------------------------------------------------------------
(* key = rand(); while (key is in the map) key = key + 1;                  *)
(* rand() is 0..RAND_MAX and RAND_MAX is INT_MAX; the increment past       *)
(* INT_MAX wraps round in the builds.                                      *)
RandResult == 0..MaxInt
(* Mutant: the keys beyond the wrap are not looked at. *)
ProbedWithoutWrap(r, k) == r..(k - 1)
Probed(r, k) == IF r <= k THEN r..(k - 1) ELSE (r..MaxInt) \cup (MinInt..(k - 1))
(* Mutant: rand() is taken as it comes. *)
new_key_unprobed(r, k) == k = r
new_key_get(r, k) ==
  /\ k \notin DOMAIN map
  /\ Probed(r, k) \subseteq DOMAIN map

(* The five registration functions: a fresh key, its header filled in.     *)
Register(r, k, header) ==
  /\ new_key_get(r, k)
  /\ map' = [h \in DOMAIN map \cup {k} |-> IF h = k THEN header ELSE map[h]]

reg_fd(r, k, fd, path, findPattern) ==
  Register(r, k, [type |-> "FILE", word |-> fd, more |-> NullWord,
                  text |-> path, pattern |-> findPattern])
reg_module(r, k, native_handle, full_path) ==
  Register(r, k, [type |-> "MODULE", word |-> native_handle, more |-> NullWord,
                  text |-> full_path, pattern |-> NoText])
reg_thread(r, k, tid) ==
  Register(r, k, [type |-> "THREAD", word |-> tid, more |-> NullWord,
                  text |-> NoText, pattern |-> NoText])
mutex_reg(r, k, mutex, attr, name) ==
  Register(r, k, [type |-> "MUTEX", word |-> mutex, more |-> attr,
                  text |-> name, pattern |-> NoText])
reg_event(r, k, hEvent) ==
  Register(r, k, [type |-> "EVENT", word |-> hEvent, more |-> NullWord,
                  text |-> NoText, pattern |-> NoText])

(* No look at the type: over an entry of another type the descriptor and   *)
(* the path, padded to its 255 bytes, cover every member of the union.     *)
update_fd(h, fd, path) ==
  \/ h \notin DOMAIN map /\ map' = map
  \/ /\ h \in DOMAIN map /\ map[h].type = "FILE"
     /\ map' = [map EXCEPT ![h].word = fd, ![h].text = path]
  \/ /\ h \in DOMAIN map /\ map[h].type # "FILE"
     /\ \E word, more \in Word, text \in Text :
          map' = [map EXCEPT ![h].word = word, ![h].more = more, ![h].text = text]

(* Mutant: the entry stays. *)
erase_nothing(h) == map' = map
erase(h) == map' = [k \in DOMAIN map \ {h} |-> map[k]]

-----------------------------------------------------------------------------
(* Lookups by handle, and what each returns for a handle that is not there.*)
type_get(h)                 == IF h \in DOMAIN map THEN map[h].type ELSE INVALID
Field(h, f, none)           == IF h \in DOMAIN map THEN map[h][f] ELSE none
get_fd(h, minus1)           == Field(h, "word", minus1)
get_fd_path(h)              == Field(h, "text", NoText)
get_fd_findPattern(h)       == Field(h, "pattern", NoText)
get_module_native_handle(h) == Field(h, "word", NullWord)
get_module_full_path(h)     == Field(h, "text", NoText)
mutex_get(h)                == Field(h, "word", NullWord)
mutex_get_attr(h)           == Field(h, "more", NullWord)
mutex_get_name(h)           == Field(h, "text", NoText)
get_event(h)                == Field(h, "word", NullWord)

(* Lookups by content walk an unordered_map: which of several matches they *)
(* end up with is unspecified.  An operator here is the set of results.    *)
FoundIn(S) == IF S = {} THEN {NULL} ELSE S
WithWord(type, word) == {h \in DOMAIN map : map[h].type = type /\ map[h].word = word}

find_module_by_native_handle(native) == FoundIn(WithWord("MODULE", native))
find_thread_by_tid(tid)              == FoundIn(WithWord("THREAD", tid))

(* Mutant: the search is for another type. *)
mutex_not_found(name) ==
  FoundIn({h \in DOMAIN map : map[h].type = "EVENT" /\ map[h].text = name})
mutex_find_by_name(name) ==
  FoundIn({h \in DOMAIN map : map[h].type = "MUTEX" /\ map[h].text = name})

(* Mutant: the entry is written through operator[], which adds one. *)
set_exitcode_adding(tid, code) ==
  \E h \in FoundIn(WithWord("THREAD", tid)) :
    map' = [k \in DOMAIN map \cup {h} |-> IF k = h THEN [more |-> code] ELSE map[k]]
set_thread_exitcode(tid, code) ==
  LET S == WithWord("THREAD", tid)
  IN  \/ S = {} /\ map' = map
      \/ \E h \in S : map' = [map EXCEPT ![h].more = code]
get_thread_exitcode(tid, zero) ==
  LET S == WithWord("THREAD", tid) IN IF S = {} THEN {zero} ELSE {map[h].more : h \in S}

object_count == Cardinality(DOMAIN map)

=============================================================================
