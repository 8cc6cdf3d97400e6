---------------------------- MODULE Files_proofs ----------------------------
(***************************************************************************)
(* Proofs about files, searches and libraries, for any number of threads,  *)
(* names, descriptors, libraries and calls.                                *)
(***************************************************************************)
EXTENDS Files, FiniteSetTheorems, WellFoundedInduction, TLAPS

-----------------------------------------------------------------------------
(* Where a function can be, and what its locals then hold.                 *)
Desc      == Fd \cup {NoFd}
OnOpen    == {"WriteFile", "ReadFile", "FlushFileBuffers", "SetFilePointer"}
Closers   == {"FindClose", "CloseHandle", "FreeLibrary"}
Copiers   == {"CopyFile", "MoveFile"}

Shape(c) ==
  /\ c.op = "none" => c = Idle
  /\ c.op \notin {"exit", "DeleteFile", "CreateDirectory", "RemoveDirectory"}
  /\ c.op = "CreateFile" => /\ c.pc \in {"parent", "disposition", "open", "register"}
                            /\ c.p \in Name /\ c.how # "none"
  /\ c.op = "GetFileAttributes" => c.pc \in {"check", "kind"} /\ c.p \in Name
  /\ c.op \in Copiers => /\ c.pc \in {"check", "copy", "copying", "remove"}
                         /\ c.p \in Name /\ c.q \in Name /\ c.p # c.q
                         /\ (c.ino = NoIno) = (c.pc \in {"check", "copy"})
  /\ c.op \notin Copiers => c.ino = NoIno
  /\ c.op = "FindFirstFile" => /\ c.pc \in {"list", "exists", "open", "register"}
                               /\ c.q \in Name \cup {Wild}
                               /\ c.pc # "list" => c.p \in Name
  /\ c.op = "FindNextFile" => /\ c.pc \in {"list", "close", "exists", "open", "update"}
                              /\ c.p \in Name \cup {NoText}
                              /\ c.pc \in {"exists", "open", "update"} => c.p \in Name
  /\ c.op \in OnOpen => c.pc \in {"lookup", "io"} /\ (c.pc = "io" => c.fd \in Fd)
  /\ c.op \in {"FindClose", "CloseHandle"} => c.pc \in {"lookup", "close", "erase", "dlclose"}
  /\ c.op = "FreeLibrary" => c.pc \in {"lookup", "dlclose", "erase"}
  /\ c.op = "GetProcAddress" => c.pc \in {"lookup", "io"}
  /\ c.op = "LoadLibrary" => /\ c.pc \in {"dlopen", "attach", "attached", "register"}
                             /\ c.p \in Lib /\ c.fd = NoFd
                             /\ c.pc \in {"attach", "attached"} => c.p = Self
  /\ c.pc \in {"register", "update"} => c.fd \in Desc

(* A call on a handle has the handle for itself, of the type it is for,    *)
(* and what it took from the entry is still there.                         *)
HandleFits(t) ==
  LET c == call[t]
  IN  c.op \in OnHandle =>
        /\ c.h \in DOMAIN map
        /\ c.op \in OnOpen \cup {"FindNextFile", "FindClose"} => map[c.h].type = "FILE"
        /\ c.op \in {"FreeLibrary", "GetProcAddress"} => map[c.h].type = "MODULE"
        /\ c.pc = "close" => map[c.h].type = "FILE"
        /\ c.pc = "dlclose" => map[c.h].type = "MODULE"
        /\ c.pc \in {"close", "dlclose", "erase", "io"} => c.fd = map[c.h].word
        /\ c.op \in Closers => c.h \notin given
        /\ \A u \in Thread \ {t} : call[u].op \in OnHandle => call[u].h # c.h

TableFits ==
  /\ \A k \in DOMAIN map :
       \/ map[k].type = "FILE" /\ map[k].word \in Desc /\ map[k].text \in Name
          /\ map[k].pattern \in Name \cup {Wild, NoText}
       \/ map[k].type = "MODULE" /\ map[k].word \in Lib /\ map[k].pattern = NoText
  /\ given \subseteq DOMAIN map

CallsFit == \A t \in Thread : Shape(call[t]) /\ HandleFits(t)

CoreInv ==
  /\ TypeOK
  /\ ~over => CallsFit /\ TableFits /\ LibrariesMatchHandles

-----------------------------------------------------------------------------
(* Descriptors.  A call that is about to erase a file's entry, or that has *)
(* closed a search's descriptor, has the entry marked.                     *)
Marked(t) ==
  LET c == call[t]
  IN  /\ c.op \in {"CloseHandle", "FindClose"} /\ c.pc = "erase" /\ map[c.h].type = "FILE"
           => c.h \in history.stale \/ map[c.h].word = NoFd
      /\ c.op = "FindNextFile" /\ c.pc \in {"exists", "open", "update"}
           => c.h \in history.stale

StaleFits ==
  /\ history.stale \subseteq Entries("FILE")
  /\ ~over => \A t \in Thread : Marked(t)

OpenIsHeld == \A fd \in Fd : fds[fd] # NoIno => Holders(fd) # {}
HeldOnce   == \A fd \in Fd : /\ fds[fd] = NoIno => Holders(fd) = {}
                             /\ \A x, y \in Holders(fd) : x = y
HeldRight  == \A k \in Entries("FILE") \ history.stale :
                map[k].word # NoFd => fds[map[k].word] = history.opened[k]

DescInv == StaleFits /\ OpenIsHeld /\ (~history.struck => HeldOnce /\ HeldRight)

-----------------------------------------------------------------------------
(* Calls that nobody has disturbed. *)
Has(t, p) == Exists(p) /\ content[dir[p]] = call[t].kept

Undisturbed(t) ==
  LET c == call[t]
  IN  ~c.raced =>
        /\ c.op = "CreateFile" /\ c.pc \in {"disposition", "open"} => home
        /\ c.op = "CreateFile" /\ c.pc = "open" =>
             c.how = "CREATE_NEW" \/ c.flag \/ Exists(c.p)
        /\ c.op = "GetFileAttributes" /\ c.pc = "kind" => Exists(c.p)
        /\ c.op = "MoveFile" /\ c.pc \in {"copy", "copying", "remove"} => Has(t, c.p)
        /\ c.op = "MoveFile" /\ c.pc = "copying" => Exists(c.q) /\ dir[c.q] = c.ino
        /\ c.op = "MoveFile" /\ c.pc = "remove" => Has(t, c.q)

RaceInv == \A t \in Thread : Undisturbed(t)

-----------------------------------------------------------------------------
(* Searches.  What a search has reported is what lies up to the path in    *)
(* its entry; while it is calm, so is what it still has to report: due and *)
(* the path are listed, and no match up to the path is missing.  A call in *)
(* the search goes on from the entry to the least match after it.          *)
UpTo(S, p) == {q \in S : q <= p}

SearchFits(k) ==
  LET e == map[k]  seen == history.seen[k]  due == history.due[k]
  IN  /\ e.pattern # Wild => due \subseteq seen
      /\ e.pattern = Wild => due \subseteq WildMatches /\ seen = UpTo(seen, e.text)
      /\ e.pattern = Wild /\ k \in history.calm =>
           /\ due \subseteq Listing /\ e.text \in Listing
           /\ UpTo(due, e.text) \subseteq seen

FirstFits(t) ==
  LET c == call[t]
  IN  c.op = "FindFirstFile" /\ c.pc \in {"exists", "open", "register"} =>
        /\ c.q # Wild => c.due \subseteq {c.p}
        /\ c.q = Wild => c.due \subseteq WildMatches
        /\ c.q = Wild /\ ~c.raced =>
             c.p \in Listing /\ c.due \subseteq Listing /\ UpTo(c.due, c.p) \subseteq {c.p}

NextFits(t) ==
  LET c == call[t]  k == call[t].h
  IN  c.op = "FindNextFile" =>
        /\ map[k].pattern # NoText
        /\ c.pc # "list" =>
             /\ map[k].pattern = Wild
             /\ c.p # NoText => map[k].text < c.p
             /\ k \in history.calm =>
                  /\ c.p # NoText =>
                       c.p \in Listing /\ UpTo(history.due[k], c.p) \subseteq history.seen[k] \cup {c.p}
                  /\ c.p = NoText => history.due[k] \subseteq history.seen[k]

SearchInv ==
  ~over =>
    /\ history.calm \subseteq {k \in Entries("FILE") : map[k].pattern # NoText}
    /\ \A k \in Entries("FILE") : map[k].pattern # NoText => SearchFits(k)
    /\ \A t \in Thread : FirstFits(t) /\ NextFits(t)

-----------------------------------------------------------------------------
(* The least element of a set of numbers.                                  *)
LEMMA LeastExists ==
  ASSUME NEW S, S \subseteq Nat, S # {}
  PROVE  Min(S) \in S /\ \A y \in S : Min(S) <= y
<1> DEFINE R == OpToRel(<, Nat)
<1>1. IsWellFoundedOn(R, Nat)
  BY NatLessThanWellFounded
<1>2. \A y, x \in Nat : y < x => <<y, x>> \in R
  BY DEF OpToRel
<1> HIDE DEF R
<1>3. PICK x \in S : \A y \in S : ~(<<y, x>> \in R)
  BY <1>1, WFMin
<1>4. ASSUME NEW y \in S PROVE x <= y
  <2>1. x \in Nat /\ y \in Nat
    OBVIOUS
  <2>2. ~(y < x)
    BY <2>1, <1>2, <1>3, Zenon
  <2> QED BY <2>1, <2>2
<1> QED BY <1>3, <1>4 DEF Min

-----------------------------------------------------------------------------
(* Frames: what the ways of changing call do.                              *)

(* The others' calls stay as they are, but for raced. *)
Alike(c, d) ==
  /\ d \in Frame
  /\ d.op = c.op /\ d.pc = c.pc /\ d.h = c.h /\ d.p = c.p /\ d.q = c.q /\ d.how = c.how
  /\ d.flag = c.flag /\ d.fd = c.fd /\ d.ino = c.ino /\ d.kept = c.kept /\ d.due = c.due
  /\ d.raced \/ d = c
  /\ c = Idle => d = c

Others(t) == \A u \in Thread \ {t} : Alike(call[u], call'[u])
Noticed(t) == \A u \in Thread \ {t} : call'[u].op = "none" \/ call'[u].raced

LEMMA IdleFrame ==
  /\ Idle \in Frame
  /\ Idle.op = "none" /\ Idle.pc = "idle" /\ Idle.h = NULL /\ Idle.p = NoText
  /\ Idle.q = NoText /\ Idle.how = "none" /\ Idle.flag = FALSE /\ Idle.fd = NoFd
  /\ Idle.ino = NoIno /\ Idle.raced = FALSE /\ Idle.kept = "none" /\ Idle.due = {}
BY FileAssumption
   DEF Idle, Frame, Calls, Places, Text, Dispositions, Word, Content, NULL, NoFd, NoIno

LEMMA SetCall ==
  ASSUME call \in [Thread -> Frame], NEW t \in Thread, NEW f \in Frame,
         call' = [call EXCEPT ![t] = f]
  PROVE  call' \in [Thread -> Frame] /\ call'[t] = f /\ Others(t)
BY DEF Others, Alike

LEMMA DoneCall ==
  ASSUME call \in [Thread -> Frame], NEW t \in Thread, Done(t)
  PROVE  call' \in [Thread -> Frame] /\ call'[t] = Idle /\ Others(t)
BY IdleFrame, SetCall DEF Done

(* What a step of a call makes of its frame c. *)
Fields(c, d, pc, p, flag, fd, ino, raced, kept, due) ==
  /\ d \in Frame
  /\ d.op = c.op /\ d.h = c.h /\ d.q = c.q /\ d.how = c.how
  /\ d.pc = pc /\ d.p = p /\ d.flag = flag /\ d.fd = fd /\ d.ino = ino
  /\ d.raced = raced /\ d.kept = kept /\ d.due = due

MovedTo(c, d, place) ==
  Fields(c, d, place, c.p, c.flag, c.fd, c.ino, c.raced, c.kept, c.due)
GivenFd(c, d, place, fd) ==
  Fields(c, d, place, c.p, c.flag, fd, c.ino, c.raced, c.kept, c.due)

LEMMA MovedFrame ==
  ASSUME NEW c \in Frame, NEW place \in Places
  PROVE  MovedTo(c, [c EXCEPT !.pc = place], place)
BY DEF MovedTo, Fields, Frame

LEMMA GivenFrame ==
  ASSUME NEW c \in Frame, NEW place \in Places, NEW fd \in Word
  PROVE  /\ GivenFd(c, [c EXCEPT !.fd = fd, !.pc = place], place, fd)
         /\ GivenFd(c, [c EXCEPT !.pc = place, !.fd = fd], place, fd)
BY DEF GivenFd, Fields, Frame

LEMMA GotoCall ==
  ASSUME call \in [Thread -> Frame], NEW t \in Thread, NEW place \in Places, Goto(t, place)
  PROVE  call' \in [Thread -> Frame] /\ MovedTo(call[t], call'[t], place) /\ Others(t)
<1> DEFINE f == [call[t] EXCEPT !.pc = place]
<1>1. call' = [call EXCEPT ![t] = f]
  BY DEF Goto
<1>2. MovedTo(call[t], f, place)
  BY MovedFrame
<1>3. f \in Frame
  BY <1>2 DEF MovedTo, Fields
<1> HIDE DEF f
<1> QED BY <1>1, <1>2, <1>3, SetCall

LEMMA GivenCall ==
  ASSUME call \in [Thread -> Frame], NEW t \in Thread, NEW place \in Places, NEW fd \in Word,
         \/ call' = [call EXCEPT ![t].fd = fd, ![t].pc = place]
         \/ call' = [call EXCEPT ![t].pc = place, ![t].fd = fd]
  PROVE  call' \in [Thread -> Frame] /\ GivenFd(call[t], call'[t], place, fd) /\ Others(t)
<1> DEFINE f == [call[t] EXCEPT !.fd = fd, !.pc = place]
           g == [call[t] EXCEPT !.pc = place, !.fd = fd]
<1>1. call' = [call EXCEPT ![t] = f] \/ call' = [call EXCEPT ![t] = g]
  OBVIOUS
<1>2. GivenFd(call[t], f, place, fd) /\ GivenFd(call[t], g, place, fd)
  BY GivenFrame
<1>3. f \in Frame /\ g \in Frame
  BY <1>2 DEF GivenFd, Fields
<1> HIDE DEF f, g
<1> QED BY <1>1, <1>2, <1>3, SetCall

LEMMA DisturbCall ==
  ASSUME call \in [Thread -> Frame], NEW t \in Thread, NEW f \in Frame, Disturb(t, f),
         \A u \in Thread : call[u].op = "none" => call[u] = Idle
  PROVE  call' \in [Thread -> Frame] /\ call'[t] = f /\ Others(t) /\ Noticed(t)
<1>1. call'[t] = f
  BY DEF Disturb
<1>2. ASSUME NEW u \in Thread \ {t}
      PROVE  Alike(call[u], call'[u]) /\ (call'[u].op = "none" \/ call'[u].raced)
  <2> DEFINE c == call[u]
             d == [c EXCEPT !.raced = c.op # "none"]
  <2>1. c \in Frame /\ call'[u] = d
    BY <1>2 DEF Disturb
  <2>2. d.raced = (c.op # "none") /\ d.raced \in BOOLEAN
    BY <2>1 DEF Frame
  <2>3. /\ d \in Frame
        /\ d.op = c.op /\ d.pc = c.pc /\ d.h = c.h /\ d.p = c.p /\ d.q = c.q /\ d.how = c.how
        /\ d.flag = c.flag /\ d.fd = c.fd /\ d.ino = c.ino /\ d.kept = c.kept /\ d.due = c.due
    BY <2>1, <2>2 DEF Frame
  <2>4. c.op = "none" => d = c
    <3>1. c.op = "none" => c = Idle
      BY <1>2
    <3> QED BY <3>1, IdleFrame DEF Idle
  <2>5. c = Idle => c.op = "none"
    BY IdleFrame
  <2>6. Alike(c, d) /\ (d.op = "none" \/ d.raced)
    BY <2>2, <2>3, <2>4, <2>5 DEF Alike
  <2> QED BY <2>1, <2>6
<1>3. call' \in [Thread -> Frame]
  BY <1>1, <1>2 DEF Disturb, Alike
<1> QED BY <1>1, <1>2, <1>3 DEF Others, Noticed

-----------------------------------------------------------------------------
(* There is always an inode left: the names but the new one, the           *)
(* descriptors and the other threads' copies do not use them all.          *)
LEMMA ImageBound ==
  ASSUME NEW S, IsFiniteSet(S), NEW f, NEW T, \A y \in T : \E x \in S : y = f[x]
  PROVE  IsFiniteSet(T) /\ Cardinality(T) <= Cardinality(S)
<1> DEFINE R == {f[x] : x \in S}
           g == [x \in S |-> f[x]]
<1>1. g \in Surjection(S, R)
  BY DEF Surjection
<1> HIDE DEF g
<1>2. IsFiniteSet(R) /\ Cardinality(R) <= Cardinality(S)
  BY <1>1, FS_Surjection
<1>3. T \subseteq R
  OBVIOUS
<1> HIDE DEF R
<1>4. IsFiniteSet(T) /\ Cardinality(T) <= Cardinality(R)
  BY <1>2, <1>3, FS_Subset
<1> QED BY <1>2, <1>4, FS_CardinalityType

LEMMA UnionBound ==
  ASSUME NEW S, IsFiniteSet(S), NEW T, IsFiniteSet(T)
  PROVE  IsFiniteSet(S \cup T) /\ Cardinality(S \cup T) <= Cardinality(S) + Cardinality(T)
<1>1. IsFiniteSet(S \cap T)
  BY FS_Intersection
<1>2. IsFiniteSet(S \cup T) /\ Cardinality(S \cup T) = Cardinality(S) + Cardinality(T) - Cardinality(S \cap T)
  BY FS_Union
<1>3. Cardinality(S) \in Nat /\ Cardinality(T) \in Nat /\ Cardinality(S \cap T) \in Nat
  BY <1>1, FS_CardinalityType
<1> QED BY <1>2, <1>3

LEMMA FiniteSets ==
  /\ IsFiniteSet(Name) /\ IsFiniteSet(Fd) /\ Cardinality(Fd) = MaxFd
  /\ IsFiniteSet(Ino) /\ Cardinality(Ino) = MaxIno /\ IsFiniteSet(Key)
<1>1. IsFiniteSet(1..MaxIno) /\ Cardinality(1..MaxIno) = MaxIno
  BY FileAssumption, FS_Interval
<1>2. IsFiniteSet(1..MaxFd) /\ Cardinality(1..MaxFd) = MaxFd
  BY FileAssumption, FS_Interval
<1>3. IsFiniteSet(Name)
  BY <1>1, FileAssumption, FS_Subset
<1>4. IsFiniteSet(MinInt..MaxInt)
  BY FileAssumption, FS_Interval
<1> QED BY <1>1, <1>2, <1>3, <1>4 DEF Ino, Fd, Key

InosInUse == Range(dir) \cup Range(fds) \cup {call[t].ino : t \in Thread}

LEMMA FreshExists ==
  ASSUME TypeOK, NEW t \in Thread, NEW p \in Name, dir[p] = NoIno, call[t].ino = NoIno
  PROVE  FreshIno \in Ino /\ FreshIno \notin InosInUse
<1>1. /\ dir \in [Name -> Ino \cup {NoIno}] /\ fds \in [Fd -> Ino \cup {NoIno}]
      /\ call \in [Thread -> Frame]
  BY DEF TypeOK
<1>2. Ino \ InosInUse # {}
  <2> SUFFICES ASSUME Ino \subseteq InosInUse PROVE FALSE
    OBVIOUS
  <2> DEFINE A == {i \in Ino : \E x \in Name \ {p} : i = dir[x]}
             B == {i \in Ino : \E x \in Fd : i = fds[x]}
             ino == [u \in Thread |-> call[u].ino]
             C == {i \in Ino : \E x \in Thread \ {t} : i = ino[x]}
  <2>1. NoIno \notin Ino
    BY DEF Ino, NoIno
  <2>2. Ino = A \cup B \cup C
    BY <1>1, <2>1 DEF InosInUse, Range
  <2>3. /\ IsFiniteSet(Name \ {p}) /\ Cardinality(Name \ {p}) = Cardinality(Name) - 1
        /\ IsFiniteSet(Thread \ {t}) /\ Cardinality(Thread \ {t}) = Cardinality(Thread) - 1
    BY FiniteSets, FileAssumption, FS_RemoveElement
  <2>4. IsFiniteSet(A) /\ Cardinality(A) <= Cardinality(Name \ {p})
    BY <2>3, ImageBound
  <2>5. IsFiniteSet(B) /\ Cardinality(B) <= Cardinality(Fd)
    BY FiniteSets, ImageBound
  <2>6. IsFiniteSet(C) /\ Cardinality(C) <= Cardinality(Thread \ {t})
    <3> HIDE DEF ino
    <3> QED BY <2>3, ImageBound
  <2> HIDE DEF A, B, C
  <2>7. IsFiniteSet(A \cup B) /\ Cardinality(A \cup B) <= Cardinality(A) + Cardinality(B)
    BY <2>4, <2>5, UnionBound
  <2>8. Cardinality(Ino) <= Cardinality(A \cup B) + Cardinality(C)
    <3>1. Cardinality((A \cup B) \cup C) <= Cardinality(A \cup B) + Cardinality(C)
      BY <2>6, <2>7, UnionBound
    <3> QED BY <2>2, <3>1
  <2>9. /\ Cardinality(Name) \in Nat /\ Cardinality(Thread) \in Nat
        /\ Cardinality(A) \in Nat /\ Cardinality(B) \in Nat /\ Cardinality(C) \in Nat
        /\ Cardinality(A \cup B) \in Nat
    BY <2>4, <2>5, <2>6, <2>7, FiniteSets, FileAssumption, FS_CardinalityType
  <2> QED BY <2>3, <2>4, <2>5, <2>6, <2>7, <2>8, <2>9, FiniteSets, FileAssumption
<1>3. Ino \subseteq Nat
  BY FileAssumption DEF Ino
<1> DEFINE S == Ino \ InosInUse
<1>4. FreshIno = Min(S)
  BY DEF FreshIno, InosInUse
<1>5. S \subseteq Nat /\ S # {}
  BY <1>2, <1>3
<1>6. Min(S) \in S
  <2> HIDE DEF S
  <2> QED BY <1>5, LeastExists
<1> QED BY <1>4, <1>6

(* OpenResult is a descriptor that is closed, or none. *)
LEMMA OpenGives ==
  ASSUME TypeOK, NEW p \in Name, NEW creates \in BOOLEAN
  PROVE  LET fd == OpenResult(p, creates)
         IN  /\ fd \in Desc
             /\ fd # NoFd => fd \in Fd /\ fds[fd] = NoIno /\ home /\ (Exists(p) \/ creates)
             /\ fd = NoFd => Closed = {} \/ ~home \/ (~Exists(p) /\ ~creates)
<1>1. Closed \subseteq Nat /\ NoFd \notin Fd
  BY FileAssumption DEF Closed, Fd, NoFd
<1>2. Closed # {} => Min(Closed) \in Closed
  BY <1>1, LeastExists
<1> QED BY <1>1, <1>2 DEF OpenResult, Closed, Desc

-----------------------------------------------------------------------------
(* The core invariant, in the parts that steps keep apart.                 *)
DiskTypes ==
  /\ home \in BOOLEAN
  /\ dir \in [Name -> Ino \cup {NoIno}]
  /\ ~home => \A p \in Name : dir[p] = NoIno
  /\ content \in [Ino -> Content]
  /\ fds \in [Fd -> Ino \cup {NoIno}]
OwnTypes ==
  /\ use \in Uses /\ use \in Use
  /\ calls \in 0..use.calls /\ over \in BOOLEAN
  /\ given \subseteq Key /\ history \in History

LEMMA TypeParts ==
  TypeOK <=> /\ DiskTypes /\ OwnTypes /\ H!TypeOK
             /\ refs \in [Lib -> Nat] /\ call \in [Thread -> Frame]
BY DEF TypeOK, DiskTypes, OwnTypes

LEMMA CoreParts ==
  ASSUME CoreInv, ~over
  PROVE  /\ DiskTypes /\ OwnTypes /\ H!TypeOK
         /\ refs \in [Lib -> Nat] /\ call \in [Thread -> Frame]
         /\ CallsFit /\ TableFits /\ LibrariesMatchHandles
         /\ \A t \in Thread : call[t].op = "none" => call[t] = Idle
BY TypeParts DEF CoreInv, CallsFit, Shape

(* What the others hold stays, and t takes nothing that they have. *)
LeavesTheOthers(t) ==
  \A u \in Thread \ {t} :
    call[u].op \in OnHandle =>
      /\ call[u].h \in DOMAIN map' /\ map'[call[u].h] = map[call[u].h]
      /\ call[u].op \in Closers => call[u].h \notin given'
      /\ call'[t].op \in OnHandle => call'[t].h # call[u].h

LEMMA CallsKept ==
  ASSUME CallsFit, NEW t \in Thread, Others(t), LeavesTheOthers(t),
         Shape(call'[t]), HandleFits(t)'
  PROVE  CallsFit'
<1> SUFFICES ASSUME NEW u \in Thread, u # t
             PROVE  Shape(call'[u]) /\ HandleFits(u)'
  BY DEF CallsFit
<1>1. Alike(call[u], call'[u])
  BY DEF Others
<1>2. Shape(call'[u])
  <2>1. Shape(call[u])
    BY DEF CallsFit
  <2>2. call[u].op = "none" => call'[u] = Idle
    BY <1>1, <2>1 DEF Alike, Shape
  <2> QED BY <1>1, <2>1, <2>2 DEF Alike, Shape
<1>3. HandleFits(u)'
  <2> SUFFICES ASSUME call'[u].op \in OnHandle
               PROVE  HandleFits(u)'
    BY DEF HandleFits
  <2>1. HandleFits(u) /\ call[u].op \in OnHandle
    BY <1>1 DEF CallsFit, Alike
  <2>2. /\ call[u].h \in DOMAIN map' /\ map'[call[u].h] = map[call[u].h]
        /\ call[u].op \in Closers => call[u].h \notin given'
        /\ call'[t].op \in OnHandle => call'[t].h # call[u].h
    BY <2>1 DEF LeavesTheOthers
  <2>3. \A v \in Thread \ {u} : call'[v].op \in OnHandle => call'[v].h # call'[u].h
    <3> SUFFICES ASSUME NEW v \in Thread, v # u, call'[v].op \in OnHandle
                 PROVE  call'[v].h # call'[u].h
      OBVIOUS
    <3>1. CASE v = t
      BY <3>1, <2>2, <1>1 DEF Alike
    <3>2. CASE v # t
      <4>1. Alike(call[v], call'[v])
        BY <3>2 DEF Others
      <4> QED BY <4>1, <1>1, <2>1 DEF HandleFits, Alike
    <3> QED BY <3>1, <3>2
  <2> QED BY <1>1, <2>1, <2>2, <2>3 DEF HandleFits, Alike
<1> QED BY <1>2, <1>3

(* t goes on in its call, or ends it, and leaves the table alone.          *)
Locally(t) ==
  /\ UNCHANGED <<map, given>>
  /\ call' \in [Thread -> Frame] /\ Others(t) /\ Shape(call'[t])
  /\ \/ call'[t] = Idle
     \/ /\ call'[t].op = call[t].op /\ call'[t].h = call[t].h
        /\ call[t].op \in OnHandle =>
             /\ call'[t].pc \in {"close", "dlclose", "erase", "io"} =>
                  call'[t].fd = map[call[t].h].word
             /\ call'[t].pc = "close" => map[call[t].h].type = "FILE"
             /\ call'[t].pc = "dlclose" => map[call[t].h].type = "MODULE"

LEMMA LocallyKeeps ==
  ASSUME CallsFit, TableFits, NEW t \in Thread, Locally(t)
  PROVE  CallsFit' /\ TableFits'
<1>1. TableFits'
  BY DEF TableFits, Locally
<1>2. Idle.op \notin OnHandle
  BY IdleFrame DEF OnHandle
<1>3. HandleFits(t)'
  BY <1>2 DEF CallsFit, HandleFits, Locally, Others, Alike
<1>4. LeavesTheOthers(t)
  BY <1>2 DEF CallsFit, HandleFits, Locally, LeavesTheOthers
<1> QED BY <1>1, <1>3, <1>4, CallsKept DEF Locally

-----------------------------------------------------------------------------
(* Counting a library's handles and calls.                                 *)
Loading(c, lib) == /\ c.op = "LoadLibrary" /\ c.p = lib
                   /\ c.pc \in {"attach", "attached", "register"}
Mods(lib)   == {k \in Entries("MODULE") : map[k].word = lib}
Loads(lib)  == {t \in Thread : Loading(call[t], lib)}
Inits(lib)  == {t \in Thread : call[t].pc = "attached" /\ lib = Self}
Frees(lib)  == {t \in Thread : call[t].pc = "erase" /\ call[t].fd = lib}
Counted(lib) ==
  refs[lib] = Cardinality(Mods(lib)) + Cardinality(Loads(lib)) + Cardinality(Inits(lib))
                - Cardinality(Frees(lib))

LEMMA CountedIs == LibrariesMatchHandles <=> (~over => \A lib \in Lib : Counted(lib))
BY DEF LibrariesMatchHandles, Counted, Mods, Loads, Inits, Frees, Loading

(* A frame that counts for no library. *)
Unlibbed(c) == /\ c.op = "LoadLibrary" => c.pc = "dlopen"
               /\ c.pc # "attached"
               /\ c.pc = "erase" => c.fd \notin Lib

LEMMA CallSets ==
  ASSUME NEW t \in Thread, NEW lib \in Lib, Others(t)
  PROVE  /\ Loads(lib)' \ {t} = Loads(lib) \ {t}
         /\ Inits(lib)' \ {t} = Inits(lib) \ {t}
         /\ Frees(lib)' \ {t} = Frees(lib) \ {t}
BY DEF Loads, Inits, Frees, Loading, Others, Alike

LEMMA UncountedKeeps ==
  ASSUME ~over, LibrariesMatchHandles, NEW t \in Thread, Others(t), Unlibbed(call[t]), Unlibbed(call'[t]),
         refs' = refs, \A lib \in Lib : Mods(lib)' = Mods(lib)
  PROVE  LibrariesMatchHandles'
<1> SUFFICES ASSUME NEW lib \in Lib PROVE Counted(lib)'
  BY CountedIs DEF LibrariesMatchHandles, Counted, Mods, Loads, Inits, Frees, Loading
<1>1. /\ t \notin Loads(lib) /\ t \notin Inits(lib) /\ t \notin Frees(lib)
      /\ t \notin Loads(lib)' /\ t \notin Inits(lib)' /\ t \notin Frees(lib)'
  BY DEF Unlibbed, Loads, Inits, Frees, Loading
<1>2. Loads(lib)' = Loads(lib) /\ Inits(lib)' = Inits(lib) /\ Frees(lib)' = Frees(lib)
  BY <1>1, CallSets
<1>3. Counted(lib)
  BY CountedIs
<1> QED BY <1>2, <1>3 DEF Counted

-----------------------------------------------------------------------------
(* Steps that leave table and libraries alone.                             *)
PlainStep(t) ==
  /\ Locally(t) /\ UNCHANGED refs
  /\ Unlibbed(call[t]) /\ Unlibbed(call'[t])
  /\ DiskTypes' /\ OwnTypes'

LEMMA PlainKeeps ==
  ASSUME CoreInv, ~over, NEW t \in Thread, PlainStep(t)
  PROVE  CoreInv'
<1> USE CoreParts
<1>1. CallsFit' /\ TableFits'
  BY LocallyKeeps DEF PlainStep
<1>2. \A lib \in Lib : Mods(lib)' = Mods(lib)
  BY DEF PlainStep, Locally, Mods, Entries
<1>3. LibrariesMatchHandles'
  BY <1>2, UncountedKeeps DEF PlainStep, Locally
<1>4. TypeOK'
  <2>1. H!TypeOK' /\ refs' \in [Lib -> Nat]
    BY DEF PlainStep, Locally, H!TypeOK
  <2> QED BY <2>1, TypeParts DEF PlainStep, Locally, DiskTypes, OwnTypes, TypeOK
<1> QED BY <1>1, <1>3, <1>4 DEF CoreInv

LEMMA IdleShape == Shape(Idle) /\ Unlibbed(Idle)
BY IdleFrame, FileAssumption DEF Shape, Unlibbed, Copiers, OnOpen

LEMMA NoLibIsNumber == Lib \cap Desc = {} /\ NoFd \notin Lib /\ Desc \subseteq Word /\ NoFd \notin Fd
BY FileAssumption DEF Desc, Fd, NoFd, Word

Quiet == UNCHANGED <<use, map, disk, fds, refs, calls, given, history>>

LEMMA QuietTypes ==
  ASSUME CoreInv, ~over, Quiet, over' \in BOOLEAN
  PROVE  DiskTypes' /\ OwnTypes'
BY CoreParts DEF Quiet, disk, DiskTypes, OwnTypes

(* A call that has no part in libraries. *)
LEMMA UnlibbedCalls ==
  ASSUME CoreInv, ~over, NEW t \in Thread, call[t].op # "LoadLibrary",
         call[t].pc = "erase" => call[t].fd \in Desc
  PROVE  Unlibbed(call[t])
BY CoreParts, NoLibIsNumber, IdleFrame DEF Unlibbed, CallsFit, Shape, Calls, OnOpen, Copiers, TypeOK, Frame

(* Steps inside a call that change nothing but its frame. *)
LEMMA QuietDone ==
  ASSUME CoreInv, ~over, NEW t \in Thread, Quiet, over' \in BOOLEAN, Done(t), Unlibbed(call[t])
  PROVE  PlainStep(t)
<1>1. call' \in [Thread -> Frame] /\ call'[t] = Idle /\ Others(t)
  BY CoreParts, DoneCall
<1> QED BY <1>1, QuietTypes, IdleShape DEF PlainStep, Locally, Quiet

LEMMA QuietGoto ==
  ASSUME CoreInv, ~over, NEW t \in Thread, Quiet, over' \in BOOLEAN,
         call' \in [Thread -> Frame], Others(t), Shape(call'[t]),
         call'[t].op = call[t].op, call'[t].h = call[t].h,
         call[t].op # "LoadLibrary", call[t].pc # "erase", call'[t].pc = "erase" => call'[t].fd \in Desc,
         call[t].op \in OnHandle =>
             /\ call'[t].pc \in {"close", "dlclose", "erase", "io"} =>
                  call'[t].fd = map[call[t].h].word
             /\ call'[t].pc = "close" => map[call[t].h].type = "FILE"
             /\ call'[t].pc = "dlclose" => map[call[t].h].type = "MODULE"
  PROVE  PlainStep(t)
<1>1. Unlibbed(call[t])
  BY UnlibbedCalls
<1>2. Unlibbed(call'[t])
  BY NoLibIsNumber DEF Unlibbed, Shape, Calls, OnOpen, Copiers, Idle, Frame
<1> QED BY <1>1, <1>2, QuietTypes DEF PlainStep, Locally, Quiet

LEMMA StepDisposition ==
  ASSUME CoreInv, ~over, NEW t \in Thread, CreateFileA_disposition(t)
  PROVE  PlainStep(t)
<1> USE CoreParts
<1>1. /\ Quiet /\ over' \in BOOLEAN /\ call[t].op = "CreateFile" /\ call[t].pc = "disposition"
      /\ Shape(call[t]) /\ call[t] \in Frame
  BY DEF CreateFileA_disposition, Quiet, At, CallsFit, OwnTypes
<1>2. Unlibbed(call[t])
  BY <1>1, UnlibbedCalls
<1>3. CASE Done(t)
  BY <1>1, <1>2, <1>3, QuietDone
<1>4. ASSUME NEW flag \in BOOLEAN, call' = [call EXCEPT ![t].pc = "open", ![t].flag = flag]
      PROVE  PlainStep(t)
  <2> DEFINE c == call[t]
             f == [c EXCEPT !.pc = "open", !.flag = flag]
  <2>1. call' = [call EXCEPT ![t] = f]
    BY <1>4
  <2>2. Fields(c, f, "open", c.p, flag, c.fd, c.ino, c.raced, c.kept, c.due)
    BY <1>1 DEF Fields, Frame, Places
  <2>3. f \in Frame /\ Shape(f)
    BY <1>1, <2>2 DEF Fields, Shape, Copiers, OnOpen
  <2> HIDE DEF f
  <2>4. call' \in [Thread -> Frame] /\ Others(t) /\ call'[t] = f
    BY <2>1, <2>3, SetCall
  <2> QED BY <1>1, <2>2, <2>3, <2>4, QuietGoto DEF Fields, OnHandle
<1> QED BY <1>3, <1>4 DEF CreateFileA_disposition

LEMMA StepLookups ==
  ASSUME CoreInv, ~over, NEW t \in Thread,
         Descriptor_lookup(t) \/ CloseFile_lookup(t) \/ Module_lookup(t)
  PROVE  PlainStep(t)
<1> USE CoreParts
<1> DEFINE c == call[t]
           w == map[c.h].word
<1>1. /\ Quiet /\ over' \in BOOLEAN /\ c.pc = "lookup" /\ Shape(c) /\ c \in Frame
      /\ HandleFits(t) /\ c.op \in OnHandle /\ c.op # "LoadLibrary"
  BY DEF Descriptor_lookup, CloseFile_lookup, Module_lookup, Closing, Quiet, Unmoved, disk, CallsFit, OwnTypes,
         OnHandle
<1>2. /\ c.h \in DOMAIN map /\ H!get_fd(c.h, NoFd) = w /\ H!get_module_native_handle(c.h) = w
      /\ H!type_get(c.h) = map[c.h].type
      /\ map[c.h].type = "FILE" => w \in Desc
      /\ w \in Word
  BY <1>1 DEF HandleFits, H!get_fd, H!get_module_native_handle, H!Field, H!type_get, TableFits,
              H!TypeOK, H!Header
<1>3. Unlibbed(c)
  BY <1>1, UnlibbedCalls
<1>4. ASSUME NEW place \in Places, GivenFd(c, call'[t], place, w), call' \in [Thread -> Frame], Others(t),
             \/ c.op \in OnOpen /\ place = "io" /\ w # NoFd
             \/ c.op \in {"CloseHandle", "FindClose"} /\ place \in {"close", "erase"} /\ map[c.h].type = "FILE"
             \/ c.op \in {"FreeLibrary", "CloseHandle"} /\ place = "dlclose" /\ map[c.h].type = "MODULE"
             \/ c.op = "GetProcAddress" /\ place = "io"
      PROVE  PlainStep(t)
  <2>1. Shape(call'[t])
    BY <1>1, <1>2, <1>4 DEF GivenFd, Fields, Shape, HandleFits, OnOpen, Copiers, Desc
  <2> QED BY <1>1, <1>2, <1>4, <2>1, QuietGoto DEF GivenFd, Fields
<1>5. CASE Descriptor_lookup(t)
  <2>1. CASE Done(t)
    BY <2>1, <1>1, <1>3, QuietDone
  <2>2. CASE w # NoFd /\ call' = [call EXCEPT ![t].fd = w, ![t].pc = "io"]
    <3>1. "io" \in Places /\ c.op \in OnOpen
      BY <1>5 DEF Descriptor_lookup, OnOpen, Places
    <3>2. call' \in [Thread -> Frame] /\ GivenFd(c, call'[t], "io", w) /\ Others(t)
      BY <1>2, <2>2, <3>1, GivenCall
    <3> QED BY <1>4, <2>2, <3>1, <3>2
  <2> QED BY <1>2, <1>5, <2>1, <2>2 DEF Descriptor_lookup
<1>6. CASE CloseFile_lookup(t)
  <2> DEFINE place == IF w = NoFd THEN "erase" ELSE "close"
  <2>1. call' = [call EXCEPT ![t].fd = w, ![t].pc = place] /\ map[c.h].type = "FILE"
        /\ c.op \in {"CloseHandle", "FindClose"}
    BY <1>6, <1>2 DEF CloseFile_lookup, Closing
  <2>2. place \in Places /\ place \in {"close", "erase"}
    BY DEF Places
  <2> HIDE DEF place
  <2> QED BY <1>4, <1>2, <2>1, <2>2, GivenCall
<1>7. CASE Module_lookup(t)
  <2> DEFINE place == IF c.op = "GetProcAddress" THEN "io" ELSE "dlclose"
  <2>1. /\ call' = [call EXCEPT ![t].fd = w, ![t].pc = place] /\ map[c.h].type = "MODULE"
        /\ c.op \in {"GetProcAddress", "FreeLibrary", "CloseHandle"}
    BY <1>7, <1>2 DEF Module_lookup, IsModule
  <2>2. /\ place \in Places
        /\ c.op = "GetProcAddress" => place = "io"
        /\ c.op # "GetProcAddress" => place = "dlclose"
    BY DEF Places
  <2> HIDE DEF place
  <2> QED BY <1>4, <1>2, <2>1, <2>2, GivenCall
<1> QED BY <1>5, <1>6, <1>7

LEMMA StepEnds ==
  ASSUME CoreInv, ~over, NEW t \in Thread,
         \/ ReadFile_read(t) \/ FlushFileBuffers_syncfs(t) \/ SetFilePointer_lseek(t)
         \/ GetFileAttributesA_kind(t) \/ ExceptionCaught(t) \/ LoadLibraryA_fails(t) \/ GetProcAddressA_dlsym(t)
  PROVE  PlainStep(t)
<1> USE CoreParts
<1>1. CASE \/ ReadFile_read(t) \/ FlushFileBuffers_syncfs(t) \/ SetFilePointer_lseek(t)
           \/ GetFileAttributesA_kind(t) \/ ExceptionCaught(t)
  <2>1. /\ Quiet /\ over' \in BOOLEAN /\ Done(t)
        /\ call[t].pc \in {"io", "kind"} \/ call[t].op \in {"CreateFile", "CopyFile", "MoveFile"}
        /\ call[t].op # "LoadLibrary"
    BY <1>1 DEF ReadFile_read, FlushFileBuffers_syncfs, SetFilePointer_lseek, ReadOnly,
                GetFileAttributesA_kind, ExceptionCaught, Copies, Quiet, OwnTypes, At
  <2>2. call[t].pc # "erase"
    BY <2>1 DEF CallsFit, Shape, Copiers
  <2> QED BY <2>1, <2>2, UnlibbedCalls, QuietDone
<1>2. CASE LoadLibraryA_fails(t)
  <2>1. /\ Quiet /\ over' \in BOOLEAN /\ Done(t) /\ call[t].pc = "dlopen"
        /\ call[t].op = "LoadLibrary"
    BY <1>2 DEF LoadLibraryA_fails, Unmoved, Quiet, OwnTypes, At, disk
  <2> QED BY <2>1, QuietDone DEF Unlibbed
<1>3. CASE GetProcAddressA_dlsym(t)
  <2>1. /\ Quiet /\ over' \in BOOLEAN /\ Done(t) /\ call[t].pc = "io"
        /\ call[t].op = "GetProcAddress"
    BY <1>3 DEF GetProcAddressA_dlsym, Quiet, At, disk
  <2> QED BY <2>1, UnlibbedCalls, QuietDone
<1> QED BY <1>1, <1>2, <1>3

LEMMA StepExists ==
  ASSUME CoreInv, ~over, NEW t \in Thread, GetFileAttributesA_exists(t) \/ Find_exists(t)
  PROVE  PlainStep(t)
<1> USE CoreParts
<1> DEFINE c == call[t]
<1>1. /\ Quiet /\ over' \in BOOLEAN /\ Shape(c) /\ HandleFits(t) /\ c \in Frame
      /\ \/ c.op = "GetFileAttributes" /\ c.pc = "check" /\ (Done(t) \/ Goto(t, "kind"))
         \/ c.op \in {"FindFirstFile", "FindNextFile"} /\ c.pc = "exists" /\ (Done(t) \/ Goto(t, "open"))
  BY DEF GetFileAttributesA_exists, Find_exists, Leave, Quiet, OwnTypes, At, CallsFit
<1>2. Unlibbed(c)
  BY <1>1, UnlibbedCalls
<1>3. CASE Done(t)
  BY <1>3, <1>1, <1>2, QuietDone
<1>4. ASSUME NEW place \in {"kind", "open"}, Goto(t, place),
             \/ c.op = "GetFileAttributes" /\ place = "kind"
             \/ c.op \in {"FindFirstFile", "FindNextFile"} /\ c.pc = "exists" /\ place = "open"
      PROVE  PlainStep(t)
  <2>1. call' \in [Thread -> Frame] /\ MovedTo(c, call'[t], place) /\ Others(t)
    BY <1>4, GotoCall DEF Places
  <2>2. Shape(call'[t])
    BY <1>1, <1>4, <2>1 DEF MovedTo, Fields, Shape, OnOpen, Copiers
  <2> QED BY <1>1, <1>4, <2>1, <2>2, QuietGoto DEF MovedTo, Fields
<1> QED BY <1>1, <1>3, <1>4

LEMMA StepMoveCheck ==
  ASSUME CoreInv, ~over, NEW t \in Thread, MoveFileA_check(t)
  PROVE  PlainStep(t)
<1> USE CoreParts
<1> DEFINE c == call[t]
<1>1. /\ Quiet /\ over' \in BOOLEAN /\ Shape(c) /\ c \in Frame
      /\ c.op = "MoveFile" /\ c.pc = "check" /\ c.p \in Name /\ c.op \in Copiers
  BY DEF MoveFileA_check, Quiet, OwnTypes, At, CallsFit, Shape, Copiers
<1>2. CASE Done(t)
  BY <1>2, <1>1, UnlibbedCalls, QuietDone
<1>3. CASE Exists(c.p) /\ call' = [call EXCEPT ![t].pc = "copy", ![t].raced = FALSE,
                                               ![t].kept = content[dir[c.p]]]
  <2> DEFINE kept == content[dir[c.p]]
             f == [c EXCEPT !.pc = "copy", !.raced = FALSE, !.kept = kept]
  <2>1. kept \in Content
    BY <1>1, <1>3 DEF Exists, DiskTypes
  <2>2. call' = [call EXCEPT ![t] = f]
    BY <1>3
  <2> HIDE DEF kept
  <2>3. Fields(c, f, "copy", c.p, c.flag, c.fd, c.ino, FALSE, kept, c.due)
    BY <1>1, <2>1 DEF Fields, Frame, Places
  <2>4. f \in Frame /\ Shape(f)
    BY <1>1, <2>3 DEF Fields, Shape, OnOpen, Copiers
  <2> HIDE DEF f
  <2>5. call' \in [Thread -> Frame] /\ Others(t) /\ call'[t] = f
    BY <2>2, <2>4, SetCall
  <2> QED BY <1>1, <2>3, <2>4, <2>5, QuietGoto DEF Fields, OnHandle, Copiers
<1> QED BY <1>2, <1>3 DEF MoveFileA_check

LEMMA NamesAreNat == Name \subseteq Nat
BY FileAssumption

LEMMA StepFirstList ==
  ASSUME CoreInv, ~over, NEW t \in Thread, FindFirstFileA_list(t)
  PROVE  PlainStep(t)
<1> USE CoreParts
<1> DEFINE c == call[t]
           found == IF c.q = Wild THEN Listing \cap WildMatches ELSE {c.q}
           due == Listing \cap Matching(c.q)
<1>1. /\ Quiet /\ over' \in BOOLEAN /\ Shape(c) /\ c \in Frame
      /\ c.op = "FindFirstFile" /\ c.pc = "list" /\ c.q \in Name \cup {Wild}
  BY DEF FindFirstFileA_list, Leave, Quiet, OwnTypes, At, CallsFit, Shape
<1>2. CASE Done(t)
  BY <1>2, <1>1, UnlibbedCalls, QuietDone
<1>3. CASE found # {} /\ call' = [call EXCEPT ![t].pc = "exists", ![t].p = Min(found),
                                            ![t].due = due, ![t].raced = FALSE]
  <2>1. found \subseteq Name /\ due \subseteq Name
    BY <1>1, FileAssumption DEF Listing
  <2>2. Min(found) \in Name
    <3> HIDE DEF found
    <3>1. found \subseteq Nat
      BY <2>1, NamesAreNat
    <3> QED BY <1>3, <2>1, <3>1, LeastExists
  <2> DEFINE p == Min(found)
             f == [c EXCEPT !.pc = "exists", !.p = p, !.due = due, !.raced = FALSE]
  <2>3. call' = [call EXCEPT ![t] = f]
    BY <1>3
  <2>4. p \in Name
    BY <2>2
  <2> HIDE DEF p, due
  <2>5. Fields(c, f, "exists", p, c.flag, c.fd, c.ino, FALSE, c.kept, due)
    BY <1>1, <2>1, <2>4 DEF Fields, Frame, Places, Text
  <2>6. f \in Frame /\ Shape(f)
    BY <1>1, <2>4, <2>5 DEF Fields, Shape, OnOpen, Copiers
  <2> HIDE DEF f
  <2>7. call' \in [Thread -> Frame] /\ Others(t) /\ call'[t] = f
    BY <2>3, <2>6, SetCall
  <2> QED BY <1>1, <2>5, <2>6, <2>7, QuietGoto DEF Fields, OnHandle
<1> QED BY <1>2, <1>3 DEF FindFirstFileA_list

LEMMA StepNextList ==
  ASSUME CoreInv, ~over, NEW t \in Thread, FindNextFileA_list(t)
  PROVE  PlainStep(t)
<1> USE CoreParts
<1> DEFINE c == call[t]
           w == map[c.h].word
           last == H!get_fd_path(c.h)
           rest == {p \in Listing \cap WildMatches : p > last}
           p == IF rest = {} THEN NoText ELSE Min(rest)
<1>1. /\ Quiet /\ over' \in BOOLEAN /\ Shape(c) /\ c \in Frame /\ HandleFits(t)
      /\ c.op = "FindNextFile" /\ c.pc = "list" /\ c.op \in OnHandle
  BY DEF FindNextFileA_list, Leave, Quiet, OwnTypes, At, CallsFit, Shape, OnHandle
<1>2. c.h \in DOMAIN map /\ H!get_fd(c.h, NoFd) = w /\ w \in Word /\ map[c.h].type = "FILE"
  BY <1>1 DEF HandleFits, H!get_fd, H!Field, H!TypeOK, H!Header
<1>3. CASE Done(t)
  BY <1>3, <1>1, UnlibbedCalls, QuietDone
<1>4. CASE call' = [call EXCEPT ![t].pc = "close", ![t].fd = w, ![t].p = p]
  <2>1. p \in Name \cup {NoText}
    <3>1. rest \subseteq Name
      BY DEF Listing
    <3>2. rest \subseteq Nat
      BY <3>1, NamesAreNat
    <3> HIDE DEF rest
    <3> QED BY <3>1, <3>2, LeastExists
  <2> DEFINE f == [c EXCEPT !.pc = "close", !.fd = w, !.p = p]
  <2>2. call' = [call EXCEPT ![t] = f]
    BY <1>4
  <2> HIDE DEF p, w
  <2>3. Fields(c, f, "close", p, c.flag, w, c.ino, c.raced, c.kept, c.due)
    BY <1>1, <1>2, <2>1 DEF Fields, Frame, Places, Text
  <2>4. f \in Frame /\ Shape(f)
    BY <1>1, <2>1, <2>3 DEF Fields, Shape, OnOpen, Copiers
  <2> HIDE DEF f
  <2>5. call' \in [Thread -> Frame] /\ Others(t) /\ call'[t] = f
    BY <2>2, <2>4, SetCall
  <2> USE DEF w
  <2> QED BY <1>1, <1>2, <2>3, <2>4, <2>5, QuietGoto DEF Fields
<1> QED BY <1>2, <1>3, <1>4 DEF FindNextFileA_list

-----------------------------------------------------------------------------
(* Steps that change the disk, the descriptors or what is known of them.   *)
OutsideTheTable == UNCHANGED <<map, given, refs>> /\ DiskTypes' /\ OwnTypes'

LEMMA PlainDone ==
  ASSUME CoreInv, ~over, NEW t \in Thread, OutsideTheTable, Unlibbed(call[t]),
         call' \in [Thread -> Frame], Others(t), call'[t] = Idle
  PROVE  PlainStep(t)
BY IdleShape DEF PlainStep, Locally, OutsideTheTable

LEMMA PlainGoto ==
  ASSUME CoreInv, ~over, NEW t \in Thread, OutsideTheTable,
         call' \in [Thread -> Frame], Others(t), Shape(call'[t]),
         call'[t].op = call[t].op, call'[t].h = call[t].h,
         call[t].op # "LoadLibrary", call[t].pc # "erase", call'[t].pc = "erase" => call'[t].fd \in Desc,
         call[t].op \in OnHandle =>
             /\ call'[t].pc \in {"close", "dlclose", "erase", "io"} =>
                  call'[t].fd = map[call[t].h].word
             /\ call'[t].pc = "close" => map[call[t].h].type = "FILE"
             /\ call'[t].pc = "dlclose" => map[call[t].h].type = "MODULE"
  PROVE  PlainStep(t)
<1>1. Unlibbed(call[t])
  BY UnlibbedCalls
<1>2. Unlibbed(call'[t])
  BY NoLibIsNumber DEF Unlibbed, Shape, Calls, OnOpen, Copiers, Idle, Frame
<1> QED BY <1>1, <1>2 DEF PlainStep, Locally, OutsideTheTable

(* open: nothing, or a descriptor that was closed is now open on the file. *)
Opens(p, fd, ino) ==
  /\ fd \in Fd /\ fds[fd] = NoIno /\ ino \in Ino
  /\ home /\ home' = home
  /\ dir' = [dir EXCEPT ![p] = ino] /\ fds' = [fds EXCEPT ![fd] = ino]
  /\ Exists(p) => ino = dir[p]
  /\ ~Exists(p) => ino \notin InosInUse
  /\ content' = content \/ content' = [content EXCEPT ![ino] = "empty"]

LEMMA OpenDoes ==
  ASSUME TypeOK, NEW t \in Thread, NEW p \in Name, NEW creates \in BOOLEAN, NEW truncates \in BOOLEAN,
         call[t].ino = NoIno, NEW fd, fd = OpenResult(p, creates), open(p, fd, creates, truncates)
  PROVE  /\ fd \in Desc /\ DiskTypes'
         /\ fd = NoFd => UNCHANGED <<disk, fds>>
         /\ fd # NoFd => /\ \E ino \in Ino : Opens(p, fd, ino)
                         /\ Exists(p) /\ ~truncates => content' = content
<1>1. DiskTypes
  BY TypeParts
<1>2. /\ fd \in Desc
      /\ fd # NoFd => fd \in Fd /\ fds[fd] = NoIno /\ home /\ (Exists(p) \/ creates)
  BY OpenGives
<1>3. CASE fd = NoFd
  <2>1. UNCHANGED <<disk, fds>>
    BY <1>3 DEF open
  <2> QED BY <1>1, <1>2, <1>3, <2>1 DEF DiskTypes, disk
<1>4. CASE fd # NoFd
  <2> DEFINE ino == IF Exists(p) THEN dir[p] ELSE FreshIno
  <2>1. /\ dir' = [dir EXCEPT ![p] = ino] /\ fds' = [fds EXCEPT ![fd] = ino] /\ home' = home
        /\ content' = content \/ content' = [content EXCEPT ![ino] = "empty"]
        /\ Exists(p) /\ ~truncates => content' = content
    BY <1>4 DEF open
  <2>2. ino \in Ino /\ (~Exists(p) => ino \notin InosInUse)
    <3>1. CASE Exists(p)
      BY <3>1, <1>1 DEF DiskTypes, Exists
    <3>2. CASE ~Exists(p)
      <4>1. dir[p] = NoIno
        BY <3>2, <1>2, <1>4 DEF Exists
      <4> QED BY <3>2, <4>1, FreshExists
    <3> QED BY <3>1, <3>2
  <2>3. Exists(p) => ino = dir[p]
    OBVIOUS
  <2> HIDE DEF ino
  <2>4. Opens(p, fd, ino)
    BY <1>2, <1>4, <2>1, <2>2, <2>3 DEF Opens
  <2>5. DiskTypes'
    <3>1. "empty" \in Content
      BY DEF Content
    <3>2. content' \in [Ino -> Content]
      BY <1>1, <2>1, <2>2, <3>1 DEF DiskTypes
    <3>3. dir' \in [Name -> Ino \cup {NoIno}] /\ fds' \in [Fd -> Ino \cup {NoIno}] /\ home' = TRUE
      BY <1>1, <1>2, <1>4, <2>1, <2>2 DEF DiskTypes
    <3> QED BY <3>2, <3>3 DEF DiskTypes
  <2> QED BY <1>2, <1>4, <2>1, <2>2, <2>4, <2>5
<1> QED BY <1>3, <1>4

LEMMA UnlinkTypes ==
  ASSUME DiskTypes, OwnTypes, NEW p \in Name, unlink(p), fds' = fds, UNCHANGED <<use, over, given>>,
         calls' \in 0..use.calls
  PROVE  DiskTypes' /\ OwnTypes'
<1>1. dir' \in [Name -> Ino \cup {NoIno}] /\ (~home' => \A q \in Name : dir'[q] = NoIno)
  BY DEF DiskTypes, unlink
<1>2. history' \in History
  <2> DEFINE calm == IF dir[p] = NoIno THEN history.calm ELSE {}
  <2>1. calm \subseteq Key /\ history' = [history EXCEPT !.calm = calm]
    BY DEF unlink, OwnTypes, History
  <2> HIDE DEF calm
  <2> QED BY <2>1 DEF OwnTypes, History
<1> QED BY <1>1, <1>2 DEF DiskTypes, OwnTypes, unlink

LEMMA HistoryStays ==
  ASSUME OwnTypes, UNCHANGED <<use, calls, over, given, history>>
  PROVE  OwnTypes'
BY DEF OwnTypes

LEMMA StepParent ==
  ASSUME CoreInv, ~over, NEW t \in Thread, CreateFileA_parent(t)
  PROVE  PlainStep(t)
<1> USE CoreParts
<1> DEFINE c == call[t]
           f == [c EXCEPT !.pc = "disposition"]
<1>1. Shape(c) /\ c \in Frame /\ c.op = "CreateFile"
  BY DEF CreateFileA_parent, At, CallsFit
<1>2. MovedTo(c, f, "disposition")
  BY <1>1, MovedFrame DEF Places
<1>3. f \in Frame
  BY <1>2 DEF MovedTo, Fields
<1>4. OutsideTheTable
  BY HistoryStays DEF CreateFileA_parent, OutsideTheTable, DiskTypes
<1>5. call' \in [Thread -> Frame] /\ MovedTo(c, call'[t], "disposition") /\ Others(t)
  <2>1. CASE Goto(t, "disposition")
    BY <2>1, GotoCall DEF Places
  <2>2. CASE Disturb(t, f)
    <3> HIDE DEF f
    <3> QED BY <2>2, <1>2, <1>3, DisturbCall
  <2> QED BY <2>1, <2>2 DEF CreateFileA_parent
<1>6. Shape(call'[t])
  BY <1>1, <1>5 DEF MovedTo, Fields, Shape, OnOpen, Copiers
<1> QED BY <1>1, <1>4, <1>5, <1>6, PlainGoto DEF MovedTo, Fields, OnHandle, CreateFileA_parent, At

LEMMA StepReplace ==
  ASSUME CoreInv, ~over, NEW t \in Thread, CreateFileA_replace(t)
  PROVE  PlainStep(t)
<1> USE CoreParts
<1> DEFINE c == call[t]
           f == [c EXCEPT !.pc = "open", !.flag = TRUE]
<1>1. Shape(c) /\ c \in Frame /\ c.op = "CreateFile" /\ c.p \in Name
  BY DEF CreateFileA_replace, At, CallsFit, Shape
<1>2. Fields(c, f, "open", c.p, TRUE, c.fd, c.ino, c.raced, c.kept, c.due)
  BY <1>1 DEF Fields, Frame, Places
<1>3. f \in Frame /\ Shape(f)
  BY <1>1, <1>2 DEF Fields, Shape, OnOpen, Copiers
<1>4. OutsideTheTable
  <2>1. DiskTypes' /\ OwnTypes'
    BY <1>1, UnlinkTypes DEF CreateFileA_replace, OwnTypes
  <2> QED BY <2>1 DEF CreateFileA_replace, OutsideTheTable
<1>5. call' \in [Thread -> Frame] /\ call'[t] = f /\ Others(t)
  <2>1. Disturb(t, f)
    BY DEF CreateFileA_replace
  <2> HIDE DEF f
  <2> QED BY <1>3, <2>1, DisturbCall
<1> HIDE DEF f
<1> QED BY <1>1, <1>2, <1>3, <1>4, <1>5, PlainGoto DEF Fields, OnHandle, CreateFileA_replace, At

LEMMA StepOpen ==
  ASSUME CoreInv, ~over, NEW t \in Thread, CreateFileA_open(t)
  PROVE  PlainStep(t)
<1> USE CoreParts
<1> DEFINE c == call[t]
           fd == OpenResult(c.p, c.flag)
           truncates == c.how = "TRUNCATE_EXISTING"
           f == [c EXCEPT !.pc = "register", !.fd = fd]
<1>1. Shape(c) /\ c \in Frame /\ c.op = "CreateFile" /\ c.p \in Name /\ c.ino = NoIno /\ c.flag \in BOOLEAN
  BY DEF CreateFileA_open, At, CallsFit, Shape, Frame, Copiers
<1>2. fd \in Desc /\ DiskTypes'
  <2>1. open(c.p, fd, c.flag, truncates)
    BY DEF CreateFileA_open
  <2>2. truncates \in BOOLEAN
    OBVIOUS
  <2> HIDE DEF fd, truncates
  <2> USE DEF fd
  <2> QED BY <1>1, <2>1, <2>2, OpenDoes DEF CoreInv
<1>3. Disturb(t, f) \/ call' = [call EXCEPT ![t] = f]
  BY DEF CreateFileA_open
<1> HIDE DEF fd
<1>4. GivenFd(c, f, "register", fd)
  BY <1>1, <1>2, NoLibIsNumber, GivenFrame DEF Places
<1>5. f \in Frame /\ Shape(f)
  BY <1>1, <1>2, <1>4 DEF GivenFd, Fields, Shape, OnOpen, Copiers
<1> HIDE DEF f
<1>6. call' \in [Thread -> Frame] /\ call'[t] = f /\ Others(t)
  BY <1>3, <1>5, SetCall, DisturbCall
<1>7. OutsideTheTable
  BY <1>2, HistoryStays DEF CreateFileA_open, OutsideTheTable
<1> QED BY <1>1, <1>4, <1>5, <1>6, <1>7, PlainGoto DEF GivenFd, Fields, OnHandle, CreateFileA_open, At

LEMMA StepFindOpen ==
  ASSUME CoreInv, ~over, NEW t \in Thread, Find_open(t)
  PROVE  PlainStep(t)
<1> USE CoreParts
<1> DEFINE c == call[t]
           fd == OpenResult(c.p, FALSE)
           place == IF c.op = "FindFirstFile" THEN "register" ELSE "update"
<1>1. /\ Shape(c) /\ c \in Frame /\ c.op \in {"FindFirstFile", "FindNextFile"}
      /\ c.pc = "open" /\ c.p \in Name /\ c.ino = NoIno
  BY DEF Find_open, CallsFit, Shape, Frame, Copiers
<1>2. fd \in Desc /\ DiskTypes'
  <2>1. open(c.p, fd, FALSE, FALSE)
    BY DEF Find_open
  <2> HIDE DEF fd
  <2> USE DEF fd
  <2> QED BY <1>1, <2>1, OpenDoes DEF CoreInv
<1>3. call' = [call EXCEPT ![t].fd = fd, ![t].pc = place]
  BY DEF Find_open
<1>4. /\ place \in Places /\ place \in {"register", "update"}
      /\ c.op = "FindFirstFile" => place = "register"
      /\ c.op = "FindNextFile" => place = "update"
  BY <1>1 DEF Places
<1> HIDE DEF fd, place
<1>5. call' \in [Thread -> Frame] /\ GivenFd(c, call'[t], place, fd) /\ Others(t)
  BY <1>2, <1>3, <1>4, NoLibIsNumber, GivenCall
<1>6. Shape(call'[t])
  BY <1>1, <1>2, <1>4, <1>5 DEF GivenFd, Fields, Shape, OnOpen, Copiers
<1>7. OutsideTheTable
  BY <1>2, HistoryStays DEF Find_open, OutsideTheTable
<1> QED BY <1>1, <1>4, <1>5, <1>6, <1>7, PlainGoto DEF GivenFd, Fields

LEMMA StepWrite ==
  ASSUME CoreInv, ~over, NEW t \in Thread, WriteFile_write(t)
  PROVE  PlainStep(t)
<1> USE CoreParts
<1>1. /\ Shape(call[t]) /\ call[t].op = "WriteFile" /\ call[t].pc = "io" /\ call[t].fd \in Fd
      /\ Unlibbed(call[t])
  BY UnlibbedCalls DEF WriteFile_write, At, CallsFit, Shape, OnOpen
<1>2. call' \in [Thread -> Frame] /\ call'[t] = Idle /\ Others(t)
  BY IdleFrame, DoneCall, DisturbCall DEF WriteFile_write
<1>3. content' \in [Ino -> Content]
  <2>1. CASE content' = content
    BY <2>1 DEF DiskTypes
  <2>2. CASE fds[call[t].fd] # NoIno /\ content' = [content EXCEPT ![fds[call[t].fd]] = "new"]
    <3>1. fds[call[t].fd] \in Ino
      BY <1>1, <2>2 DEF DiskTypes
    <3> QED BY <2>2, <3>1 DEF DiskTypes, Content
  <2> QED BY <2>1, <2>2 DEF WriteFile_write
<1>4. OutsideTheTable
  BY <1>3, HistoryStays DEF WriteFile_write, OutsideTheTable, DiskTypes
<1> QED BY <1>1, <1>2, <1>4, PlainDone

LEMMA StepCopyCheck ==
  ASSUME CoreInv, ~over, NEW t \in Thread, CopyFileA_check(t)
  PROVE  PlainStep(t)
<1> USE CoreParts
<1> DEFINE c == call[t]
           f == [c EXCEPT !.pc = "copy"]
<1>1. /\ Shape(c) /\ c \in Frame /\ c.op = "CopyFile" /\ c.pc = "check" /\ c.q \in Name
      /\ c.op \in Copiers
  BY DEF CopyFileA_check, At, CallsFit, Shape, Copiers
<1>2. CASE Done(t) /\ UNCHANGED <<disk, history>>
  <2>1. Quiet /\ over' \in BOOLEAN
    BY <1>2 DEF CopyFileA_check, Quiet, OwnTypes
  <2> QED BY <1>1, <1>2, <2>1, UnlibbedCalls, QuietDone
<1>3. CASE unlink(c.q) /\ Disturb(t, f)
  <2>1. MovedTo(c, f, "copy")
    BY <1>1, MovedFrame DEF Places
  <2>2. f \in Frame /\ Shape(f)
    BY <1>1, <2>1 DEF MovedTo, Fields, Shape, OnOpen, Copiers
  <2>3. OutsideTheTable
    <3>1. DiskTypes' /\ OwnTypes'
      BY <1>1, <1>3, UnlinkTypes DEF CopyFileA_check, OwnTypes
    <3> QED BY <3>1 DEF CopyFileA_check, OutsideTheTable
  <2> HIDE DEF f
  <2>4. call' \in [Thread -> Frame] /\ call'[t] = f /\ Others(t)
    BY <1>3, <2>2, DisturbCall
  <2> QED BY <1>1, <2>1, <2>2, <2>3, <2>4, PlainGoto DEF MovedTo, Fields, OnHandle
<1> QED BY <1>2, <1>3 DEF CopyFileA_check

LEMMA StepCopyStart ==
  ASSUME CoreInv, ~over, NEW t \in Thread, Copy_start(t)
  PROVE  /\ PlainStep(t)
         /\ FreshIno \in Ino /\ FreshIno \notin InosInUse
         /\ Noticed(t)
         /\ Fields(call[t], call'[t], "copying", call[t].p, call[t].flag, call[t].fd, FreshIno,
                   call[t].raced, content[dir[call[t].p]], call[t].due)
<1> USE CoreParts
<1> DEFINE c == call[t]
           new == FreshIno
           kept == content[dir[c.p]]
           f == [c EXCEPT !.pc = "copying", !.ino = new, !.kept = kept]
<1>1. /\ Shape(c) /\ c \in Frame /\ c.pc = "copy" /\ c.op \in Copiers
      /\ c.p \in Name /\ c.q \in Name /\ c.ino = NoIno /\ c.p # c.q
  BY DEF Copy_start, CallsFit, Shape, Copiers, OnOpen, Calls, Frame, Idle
<1>2. new \in Ino /\ new \notin InosInUse
  <2>1. dir[c.q] = NoIno
    BY <1>1 DEF Copy_start, Exists, DiskTypes
  <2> QED BY <1>1, <2>1, FreshExists DEF CoreInv
<1>3. kept \in Content
  BY <1>1 DEF Copy_start, Exists, DiskTypes
<1>4. /\ dir' = [dir EXCEPT ![c.q] = new] /\ content' = [content EXCEPT ![new] = "part"]
      /\ Disturb(t, f) /\ home /\ home' = home /\ fds' = fds
  BY DEF Copy_start, Exists
<1> HIDE DEF new, kept
<1>5. Fields(c, f, "copying", c.p, c.flag, c.fd, new, c.raced, kept, c.due)
  BY <1>1, <1>2, <1>3 DEF Fields, Frame, Places
<1>6. f \in Frame /\ Shape(f)
  <2>1. new # NoIno
    BY <1>2 DEF Ino, NoIno
  <2> QED BY <1>1, <1>5, <2>1 DEF Fields, Shape, OnOpen, Copiers
<1> HIDE DEF f
<1>7. call' \in [Thread -> Frame] /\ call'[t] = f /\ Others(t) /\ Noticed(t)
  BY <1>4, <1>6, DisturbCall
<1>8. DiskTypes'
  <2>1. content' \in [Ino -> Content]
    BY <1>2, <1>4 DEF DiskTypes, Content
  <2>2. dir' \in [Name -> Ino \cup {NoIno}] /\ home' = TRUE
    BY <1>1, <1>2, <1>4 DEF DiskTypes
  <2> QED BY <2>1, <2>2, <1>4 DEF DiskTypes
<1>9. OutsideTheTable
  BY <1>8, HistoryStays DEF Copy_start, OutsideTheTable
<1>10. PlainStep(t)
  BY <1>1, <1>5, <1>6, <1>7, <1>9, PlainGoto DEF Fields, OnHandle, Copiers
<1> QED BY <1>2, <1>5, <1>7, <1>10 DEF new, kept

LEMMA StepCopyEnd ==
  ASSUME CoreInv, ~over, NEW t \in Thread, Copy_end(t)
  PROVE  PlainStep(t)
<1> USE CoreParts
<1> DEFINE c == call[t]
           f == [c EXCEPT !.pc = "remove"]
           g == IF c.op = "CopyFile" THEN Idle ELSE f
<1>1. /\ Shape(c) /\ c \in Frame /\ c.pc = "copying" /\ c.op \in Copiers
      /\ c.p \in Name /\ c.ino # NoIno /\ c.ino \in Ino
  BY DEF Copy_end, CallsFit, Shape, Copiers, OnOpen, Calls, Frame, Idle
<1>2. content' \in [Ino -> Content]
  <2>1. PICK d \in {c.kept} \cup {content[i] : i \in {dir[c.p]} \ {NoIno}} :
          content' = [content EXCEPT ![c.ino] = d]
    BY DEF Copy_end
  <2>2. c.kept \in Content
    BY <1>1 DEF Frame
  <2>3. d \in Content
    BY <1>1, <2>1, <2>2 DEF DiskTypes
  <2> QED BY <1>1, <2>1, <2>3 DEF DiskTypes
<1>3. OutsideTheTable
  BY <1>2, HistoryStays DEF Copy_end, OutsideTheTable, DiskTypes
<1>4. MovedTo(c, f, "remove")
  BY <1>1, MovedFrame DEF Places
<1>5. f \in Frame /\ Shape(f)
  BY <1>1, <1>4 DEF MovedTo, Fields, Shape, OnOpen, Copiers
<1>6. Disturb(t, g) /\ (g = Idle \/ g = f)
  BY DEF Copy_end
<1> HIDE DEF f, g
<1>7. call' \in [Thread -> Frame] /\ call'[t] = g /\ Others(t)
  BY <1>5, <1>6, IdleFrame, DisturbCall
<1>8. CASE g = Idle
  BY <1>1, <1>3, <1>7, <1>8, UnlibbedCalls, PlainDone DEF Copiers
<1>9. CASE g = f
  BY <1>1, <1>3, <1>4, <1>5, <1>7, <1>9, PlainGoto DEF MovedTo, Fields, OnHandle, Copiers
<1> QED BY <1>6, <1>8, <1>9

LEMMA StepRemove ==
  ASSUME CoreInv, ~over, NEW t \in Thread, MoveFileA_remove(t)
  PROVE  PlainStep(t)
<1> USE CoreParts
<1>1. /\ Shape(call[t]) /\ call[t].op = "MoveFile" /\ call[t].pc = "remove" /\ call[t].p \in Name
      /\ Unlibbed(call[t])
  BY UnlibbedCalls DEF MoveFileA_remove, At, CallsFit, Shape, Copiers
<1>2. call' \in [Thread -> Frame] /\ call'[t] = Idle /\ Others(t)
  BY IdleFrame, DisturbCall DEF MoveFileA_remove
<1>3. OutsideTheTable
  <2>1. DiskTypes' /\ OwnTypes'
    BY <1>1, UnlinkTypes DEF MoveFileA_remove, OwnTypes
  <2> QED BY <2>1 DEF MoveFileA_remove, OutsideTheTable
<1> QED BY <1>1, <1>2, <1>3, PlainDone

(* DeleteFileA, CreateDirectoryA and RemoveDirectoryA. *)
LEMMA StepAtomic ==
  ASSUME CoreInv, ~over, NEW t \in Thread,
         \/ \E p \in Name : DeleteFileA(t, p)
         \/ CreateDirectoryA(t) \/ RemoveDirectoryA(t)
  PROVE  PlainStep(t)
<1> USE CoreParts
<1>1. \E f \in Calls : Atomic(t, f)
  BY DEF DeleteFileA, CreateDirectoryA, RemoveDirectoryA, Calls
<1>2. /\ call[t] = Idle /\ call' \in [Thread -> Frame] /\ call'[t] = Idle /\ Others(t)
      /\ UNCHANGED <<map, refs, given>>
  BY <1>1, IdleFrame, DisturbCall DEF Atomic
<1>3. calls' \in 0..use.calls /\ UNCHANGED <<use, fds, over>>
  <2>1. use.calls \in Nat
    BY DEF OwnTypes, Use
  <2> QED BY <1>1, <2>1 DEF Atomic, OwnTypes
<1>4. OwnTypes' /\ DiskTypes'
  <2>1. CASE \E p \in Name : DeleteFileA(t, p)
    BY <2>1, <1>2, <1>3, UnlinkTypes DEF DeleteFileA
  <2>2. CASE CreateDirectoryA(t)
    BY <2>2, <1>2, <1>3 DEF CreateDirectoryA, OwnTypes, DiskTypes
  <2>3. CASE RemoveDirectoryA(t)
    BY <2>3, <1>2, <1>3 DEF RemoveDirectoryA, OwnTypes, DiskTypes, Listing, Exists
  <2> QED BY <2>1, <2>2, <2>3
<1> QED BY <1>2, <1>4, IdleShape, PlainDone DEF OutsideTheTable

-----------------------------------------------------------------------------
(* What the steps make of history.                                         *)
HistoryIs(opened, stale, struck, seen, due, calm) ==
  /\ history' \in History
  /\ history'.opened = opened /\ history'.stale = stale /\ history'.struck = struck
  /\ history'.seen = seen /\ history'.due = due /\ history'.calm = calm

LEMMA HistoryOfClose ==
  ASSUME history \in History, NEW k \in Key,
         history' = [history EXCEPT !.struck = @ \/ k \in history.stale, !.stale = @ \cup {k}]
  PROVE  HistoryIs(history.opened, history.stale \cup {k}, history.struck \/ k \in history.stale,
                   history.seen, history.due, history.calm)
<1> DEFINE struck == history.struck \/ k \in history.stale
           stale == history.stale \cup {k}
<1>1. struck \in BOOLEAN /\ stale \subseteq Key
  BY DEF History
<1>2. history' = [history EXCEPT !.struck = struck, !.stale = stale]
  OBVIOUS
<1> HIDE DEF struck, stale
<1>3. HistoryIs(history.opened, stale, struck, history.seen, history.due, history.calm)
  BY <1>1, <1>2 DEF HistoryIs, History
<1> QED BY <1>3 DEF struck, stale

LEMMA HistoryOfErase ==
  ASSUME history \in History, NEW k \in Key,
         history' = [history EXCEPT !.stale = @ \ {k}, !.calm = @ \ {k}, !.opened[k] = NoIno,
                                    !.seen[k] = {}, !.due[k] = {}]
  PROVE  HistoryIs([history.opened EXCEPT ![k] = NoIno], history.stale \ {k}, history.struck,
                   [history.seen EXCEPT ![k] = {}], [history.due EXCEPT ![k] = {}],
                   history.calm \ {k})
<1> DEFINE opened == [history.opened EXCEPT ![k] = NoIno]
           seen == [history.seen EXCEPT ![k] = {}]
           due == [history.due EXCEPT ![k] = {}]
           stale == history.stale \ {k}
           calm == history.calm \ {k}
<1>1. /\ opened \in [Key -> Ino \cup {NoIno}] /\ seen \in [Key -> SUBSET Name]
      /\ due \in [Key -> SUBSET Name] /\ stale \subseteq Key /\ calm \subseteq Key
  BY DEF History
<1>2. history' = [history EXCEPT !.stale = stale, !.calm = calm, !.opened = opened, !.seen = seen,
                                 !.due = due]
  BY DEF History
<1> HIDE DEF opened, seen, due, stale, calm
<1> DEFINE new == [opened |-> opened, stale |-> stale, struck |-> history.struck, seen |-> seen,
                   due |-> due, calm |-> calm]
<1>3. history' \in History
  <2>1. history' = new
    BY <1>2 DEF History
  <2>2. history.struck \in BOOLEAN
    BY DEF History
  <2>3. new \in History
    BY <1>1, <2>2 DEF History
  <2> QED BY <2>1, <2>3
<1>4. /\ history'.opened = opened /\ history'.stale = stale /\ history'.struck = history.struck
      /\ history'.seen = seen /\ history'.due = due /\ history'.calm = calm
  BY <1>2 DEF History
<1> QED BY <1>3, <1>4 DEF HistoryIs, opened, seen, due, stale, calm

LEMMA HistoryOfCreate ==
  ASSUME history \in History, NEW k \in Key, NEW ino \in Ino \cup {NoIno},
         history' = [history EXCEPT !.opened[k] = ino]
  PROVE  HistoryIs([history.opened EXCEPT ![k] = ino], history.stale, history.struck,
                   history.seen, history.due, history.calm)
<1> DEFINE opened == [history.opened EXCEPT ![k] = ino]
<1>1. opened \in [Key -> Ino \cup {NoIno}]
  BY DEF History
<1>2. history' = [history EXCEPT !.opened = opened]
  BY DEF History
<1> HIDE DEF opened
<1>3. HistoryIs(opened, history.stale, history.struck, history.seen, history.due, history.calm)
  BY <1>1, <1>2 DEF HistoryIs, History
<1> QED BY <1>3 DEF opened

LEMMA HistoryOfFirst ==
  ASSUME history \in History, NEW k \in Key, NEW ino \in Ino \cup {NoIno}, NEW p \in Name,
         NEW D \in SUBSET Name, NEW b \in BOOLEAN,
         history' = [history EXCEPT !.opened[k] = ino, !.seen[k] = {p}, !.due[k] = D,
                                    !.calm = IF b THEN @ ELSE @ \cup {k}]
  PROVE  HistoryIs([history.opened EXCEPT ![k] = ino], history.stale, history.struck,
                   [history.seen EXCEPT ![k] = {p}], [history.due EXCEPT ![k] = D],
                   IF b THEN history.calm ELSE history.calm \cup {k})
<1> DEFINE opened == [history.opened EXCEPT ![k] = ino]
           seen == [history.seen EXCEPT ![k] = {p}]
           due == [history.due EXCEPT ![k] = D]
           calm == IF b THEN history.calm ELSE history.calm \cup {k}
<1>1. /\ opened \in [Key -> Ino \cup {NoIno}] /\ seen \in [Key -> SUBSET Name]
      /\ due \in [Key -> SUBSET Name] /\ calm \subseteq Key
  BY DEF History
<1>2. history' = [history EXCEPT !.opened = opened, !.seen = seen, !.due = due, !.calm = calm]
  BY DEF History
<1> HIDE DEF opened, seen, due, calm
<1>3. HistoryIs(opened, history.stale, history.struck, seen, due, calm)
  BY <1>1, <1>2 DEF HistoryIs, History
<1> QED BY <1>3 DEF opened, seen, due, calm

LEMMA HistoryOfNext ==
  ASSUME history \in History, NEW k \in Key, NEW ino \in Ino \cup {NoIno}, NEW p \in Name,
         history' = [history EXCEPT !.opened[k] = ino, !.seen[k] = @ \cup {p}, !.stale = @ \ {k}]
  PROVE  HistoryIs([history.opened EXCEPT ![k] = ino], history.stale \ {k}, history.struck,
                   [history.seen EXCEPT ![k] = @ \cup {p}], history.due, history.calm)
<1> DEFINE opened == [history.opened EXCEPT ![k] = ino]
           seen == [history.seen EXCEPT ![k] = @ \cup {p}]
           stale == history.stale \ {k}
<1>1. /\ opened \in [Key -> Ino \cup {NoIno}] /\ seen \in [Key -> SUBSET Name]
      /\ stale \subseteq Key
  BY DEF History
<1>2. history' = [history EXCEPT !.opened = opened, !.seen = seen, !.stale = stale]
  BY DEF History
<1> HIDE DEF opened, seen, stale
<1>3. HistoryIs(opened, stale, history.struck, seen, history.due, history.calm)
  BY <1>1, <1>2 DEF HistoryIs, History
<1> QED BY <1>3 DEF opened, seen, stale

LEMMA StepCloses ==
  ASSUME CoreInv, ~over, NEW t \in Thread, CloseFile_close(t) \/ FindNextFileA_close(t)
  PROVE  /\ PlainStep(t)
         /\ HistoryIs(history.opened, history.stale \cup {call[t].h},
                      history.struck \/ call[t].h \in history.stale,
                      history.seen, history.due, history.calm)
<1> USE CoreParts
<1> DEFINE c == call[t]
<1>1. /\ Shape(c) /\ HandleFits(t) /\ c \in Frame /\ c.pc = "close" /\ c.op \in OnHandle
      /\ CloseDescriptor(t) /\ c.op # "LoadLibrary" /\ Unlibbed(c)
  BY UnlibbedCalls DEF CloseFile_close, FindNextFileA_close, Closing, At, CallsFit, OnHandle
<1>2. /\ c.h \in DOMAIN map /\ map[c.h].type = "FILE" /\ c.fd = map[c.h].word /\ c.fd \in Desc
      /\ c.h \in Key
  BY <1>1 DEF HandleFits, TableFits, Frame, Key
<1>3. HistoryIs(history.opened, history.stale \cup {c.h}, history.struck \/ c.h \in history.stale,
                history.seen, history.due, history.calm)
  <2>1. /\ history \in History
        /\ history' = [history EXCEPT !.struck = @ \/ c.h \in history.stale, !.stale = @ \cup {c.h}]
    BY <1>1 DEF CloseDescriptor, OwnTypes
  <2> QED BY <1>2, <2>1, HistoryOfClose
<1>4. OutsideTheTable
  <2>1. fds' \in [Fd -> Ino \cup {NoIno}]
    BY <1>1 DEF CloseDescriptor, close, DiskTypes
  <2>2. OwnTypes'
    BY <1>1, <1>3 DEF CloseDescriptor, HistoryIs, OwnTypes
  <2> QED BY <1>1, <2>1, <2>2 DEF CloseDescriptor, OutsideTheTable, DiskTypes, disk
<1>5. CASE Done(t)
  <2>1. call' \in [Thread -> Frame] /\ call'[t] = Idle /\ Others(t)
    BY <1>5, DoneCall
  <2> QED BY <1>1, <1>3, <1>4, <2>1, PlainDone
<1>6. CASE CloseFile_close(t)
  <2>1. call' \in [Thread -> Frame] /\ MovedTo(c, call'[t], "erase") /\ Others(t)
    BY <1>6, GotoCall DEF CloseFile_close, Places
  <2>2. Shape(call'[t])
    BY <1>1, <1>6, <2>1 DEF MovedTo, Fields, Shape, OnOpen, Copiers, CloseFile_close, Closing
  <2> QED BY <1>1, <1>2, <1>3, <1>4, <2>1, <2>2, PlainGoto DEF MovedTo, Fields
<1>7. CASE /\ FindNextFileA_close(t) /\ c.p # NoText
           /\ call' = [call EXCEPT ![t].pc = "exists", ![t].fd = NoFd]
  <2>1. call' \in [Thread -> Frame] /\ GivenFd(c, call'[t], "exists", NoFd) /\ Others(t)
    BY <1>7, NoLibIsNumber, GivenCall DEF Places, Desc
  <2>2. Shape(call'[t])
    BY <1>1, <1>7, <2>1 DEF GivenFd, Fields, Shape, OnOpen, Copiers, FindNextFileA_close, At
  <2> QED BY <1>1, <1>2, <1>3, <1>4, <2>1, <2>2, PlainGoto DEF GivenFd, Fields
<1> QED BY <1>5, <1>6, <1>7 DEF FindNextFileA_close

-----------------------------------------------------------------------------
(* The beginning of a call.                                                *)
Starts(t, f) ==
  /\ f \in Frame /\ Shape(f) /\ ~f.raced
  /\ f.pc \in {"parent", "check", "list", "lookup", "dlopen"}
  /\ Begin(t, f)
  /\ f.op \in OnHandle =>
       /\ f.h \in given /\ ~InUse(f.h)
       /\ f.op \in OnOpen \cup {"FindNextFile", "FindClose"} => map[f.h].type = "FILE"
       /\ f.op \in {"FreeLibrary", "GetProcAddress"} => map[f.h].type = "MODULE"
  /\ f.op = "FindNextFile" => map[f.h].pattern # NoText
  /\ given' = IF f.op \in Closers THEN given \ {f.h} ELSE given

LEMMA StartKeeps ==
  ASSUME CoreInv, ~over, NEW t \in Thread, NEW f, Starts(t, f)
  PROVE  CoreInv' /\ Others(t) /\ call'[t] = f
<1> USE CoreParts
<1>1. /\ call[t] = Idle /\ f \in Frame
      /\ call' \in [Thread -> Frame] /\ call'[t] = f /\ Others(t)
      /\ UNCHANGED <<use, map, disk, fds, refs, over, history>>
  BY SetCall DEF Starts, Begin
<1>2. LeavesTheOthers(t)
  BY <1>1 DEF LeavesTheOthers, Starts, InUse, CallsFit, HandleFits, Closers, OnHandle
<1>3. TableFits'
  BY <1>1 DEF TableFits, Starts
<1>4. HandleFits(t)'
  <2> SUFFICES ASSUME f.op \in OnHandle PROVE HandleFits(t)'
    BY <1>1 DEF HandleFits
  <2>1. \A u \in Thread \ {t} : call'[u].op \in OnHandle => call'[u].h # f.h
    BY <1>1 DEF Starts, InUse, Others, Alike
  <2>2. f.h \in DOMAIN map
    BY DEF Starts, TableFits
  <2> QED BY <1>1, <2>1, <2>2 DEF HandleFits, Starts
<1>5. CallsFit'
  BY <1>1, <1>2, <1>4, CallsKept DEF Starts
<1>6. LibrariesMatchHandles'
  <2>1. Unlibbed(call[t]) /\ Unlibbed(call'[t])
    BY <1>1, IdleShape DEF Starts, Unlibbed, Shape
  <2>2. \A lib \in Lib : Mods(lib)' = Mods(lib)
    BY <1>1 DEF Mods, Entries
  <2> QED BY <1>1, <2>1, <2>2, UncountedKeeps
<1>7. TypeOK'
  <2>1. DiskTypes' /\ H!TypeOK' /\ refs' \in [Lib -> Nat]
    BY <1>1 DEF DiskTypes, H!TypeOK, disk
  <2>2. OwnTypes'
    <3>1. use.calls \in Nat
      BY DEF OwnTypes, Use
    <3> QED BY <1>1, <3>1 DEF OwnTypes, Starts, Begin
  <2> QED BY <1>1, <2>1, <2>2, TypeParts DEF TypeOK, DiskTypes, OwnTypes
<1> QED BY <1>1, <1>3, <1>5, <1>6, <1>7 DEF CoreInv

LEMMA CreateStarts ==
  ASSUME CoreInv, ~over, NEW t \in Thread, NEW p \in Name, NEW how \in Dispositions \ {"none"},
         CallCreateFileA(t, p, how)
  PROVE  \E f : Starts(t, f)
<1> DEFINE f == [Idle EXCEPT !.op = "CreateFile", !.pc = "parent", !.p = p, !.how = how]
<1>1. f \in Frame /\ Shape(f) /\ ~f.raced /\ f.pc = "parent" /\ f.op = "CreateFile"
  BY IdleFrame, FileAssumption
     DEF Idle, Frame, Shape, Calls, Places, Text, OnOpen, Copiers
<1>2. Begin(t, f) /\ given' = given
  BY DEF CallCreateFileA
<1> HIDE DEF f
<1>3. Starts(t, f)
  BY <1>1, <1>2 DEF Starts, OnHandle, Closers
<1> QED BY <1>3

LEMMA AttributesStart ==
  ASSUME CoreInv, ~over, NEW t \in Thread, NEW p \in Name,
         CallGetFileAttributesA(t, p)
  PROVE  \E f : Starts(t, f)
<1> DEFINE f == [Idle EXCEPT !.op = "GetFileAttributes", !.pc = "check", !.p = p]
<1>1. f \in Frame /\ Shape(f) /\ ~f.raced /\ f.pc = "check" /\ f.op = "GetFileAttributes"
  BY IdleFrame, FileAssumption
     DEF Idle, Frame, Shape, Calls, Places, Text, OnOpen, Copiers
<1>2. Begin(t, f) /\ given' = given
  BY DEF CallGetFileAttributesA
<1> HIDE DEF f
<1>3. Starts(t, f)
  BY <1>1, <1>2 DEF Starts, OnHandle, Closers
<1> QED BY <1>3

LEMMA CopyStarts ==
  ASSUME CoreInv, ~over, NEW t \in Thread, NEW p \in Name, NEW q \in Name \ {p}, NEW b \in BOOLEAN,
         CallCopyFileA(t, p, q, b)
  PROVE  \E f : Starts(t, f)
<1> DEFINE f == [Idle EXCEPT !.op = "CopyFile", !.pc = "check", !.p = p, !.q = q, !.flag = b]
<1>1. /\ f \in Frame /\ f.raced = FALSE /\ f.pc = "check" /\ f.op = "CopyFile"
      /\ f.p = p /\ f.q = q /\ f.ino = NoIno
  BY IdleFrame DEF Idle, Frame, Calls, Places, Text
<1>2. Begin(t, f) /\ given' = given
  BY DEF CallCopyFileA
<1> HIDE DEF f
<1>3. Shape(f)
  BY <1>1 DEF Shape, OnOpen, Copiers
<1>4. Starts(t, f)
  BY <1>1, <1>2, <1>3 DEF Starts, OnHandle, Closers
<1> QED BY <1>4

LEMMA MoveStarts ==
  ASSUME CoreInv, ~over, NEW t \in Thread, NEW p \in Name, NEW q \in Name \ {p},
         CallMoveFileA(t, p, q)
  PROVE  \E f : Starts(t, f)
<1> DEFINE f == [Idle EXCEPT !.op = "MoveFile", !.pc = "check", !.p = p, !.q = q]
<1>1. f \in Frame /\ Shape(f) /\ ~f.raced /\ f.pc = "check" /\ f.op = "MoveFile"
  BY IdleFrame, FileAssumption
     DEF Idle, Frame, Shape, Calls, Places, Text, OnOpen, Copiers
<1>2. Begin(t, f) /\ given' = given
  BY DEF CallMoveFileA
<1> HIDE DEF f
<1>3. Starts(t, f)
  BY <1>1, <1>2 DEF Starts, OnHandle, Closers
<1> QED BY <1>3

(* A call on a handle: the frame has the handle, and nobody else does. *)
LEMMA HandleCallStarts ==
  ASSUME CoreInv, ~over, NEW t \in Thread, NEW k \in given, NEW op \in OnHandle, NEW place,
         place = IF op = "FindNextFile" THEN "list" ELSE "lookup",
         Begin(t, [Idle EXCEPT !.op = op, !.pc = place, !.h = k]), ~InUse(k),
         op \in OnOpen \cup {"FindNextFile", "FindClose"} => map[k].type = "FILE",
         op \in {"FreeLibrary", "GetProcAddress"} => map[k].type = "MODULE",
         op = "FindNextFile" => map[k].pattern # NoText,
         given' = IF op \in Closers THEN given \ {k} ELSE given
  PROVE  \E f : Starts(t, f)
<1> DEFINE f == [Idle EXCEPT !.op = op, !.pc = place, !.h = k]
<1>1. k \in Key /\ op \in Calls /\ place \in Places /\ place \in {"list", "lookup"}
  BY CoreParts DEF OwnTypes, OnHandle, Calls, Places
<1>2. /\ f \in Frame /\ f.op = op /\ f.pc = place /\ f.h = k /\ f.p = NoText /\ f.fd = NoFd
      /\ f.ino = NoIno /\ f.raced = FALSE
  BY <1>1, IdleFrame DEF Idle, Frame, Key
<1>3. Shape(f)
  BY <1>1, <1>2 DEF Shape, OnHandle, OnOpen, Copiers
<1>4. Begin(t, f)
  OBVIOUS
<1> HIDE DEF f
<1>5. Starts(t, f)
  BY <1>1, <1>2, <1>3, <1>4 DEF Starts
<1> QED BY <1>5

LEMMA CallsOnHandlesStart ==
  ASSUME CoreInv, ~over, NEW t \in Thread, NEW k \in given,
         \/ CallWriteFile(t, k) \/ CallReadFile(t, k) \/ CallFlushFileBuffers(t, k)
         \/ CallSetFilePointer(t, k) \/ CallCloseHandle(t, k) \/ CallFindClose(t, k)
         \/ CallFindNextFileA(t, k)
         \/ CallGetProcAddressA(t, k) \/ CallFreeLibrary(t, k) \/ CallCloseModule(t, k)
  PROVE  \E f : Starts(t, f)
<1>1. /\ k \in DOMAIN map /\ H!type_get(k) = map[k].type
      /\ H!get_fd_findPattern(k) = map[k].pattern
      /\ map[k].type = "MODULE" => map[k].pattern = NoText
      /\ map[k].type \in {"FILE", "MODULE"}
  BY CoreParts DEF TableFits, H!type_get, H!get_fd_findPattern, H!Field
<1>2. ASSUME NEW op \in OnOpen, CallOnFile(t, op, k, "lookup"), UNCHANGED given
      PROVE  \E f : Starts(t, f)
  BY <1>1, <1>2, HandleCallStarts DEF CallOnFile, OnOpen, OnHandle, Closers
<1>3. ASSUME NEW op \in {"CloseHandle", "FindClose"}, CallOnFile(t, op, k, "lookup"),
             given' = given \ {k}
      PROVE  \E f : Starts(t, f)
  BY <1>1, <1>3, HandleCallStarts DEF CallOnFile, OnOpen, OnHandle, Closers
<1>4. CASE CallFindNextFileA(t, k)
  <2>1. map[k].pattern # NoText /\ map[k].type = "FILE"
    BY <1>1, <1>4 DEF CallFindNextFileA, IsSearch
  <2> QED BY <2>1, <1>4, HandleCallStarts DEF CallFindNextFileA, OnOpen, OnHandle, Closers
<1>5. ASSUME NEW op \in {"GetProcAddress", "FreeLibrary", "CloseHandle"}, CallOnModule(t, op, k)
      PROVE  \E f : Starts(t, f)
  BY <1>1, <1>5, HandleCallStarts DEF CallOnModule, OnOpen, OnHandle, Closers
<1>6. CASE \/ CallWriteFile(t, k) \/ CallReadFile(t, k) \/ CallFlushFileBuffers(t, k)
           \/ CallSetFilePointer(t, k)
  BY <1>2, <1>6 DEF CallWriteFile, CallReadFile, CallFlushFileBuffers, CallSetFilePointer, OnOpen
<1>7. CASE CallCloseHandle(t, k) \/ CallFindClose(t, k)
  BY <1>3, <1>7 DEF CallCloseHandle, CallFindClose
<1>8. CASE CallGetProcAddressA(t, k) \/ CallFreeLibrary(t, k) \/ CallCloseModule(t, k)
  BY <1>5, <1>8 DEF CallGetProcAddressA, CallFreeLibrary, CallCloseModule
<1> QED BY <1>4, <1>6, <1>7, <1>8

LEMMA FindFirstStarts ==
  ASSUME CoreInv, ~over, NEW t \in Thread, NEW pattern \in Name \cup {Wild},
         CallFindFirstFileA(t, pattern)
  PROVE  \E f : Starts(t, f)
<1> DEFINE f == [Idle EXCEPT !.op = "FindFirstFile", !.pc = "list", !.q = pattern]
<1>1. f \in Frame /\ Shape(f) /\ ~f.raced /\ f.pc = "list" /\ f.op = "FindFirstFile"
  BY IdleFrame, FileAssumption
     DEF Idle, Frame, Shape, Calls, Places, Text, OnOpen, Copiers
<1>2. Begin(t, f) /\ given' = given
  BY DEF CallFindFirstFileA
<1> HIDE DEF f
<1>3. Starts(t, f)
  BY <1>1, <1>2 DEF Starts, OnHandle, Closers
<1> QED BY <1>3

LEMMA LoadStarts ==
  ASSUME CoreInv, ~over, NEW t \in Thread, NEW lib \in Lib,
         CallLoadLibraryA(t, lib)
  PROVE  \E f : Starts(t, f)
<1> DEFINE f == [Idle EXCEPT !.op = "LoadLibrary", !.pc = "dlopen", !.p = lib]
<1>1. f \in Frame /\ Shape(f) /\ ~f.raced /\ f.pc = "dlopen" /\ f.op = "LoadLibrary"
  BY IdleFrame, FileAssumption
     DEF Idle, Frame, Shape, Calls, Places, Text, OnOpen, Copiers
<1>2. Begin(t, f) /\ given' = given
  BY DEF CallLoadLibraryA
<1> HIDE DEF f
<1>3. Starts(t, f)
  BY <1>1, <1>2 DEF Starts, OnHandle, Closers
<1> QED BY <1>3

-----------------------------------------------------------------------------
(* Steps that change the table.                                            *)
Registered(k, header) ==
  /\ k \notin DOMAIN map /\ DOMAIN map' = DOMAIN map \cup {k}
  /\ map'[k] = header /\ \A x \in DOMAIN map : map'[x] = map[x]
Erased(k) ==
  DOMAIN map' = DOMAIN map \ {k} /\ \A x \in DOMAIN map \ {k} : map'[x] = map[x]
Updated(k, fd, path) ==
  /\ DOMAIN map' = DOMAIN map /\ \A x \in DOMAIN map \ {k} : map'[x] = map[x]
  /\ map'[k].type = map[k].type /\ map'[k].pattern = map[k].pattern
  /\ map'[k].word = fd /\ map'[k].text = path

LEMMA RegisterDoes ==
  ASSUME H!TypeOK, NEW r, NEW k \in Key, NEW header \in H!Header, H!Register(r, k, header)
  PROVE  H!TypeOK' /\ Registered(k, header)
BY DEF H!TypeOK, H!Register, H!new_key_get, Registered, Key, H!Key

LEMMA EraseDoes ==
  ASSUME H!TypeOK, NEW k, H!erase(k)
  PROVE  H!TypeOK' /\ Erased(k)
BY DEF H!TypeOK, H!erase, Erased

LEMMA UpdateDoes ==
  ASSUME H!TypeOK, NEW k \in DOMAIN map, NEW fd \in Word, NEW path \in Text,
         map[k].type = "FILE", H!update_fd(k, fd, path)
  PROVE  H!TypeOK' /\ Updated(k, fd, path)
<1> DEFINE e == [map[k] EXCEPT !.word = fd, !.text = path]
<1>1. /\ e \in H!Header /\ e.type = map[k].type /\ e.pattern = map[k].pattern
      /\ e.word = fd /\ e.text = path
  BY DEF H!TypeOK, H!Header
<1>2. /\ DOMAIN map' = DOMAIN map /\ map'[k] = e
      /\ \A x \in DOMAIN map \ {k} : map'[x] = map[x]
  BY DEF H!update_fd
<1> HIDE DEF e
<1> QED BY <1>1, <1>2 DEF Updated, H!TypeOK

(* The last step of a call on a file, which leaves libraries alone. *)
FileEntryStep(t) ==
  /\ call' \in [Thread -> Frame] /\ call'[t] = Idle /\ Others(t) /\ Unlibbed(call[t])
  /\ UNCHANGED <<use, disk, fds, refs, calls, over>>
  /\ H!TypeOK' /\ history' \in History /\ TableFits' /\ LeavesTheOthers(t)
  /\ \A lib \in Lib : Mods(lib)' = Mods(lib)

LEMMA FileEntryKeeps ==
  ASSUME CoreInv, ~over, NEW t \in Thread, FileEntryStep(t)
  PROVE  CoreInv'
<1> USE CoreParts
<1>1. HandleFits(t)' /\ Shape(call'[t])
  BY IdleFrame, IdleShape DEF FileEntryStep, HandleFits, OnHandle
<1>2. CallsFit'
  BY <1>1, CallsKept DEF FileEntryStep
<1>3. LibrariesMatchHandles'
  BY IdleShape, UncountedKeeps DEF FileEntryStep
<1>4. DiskTypes' /\ refs' \in [Lib -> Nat]
  BY DEF FileEntryStep, DiskTypes, disk
<1>5. OwnTypes'
  <2>1. given' \subseteq Key
    BY DEF FileEntryStep, TableFits, H!TypeOK, Key, H!Key
  <2> QED BY <2>1 DEF FileEntryStep, OwnTypes
<1>6. TypeOK'
  BY <1>4, <1>5, TypeParts DEF FileEntryStep, TypeOK, DiskTypes, OwnTypes
<1> QED BY <1>2, <1>3, <1>6 DEF FileEntryStep, CoreInv

(* A new file's handle. *)
FileHeader(fd, path, pattern) ==
  [type |-> "FILE", word |-> fd, more |-> null, text |-> path, pattern |-> pattern]

LEMMA FileRegistered ==
  ASSUME CoreInv, ~over, NEW t \in Thread, NEW r, NEW k \in Key, NEW fd \in Desc, NEW p \in Name,
         NEW q \in Name \cup {Wild, NoText}, H!reg_fd(r, k, fd, p, q), given' = given \cup {k},
         call' \in [Thread -> Frame], call'[t] = Idle, Others(t)
  PROVE  /\ H!TypeOK' /\ Registered(k, FileHeader(fd, p, q)) /\ TableFits' /\ LeavesTheOthers(t)
         /\ \A lib \in Lib : Mods(lib)' = Mods(lib)
<1> USE CoreParts
<1> DEFINE e == FileHeader(fd, p, q)
<1>1. /\ e \in H!Header /\ e.type = "FILE" /\ e.word = fd /\ e.text = p /\ e.pattern = q
  BY NoLibIsNumber DEF FileHeader, H!Header, H!Types, Word, Text
<1>2. H!Register(r, k, e)
  BY DEF H!reg_fd, FileHeader
<1> HIDE DEF e
<1>3. H!TypeOK' /\ Registered(k, e)
  BY <1>1, <1>2, RegisterDoes
<1>4. TableFits'
  BY <1>1, <1>3 DEF TableFits, Registered
<1>5. LeavesTheOthers(t)
  BY <1>3, IdleFrame DEF LeavesTheOthers, CallsFit, HandleFits, Registered, OnHandle
<1>6. \A lib \in Lib : Mods(lib)' = Mods(lib)
  BY <1>1, <1>3 DEF Mods, Entries, Registered
<1> QED BY <1>3, <1>4, <1>5, <1>6 DEF e

LEMMA OpenedType ==
  ASSUME DiskTypes, NEW fd \in Desc
  PROVE  OpenedOn(fd) \in Ino \cup {NoIno} /\ OpenedOn(fd) = IF fd = NoFd THEN NoIno ELSE fds[fd]
BY DEF DiskTypes, OpenedOn, Desc

LEMMA StepCreateRegister ==
  ASSUME CoreInv, ~over, NEW t \in Thread, NEW r, NEW k \in Key, CreateFileA_register(t, r, k)
  PROVE  /\ FileEntryStep(t) /\ given' = given \cup {k}
         /\ Registered(k, FileHeader(call[t].fd, call[t].p, NoText))
         /\ HistoryIs([history.opened EXCEPT ![k] = OpenedOn(call[t].fd)], history.stale,
                      history.struck, history.seen, history.due, history.calm)
<1> USE CoreParts
<1>1. /\ call[t].op = "CreateFile" /\ call[t].pc = "register" /\ call[t].p \in Name
      /\ call[t].fd \in Desc /\ Unlibbed(call[t])
  BY UnlibbedCalls DEF CreateFileA_register, At, CallsFit, Shape
<1>2. call' \in [Thread -> Frame] /\ call'[t] = Idle /\ Others(t)
  BY DoneCall DEF CreateFileA_register
<1>3. /\ H!TypeOK' /\ Registered(k, FileHeader(call[t].fd, call[t].p, NoText))
      /\ TableFits' /\ LeavesTheOthers(t) /\ \A lib \in Lib : Mods(lib)' = Mods(lib)
  BY <1>1, <1>2, FileRegistered DEF CreateFileA_register
<1>4. HistoryIs([history.opened EXCEPT ![k] = OpenedOn(call[t].fd)], history.stale,
                history.struck, history.seen, history.due, history.calm)
  <2>1. history' = [history EXCEPT !.opened[k] = OpenedOn(call[t].fd)] /\ history \in History
    BY DEF CreateFileA_register, OpenedOn, OwnTypes
  <2>2. OpenedOn(call[t].fd) \in Ino \cup {NoIno}
    BY <1>1, OpenedType
  <2> QED BY <2>1, <2>2, HistoryOfCreate
<1> QED BY <1>1, <1>2, <1>3, <1>4 DEF CreateFileA_register, FileEntryStep, HistoryIs

LEMMA StepFirstRegister ==
  ASSUME CoreInv, ~over, NEW t \in Thread, NEW r, NEW k \in Key, FindFirstFileA_register(t, r, k)
  PROVE  /\ FileEntryStep(t) /\ given' = given \cup {k}
         /\ Registered(k, FileHeader(call[t].fd, call[t].p, call[t].q))
         /\ HistoryIs([history.opened EXCEPT ![k] = OpenedOn(call[t].fd)], history.stale,
                      history.struck, [history.seen EXCEPT ![k] = {call[t].p}],
                      [history.due EXCEPT ![k] = call[t].due],
                      IF call[t].raced THEN history.calm ELSE history.calm \cup {k})
<1> USE CoreParts
<1> DEFINE c == call[t]
<1>1. /\ c.op = "FindFirstFile" /\ c.pc = "register" /\ c.p \in Name /\ c.q \in Name \cup {Wild}
      /\ c.fd \in Desc /\ Unlibbed(c) /\ c.due \in SUBSET Name /\ c.raced \in BOOLEAN
  BY UnlibbedCalls DEF FindFirstFileA_register, At, CallsFit, Shape, Frame
<1>2. call' \in [Thread -> Frame] /\ call'[t] = Idle /\ Others(t)
  BY DoneCall DEF FindFirstFileA_register
<1>3. /\ H!TypeOK' /\ Registered(k, FileHeader(c.fd, c.p, c.q))
      /\ TableFits' /\ LeavesTheOthers(t) /\ \A lib \in Lib : Mods(lib)' = Mods(lib)
  BY <1>1, <1>2, FileRegistered DEF FindFirstFileA_register
<1>4. HistoryIs([history.opened EXCEPT ![k] = OpenedOn(c.fd)], history.stale,
                history.struck, [history.seen EXCEPT ![k] = {c.p}],
                [history.due EXCEPT ![k] = c.due],
                IF c.raced THEN history.calm ELSE history.calm \cup {k})
  <2>1. /\ history' = [history EXCEPT !.opened[k] = OpenedOn(c.fd), !.seen[k] = {c.p},
                            !.due[k] = c.due, !.calm = IF c.raced THEN @ ELSE @ \cup {k}]
        /\ history \in History
    BY DEF FindFirstFileA_register, OwnTypes
  <2>2. OpenedOn(c.fd) \in Ino \cup {NoIno}
    BY <1>1, OpenedType
  <2> HIDE DEF c
  <2> QED BY <1>1, <2>1, <2>2, HistoryOfFirst
<1> QED BY <1>1, <1>2, <1>3, <1>4 DEF FindFirstFileA_register, FileEntryStep, HistoryIs

LEMMA StepNextUpdate ==
  ASSUME CoreInv, ~over, NEW t \in Thread, FindNextFileA_update(t)
  PROVE  /\ FileEntryStep(t) /\ given' = given
         /\ Updated(call[t].h, call[t].fd, call[t].p)
         /\ HistoryIs([history.opened EXCEPT ![call[t].h] = OpenedOn(call[t].fd)],
                      history.stale \ {call[t].h}, history.struck,
                      [history.seen EXCEPT ![call[t].h] = @ \cup {call[t].p}],
                      history.due, history.calm)
<1> USE CoreParts
<1> DEFINE c == call[t]
<1>1. /\ c.op = "FindNextFile" /\ c.pc = "update" /\ c.p \in Name /\ c.fd \in Desc /\ Unlibbed(c)
      /\ c.h \in DOMAIN map /\ map[c.h].type = "FILE" /\ c.h \in Key /\ HandleFits(t)
  BY UnlibbedCalls DEF FindNextFileA_update, At, CallsFit, Shape, HandleFits, Frame, Key, OnHandle
<1>2. call' \in [Thread -> Frame] /\ call'[t] = Idle /\ Others(t)
  BY DoneCall DEF FindNextFileA_update
<1>3. H!TypeOK' /\ Updated(c.h, c.fd, c.p)
  BY <1>1, NoLibIsNumber, UpdateDoes DEF FindNextFileA_update, Text
<1>4. HistoryIs([history.opened EXCEPT ![c.h] = OpenedOn(c.fd)], history.stale \ {c.h},
                history.struck, [history.seen EXCEPT ![c.h] = @ \cup {c.p}],
                history.due, history.calm)
  <2>1. /\ history' = [history EXCEPT !.opened[c.h] = OpenedOn(c.fd), !.seen[c.h] = @ \cup {c.p},
                                      !.stale = @ \ {c.h}]
        /\ history \in History
    BY DEF FindNextFileA_update, OwnTypes
  <2>2. OpenedOn(c.fd) \in Ino \cup {NoIno}
    BY <1>1, OpenedType
  <2> HIDE DEF c
  <2> QED BY <1>1, <2>1, <2>2, HistoryOfNext
<1>5. given' = given
  BY DEF FindNextFileA_update
<1>6. TableFits'
  BY <1>1, <1>3, <1>5 DEF TableFits, Updated
<1>7. LeavesTheOthers(t)
  BY <1>1, <1>2, <1>3, <1>5, IdleFrame DEF LeavesTheOthers, CallsFit, HandleFits, Updated, OnHandle
<1>8. \A lib \in Lib : Mods(lib)' = Mods(lib)
  BY <1>1, <1>3 DEF Mods, Entries, Updated
<1> QED BY <1>1, <1>2, <1>3, <1>4, <1>5, <1>6, <1>7, <1>8
        DEF FindNextFileA_update, FileEntryStep, HistoryIs

LEMMA StepFileErase ==
  ASSUME CoreInv, ~over, NEW t \in Thread, CloseFile_erase(t)
  PROVE  /\ FileEntryStep(t) /\ given' = given /\ Erased(call[t].h)
         /\ HistoryIs([history.opened EXCEPT ![call[t].h] = NoIno], history.stale \ {call[t].h},
                      history.struck, [history.seen EXCEPT ![call[t].h] = {}],
                      [history.due EXCEPT ![call[t].h] = {}], history.calm \ {call[t].h})
<1> USE CoreParts
<1> DEFINE c == call[t]
<1>1. /\ c.op \in {"CloseHandle", "FindClose"} /\ c.pc = "erase" /\ c.h \in DOMAIN map
      /\ map[c.h].type = "FILE" /\ c.h \in Key /\ HandleFits(t) /\ c.fd = map[c.h].word
      /\ c.op \in OnHandle /\ c.op \in Closers /\ c.h \notin given
  BY DEF CloseFile_erase, Closing, CallsFit, HandleFits, Frame, Key, OnHandle, Closers, H!type_get, H!INVALID
<1>2. Unlibbed(c)
  BY <1>1, UnlibbedCalls DEF TableFits
<1>3. call' \in [Thread -> Frame] /\ call'[t] = Idle /\ Others(t)
  BY DoneCall DEF CloseFile_erase
<1>4. H!TypeOK' /\ Erased(c.h)
  BY EraseDoes DEF CloseFile_erase
<1>5. HistoryIs([history.opened EXCEPT ![c.h] = NoIno], history.stale \ {c.h},
                history.struck, [history.seen EXCEPT ![c.h] = {}],
                [history.due EXCEPT ![c.h] = {}], history.calm \ {c.h})
  <2>1. /\ history' = [history EXCEPT !.stale = @ \ {c.h}, !.calm = @ \ {c.h}, !.opened[c.h] = NoIno,
                                      !.seen[c.h] = {}, !.due[c.h] = {}]
        /\ history \in History
    BY DEF CloseFile_erase, OwnTypes
  <2> HIDE DEF c
  <2> QED BY <1>1, <2>1, HistoryOfErase
<1>6. given' = given
  BY DEF CloseFile_erase
<1>7. TableFits'
  BY <1>1, <1>4, <1>6 DEF TableFits, Erased
<1>8. LeavesTheOthers(t)
  BY <1>1, <1>3, <1>4, <1>6, IdleFrame DEF LeavesTheOthers, CallsFit, HandleFits, Erased, OnHandle
<1>9. \A lib \in Lib : Mods(lib)' = Mods(lib)
  BY <1>1, <1>4 DEF Mods, Entries, Erased
<1> QED BY <1>1, <1>2, <1>3, <1>4, <1>5, <1>6, <1>7, <1>8, <1>9
        DEF CloseFile_erase, FileEntryStep, HistoryIs

-----------------------------------------------------------------------------
(* Steps of the loader: what they add to a count and take from it.         *)
LEMMA CountBut ==
  ASSUME NEW S, IsFiniteSet(S), NEW x, NEW T, T \ {x} = S \ {x}
  PROVE  /\ Cardinality(S) \in Nat
         /\ (x \in S /\ x \in T) \/ (x \notin S /\ x \notin T) => T = S
         /\ x \notin S /\ x \in T => Cardinality(T) = Cardinality(S) + 1
         /\ x \in S /\ x \notin T => Cardinality(T) = Cardinality(S) - 1
<1>1. Cardinality(S) \in Nat
  BY FS_CardinalityType
<1>2. \A y : y # x => (y \in T <=> y \in S)
  OBVIOUS
<1>3. (x \in S /\ x \in T) \/ (x \notin S /\ x \notin T) => T = S
  BY <1>2
<1>4. ASSUME x \notin S, x \in T PROVE Cardinality(T) = Cardinality(S) + 1
  <2>1. T = S \cup {x}
    BY <1>2, <1>4
  <2> QED BY <1>4, <2>1, FS_AddElement
<1>5. ASSUME x \in S, x \notin T PROVE Cardinality(T) = Cardinality(S) - 1
  <2>1. T = S \ {x}
    BY <1>2, <1>5
  <2> QED BY <1>5, <2>1, FS_RemoveElement
<1> QED BY <1>1, <1>3, <1>4, <1>5

LEMMA CountsFinite ==
  ASSUME H!TypeOK, NEW lib
  PROVE  /\ IsFiniteSet(Mods(lib)) /\ IsFiniteSet(Loads(lib))
         /\ IsFiniteSet(Inits(lib)) /\ IsFiniteSet(Frees(lib))
         /\ Cardinality(Mods(lib)) \in Nat /\ Cardinality(Loads(lib)) \in Nat
         /\ Cardinality(Inits(lib)) \in Nat /\ Cardinality(Frees(lib)) \in Nat
<1>1. Mods(lib) \subseteq Key
  BY DEF Mods, Entries, H!TypeOK, Key, H!Key
<1>2. Loads(lib) \subseteq Thread /\ Inits(lib) \subseteq Thread /\ Frees(lib) \subseteq Thread
  BY DEF Loads, Inits, Frees
<1>3. /\ IsFiniteSet(Mods(lib)) /\ IsFiniteSet(Loads(lib))
      /\ IsFiniteSet(Inits(lib)) /\ IsFiniteSet(Frees(lib))
  BY <1>1, <1>2, FiniteSets, FileAssumption, FS_Subset
<1> QED BY <1>3, FS_CardinalityType

LibraryStep(t) ==
  /\ call' \in [Thread -> Frame] /\ Others(t) /\ Shape(call'[t]) /\ HandleFits(t)'
  /\ UNCHANGED <<use, disk, fds, calls, over, history>>
  /\ H!TypeOK' /\ TableFits' /\ LeavesTheOthers(t) /\ refs' \in [Lib -> Nat]
  /\ \A lib \in Lib : Counted(lib)'

LEMMA LibraryKeeps ==
  ASSUME CoreInv, ~over, NEW t \in Thread, LibraryStep(t)
  PROVE  CoreInv'
<1> USE CoreParts
<1>1. CallsFit'
  BY CallsKept DEF LibraryStep
<1>2. LibrariesMatchHandles'
  BY DEF LibraryStep, LibrariesMatchHandles, Counted, Mods, Loads, Inits, Frees, Loading
<1>3. DiskTypes'
  BY DEF LibraryStep, DiskTypes, disk
<1>4. OwnTypes'
  <2>1. given' \subseteq Key
    BY DEF LibraryStep, TableFits, H!TypeOK, Key, H!Key
  <2> QED BY <2>1 DEF LibraryStep, OwnTypes
<1>5. TypeOK'
  BY <1>3, <1>4, TypeParts DEF LibraryStep, TypeOK, DiskTypes, OwnTypes
<1> QED BY <1>1, <1>2, <1>5 DEF LibraryStep, CoreInv

(* The table stays as it is. *)
LEMMA TableStays ==
  ASSUME CoreInv, ~over, NEW t \in Thread, UNCHANGED <<map, given>>,
         call'[t].op \in OnHandle => call[t].op \in OnHandle /\ call'[t].h = call[t].h
  PROVE  H!TypeOK' /\ TableFits' /\ LeavesTheOthers(t) /\ \A lib \in Lib : Mods(lib)' = Mods(lib)
BY CoreParts DEF H!TypeOK, TableFits, LeavesTheOthers, CallsFit, HandleFits, Mods, Entries

LEMMA StepDlopen ==
  ASSUME CoreInv, ~over, NEW t \in Thread,
         LoadLibraryA_dlopen(t) \/ _wrapper_init_dlopen(t)
  PROVE  LibraryStep(t)
<1> USE CoreParts
<1> DEFINE c == call[t]
<1>1. /\ Shape(c) /\ c \in Frame /\ c.op = "LoadLibrary" /\ c.p \in Lib /\ c.fd = NoFd
      /\ c.pc \in {"dlopen", "attach"} /\ (c.pc = "attach" => c.p = Self)
      /\ refs' = [refs EXCEPT ![c.p] = @ + 1]
      /\ Unmoved /\ UNCHANGED <<map, given>> /\ Self \in Lib
  BY FileAssumption DEF LoadLibraryA_dlopen, _wrapper_init_dlopen, At, CallsFit, Shape
<1>2. PICK place \in {"attach", "attached", "register"} :
        /\ Goto(t, place)
        /\ c.pc = "attach" => place = "attached"
        /\ c.pc = "dlopen" => /\ place \in {"attach", "register"}
                              /\ place = "attach" => c.p = Self
  BY DEF LoadLibraryA_dlopen, _wrapper_init_dlopen, At
<1>3. call' \in [Thread -> Frame] /\ MovedTo(c, call'[t], place) /\ Others(t)
  BY <1>2, GotoCall DEF Places
<1>4. Shape(call'[t]) /\ HandleFits(t)'
  BY <1>1, <1>2, <1>3 DEF MovedTo, Fields, Shape, OnOpen, Copiers, HandleFits, OnHandle, Desc
<1>5. H!TypeOK' /\ TableFits' /\ LeavesTheOthers(t) /\ \A lib \in Lib : Mods(lib)' = Mods(lib)
  BY <1>1, <1>3, TableStays DEF MovedTo, Fields, OnHandle
<1>6. ASSUME NEW lib \in Lib PROVE Counted(lib)'
  <2>1. Counted(lib) /\ refs[lib] \in Nat
    BY <1>1, CountedIs
  <2>2. /\ Loads(lib)' \ {t} = Loads(lib) \ {t} /\ Inits(lib)' \ {t} = Inits(lib) \ {t}
        /\ Frees(lib)' \ {t} = Frees(lib) \ {t}
    BY <1>3, CallSets
  <2>3. /\ IsFiniteSet(Loads(lib)) /\ IsFiniteSet(Inits(lib)) /\ IsFiniteSet(Frees(lib))
        /\ Cardinality(Mods(lib)) \in Nat /\ Cardinality(Loads(lib)) \in Nat
        /\ Cardinality(Inits(lib)) \in Nat /\ Cardinality(Frees(lib)) \in Nat
    BY CountsFinite
  <2>4. Frees(lib)' = Frees(lib)
    <3>1. t \notin Frees(lib) /\ t \notin Frees(lib)'
      BY <1>1, <1>2, <1>3 DEF Frees, MovedTo, Fields
    <3> QED BY <2>2, <2>3, <3>1, CountBut
  <2>5. CASE lib # c.p
    <3>1. t \notin Loads(lib) /\ t \notin Loads(lib)' /\ t \notin Inits(lib) /\ t \notin Inits(lib)'
      BY <1>1, <1>2, <1>3, <2>5 DEF Loads, Loading, Inits, MovedTo, Fields
    <3>2. Loads(lib)' = Loads(lib) /\ Inits(lib)' = Inits(lib)
      BY <2>2, <2>3, <3>1, CountBut
    <3>3. refs'[lib] = refs[lib]
      BY <1>1, <2>5
    <3> QED BY <1>5, <2>1, <2>4, <3>2, <3>3 DEF Counted
  <2>6. CASE lib = c.p /\ c.pc = "dlopen"
    <3>1. t \notin Loads(lib) /\ t \in Loads(lib)' /\ t \notin Inits(lib) /\ t \notin Inits(lib)'
      BY <1>1, <1>2, <1>3, <2>6 DEF Loads, Loading, Inits, MovedTo, Fields
    <3>2. Cardinality(Loads(lib)') = Cardinality(Loads(lib)) + 1 /\ Inits(lib)' = Inits(lib)
      BY <2>2, <2>3, <3>1, CountBut
    <3>3. refs'[lib] = refs[lib] + 1
      BY <1>1, <2>6
    <3> QED BY <1>5, <2>1, <2>3, <2>4, <3>2, <3>3 DEF Counted
  <2>7. CASE lib = c.p /\ c.pc = "attach"
    <3>1. t \in Loads(lib) /\ t \in Loads(lib)' /\ t \notin Inits(lib) /\ t \in Inits(lib)'
      BY <1>1, <1>2, <1>3, <2>7 DEF Loads, Loading, Inits, MovedTo, Fields
    <3>2. Loads(lib)' = Loads(lib) /\ Cardinality(Inits(lib)') = Cardinality(Inits(lib)) + 1
      BY <2>2, <2>3, <3>1, CountBut
    <3>3. refs'[lib] = refs[lib] + 1
      BY <1>1, <2>7
    <3> QED BY <1>5, <2>1, <2>3, <2>4, <3>2, <3>3 DEF Counted
  <2> QED BY <1>1, <2>5, <2>6, <2>7
<1>7. refs' \in [Lib -> Nat]
  BY <1>1
<1> QED BY <1>1, <1>3, <1>4, <1>5, <1>6, <1>7 DEF LibraryStep, Unmoved

(* A new library's handle. *)
LEMMA ModuleRegistered ==
  ASSUME CoreInv, ~over, NEW t \in Thread, NEW r, NEW k \in Key, NEW lib \in Lib,
         H!reg_module(r, k, lib, lib), given' \in {given, given \cup {k}},
         call' \in [Thread -> Frame], call'[t].op \notin OnHandle, Others(t)
  PROVE  /\ H!TypeOK' /\ TableFits' /\ LeavesTheOthers(t)
         /\ k \notin Mods(lib) /\ Mods(lib)' = Mods(lib) \cup {k}
         /\ \A l \in Lib \ {lib} : Mods(l)' = Mods(l)
         /\ \A x \in DOMAIN map : x \in DOMAIN map' /\ map'[x] = map[x]
         /\ \A x \in DOMAIN map' \ DOMAIN map : map'[x].type = "MODULE" /\ x \notin DOMAIN map
<1> USE CoreParts
<1> DEFINE e == [type |-> "MODULE", word |-> lib, more |-> null, text |-> lib, pattern |-> NoText]
<1>1. e \in H!Header /\ e.type = "MODULE" /\ e.word = lib /\ e.pattern = NoText
  BY DEF H!Header, H!Types, Word, Text
<1>2. H!Register(r, k, e)
  BY DEF H!reg_module
<1> HIDE DEF e
<1>3. H!TypeOK' /\ Registered(k, e)
  BY <1>1, <1>2, RegisterDoes
<1>4. TableFits'
  BY <1>1, <1>3 DEF TableFits, Registered
<1>5. LeavesTheOthers(t)
  BY <1>3 DEF LeavesTheOthers, CallsFit, HandleFits, Registered
<1>6. /\ k \notin Mods(lib) /\ Mods(lib)' = Mods(lib) \cup {k}
      /\ \A l \in Lib \ {lib} : Mods(l)' = Mods(l)
  BY <1>1, <1>3 DEF Mods, Entries, Registered
<1> QED BY <1>1, <1>3, <1>4, <1>5, <1>6 DEF Registered

LEMMA StepLoadRegister ==
  ASSUME CoreInv, ~over, NEW t \in Thread, NEW r, NEW k \in Key,
         _wrapper_init_register(t, r, k) \/ LoadLibraryA_register(t, r, k)
  PROVE  /\ LibraryStep(t)
         /\ \A x \in DOMAIN map : x \in DOMAIN map' /\ map'[x] = map[x]
         /\ \A x \in DOMAIN map' \ DOMAIN map : map'[x].type = "MODULE" /\ x \notin DOMAIN map
<1> USE CoreParts
<1> DEFINE c == call[t]
<1>1. /\ Shape(c) /\ c \in Frame /\ c.op = "LoadLibrary" /\ c.p \in Lib /\ c.fd = NoFd
      /\ c.pc \in {"attached", "register"} /\ (c.pc = "attached" => c.p = Self)
      /\ Unmoved /\ UNCHANGED refs
  BY DEF LoadLibraryA_register, _wrapper_init_register, At, CallsFit, Shape
<1>2. H!reg_module(r, k, c.p, c.p) /\ given' \in {given, given \cup {k}}
  BY <1>1 DEF LoadLibraryA_register, _wrapper_init_register, At
<1>3. /\ call' \in [Thread -> Frame] /\ Others(t)
      /\ c.pc = "attached" => MovedTo(c, call'[t], "register")
      /\ c.pc = "register" => call'[t] = Idle
  BY DoneCall, GotoCall DEF LoadLibraryA_register, _wrapper_init_register, At, Places
<1>4. Shape(call'[t]) /\ HandleFits(t)' /\ call'[t].op \notin OnHandle
  BY <1>1, <1>3, IdleFrame, IdleShape
     DEF MovedTo, Fields, Shape, OnOpen, Copiers, HandleFits, OnHandle, Desc
<1>5. /\ H!TypeOK' /\ TableFits' /\ LeavesTheOthers(t)
      /\ \A lib \in Lib : lib = c.p => k \notin Mods(lib) /\ Mods(lib)' = Mods(lib) \cup {k}
      /\ \A lib \in Lib : lib # c.p => Mods(lib)' = Mods(lib)
      /\ \A x \in DOMAIN map : x \in DOMAIN map' /\ map'[x] = map[x]
      /\ \A x \in DOMAIN map' \ DOMAIN map : map'[x].type = "MODULE" /\ x \notin DOMAIN map
  <2>1. PICK l \in Lib : l = c.p
    BY <1>1
  <2>2. H!reg_module(r, k, l, l)
    BY <1>2, <2>1
  <2>3. /\ H!TypeOK' /\ TableFits' /\ LeavesTheOthers(t)
        /\ k \notin Mods(l) /\ Mods(l)' = Mods(l) \cup {k}
        /\ \A x \in Lib \ {l} : Mods(x)' = Mods(x)
        /\ \A x \in DOMAIN map : x \in DOMAIN map' /\ map'[x] = map[x]
        /\ \A x \in DOMAIN map' \ DOMAIN map : map'[x].type = "MODULE" /\ x \notin DOMAIN map
    BY <1>2, <1>3, <1>4, <2>2, ModuleRegistered
  <2> QED BY <2>1, <2>3
<1>6. ASSUME NEW lib \in Lib PROVE Counted(lib)'
  <2>1. Counted(lib) /\ refs[lib] \in Nat /\ refs'[lib] = refs[lib]
    BY <1>1, CountedIs
  <2>2. /\ Loads(lib)' \ {t} = Loads(lib) \ {t} /\ Inits(lib)' \ {t} = Inits(lib) \ {t}
        /\ Frees(lib)' \ {t} = Frees(lib) \ {t}
    BY <1>3, CallSets
  <2>3. /\ IsFiniteSet(Mods(lib)) /\ IsFiniteSet(Loads(lib)) /\ IsFiniteSet(Inits(lib))
        /\ IsFiniteSet(Frees(lib))
        /\ Cardinality(Mods(lib)) \in Nat /\ Cardinality(Loads(lib)) \in Nat
        /\ Cardinality(Inits(lib)) \in Nat /\ Cardinality(Frees(lib)) \in Nat
    BY CountsFinite
  <2>4. Frees(lib)' = Frees(lib)
    <3>1. t \notin Frees(lib) /\ t \notin Frees(lib)'
      BY <1>1, <1>3, IdleFrame DEF Frees, MovedTo, Fields
    <3> QED BY <2>2, <2>3, <3>1, CountBut
  <2>5. CASE lib # c.p
    <3>1. t \notin Loads(lib) /\ t \notin Loads(lib)' /\ t \notin Inits(lib) /\ t \notin Inits(lib)'
      BY <1>1, <1>3, <2>5, IdleFrame DEF Loads, Loading, Inits, MovedTo, Fields
    <3>2. Loads(lib)' = Loads(lib) /\ Inits(lib)' = Inits(lib)
      BY <2>2, <2>3, <3>1, CountBut
    <3> QED BY <1>5, <2>1, <2>4, <2>5, <3>2 DEF Counted
  <2>6. CASE lib = c.p
    <3>1. Cardinality(Mods(lib)') = Cardinality(Mods(lib)) + 1
      BY <1>5, <2>3, <2>6, FS_AddElement
    <3>2. CASE c.pc = "attached"
      <4>1. t \in Loads(lib) /\ t \in Loads(lib)' /\ t \in Inits(lib) /\ t \notin Inits(lib)'
        BY <1>1, <1>3, <2>6, <3>2 DEF Loads, Loading, Inits, MovedTo, Fields
      <4>2. Loads(lib)' = Loads(lib) /\ Cardinality(Inits(lib)') = Cardinality(Inits(lib)) - 1
        BY <2>2, <2>3, <4>1, CountBut
      <4> QED BY <2>1, <2>3, <2>4, <3>1, <4>2 DEF Counted
    <3>3. CASE c.pc = "register"
      <4>1. t \in Loads(lib) /\ t \notin Loads(lib)' /\ t \notin Inits(lib) /\ t \notin Inits(lib)'
        BY <1>1, <1>3, <2>6, <3>3, IdleFrame DEF Loads, Loading, Inits
      <4>2. Inits(lib)' = Inits(lib) /\ Cardinality(Loads(lib)') = Cardinality(Loads(lib)) - 1
        BY <2>2, <2>3, <4>1, CountBut
      <4> QED BY <2>1, <2>3, <2>4, <3>1, <4>2 DEF Counted
    <3> QED BY <1>1, <3>2, <3>3
  <2> QED BY <2>5, <2>6
<1> QED BY <1>1, <1>3, <1>4, <1>5, <1>6 DEF LibraryStep, Unmoved

(* A library that is about to be closed is open: the calls that have       *)
(* closed it are on other handles of it.                                   *)
LEMMA StillOpen ==
  ASSUME CoreInv, ~over, NEW t \in Thread, call[t].pc = "dlclose"
  PROVE  /\ call[t].op \in Closers /\ call[t].fd \in Lib /\ map[call[t].h].type = "MODULE"
         /\ call[t].op \in OnHandle
         /\ Cardinality(Frees(call[t].fd)) + 1 <= Cardinality(Mods(call[t].fd))
<1> USE CoreParts
<1> DEFINE lib == call[t].fd
           T == Frees(lib) \cup {t}
           Of == [k \in Mods(lib) |-> CHOOSE u \in T : call[u].h = k]
<1>1. /\ call[t].op \in Closers /\ call[t].op \in OnHandle /\ map[call[t].h].type = "MODULE"
      /\ call[t].h \in DOMAIN map /\ lib = map[call[t].h].word /\ lib \in Lib
  <2>1. call[t].op \in Closers /\ call[t].op \in OnHandle /\ HandleFits(t)
    BY DEF CallsFit, Shape, Calls, Frame, Idle, OnOpen, Copiers, Closers, OnHandle
  <2> QED BY <2>1 DEF HandleFits, TableFits
<1>2. ASSUME NEW u \in T PROVE u \in Thread /\ call[u].op \in OnHandle /\ call[u].h \in Mods(lib)
  <2>1. CASE u = t
    BY <1>1, <2>1 DEF Mods, Entries
  <2>2. CASE u # t
    <3>1. u \in Thread /\ call[u].pc = "erase" /\ call[u].fd = lib
      BY <2>2, <1>2 DEF Frees
    <3>2. call[u].op \in OnHandle /\ HandleFits(u)
      BY <3>1 DEF CallsFit, Shape, Calls, Frame, Idle, OnOpen, Copiers, OnHandle
    <3>3. call[u].h \in DOMAIN map /\ map[call[u].h].word = lib
      BY <3>1, <3>2 DEF HandleFits
    <3>4. map[call[u].h].type = "MODULE"
      BY <1>1, <3>3, NoLibIsNumber DEF TableFits
    <3> QED BY <3>1, <3>2, <3>3, <3>4 DEF Mods, Entries
  <2> QED BY <2>1, <2>2
<1>3. \A u, v \in T : call[u].h = call[v].h => u = v
  BY <1>2 DEF CallsFit, HandleFits
<1>4. \A u \in T : \E k \in Mods(lib) : u = Of[k]
  <2> TAKE u \in T
  <2>1. call[u].h \in Mods(lib)
    BY <1>2
  <2>2. u = CHOOSE v \in T : call[v].h = call[u].h
    <3> HIDE DEF T
    <3> QED BY <1>3
  <2> QED BY <2>1, <2>2
<1>5. IsFiniteSet(Mods(lib)) /\ IsFiniteSet(Frees(lib))
  BY CountsFinite
<1>6. Cardinality(T) <= Cardinality(Mods(lib))
  <2> HIDE DEF T, Of
  <2> QED BY <1>4, <1>5, ImageBound
<1>7. Cardinality(T) = Cardinality(Frees(lib)) + 1
  <2>1. t \notin Frees(lib)
    BY DEF Frees
  <2> QED BY <1>5, <2>1, FS_AddElement
<1> QED BY <1>1, <1>6, <1>7

LEMMA StepDlclose ==
  ASSUME CoreInv, ~over, NEW t \in Thread, FreeLibrary_dlclose(t)
  PROVE  LibraryStep(t) /\ UNCHANGED map
<1> USE CoreParts
<1> DEFINE c == call[t]
<1>1. /\ Shape(c) /\ HandleFits(t) /\ c \in Frame /\ c.pc = "dlclose"
      /\ refs' = [refs EXCEPT ![c.fd] = @ - 1] /\ Unmoved /\ UNCHANGED <<map, given>>
  BY DEF FreeLibrary_dlclose, CallsFit
<1>2. /\ c.op \in Closers /\ c.op \in OnHandle /\ c.fd \in Lib /\ map[c.h].type = "MODULE"
      /\ Cardinality(Frees(c.fd)) + 1 <= Cardinality(Mods(c.fd))
  BY <1>1, StillOpen
<1>3. call' \in [Thread -> Frame] /\ MovedTo(c, call'[t], "erase") /\ Others(t)
  BY GotoCall DEF FreeLibrary_dlclose, Places
<1>4. Shape(call'[t])
  BY <1>1, <1>2, <1>3 DEF MovedTo, Fields, Shape, OnOpen, Copiers, Closers
<1>5. HandleFits(t)'
  BY <1>1, <1>2, <1>3 DEF MovedTo, Fields, HandleFits, Others, Alike
<1>6. H!TypeOK' /\ TableFits' /\ LeavesTheOthers(t) /\ \A lib \in Lib : Mods(lib)' = Mods(lib)
  BY <1>1, <1>2, <1>3, TableStays DEF MovedTo, Fields
<1>7. ASSUME NEW lib \in Lib PROVE Counted(lib)' /\ refs'[lib] \in Nat
  <2>1. Counted(lib) /\ refs[lib] \in Nat
    BY CountedIs
  <2>2. /\ Loads(lib)' \ {t} = Loads(lib) \ {t} /\ Inits(lib)' \ {t} = Inits(lib) \ {t}
        /\ Frees(lib)' \ {t} = Frees(lib) \ {t}
    BY <1>3, CallSets
  <2>3. /\ IsFiniteSet(Loads(lib)) /\ IsFiniteSet(Inits(lib)) /\ IsFiniteSet(Frees(lib))
        /\ Cardinality(Mods(lib)) \in Nat /\ Cardinality(Loads(lib)) \in Nat
        /\ Cardinality(Inits(lib)) \in Nat /\ Cardinality(Frees(lib)) \in Nat
    BY CountsFinite
  <2>4. Loads(lib)' = Loads(lib) /\ Inits(lib)' = Inits(lib)
    <3>1. t \notin Loads(lib) /\ t \notin Loads(lib)' /\ t \notin Inits(lib) /\ t \notin Inits(lib)'
      BY <1>1, <1>2, <1>3 DEF Loads, Loading, Inits, MovedTo, Fields, Closers
    <3> QED BY <2>2, <2>3, <3>1, CountBut
  <2>5. CASE lib # c.fd
    <3>1. t \notin Frees(lib) /\ t \notin Frees(lib)'
      BY <1>1, <1>3, <2>5 DEF Frees, MovedTo, Fields
    <3>2. Frees(lib)' = Frees(lib)
      BY <2>2, <2>3, <3>1, CountBut
    <3>3. refs'[lib] = refs[lib]
      BY <1>1, <2>5
    <3> QED BY <1>6, <2>1, <2>4, <3>2, <3>3 DEF Counted
  <2>6. CASE lib = c.fd
    <3>1. t \notin Frees(lib) /\ t \in Frees(lib)'
      BY <1>1, <1>3, <2>6 DEF Frees, MovedTo, Fields
    <3>2. Cardinality(Frees(lib)') = Cardinality(Frees(lib)) + 1
      BY <2>2, <2>3, <3>1, CountBut
    <3>3. refs'[lib] = refs[lib] - 1
      BY <1>1, <2>6
    <3> QED BY <1>2, <1>6, <2>1, <2>3, <2>4, <2>6, <3>2, <3>3 DEF Counted
  <2> QED BY <2>5, <2>6
<1>8. refs' \in [Lib -> Nat]
  BY <1>1, <1>7
<1> QED BY <1>1, <1>3, <1>4, <1>5, <1>6, <1>7, <1>8 DEF LibraryStep, Unmoved

LEMMA StepModuleErase ==
  ASSUME CoreInv, ~over, NEW t \in Thread, FreeLibrary_erase(t)
  PROVE  LibraryStep(t) /\ Erased(call[t].h) /\ map[call[t].h].type = "MODULE"
<1> USE CoreParts
<1> DEFINE c == call[t]
<1>1. /\ c.op \in {"FreeLibrary", "CloseHandle"} /\ c.pc = "erase" /\ c.h \in DOMAIN map
      /\ map[c.h].type = "MODULE" /\ HandleFits(t) /\ c.fd = map[c.h].word /\ c.fd \in Lib
      /\ c.op \in OnHandle /\ c.op \in Closers /\ c.h \notin given
      /\ Unmoved /\ UNCHANGED <<refs, given>>
  BY DEF FreeLibrary_erase, IsModule, CallsFit, HandleFits, OnHandle, Closers, H!type_get, H!INVALID,
         TableFits
<1>2. call' \in [Thread -> Frame] /\ call'[t] = Idle /\ Others(t)
  BY DoneCall DEF FreeLibrary_erase
<1>3. H!TypeOK' /\ Erased(c.h)
  BY EraseDoes DEF FreeLibrary_erase
<1>4. TableFits'
  BY <1>1, <1>3 DEF TableFits, Erased
<1>5. LeavesTheOthers(t)
  BY <1>1, <1>2, <1>3, IdleFrame DEF LeavesTheOthers, CallsFit, HandleFits, Erased, OnHandle
<1>6. /\ \A lib \in Lib : lib = c.fd => c.h \in Mods(lib) /\ Mods(lib)' = Mods(lib) \ {c.h}
      /\ \A lib \in Lib : lib # c.fd => Mods(lib)' = Mods(lib)
  BY <1>1, <1>3 DEF Mods, Entries, Erased
<1>7. Shape(call'[t]) /\ HandleFits(t)'
  BY <1>2, IdleFrame, IdleShape DEF HandleFits, OnHandle
<1>8. ASSUME NEW lib \in Lib PROVE Counted(lib)'
  <2>1. Counted(lib) /\ refs[lib] \in Nat /\ refs'[lib] = refs[lib]
    BY <1>1, CountedIs
  <2>2. /\ Loads(lib)' \ {t} = Loads(lib) \ {t} /\ Inits(lib)' \ {t} = Inits(lib) \ {t}
        /\ Frees(lib)' \ {t} = Frees(lib) \ {t}
    BY <1>2, CallSets
  <2>3. /\ IsFiniteSet(Mods(lib)) /\ IsFiniteSet(Loads(lib)) /\ IsFiniteSet(Inits(lib))
        /\ IsFiniteSet(Frees(lib))
        /\ Cardinality(Mods(lib)) \in Nat /\ Cardinality(Loads(lib)) \in Nat
        /\ Cardinality(Inits(lib)) \in Nat /\ Cardinality(Frees(lib)) \in Nat
    BY CountsFinite
  <2>4. Loads(lib)' = Loads(lib) /\ Inits(lib)' = Inits(lib)
    <3>1. t \notin Loads(lib) /\ t \notin Loads(lib)' /\ t \notin Inits(lib) /\ t \notin Inits(lib)'
      BY <1>1, <1>2, IdleFrame DEF Loads, Loading, Inits
    <3> QED BY <2>2, <2>3, <3>1, CountBut
  <2>5. CASE lib # c.fd
    <3>1. t \notin Frees(lib) /\ t \notin Frees(lib)'
      BY <1>1, <1>2, <2>5, IdleFrame DEF Frees
    <3>2. Frees(lib)' = Frees(lib)
      BY <2>2, <2>3, <3>1, CountBut
    <3> QED BY <1>6, <2>1, <2>4, <2>5, <3>2 DEF Counted
  <2>6. CASE lib = c.fd
    <3>1. t \in Frees(lib) /\ t \notin Frees(lib)'
      BY <1>1, <1>2, <2>6, IdleFrame DEF Frees
    <3>2. Cardinality(Frees(lib)') = Cardinality(Frees(lib)) - 1
      BY <2>2, <2>3, <3>1, CountBut
    <3>3. Cardinality(Mods(lib)') = Cardinality(Mods(lib)) - 1
      <4>1. PICK k : k \in Mods(lib) /\ Mods(lib)' = Mods(lib) \ {k}
        BY <1>6, <2>6
      <4>2. Mods(lib)' \ {k} = Mods(lib) \ {k} /\ k \notin Mods(lib)'
        BY <4>1
      <4> QED BY ONLY <2>3, <4>1, <4>2, CountBut, Zenon
    <3> QED BY <2>1, <2>3, <2>4, <3>2, <3>3 DEF Counted
  <2> QED BY <2>5, <2>6
<1> QED BY <1>1, <1>2, <1>3, <1>4, <1>5, <1>7, <1>8 DEF LibraryStep, Unmoved

(* The ends of the program. *)
LEMMA StepEndsProgram ==
  ASSUME CoreInv, ~over, NEW t \in Thread, ExceptionUncaught(t) \/ _wrapper_fini(t)
  PROVE  CoreInv' /\ over'
<1> USE CoreParts
<1>1. /\ over' = TRUE /\ UNCHANGED <<use, disk, fds, call, calls, given, history>>
  BY DEF ExceptionUncaught, _wrapper_fini
<1>2. H!TypeOK'
  BY EraseDoes DEF ExceptionUncaught, _wrapper_fini, H!TypeOK
<1>3. refs' \in [Lib -> Nat]
  BY FileAssumption DEF ExceptionUncaught, _wrapper_fini
<1>4. DiskTypes' /\ OwnTypes' /\ call' \in [Thread -> Frame]
  BY <1>1 DEF DiskTypes, OwnTypes, disk
<1> QED BY <1>1, <1>2, <1>3, <1>4 DEF CoreInv, TypeOK, DiskTypes, OwnTypes

-----------------------------------------------------------------------------
(* What a thread can do: begin a call, do all of one, or go on in one.     *)
Atomically(t) == \/ \E p \in Name : DeleteFileA(t, p)
                 \/ CreateDirectoryA(t) \/ RemoveDirectoryA(t)

LEMMA CallCases ==
  ASSUME CoreInv, ~over, NEW t \in Thread, FileCall(t) \/ FindCall(t) \/ LoaderCall(t)
  PROVE  (\E f : Starts(t, f)) \/ Atomically(t) \/ _wrapper_fini(t)
<1>1. use.names \subseteq Name /\ use.hows \subseteq Dispositions \ {"none"}
  BY CoreParts DEF OwnTypes, Use
<1>2. CASE FileCall(t)
  <2>1. ASSUME NEW p \in use.names, NEW how \in use.hows,
               CallCreateFileA(t, p, how) \/ CallCreateFileW(t, p, how)
        PROVE  \E f : Starts(t, f)
    <3>1. CallCreateFileA(t, p, how)
      BY <2>1 DEF CallCreateFileW
    <3>2. p \in Name /\ how \in Dispositions \ {"none"}
      BY <1>1
    <3> QED BY <3>1, <3>2, CreateStarts
  <2>2. ASSUME NEW p \in use.names, CallGetFileAttributesA(t, p) \/ CallGetFileAttributesW(t, p)
        PROVE  \E f : Starts(t, f)
    BY <1>1, <2>2, AttributesStart DEF CallGetFileAttributesW
  <2>3. ASSUME NEW p \in use.names, NEW q \in use.names \ {p}, NEW b \in BOOLEAN,
               \/ CallCopyFileA(t, p, q, b) \/ CallCopyFileW(t, p, q, b)
               \/ CallMoveFileA(t, p, q) \/ CallMoveFileW(t, p, q)
        PROVE  \E f : Starts(t, f)
    BY <1>1, <2>3, CopyStarts, MoveStarts DEF CallCopyFileW, CallMoveFileW
  <2>4. ASSUME NEW k \in given,
               \/ CallWriteFile(t, k) \/ CallReadFile(t, k) \/ CallFlushFileBuffers(t, k)
               \/ CallSetFilePointer(t, k) \/ CallCloseHandle(t, k)
        PROVE  \E f : Starts(t, f)
    BY <2>4, CallsOnHandlesStart
  <2>5. ASSUME NEW p \in use.names, DeleteFileA(t, p) \/ DeleteFileW(t, p)
        PROVE  Atomically(t)
    BY <1>1, <2>5 DEF Atomically, DeleteFileW
  <2>6. ASSUME \/ CreateDirectoryA(t) \/ CreateDirectoryW(t) \/ _mkdir(t)
               \/ RemoveDirectoryA(t) \/ RemoveDirectoryW(t)
        PROVE  Atomically(t)
    BY <2>6 DEF Atomically, CreateDirectoryW, _mkdir, RemoveDirectoryW
  <2> QED BY <1>2, <2>1, <2>2, <2>3, <2>4, <2>5, <2>6, Zenon DEF FileCall
<1>3. CASE FindCall(t)
  <2>1. ASSUME NEW pattern \in use.names \cup {Wild},
               \/ CallFindFirstFileA(t, pattern) \/ CallFindFirstFileW(t, pattern)
               \/ _findfirst(t, pattern)
        PROVE  \E f : Starts(t, f)
    BY <1>1, <2>1, FindFirstStarts DEF CallFindFirstFileW, _findfirst
  <2>2. ASSUME NEW k \in given,
               \/ CallFindNextFileA(t, k) \/ CallFindNextFileW(t, k)
               \/ CallFindClose(t, k) \/ _findclose(t, k)
        PROVE  \E f : Starts(t, f)
    BY <2>2, CallsOnHandlesStart DEF CallFindNextFileW, _findclose
  <2> QED BY <1>3, <2>1, <2>2 DEF FindCall
<1>4. CASE LoaderCall(t)
  <2>1. ASSUME NEW lib \in Lib, CallLoadLibraryA(t, lib) \/ CallLoadLibraryW(t, lib)
        PROVE  \E f : Starts(t, f)
    BY <2>1, LoadStarts DEF CallLoadLibraryW
  <2>2. ASSUME NEW k \in given,
               \/ CallGetProcAddressA(t, k) \/ CallGetProcAddressW(t, k)
               \/ CallFreeLibrary(t, k) \/ CallCloseModule(t, k)
        PROVE  \E f : Starts(t, f)
    BY <2>2, CallsOnHandlesStart DEF CallGetProcAddressW
  <2> QED BY <1>4, <2>1, <2>2 DEF LoaderCall
<1> QED BY <1>2, <1>3, <1>4

LEMMA StepCases ==
  ASSUME CoreInv, ~over, NEW t \in Thread, FileStep(t) \/ FindStep(t) \/ LoaderStep(t)
  PROVE  CoreInv'
<1>1. CASE FileStep(t)
  <2>1. ASSUME NEW r \in Rand, NEW k \in Key, CreateFileA_register(t, r, k) PROVE CoreInv'
    BY <2>1, StepCreateRegister, FileEntryKeeps
  <2>2. CASE CloseFile_erase(t)
    BY <2>2, StepFileErase, FileEntryKeeps
  <2>3. CASE ExceptionUncaught(t)
    BY <2>3, StepEndsProgram
  <2>4. CASE Copy_start(t) \/ CloseFile_close(t)
    BY <2>4, StepCopyStart, StepCloses, PlainKeeps
  <2>5. CASE \/ CreateFileA_parent(t) \/ CreateFileA_replace(t) \/ CreateFileA_disposition(t)
             \/ CreateFileA_open(t)
    BY <2>5, StepParent, StepReplace, StepDisposition, StepOpen, PlainKeeps
  <2>6. CASE \/ Descriptor_lookup(t) \/ WriteFile_write(t) \/ ReadFile_read(t)
             \/ FlushFileBuffers_syncfs(t) \/ SetFilePointer_lseek(t)
             \/ GetFileAttributesA_kind(t) \/ ExceptionCaught(t) \/ CloseFile_lookup(t)
    BY <2>6, StepLookups, StepWrite, StepEnds, PlainKeeps
  <2>7. CASE \/ GetFileAttributesA_exists(t) \/ CopyFileA_check(t) \/ MoveFileA_check(t)
             \/ Copy_end(t) \/ MoveFileA_remove(t)
    BY <2>7, StepExists, StepCopyCheck, StepMoveCheck, StepCopyEnd, StepRemove, PlainKeeps
  <2> QED BY <1>1, <2>1, <2>2, <2>3, <2>4, <2>5, <2>6, <2>7, Zenon DEF FileStep
<1>2. CASE FindStep(t)
  <2>1. ASSUME NEW r \in Rand, NEW k \in Key, FindFirstFileA_register(t, r, k) PROVE CoreInv'
    BY <2>1, StepFirstRegister, FileEntryKeeps
  <2>2. CASE FindNextFileA_update(t)
    BY <2>2, StepNextUpdate, FileEntryKeeps
  <2>3. CASE FindNextFileA_close(t)
    BY <2>3, StepCloses, PlainKeeps
  <2>4. CASE FindFirstFileA_list(t) \/ Find_exists(t) \/ Find_open(t) \/ FindNextFileA_list(t)
    BY <2>4, StepFirstList, StepExists, StepFindOpen, StepNextList, PlainKeeps
  <2> QED BY <1>2, <2>1, <2>2, <2>3, <2>4 DEF FindStep
<1>3. CASE LoaderStep(t)
  <2>1. ASSUME NEW r \in Rand, NEW k \in Key,
               _wrapper_init_register(t, r, k) \/ LoadLibraryA_register(t, r, k)
        PROVE  CoreInv'
    BY <2>1, StepLoadRegister, LibraryKeeps
  <2>2. CASE LoadLibraryA_dlopen(t) \/ _wrapper_init_dlopen(t)
    BY <2>2, StepDlopen, LibraryKeeps
  <2>3. CASE FreeLibrary_dlclose(t) \/ FreeLibrary_erase(t)
    BY <2>3, StepDlclose, StepModuleErase, LibraryKeeps
  <2>4. CASE LoadLibraryA_fails(t) \/ Module_lookup(t) \/ GetProcAddressA_dlsym(t)
    BY <2>4, StepEnds, StepLookups, PlainKeeps
  <2> QED BY <1>3, <2>1, <2>2, <2>3, <2>4 DEF LoaderStep
<1> QED BY <1>1, <1>2, <1>3

LEMMA CoreStart ==
  ASSUME Init PROVE CoreInv
<1>1. H!TypeOK /\ DOMAIN map = {}
  BY DEF Init, H!Init, H!TypeOK
<1>2. use \in Uses /\ use \in Use /\ use.starts \subseteq SUBSET Name /\ use.calls \in Nat
  BY FileAssumption DEF Init, Use
<1>3. DiskTypes
  <2>1. dir \in [Name -> Ino \cup {NoIno}] /\ home \in BOOLEAN
    BY FileAssumption DEF Init, Ino, NoIno
  <2>2. ~home => \A p \in Name : dir[p] = NoIno
    BY DEF Init
  <2>3. content \in [Ino -> Content] /\ fds \in [Fd -> Ino \cup {NoIno}]
    BY DEF Init, Content
  <2> QED BY <2>1, <2>2, <2>3 DEF DiskTypes
<1>4. OwnTypes
  <2>1. history \in History
    BY DEF Init, History
  <2>2. calls = 0 /\ over = FALSE /\ given = {}
    BY DEF Init
  <2>3. calls \in 0..use.calls /\ given \subseteq Key
    BY <1>2, <2>2
  <2>4. over \in BOOLEAN
    BY <2>2
  <2> QED BY <1>2, <2>1, <2>3, <2>4 DEF OwnTypes
<1>5. /\ call \in [Thread -> Frame] /\ \A t \in Thread : call[t] = Idle
      /\ refs \in [Lib -> Nat] /\ given = {}
  BY IdleFrame DEF Init
<1>6. CallsFit /\ TableFits
  BY <1>1, <1>5, IdleShape, IdleFrame DEF CallsFit, HandleFits, TableFits, OnHandle
<1>7. LibrariesMatchHandles
  <2> SUFFICES ASSUME NEW lib \in Lib PROVE Counted(lib)
    BY CountedIs
  <2>1. Mods(lib) = {} /\ Loads(lib) = {} /\ Inits(lib) = {} /\ Frees(lib) = {}
    BY <1>1, <1>5, IdleFrame DEF Mods, Entries, Loads, Loading, Inits, Frees
  <2>2. Cardinality({}) = 0
    BY FS_EmptySet
  <2>3. refs[lib] = 0
    BY DEF Init
  <2> QED BY <2>1, <2>2, <2>3 DEF Counted
<1> QED BY <1>1, <1>3, <1>4, <1>5, <1>6, <1>7, TypeParts DEF CoreInv

LEMMA CoreKept ==
  ASSUME CoreInv, [Next]_vars PROVE CoreInv'
<1>1. CASE UNCHANGED vars
  BY <1>1 DEF vars, disk, CoreInv, TypeOK, H!TypeOK, CallsFit, HandleFits, TableFits,
              LibrariesMatchHandles, Entries
<1>2. CASE Next
  <2>1. PICK t \in Thread : \/ FileCall(t) \/ FindCall(t) \/ LoaderCall(t)
                            \/ FileStep(t) \/ FindStep(t) \/ LoaderStep(t)
    BY <1>2 DEF Next
  <2>2. ~over
    BY <1>2 DEF Next
  <2>3. CASE FileCall(t) \/ FindCall(t) \/ LoaderCall(t)
    <3>1. CASE \E f : Starts(t, f)
      BY <2>2, <3>1, StartKeeps
    <3>2. CASE Atomically(t)
      BY <2>2, <3>2, StepAtomic, PlainKeeps DEF Atomically
    <3>3. CASE _wrapper_fini(t)
      BY <2>2, <3>3, StepEndsProgram
    <3> QED BY <2>2, <2>3, <3>1, <3>2, <3>3, CallCases
  <2> QED BY <2>1, <2>2, <2>3, StepCases
<1> QED BY <1>1, <1>2

(* Every function of the file, search and loader parts leaves every        *)
(* variable in its range, for any number of threads, names, descriptors    *)
(* and libraries.                                                          *)
THEOREM TypeCorrect == Spec => []TypeOK
<1>1. Init => CoreInv
  BY CoreStart
<1>2. CoreInv /\ [Next]_vars => CoreInv'
  BY CoreKept
<1>3. CoreInv => TypeOK
  BY DEF CoreInv
<1> QED BY <1>1, <1>2, <1>3, PTL DEF Spec

(* LoadLibraryA, FreeLibrary, CloseHandle and _wrapper_init: as long as    *)
(* the program runs, a library is open as often as it has handles and      *)
(* calls that will give it one, less the calls that have closed it and are *)
(* about to erase its handle.                                              *)
THEOREM LibrariesCounted == Spec => []LibrariesMatchHandles
<1>1. Init => CoreInv
  BY CoreStart
<1>2. CoreInv /\ [Next]_vars => CoreInv'
  BY CoreKept
<1>3. CoreInv => LibrariesMatchHandles
  BY DEF CoreInv, LibrariesMatchHandles
<1> QED BY <1>1, <1>2, <1>3, PTL DEF Spec

-----------------------------------------------------------------------------
(* Descriptors: who holds one.                                             *)
Keys(fd)    == {k \in Entries("FILE") : map[k].word = fd /\ k \notin history.stale}
Takers(fd)  == {t \in Thread : call[t].pc \in {"register", "update"} /\ call[t].fd = fd}
Takes(c)    == c.pc \in {"register", "update"} /\ c.fd \in Fd

LEMMA HoldersAre == \A fd : Holders(fd) = Keys(fd) \cup Takers(fd)
BY DEF Holders, Keys, Takers

LEMMA TakersBut ==
  ASSUME NEW t \in Thread, Others(t), NEW fd
  PROVE  Takers(fd)' \ {t} = Takers(fd) \ {t}
BY DEF Takers, Others, Alike

LEMMA TakersSame ==
  ASSUME NEW t \in Thread, Others(t), NEW fd, t \notin Takers(fd), t \notin Takers(fd)'
  PROVE  Takers(fd)' = Takers(fd)
<1>1. \A u \in Thread \ {t} : u \in Takers(fd)' <=> u \in Takers(fd)
  BY TakersBut
<1> QED BY <1>1 DEF Takers

LEMMA KeysAreNotThreads ==
  ASSUME CoreInv, NEW fd PROVE Keys(fd) \cap Thread = {} /\ Keys(fd) \subseteq Key
<1>1. DOMAIN map \subseteq Key
  BY DEF CoreInv, TypeOK, H!TypeOK, Key, H!Key
<1>2. Key \cap Thread = {}
  BY FileAssumption DEF Key
<1> QED BY <1>1, <1>2 DEF Keys, Entries

(* The others' handles keep their entries. *)
OthersEntries(t) ==
  \A u \in Thread \ {t} :
    call[u].op \in OnHandle => call[u].h \in DOMAIN map' /\ map'[call[u].h] = map[call[u].h]

LEMMA StaleKept ==
  ASSUME CoreInv, StaleFits, ~over, NEW t \in Thread, Others(t), OthersEntries(t), Marked(t)',
         history'.stale \subseteq Entries("FILE")',
         \A u \in Thread \ {t} : call[u].op \in OnHandle /\ call[u].h \in history.stale
                                   => call[u].h \in history'.stale
  PROVE  StaleFits'
<1> SUFFICES ASSUME NEW u \in Thread \ {t} PROVE Marked(u)'
  BY DEF StaleFits
<1>1. Marked(u) /\ Alike(call[u], call'[u])
  BY DEF StaleFits, Others
<1>2. CASE call[u].op \in OnHandle
  BY <1>1, <1>2 DEF Marked, Alike, OthersEntries
<1>3. CASE call[u].op \notin OnHandle
  BY <1>1, <1>3 DEF Marked, Alike, OnHandle
<1> QED BY <1>2, <1>3

(* Files' entries stay as they are. *)
FilesSame == /\ Entries("FILE")' = Entries("FILE")
             /\ \A k \in Entries("FILE") : map'[k] = map[k]
MarksSame == /\ history'.stale = history.stale /\ history'.struck = history.struck
             /\ history'.opened = history.opened

LEMMA SameKeys ==
  ASSUME FilesSame, history'.stale = history.stale, NEW fd
  PROVE  Keys(fd)' = Keys(fd)
BY DEF FilesSame, Keys

LEMMA SameHolders ==
  ASSUME NEW t \in Thread, Others(t), FilesSame, MarksSame,
         ~Takes(call[t]), ~Takes(call'[t]), NEW fd \in Fd
  PROVE  Holders(fd)' = Holders(fd)
<1>1. Keys(fd)' = Keys(fd)
  BY SameKeys DEF MarksSame
<1>2. t \notin Takers(fd) /\ t \notin Takers(fd)'
  BY DEF Takers, Takes
<1>3. Takers(fd)' = Takers(fd)
  BY <1>2, TakersSame
<1>4. Holders(fd)' = (Keys(fd) \cup Takers(fd))'
  BY DEF Holders, Keys, Takers
<1> QED BY <1>1, <1>3, <1>4, HoldersAre

(* A step that has no part in descriptors. *)
Aside(t) ==
  /\ Others(t) /\ OthersEntries(t) /\ FilesSame /\ MarksSame /\ fds' = fds
  /\ ~Takes(call[t]) /\ ~Takes(call'[t])
  /\ ~over' => Marked(t)'

LEMMA AsideKeeps ==
  ASSUME CoreInv, DescInv, ~over, NEW t \in Thread, Aside(t)
  PROVE  DescInv'
<1>1. \A fd \in Fd : Holders(fd)' = Holders(fd)
  BY SameHolders DEF Aside
<1>2. OpenIsHeld' /\ (~history'.struck => HeldOnce')
  BY <1>1 DEF Aside, MarksSame, DescInv, OpenIsHeld, HeldOnce
<1>3. ~history'.struck => HeldRight'
  BY DEF Aside, MarksSame, FilesSame, DescInv, HeldRight
<1>4. StaleFits'
  <2>1. history'.stale \subseteq Entries("FILE")'
    BY DEF Aside, MarksSame, FilesSame, DescInv, StaleFits
  <2>2. CASE over'
    BY <2>1, <2>2 DEF StaleFits
  <2>3. CASE ~over'
    BY <2>1, <2>3, StaleKept DEF DescInv, Aside, MarksSame
  <2> QED BY <2>2, <2>3
<1> QED BY <1>2, <1>3, <1>4 DEF DescInv

(* A call that holds no descriptor takes a free one. *)
Taking(t, fd, ino) ==
  /\ Others(t) /\ OthersEntries(t) /\ FilesSame /\ MarksSame /\ UNCHANGED over /\ Marked(t)'
  /\ fds[fd] = NoIno /\ ino # NoIno /\ fds' = [fds EXCEPT ![fd] = ino]
  /\ ~Takes(call[t]) /\ call'[t].pc \in {"register", "update"} /\ call'[t].fd = fd

LEMMA TakingKeeps ==
  ASSUME CoreInv, DescInv, ~over, NEW t \in Thread, NEW fd \in Fd, NEW ino, Taking(t, fd, ino)
  PROVE  DescInv'
<1> USE DEF Taking
<1>1. fds \in [Fd -> Ino \cup {NoIno}]
  BY DEF CoreInv, TypeOK
<1>2. ASSUME NEW g \in Fd
      PROVE  Holders(g)' = IF g = fd THEN Holders(g) \cup {t} ELSE Holders(g)
  <2>1. Keys(g)' = Keys(g)
    BY SameKeys DEF MarksSame
  <2>2. t \notin Takers(g)
    BY DEF Takers, Takes
  <2>3. t \in Takers(g)' <=> g = fd
    BY DEF Takers
  <2>4. Takers(g)' = IF g = fd THEN Takers(g) \cup {t} ELSE Takers(g)
    <3>1. \A u \in Thread \ {t} : u \in Takers(g)' <=> u \in Takers(g)
      BY TakersBut
    <3> QED BY <2>2, <2>3, <3>1 DEF Takers
  <2>5. Holders(g)' = (Keys(g) \cup Takers(g))'
    BY DEF Holders, Keys, Takers
  <2> QED BY <2>1, <2>4, <2>5, HoldersAre
<1>3. OpenIsHeld'
  BY <1>1, <1>2 DEF OpenIsHeld, DescInv
<1>4. ASSUME ~history'.struck PROVE HeldOnce' /\ HeldRight'
  <2>1. HeldOnce /\ HeldRight
    BY <1>4 DEF DescInv, MarksSame
  <2>2. Holders(fd) = {}
    BY <2>1 DEF HeldOnce
  <2>3. HeldOnce'
    BY <1>1, <1>2, <2>1, <2>2 DEF HeldOnce
  <2>4. HeldRight'
    <3> SUFFICES ASSUME NEW k \in Entries("FILE") \ history.stale, map[k].word # NoFd
                 PROVE  fds'[map[k].word] = history.opened[k]
      BY DEF HeldRight, FilesSame, MarksSame
    <3>1. map[k].word \in Fd
      BY CoreParts DEF TableFits, Entries, Desc
    <3>2. map[k].word # fd
      BY <2>2 DEF Holders
    <3> QED BY <1>1, <2>1, <3>1, <3>2 DEF HeldRight
  <2> QED BY <2>3, <2>4
<1>5. StaleFits'
  <2>1. history'.stale \subseteq Entries("FILE")'
    BY DEF MarksSame, FilesSame, DescInv, StaleFits
  <2> QED BY <2>1, StaleKept DEF DescInv, MarksSame
<1> QED BY <1>3, <1>4, <1>5 DEF DescInv

LEMMA IdleTakesNothing == ~Takes(Idle)
BY IdleFrame DEF Takes

(* A descriptor is closed and its entry, if it has one, is marked. *)
Releasing(t, k, fd) ==
  /\ Others(t) /\ OthersEntries(t) /\ FilesSame /\ UNCHANGED over /\ Marked(t)'
  /\ k \in Entries("FILE") /\ map[k].word = fd
  /\ fds' = IF fd \in Fd THEN [fds EXCEPT ![fd] = NoIno] ELSE fds
  /\ history'.stale = history.stale \cup {k} /\ history'.opened = history.opened
  /\ history'.struck = (history.struck \/ k \in history.stale)
  /\ ~Takes(call[t]) /\ ~Takes(call'[t])

LEMMA ReleasingKeeps ==
  ASSUME CoreInv, DescInv, ~over, NEW t \in Thread, NEW k, NEW fd, Releasing(t, k, fd)
  PROVE  DescInv'
<1> USE DEF Releasing
<1>1. fds \in [Fd -> Ino \cup {NoIno}]
  BY DEF CoreInv, TypeOK
<1>2. ASSUME NEW g \in Fd PROVE Holders(g)' = Holders(g) \ {k}
  <2>1. Keys(g)' = Keys(g) \ {k}
    BY DEF Keys, FilesSame
  <2>2. t \notin Takers(g) /\ t \notin Takers(g)'
    BY DEF Takers, Takes
  <2>3. Takers(g)' = Takers(g)
    BY <2>2, TakersSame
  <2>4. k \notin Thread
    <3>1. k \in Key
      BY DEF CoreInv, TypeOK, H!TypeOK, Key, H!Key, Entries
    <3> QED BY <3>1, FileAssumption DEF Key
  <2>5. k \notin Takers(g)
    BY <2>4 DEF Takers
  <2>6. Holders(g)' = (Keys(g) \cup Takers(g))'
    BY DEF Holders, Keys, Takers
  <2> QED BY <2>1, <2>3, <2>5, <2>6, HoldersAre
<1>3. ASSUME NEW g \in Fd, g # fd PROVE Holders(g)' = Holders(g) /\ fds'[g] = fds[g]
  <2>1. k \notin Holders(g)
    <3>1. k \notin Keys(g)
      BY <1>3 DEF Keys
    <3>2. k \notin Thread
      <4>1. k \in Key
        BY DEF CoreInv, TypeOK, H!TypeOK, Key, H!Key, Entries
      <4> QED BY <4>1, FileAssumption DEF Key
    <3> QED BY <3>1, <3>2, HoldersAre DEF Takers
  <2>2. fds'[g] = fds[g]
    BY <1>1, <1>3
  <2> QED BY <1>2, <2>1, <2>2
<1>4. fd \in Fd => fds'[fd] = NoIno
  BY <1>1
<1>5. OpenIsHeld'
  BY <1>3, <1>4 DEF OpenIsHeld, DescInv
<1>6. ASSUME ~history'.struck PROVE HeldOnce' /\ HeldRight'
  <2>1. HeldOnce /\ HeldRight /\ k \notin history.stale
    BY <1>6 DEF DescInv
  <2>2. ASSUME fd \in Fd PROVE Holders(fd) \ {k} = {}
    <3>1. k \in Holders(fd)
      BY <2>1 DEF Holders
    <3> QED BY <2>1, <2>2, <3>1 DEF HeldOnce
  <2>3. \A g \in Fd : g = fd => Holders(g)' = {}
    BY <1>2, <2>2
  <2>4. HeldOnce'
    BY <1>3, <2>1, <2>3 DEF HeldOnce
  <2>5. HeldRight'
    <3> SUFFICES ASSUME NEW x \in Entries("FILE") \ history'.stale, map[x].word # NoFd
                 PROVE  fds'[map[x].word] = history.opened[x]
      BY DEF HeldRight, FilesSame
    <3>1. map[x].word \in Fd /\ x \notin history.stale /\ x # k
      BY CoreParts DEF TableFits, Entries, Desc
    <3>2. map[x].word # fd
      BY <2>2, <3>1 DEF Holders
    <3> QED BY <1>3, <2>1, <3>1, <3>2 DEF HeldRight
  <2> QED BY <2>4, <2>5
<1>7. StaleFits'
  <2>1. history'.stale \subseteq Entries("FILE")'
    BY DEF FilesSame, DescInv, StaleFits
  <2> QED BY <2>1, StaleKept DEF DescInv
<1> QED BY <1>5, <1>6, <1>7 DEF DescInv

(* A call puts the descriptor that it holds into an entry and ends. *)
Handing(t, k, fd) ==
  /\ Others(t) /\ OthersEntries(t) /\ UNCHANGED <<fds, over>> /\ call'[t] = Idle
  /\ call[t].pc \in {"register", "update"} /\ call[t].fd = fd
  /\ k \notin Entries("FILE") \ history.stale /\ k \in Key
  /\ Entries("FILE")' = Entries("FILE") \cup {k}
  /\ \A x \in Entries("FILE") \ {k} : map'[x] = map[x]
  /\ map'[k].word = fd
  /\ history'.stale = history.stale \ {k} /\ history'.struck = history.struck
  /\ history'.opened = [history.opened EXCEPT ![k] = OpenedOn(fd)]
  /\ \A u \in Thread \ {t} : call[u].op \in OnHandle => call[u].h # k

LEMMA HandingKeeps ==
  ASSUME CoreInv, DescInv, ~over, NEW t \in Thread, NEW k, NEW fd \in Desc, Handing(t, k, fd)
  PROVE  DescInv'
<1> USE DEF Handing
<1>1. ASSUME NEW g \in Fd
      PROVE  Holders(g)' = IF g = fd THEN (Holders(g) \ {t}) \cup {k} ELSE Holders(g)
  <2>1. Keys(g)' = IF g = fd THEN Keys(g) \cup {k} ELSE Keys(g)
    BY DEF Keys
  <2>2. t \notin Takers(g)' /\ (t \in Takers(g) <=> g = fd)
    BY IdleFrame DEF Takers
  <2>3. Takers(g)' = Takers(g) \ {t}
    <3>1. \A u \in Thread \ {t} : u \in Takers(g)' <=> u \in Takers(g)
      BY TakersBut
    <3> QED BY <2>2, <3>1 DEF Takers
  <2>4. t \notin Keys(g)
    BY KeysAreNotThreads
  <2>5. Holders(g)' = (Keys(g) \cup Takers(g))'
    BY DEF Holders, Keys, Takers
  <2> QED BY <2>1, <2>2, <2>3, <2>4, <2>5, HoldersAre
<1>2. OpenIsHeld'
  BY <1>1 DEF OpenIsHeld, DescInv
<1>3. ASSUME ~history'.struck PROVE HeldOnce' /\ HeldRight'
  <2>1. HeldOnce /\ HeldRight
    BY <1>3 DEF DescInv
  <2>2. fd \in Fd => t \in Holders(fd)
    BY DEF Holders
  <2>3. HeldOnce'
    <3> SUFFICES ASSUME NEW g \in Fd
                 PROVE  /\ fds'[g] = NoIno => Holders(g)' = {}
                        /\ \A x, y \in Holders(g)' : x = y
      BY DEF HeldOnce
    <3>1. CASE g = fd
      <4>1. t \in Holders(g) /\ fds[g] # NoIno /\ \A x \in Holders(g) : x = t
        BY <2>1, <2>2, <3>1 DEF HeldOnce
      <4>2. Holders(g)' = {k}
        BY <1>1, <3>1, <4>1
      <4> QED BY <4>1, <4>2
    <3>2. CASE g # fd
      BY <1>1, <2>1, <3>2 DEF HeldOnce
    <3> QED BY <3>1, <3>2
  <2>4. HeldRight'
    <3> SUFFICES ASSUME NEW x \in Entries("FILE")' \ history'.stale, map'[x].word # NoFd
                 PROVE  fds[map'[x].word] = history'.opened[x]
      BY DEF HeldRight
    <3>1. history.opened \in [Key -> Ino \cup {NoIno}]
      BY DEF CoreInv, TypeOK, History
    <3>2. CASE x = k
      BY <3>1, <3>2 DEF OpenedOn
    <3>3. CASE x # k
      <4>1. x \in Entries("FILE") \ history.stale /\ map'[x] = map[x]
        BY <3>3
      <4>2. history'.opened[x] = history.opened[x]
        <5>1. x \in Key
          BY <4>1 DEF CoreInv, TypeOK, H!TypeOK, Key, H!Key, Entries
        <5> QED BY <3>1, <3>3, <5>1
      <4> QED BY <2>1, <4>1, <4>2 DEF HeldRight
    <3> QED BY <3>2, <3>3
  <2> QED BY <2>3, <2>4
<1>4. StaleFits'
  <2>1. history'.stale \subseteq Entries("FILE")'
    BY DEF DescInv, StaleFits
  <2>2. Marked(t)'
    BY IdleFrame DEF Marked
  <2> QED BY <2>1, <2>2, StaleKept DEF DescInv
<1> QED BY <1>2, <1>3, <1>4 DEF DescInv

(* An entry that holds no descriptor goes. *)
Dropping(t, k) ==
  /\ Others(t) /\ OthersEntries(t) /\ UNCHANGED <<fds, over>> /\ call'[t] = Idle /\ ~Takes(call[t])
  /\ k \in Key /\ (k \in history.stale \/ map[k].word = NoFd)
  /\ Entries("FILE")' = Entries("FILE") \ {k}
  /\ \A x \in Entries("FILE") \ {k} : map'[x] = map[x]
  /\ history'.stale = history.stale \ {k} /\ history'.struck = history.struck
  /\ history'.opened = [history.opened EXCEPT ![k] = NoIno]
  /\ \A u \in Thread \ {t} : call[u].op \in OnHandle => call[u].h # k

LEMMA DroppingKeeps ==
  ASSUME CoreInv, DescInv, ~over, NEW t \in Thread, NEW k, Dropping(t, k)
  PROVE  DescInv'
<1> USE DEF Dropping
<1>1. ASSUME NEW g \in Fd PROVE Holders(g)' = Holders(g)
  <2>1. Keys(g)' = Keys(g)
    <3>1. g # NoFd
      BY NoLibIsNumber
    <3>2. k \notin Keys(g)
      BY <3>1 DEF Keys
    <3>3. k \notin Keys(g)'
      BY DEF Keys
    <3>4. \A x \in Entries("FILE") \ {k} : x \in Keys(g)' <=> x \in Keys(g)
      BY DEF Keys
    <3>5. Keys(g) \subseteq Entries("FILE") \ {k} /\ Keys(g)' \subseteq Entries("FILE") \ {k}
      BY <3>2, <3>3 DEF Keys
    <3> QED BY <3>4, <3>5
  <2>2. t \notin Takers(g)' /\ t \notin Takers(g)
    BY IdleFrame DEF Takers, Takes
  <2>3. Takers(g)' = Takers(g)
    BY <2>2, TakersSame
  <2>4. Holders(g)' = (Keys(g) \cup Takers(g))'
    BY DEF Holders, Keys, Takers
  <2> QED BY <2>1, <2>3, <2>4, HoldersAre
<1>2. OpenIsHeld' /\ (~history'.struck => HeldOnce')
  BY <1>1 DEF OpenIsHeld, DescInv, HeldOnce
<1>3. ASSUME ~history'.struck PROVE HeldRight'
  <2>1. HeldRight
    BY <1>3 DEF DescInv
  <2> SUFFICES ASSUME NEW x \in Entries("FILE")' \ history'.stale, map'[x].word # NoFd
               PROVE  fds[map'[x].word] = history'.opened[x]
    BY DEF HeldRight
  <2>2. x \in Entries("FILE") \ history.stale /\ map'[x] = map[x] /\ x # k
    OBVIOUS
  <2>3. history'.opened[x] = history.opened[x]
    <3>1. x \in Key /\ history.opened \in [Key -> Ino \cup {NoIno}]
      BY <2>2 DEF CoreInv, TypeOK, H!TypeOK, Key, H!Key, Entries, History
    <3> QED BY <2>2, <3>1
  <2> QED BY <2>1, <2>2, <2>3 DEF HeldRight
<1>4. StaleFits'
  <2>1. history'.stale \subseteq Entries("FILE")'
    BY DEF DescInv, StaleFits
  <2>2. Marked(t)'
    BY IdleFrame DEF Marked
  <2> QED BY <2>1, <2>2, StaleKept DEF DescInv
<1> QED BY <1>2, <1>3, <1>4 DEF DescInv

-----------------------------------------------------------------------------
(* The steps that have no part in descriptors.                             *)
Glides(t) ==
  /\ ~Takes(call[t]) /\ ~Takes(call'[t])
  /\ call'[t].op = "FindNextFile" /\ call'[t].pc \in {"exists", "open", "update"}
       => call[t].pc \in {"exists", "open"}
  /\ call'[t].op \in {"CloseHandle", "FindClose"} /\ call'[t].pc = "erase"
       => call'[t].fd \in Lib \cup {NoFd}

LEMMA GlideAside ==
  ASSUME CoreInv, DescInv, ~over, NEW t \in Thread, PlainStep(t), Glides(t), MarksSame, fds' = fds
  PROVE  Aside(t)
<1>1. FilesSame /\ Others(t) /\ UNCHANGED map
  BY DEF PlainStep, Locally, FilesSame, Entries
<1>2. OthersEntries(t)
  BY <1>1, CoreParts DEF OthersEntries, CallsFit, HandleFits
<1>3. ASSUME ~over' PROVE Marked(t)'
  <2>1. HandleFits(t)' /\ TableFits'
    BY <1>3, PlainKeeps DEF CoreInv, CallsFit
  <2>2. CASE call'[t] = Idle
    BY <2>2, IdleFrame DEF Marked
  <2>3. CASE call'[t].op = call[t].op /\ call'[t].h = call[t].h
    <3>1. Marked(t)
      BY DEF DescInv, StaleFits
    <3>2. ASSUME call'[t].op \in {"CloseHandle", "FindClose"}, call'[t].pc = "erase",
                 map'[call'[t].h].type = "FILE"
          PROVE  map'[call'[t].h].word = NoFd
      <4>1. call'[t].fd = map'[call'[t].h].word /\ call'[t].h \in DOMAIN map'
        BY <2>1, <3>2 DEF HandleFits, OnHandle
      <4>2. call'[t].fd \in Desc
        BY <2>1, <3>2, <4>1 DEF TableFits
      <4> QED BY <3>2, <4>1, <4>2, NoLibIsNumber DEF Glides
    <3>3. ASSUME call'[t].op = "FindNextFile", call'[t].pc \in {"exists", "open", "update"}
          PROVE  call'[t].h \in history'.stale
      BY <2>3, <3>1, <3>3 DEF Glides, Marked, MarksSame
    <3> QED BY <3>2, <3>3 DEF Marked
  <2> QED BY <2>2, <2>3 DEF PlainStep, Locally
<1> QED BY <1>1, <1>2, <1>3 DEF Aside, Glides

LEMMA UnlinkMarks ==
  ASSUME history \in History, NEW p, unlink(p) PROVE MarksSame
BY DEF unlink, History, MarksSame

(* The call of t ends, or is at another place. *)
LEMMA GlideTo ==
  ASSUME CoreInv, ~over, NEW t \in Thread, call[t].pc \notin {"register", "update"},
         NEW f, call'[t] = f, f.pc \notin {"register", "update", "erase"},
         f.op = "FindNextFile" => f.pc \notin {"exists", "open", "update"}
  PROVE  Glides(t)
BY DEF Glides, Takes

LEMMA GlidesHome ==
  ASSUME CoreInv, ~over, NEW t \in Thread, call[t].pc \notin {"register", "update"},
         call'[t] = Idle
  PROVE  Glides(t)
BY IdleFrame DEF Glides, Takes

LEMMA CreateGlides ==
  ASSUME CoreInv, ~over, NEW t \in Thread,
         CreateFileA_parent(t) \/ CreateFileA_replace(t) \/ CreateFileA_disposition(t)
  PROVE  PlainStep(t) /\ Glides(t) /\ MarksSame /\ fds' = fds
<1> USE CoreParts
<1>1. PlainStep(t)
  BY StepParent, StepReplace, StepDisposition
<1>2. MarksSame /\ fds' = fds
  BY UnlinkMarks DEF CreateFileA_parent, CreateFileA_replace, CreateFileA_disposition, MarksSame,
                     OwnTypes
<1>3. call[t].op = "CreateFile" /\ call[t].pc \in {"parent", "disposition"}
  BY DEF CreateFileA_parent, CreateFileA_replace, CreateFileA_disposition, At
<1>4. call'[t] = Idle \/ (call'[t].op = "CreateFile" /\ call'[t].pc \in {"disposition", "open"})
  <2>1. CASE CreateFileA_parent(t)
    BY <1>3, <2>1 DEF CreateFileA_parent, Goto, Disturb, Frame
  <2>2. CASE CreateFileA_replace(t)
    BY <1>3, <2>2 DEF CreateFileA_replace, Disturb, Frame
  <2>3. CASE CreateFileA_disposition(t)
    BY <1>3, <2>3 DEF CreateFileA_disposition, Done, Frame
  <2> QED BY <2>1, <2>2, <2>3
<1>5. Glides(t)
  BY <1>3, <1>4, GlidesHome, GlideTo
<1> QED BY <1>1, <1>2, <1>5

LEMMA LookupGlides ==
  ASSUME CoreInv, ~over, NEW t \in Thread,
         Descriptor_lookup(t) \/ CloseFile_lookup(t) \/ Module_lookup(t)
  PROVE  PlainStep(t) /\ Glides(t) /\ MarksSame /\ fds' = fds
<1> USE CoreParts
<1>1. PlainStep(t)
  BY StepLookups
<1>2. MarksSame /\ fds' = fds /\ call[t].pc = "lookup"
  BY DEF Descriptor_lookup, CloseFile_lookup, Module_lookup, Unmoved, MarksSame
<1>3. CASE Descriptor_lookup(t)
  <2>1. call'[t] = Idle \/ call'[t].pc = "io"
    BY <1>3 DEF Descriptor_lookup, Done, Frame
  <2> QED BY <1>1, <1>2, <2>1, GlidesHome, GlideTo
<1>4. CASE Module_lookup(t)
  <2>1. call'[t].pc \in {"io", "dlclose"}
    BY <1>4 DEF Module_lookup, Frame
  <2> QED BY <1>1, <1>2, <2>1, GlideTo
<1>5. CASE CloseFile_lookup(t)
  <2>1. \/ call'[t].pc = "close"
        \/ call'[t].pc = "erase" /\ call'[t].fd = NoFd
    BY <1>5 DEF CloseFile_lookup, Frame
  <2> QED BY <1>1, <1>2, <2>1 DEF Glides, Takes
<1> QED BY <1>3, <1>4, <1>5

LEMMA EndGlides ==
  ASSUME CoreInv, ~over, NEW t \in Thread,
         \/ WriteFile_write(t) \/ ReadFile_read(t) \/ FlushFileBuffers_syncfs(t)
         \/ SetFilePointer_lseek(t) \/ GetFileAttributesA_kind(t) \/ ExceptionCaught(t) \/ LoadLibraryA_fails(t)
         \/ GetProcAddressA_dlsym(t) \/ MoveFileA_remove(t) \/ Atomically(t)
  PROVE  PlainStep(t) /\ Glides(t) /\ MarksSame /\ fds' = fds
<1> USE CoreParts
<1>1. PlainStep(t)
  BY StepWrite, StepEnds, StepRemove, StepAtomic DEF Atomically
<1>2. CASE Atomically(t)
  <2>1. PICK f : Atomic(t, f)
    BY <1>2 DEF Atomically, DeleteFileA, CreateDirectoryA, RemoveDirectoryA
  <2>2. call[t] = Idle /\ call'[t] = Idle /\ fds' = fds
    BY <2>1 DEF Atomic, Disturb
  <2>3. MarksSame
    BY <1>2, UnlinkMarks DEF Atomically, DeleteFileA, CreateDirectoryA, RemoveDirectoryA, MarksSame, OwnTypes
  <2> QED BY <1>1, <2>2, <2>3, IdleFrame, GlidesHome
<1>3. CASE MoveFileA_remove(t)
  <2>1. call[t].pc = "remove" /\ call'[t] = Idle /\ fds' = fds
    BY <1>3 DEF MoveFileA_remove, At, Disturb
  <2>2. MarksSame
    BY <1>3, UnlinkMarks DEF MoveFileA_remove, OwnTypes
  <2> QED BY <1>1, <2>1, <2>2, GlidesHome
<1>4. CASE WriteFile_write(t)
  <2>1. call[t].pc = "io" /\ call'[t] = Idle /\ fds' = fds /\ MarksSame
    BY <1>4 DEF WriteFile_write, At, Disturb, Done, MarksSame
  <2> QED BY <1>1, <2>1, GlidesHome
<1>5. CASE \/ ReadFile_read(t) \/ FlushFileBuffers_syncfs(t) \/ SetFilePointer_lseek(t)
           \/ GetFileAttributesA_kind(t) \/ ExceptionCaught(t) \/ LoadLibraryA_fails(t) \/ GetProcAddressA_dlsym(t)
  <2>1. /\ \/ call[t].pc \in {"io", "kind", "dlopen", "parent", "disposition"}
           \/ call[t].op \in Copiers
        /\ call'[t] = Idle /\ fds' = fds /\ MarksSame
    BY <1>5 DEF ReadFile_read, FlushFileBuffers_syncfs, SetFilePointer_lseek, ReadOnly,
                GetFileAttributesA_kind, ExceptionCaught, Copies, Copiers, LoadLibraryA_fails,
                GetProcAddressA_dlsym, At, Done, MarksSame, Unmoved
  <2>2. call[t].pc \notin {"register", "update"}
    BY <2>1 DEF CallsFit, Shape
  <2> QED BY <1>1, <2>1, <2>2, GlidesHome
<1> QED BY <1>2, <1>3, <1>4, <1>5

LEMMA CopyGlides ==
  ASSUME CoreInv, ~over, NEW t \in Thread,
         \/ GetFileAttributesA_exists(t) \/ CopyFileA_check(t) \/ MoveFileA_check(t)
         \/ Copy_start(t) \/ Copy_end(t)
  PROVE  PlainStep(t) /\ Glides(t) /\ MarksSame /\ fds' = fds
<1> USE CoreParts
<1>1. PlainStep(t)
  BY StepExists, StepCopyCheck, StepMoveCheck, StepCopyStart, StepCopyEnd
<1>2. MarksSame /\ fds' = fds
  BY UnlinkMarks DEF GetFileAttributesA_exists, CopyFileA_check, MoveFileA_check, Copy_start, Copy_end,
                     MarksSame, OwnTypes
<1>3. call[t].pc \in {"check", "copy", "copying"}
  BY DEF GetFileAttributesA_exists, CopyFileA_check, MoveFileA_check, Copy_start, Copy_end, At
<1>4. call'[t] = Idle \/ call'[t].pc \in {"kind", "copy", "copying", "remove"}
  <2>1. CASE GetFileAttributesA_exists(t)
    BY <2>1 DEF GetFileAttributesA_exists, Goto, Done, Frame
  <2>2. CASE CopyFileA_check(t)
    BY <2>2 DEF CopyFileA_check, Disturb, Done, Frame
  <2>3. CASE MoveFileA_check(t)
    BY <2>3 DEF MoveFileA_check, Done, Frame
  <2>4. CASE Copy_start(t)
    BY <2>4, StepCopyStart DEF Fields
  <2>5. CASE Copy_end(t)
    BY <2>5 DEF Copy_end, Disturb, Frame
  <2> QED BY <2>1, <2>2, <2>3, <2>4, <2>5
<1>5. Glides(t)
  BY <1>3, <1>4, GlidesHome, GlideTo
<1> QED BY <1>1, <1>2, <1>5

LEMMA FindGlides ==
  ASSUME CoreInv, ~over, NEW t \in Thread,
         FindFirstFileA_list(t) \/ Find_exists(t) \/ FindNextFileA_list(t)
  PROVE  PlainStep(t) /\ Glides(t) /\ MarksSame /\ fds' = fds
<1> USE CoreParts
<1>1. PlainStep(t)
  BY StepFirstList, StepExists, StepNextList
<1>2. MarksSame /\ fds' = fds
  BY DEF FindFirstFileA_list, Find_exists, FindNextFileA_list, Leave, MarksSame
<1>3. /\ call[t].pc \in {"list", "exists"}
      /\ call[t].pc = "exists" => Find_exists(t)
  BY DEF FindFirstFileA_list, Find_exists, FindNextFileA_list, At
<1>4. CASE Find_exists(t)
  <2>1. call[t].pc = "exists" /\ (call'[t] = Idle \/ call'[t].pc = "open")
    BY <1>4 DEF Find_exists, Goto, Done, Frame
  <2> QED BY <1>1, <1>2, <2>1, GlidesHome DEF Glides, Takes
<1>5. CASE FindFirstFileA_list(t)
  <2>1. /\ call[t].pc = "list" /\ call[t].op = "FindFirstFile"
        /\ call'[t] = Idle \/ (call'[t].pc = "exists" /\ call'[t].op = "FindFirstFile")
    BY <1>5 DEF FindFirstFileA_list, At, Done, Frame
  <2> QED BY <1>1, <1>2, <2>1, GlidesHome, GlideTo
<1>6. CASE FindNextFileA_list(t)
  <2>1. call[t].pc = "list" /\ (call'[t] = Idle \/ call'[t].pc = "close")
    BY <1>6 DEF FindNextFileA_list, At, Done, Frame
  <2> QED BY <1>1, <1>2, <2>1, GlidesHome, GlideTo
<1> QED BY <1>4, <1>5, <1>6

LEMMA StartAside ==
  ASSUME CoreInv, DescInv, ~over, NEW t \in Thread, NEW f, Starts(t, f)
  PROVE  Aside(t)
<1>1. call[t] = Idle /\ UNCHANGED <<map, fds, history, over>>
  BY DEF Starts, Begin
<1>2. Others(t) /\ call'[t] = f
  BY StartKeeps
<1>3. FilesSame /\ MarksSame
  BY <1>1 DEF FilesSame, MarksSame, Entries
<1>4. OthersEntries(t)
  BY <1>1, CoreParts DEF OthersEntries, CallsFit, HandleFits
<1>5. ~Takes(f) /\ Marked(t)'
  BY <1>2 DEF Starts, Takes, Marked
<1> QED BY <1>1, <1>2, <1>3, <1>4, <1>5, IdleTakesNothing DEF Aside

LEMMA LibraryAside ==
  ASSUME CoreInv, DescInv, ~over, NEW t \in Thread, NEW r, NEW k \in Key,
         \/ LoadLibraryA_dlopen(t) \/ _wrapper_init_dlopen(t)
         \/ _wrapper_init_register(t, r, k) \/ LoadLibraryA_register(t, r, k)
         \/ FreeLibrary_dlclose(t) \/ FreeLibrary_erase(t)
  PROVE  Aside(t)
<1> USE CoreParts
<1>1. LibraryStep(t)
  BY StepDlopen, StepLoadRegister, StepDlclose, StepModuleErase
<1>2. FilesSame
  <2>1. CASE LoadLibraryA_dlopen(t) \/ _wrapper_init_dlopen(t) \/ FreeLibrary_dlclose(t)
    BY <2>1 DEF LoadLibraryA_dlopen, _wrapper_init_dlopen, FreeLibrary_dlclose, FilesSame, Entries
  <2>2. CASE _wrapper_init_register(t, r, k) \/ LoadLibraryA_register(t, r, k)
    BY <2>2, StepLoadRegister DEF FilesSame, Entries
  <2>3. CASE FreeLibrary_erase(t)
    BY <2>3, StepModuleErase DEF FilesSame, Entries, Erased
  <2> QED BY <2>1, <2>2, <2>3
<1>3. OthersEntries(t) /\ Others(t)
  BY <1>1 DEF LibraryStep, LeavesTheOthers, OthersEntries
<1>4. MarksSame /\ fds' = fds
  BY <1>1 DEF LibraryStep, MarksSame
<1>5. ~Takes(call[t]) /\ ~Takes(call'[t]) /\ Marked(t)'
  <2>1. ASSUME NEW c, Shape(c), c.op = "LoadLibrary" PROVE ~Takes(c)
    BY <2>1, NoLibIsNumber DEF Shape, Takes
  <2>2. Shape(call[t]) /\ Shape(call'[t])
    BY <1>1 DEF CallsFit, LibraryStep
  <2>3. CASE \/ LoadLibraryA_dlopen(t) \/ _wrapper_init_dlopen(t)
             \/ _wrapper_init_register(t, r, k) \/ LoadLibraryA_register(t, r, k)
    <3>1. call[t].op = "LoadLibrary" /\ (call'[t] = Idle \/ call'[t].op = "LoadLibrary")
      BY <2>3 DEF LoadLibraryA_dlopen, _wrapper_init_dlopen, _wrapper_init_register,
                  LoadLibraryA_register, At, Goto, Done, Frame
    <3> QED BY <2>1, <2>2, <3>1, IdleTakesNothing, IdleFrame DEF Marked
  <2>4. CASE FreeLibrary_dlclose(t)
    <3>1. /\ call[t].pc = "dlclose" /\ call'[t].pc = "erase" /\ UNCHANGED map
          /\ call'[t].op = call[t].op /\ call'[t].h = call[t].h
      BY <2>4 DEF FreeLibrary_dlclose, Goto, Frame
    <3>2. map[call[t].h].type = "MODULE"
      BY <3>1, StillOpen
    <3> QED BY <3>1, <3>2 DEF Takes, Marked
  <2>5. CASE FreeLibrary_erase(t)
    <3>1. call[t].pc = "erase" /\ call'[t] = Idle
      BY <2>5 DEF FreeLibrary_erase, Done
    <3> QED BY <3>1, IdleTakesNothing, IdleFrame DEF Takes, Marked
  <2> QED BY <2>3, <2>4, <2>5
<1> QED BY <1>2, <1>3, <1>4, <1>5 DEF Aside

(* open. *)
LEMMA OpenDescriptors ==
  ASSUME CoreInv, DescInv, ~over, NEW t \in Thread, CreateFileA_open(t) \/ Find_open(t)
  PROVE  DescInv'
<1> USE CoreParts
<1> DEFINE c == call[t]
           creates == IF c.op = "CreateFile" THEN c.flag ELSE FALSE
           truncates == c.op = "CreateFile" /\ c.how = "TRUNCATE_EXISTING"
           r == OpenResult(c.p, creates)
<1>1. /\ Shape(c) /\ c \in Frame /\ c.pc = "open" /\ c.p \in Name /\ c.ino = NoIno
      /\ c.op \in {"CreateFile", "FindFirstFile", "FindNextFile"}
      /\ creates \in BOOLEAN /\ truncates \in BOOLEAN
  BY DEF CreateFileA_open, Find_open, At, CallsFit, Shape, Frame, Copiers
<1>2. PlainStep(t) /\ open(c.p, r, creates, truncates)
  <2>1. CASE CreateFileA_open(t)
    BY <2>1, StepOpen DEF CreateFileA_open, At
  <2>2. CASE Find_open(t)
    BY <2>2, StepFindOpen DEF Find_open
  <2> QED BY <2>1, <2>2
<1>3. /\ call'[t].fd = r /\ call'[t].pc \in {"register", "update"}
      /\ call'[t].op = c.op /\ call'[t].h = c.h
  <2>1. CASE CreateFileA_open(t)
    <3>1. c.op = "CreateFile" /\ call'[t] = [c EXCEPT !.pc = "register", !.fd = r]
      BY <2>1 DEF CreateFileA_open, At, Disturb
    <3> HIDE DEF r
    <3> QED BY <3>1, <1>1 DEF Frame
  <2>2. CASE Find_open(t)
    <3>1. PICK place \in {"register", "update"} : call' = [call EXCEPT ![t].fd = r, ![t].pc = place]
      BY <2>2 DEF Find_open
    <3> HIDE DEF r
    <3> QED BY <3>1, <1>1 DEF Frame
  <2> QED BY <2>1, <2>2
<1>4. MarksSame /\ UNCHANGED over
  BY DEF CreateFileA_open, Find_open, MarksSame
<1>5. /\ r \in Desc
      /\ r = NoFd => fds' = fds
      /\ r # NoFd => \E ino \in Ino : Opens(c.p, r, ino)
  <2> HIDE DEF r, creates, truncates
  <2> USE DEF r
  <2> QED BY <1>1, <1>2, OpenDoes DEF CoreInv
<1> HIDE DEF r
<1>6. Marked(t) /\ Marked(t)' /\ ~Takes(c)
  BY <1>1, <1>3, <1>4 DEF DescInv, StaleFits, Marked, MarksSame, Takes
<1>7. FilesSame /\ Others(t) /\ OthersEntries(t)
  BY <1>2 DEF PlainStep, Locally, FilesSame, Entries, OthersEntries, CallsFit, HandleFits
<1>8. CASE r = NoFd
  <2>1. ~Takes(call'[t])
    BY <1>3, <1>8, NoLibIsNumber DEF Takes
  <2>2. Aside(t)
    BY <1>4, <1>5, <1>6, <1>7, <1>8, <2>1 DEF Aside
  <2> QED BY <2>2, AsideKeeps
<1>9. CASE r # NoFd
  <2>1. PICK fd \in Fd : fd = r
    BY <1>5, <1>9 DEF Desc
  <2>2. PICK ino \in Ino : Opens(c.p, fd, ino)
    BY <1>5, <1>9, <2>1
  <2>3. ino # NoIno
    BY DEF Ino, NoIno
  <2>4. Taking(t, fd, ino)
    BY <1>3, <1>4, <1>6, <1>7, <2>1, <2>2, <2>3 DEF Taking, Opens
  <2> QED BY <2>4, TakingKeeps
<1> QED BY <1>8, <1>9

LEMMA CloseDescriptors ==
  ASSUME CoreInv, DescInv, ~over, NEW t \in Thread, CloseFile_close(t) \/ FindNextFileA_close(t)
  PROVE  DescInv'
<1> USE CoreParts
<1>1. /\ PlainStep(t)
      /\ HistoryIs(history.opened, history.stale \cup {call[t].h},
                   history.struck \/ call[t].h \in history.stale,
                   history.seen, history.due, history.calm)
  BY StepCloses
<1>2. /\ call[t].pc = "close" /\ HandleFits(t) /\ call[t].op \in OnHandle /\ CloseDescriptor(t)
  BY DEF CloseFile_close, FindNextFileA_close, Closing, At, CallsFit, OnHandle
<1>3. PICK k, fd : k = call[t].h /\ fd = call[t].fd
  OBVIOUS
<1>4. k \in Entries("FILE") /\ map[k].word = fd /\ UNCHANGED over
  BY <1>2, <1>3 DEF HandleFits, Entries, CloseDescriptor
<1>5. fds' = IF fd \in Fd THEN [fds EXCEPT ![fd] = NoIno] ELSE fds
  BY <1>2, <1>3 DEF CloseDescriptor, close
<1>6. FilesSame /\ Others(t) /\ OthersEntries(t)
  BY <1>1 DEF PlainStep, Locally, FilesSame, Entries, OthersEntries, CallsFit, HandleFits
<1>7. call'[t] = Idle \/ (call'[t].pc \in {"erase", "exists"} /\ call'[t].h = k)
  BY <1>3 DEF CloseFile_close, FindNextFileA_close, Goto, Done, Frame
<1>8. ~Takes(call[t]) /\ ~Takes(call'[t])
  BY <1>2, <1>7, IdleTakesNothing DEF Takes
<1>9. Marked(t)'
  BY <1>1, <1>3, <1>7, IdleFrame DEF Marked, HistoryIs
<1>10. Releasing(t, k, fd)
  BY <1>1, <1>3, <1>4, <1>5, <1>6, <1>8, <1>9 DEF Releasing, HistoryIs
<1> QED BY <1>10, ReleasingKeeps

LEMMA RegisterDescriptors ==
  ASSUME CoreInv, DescInv, ~over, NEW t \in Thread, NEW r, NEW k \in Key,
         CreateFileA_register(t, r, k) \/ FindFirstFileA_register(t, r, k)
  PROVE  DescInv'
<1> USE CoreParts
<1>1. PICK q, fd : q = call[t].q /\ fd = call[t].fd
  OBVIOUS
<1>2. /\ FileEntryStep(t)
      /\ Registered(k, FileHeader(call[t].fd, call[t].p, NoText))
           \/ Registered(k, FileHeader(call[t].fd, call[t].p, call[t].q))
      /\ history'.stale = history.stale /\ history'.struck = history.struck
      /\ history'.opened = [history.opened EXCEPT ![k] = OpenedOn(call[t].fd)]
  <2>1. CASE CreateFileA_register(t, r, k)
    BY <2>1, StepCreateRegister DEF HistoryIs
  <2>2. CASE FindFirstFileA_register(t, r, k)
    <3>1. PICK calm :
            /\ FileEntryStep(t) /\ Registered(k, FileHeader(call[t].fd, call[t].p, call[t].q))
            /\ HistoryIs([history.opened EXCEPT ![k] = OpenedOn(call[t].fd)], history.stale,
                         history.struck, [history.seen EXCEPT ![k] = {call[t].p}],
                         [history.due EXCEPT ![k] = call[t].due], calm)
      BY <2>2, StepFirstRegister
    <3> QED BY <3>1 DEF HistoryIs
  <2> QED BY <2>1, <2>2
<1>3. call[t].pc = "register" /\ call[t].op \in {"CreateFile", "FindFirstFile"} /\ fd \in Desc
  BY <1>1 DEF CreateFileA_register, FindFirstFileA_register, At, CallsFit, Shape
<1>4. /\ k \notin DOMAIN map /\ map'[k].type = "FILE" /\ map'[k].word = fd
      /\ DOMAIN map' = DOMAIN map \cup {k} /\ \A x \in DOMAIN map : map'[x] = map[x]
  BY <1>1, <1>2 DEF Registered, FileHeader
<1>5. /\ k \notin Entries("FILE") /\ Entries("FILE")' = Entries("FILE") \cup {k}
      /\ \A x \in Entries("FILE") : map'[x] = map[x]
  BY <1>4 DEF Entries
<1>6. history'.stale = history.stale \ {k}
  BY <1>2, <1>5 DEF DescInv, StaleFits
<1>7. /\ Others(t) /\ call'[t] = Idle /\ UNCHANGED <<fds, over>>
      /\ OthersEntries(t) /\ \A u \in Thread \ {t} : call[u].op \in OnHandle => call[u].h # k
  BY <1>2, <1>4 DEF FileEntryStep, OthersEntries, CallsFit, HandleFits
<1>8. Handing(t, k, fd)
  BY <1>1, <1>2, <1>3, <1>4, <1>5, <1>6, <1>7 DEF Handing
<1> QED BY <1>3, <1>8, HandingKeeps

LEMMA UpdateDescriptors ==
  ASSUME CoreInv, DescInv, ~over, NEW t \in Thread, FindNextFileA_update(t)
  PROVE  DescInv'
<1> USE CoreParts
<1>1. PICK k, fd : k = call[t].h /\ fd = call[t].fd
  OBVIOUS
<1>2. /\ FileEntryStep(t) /\ Updated(k, fd, call[t].p)
      /\ history'.stale = history.stale \ {k} /\ history'.struck = history.struck
      /\ history'.opened = [history.opened EXCEPT ![k] = OpenedOn(fd)]
  BY <1>1, StepNextUpdate DEF HistoryIs
<1>3. /\ call[t].pc = "update" /\ call[t].op = "FindNextFile" /\ fd \in Desc /\ HandleFits(t)
      /\ Marked(t)
  BY <1>1 DEF FindNextFileA_update, At, CallsFit, Shape, DescInv, StaleFits
<1>4. k \in DOMAIN map /\ map[k].type = "FILE" /\ k \in Key /\ k \in history.stale
  BY <1>1, <1>3 DEF HandleFits, OnHandle, Marked, H!TypeOK, Key, H!Key
<1>5. /\ Entries("FILE")' = Entries("FILE") \cup {k} /\ map'[k].word = fd
      /\ \A x \in Entries("FILE") \ {k} : map'[x] = map[x]
  BY <1>2, <1>4 DEF Entries, Updated
<1>6. /\ Others(t) /\ call'[t] = Idle /\ UNCHANGED <<fds, over>>
      /\ OthersEntries(t) /\ \A u \in Thread \ {t} : call[u].op \in OnHandle => call[u].h # k
  BY <1>1, <1>2, <1>3 DEF FileEntryStep, LeavesTheOthers, OthersEntries, HandleFits, OnHandle
<1>7. Handing(t, k, fd)
  BY <1>1, <1>2, <1>3, <1>4, <1>5, <1>6 DEF Handing
<1> QED BY <1>3, <1>7, HandingKeeps

LEMMA EraseDescriptors ==
  ASSUME CoreInv, DescInv, ~over, NEW t \in Thread, CloseFile_erase(t)
  PROVE  DescInv'
<1> USE CoreParts
<1>1. PICK k : k = call[t].h
  OBVIOUS
<1>2. /\ FileEntryStep(t) /\ Erased(k)
      /\ history'.stale = history.stale \ {k} /\ history'.struck = history.struck
      /\ history'.opened = [history.opened EXCEPT ![k] = NoIno]
  BY <1>1, StepFileErase DEF HistoryIs
<1>3. /\ call[t].pc = "erase" /\ call[t].op \in {"CloseHandle", "FindClose"} /\ HandleFits(t)
      /\ Marked(t) /\ H!type_get(k) = "FILE"
  BY <1>1 DEF CloseFile_erase, Closing, CallsFit, DescInv, StaleFits
<1>4. k \in DOMAIN map /\ map[k].type = "FILE" /\ k \in Key /\ (k \in history.stale \/ map[k].word = NoFd)
  BY <1>1, <1>3 DEF HandleFits, OnHandle, Marked, H!TypeOK, Key, H!Key, H!type_get
<1>5. /\ Entries("FILE")' = Entries("FILE") \ {k}
      /\ \A x \in Entries("FILE") \ {k} : map'[x] = map[x]
  BY <1>2, <1>4 DEF Entries, Erased
<1>6. /\ Others(t) /\ call'[t] = Idle /\ UNCHANGED <<fds, over>>
      /\ OthersEntries(t) /\ \A u \in Thread \ {t} : call[u].op \in OnHandle => call[u].h # k
  BY <1>1, <1>2, <1>3 DEF FileEntryStep, LeavesTheOthers, OthersEntries, HandleFits, OnHandle
<1>7. Dropping(t, k)
  BY <1>1, <1>2, <1>3, <1>4, <1>5, <1>6 DEF Dropping, Takes
<1> QED BY <1>7, DroppingKeeps

(* The destructor finds a handle of its library: it has one as long as it  *)
(* is loaded and nobody is in a call.                                      *)
LEMMA EndDescriptors ==
  ASSUME CoreInv, DescInv, ~over, NEW t \in Thread, ExceptionUncaught(t) \/ _wrapper_fini(t)
  PROVE  DescInv'
<1> USE CoreParts
<1>1. over' /\ UNCHANGED <<fds, call, history>>
  BY StepEndsProgram DEF ExceptionUncaught, _wrapper_fini
<1>2. FilesSame
  <2>1. CASE ExceptionUncaught(t)
    BY <2>1 DEF ExceptionUncaught, FilesSame, Entries
  <2>2. CASE _wrapper_fini(t)
    <3>1. Mods(Self) # {}
      <4>1. \A u \in Thread : call[u] = Idle
        BY <2>2 DEF _wrapper_fini
      <4>2. Self \in Lib /\ Counted(Self) /\ refs[Self] > 0 /\ refs[Self] \in Nat
        BY <2>2, FileAssumption, CountedIs DEF _wrapper_fini
      <4>3. Loads(Self) = {} /\ Inits(Self) = {} /\ Frees(Self) = {}
        BY <4>1, IdleFrame DEF Loads, Loading, Inits, Frees
      <4>4. Cardinality(Loads(Self)) = 0 /\ Cardinality(Inits(Self)) = 0 /\ Cardinality(Frees(Self)) = 0
        BY <4>3, FS_EmptySet
      <4>5. Cardinality(Mods(Self)) \in Nat
        BY CountsFinite
      <4>6. Cardinality(Mods(Self)) # 0
        BY <4>2, <4>4, <4>5 DEF Counted
      <4> QED BY <4>6, FS_EmptySet
    <3>2. H!WithWord("MODULE", Self) = Mods(Self)
      BY DEF H!WithWord, Mods, Entries
    <3>3. PICK k \in Mods(Self) : H!erase(k)
      BY <2>2, <3>1, <3>2 DEF _wrapper_fini, H!find_module_by_native_handle, H!FoundIn
    <3>4. Erased(k)
      BY <3>3, EraseDoes
    <3> QED BY <3>4 DEF FilesSame, Mods, Entries, Erased
  <2> QED BY <2>1, <2>2
<1>3. \A fd \in Fd : Holders(fd)' = Holders(fd)
  BY <1>1, <1>2 DEF Holders, FilesSame
<1>4. OpenIsHeld' /\ (~history'.struck => HeldOnce')
  BY <1>1, <1>3 DEF DescInv, OpenIsHeld, HeldOnce
<1>5. ~history'.struck => HeldRight'
  BY <1>1, <1>2 DEF FilesSame, DescInv, HeldRight
<1>6. StaleFits'
  BY <1>1, <1>2 DEF FilesSame, DescInv, StaleFits
<1> QED BY <1>4, <1>5, <1>6 DEF DescInv

LEMMA DescKept ==
  ASSUME CoreInv, DescInv, [Next]_vars PROVE DescInv'
<1>1. CASE UNCHANGED vars
  BY <1>1 DEF vars, disk, DescInv, StaleFits, Marked, OpenIsHeld, HeldOnce, HeldRight, Holders, Entries
<1>2. CASE Next
  <2>1. PICK t \in Thread : \/ FileCall(t) \/ FindCall(t) \/ LoaderCall(t)
                            \/ FileStep(t) \/ FindStep(t) \/ LoaderStep(t)
    BY <1>2 DEF Next
  <2>2. ~over
    BY <1>2 DEF Next
  <2>3. CASE FileCall(t) \/ FindCall(t) \/ LoaderCall(t)
    <3>1. CASE \E f : Starts(t, f)
      BY <2>2, <3>1, StartAside, AsideKeeps
    <3>2. CASE Atomically(t)
      BY <2>2, <3>2, EndGlides, GlideAside, AsideKeeps
    <3>3. CASE _wrapper_fini(t)
      BY <2>2, <3>3, EndDescriptors
    <3> QED BY <2>2, <2>3, <3>1, <3>2, <3>3, CallCases
  <2>4. CASE FileStep(t)
    <3>1. ASSUME NEW r \in Rand, NEW k \in Key, CreateFileA_register(t, r, k) PROVE DescInv'
      BY <2>2, <3>1, RegisterDescriptors
    <3>2. CASE CreateFileA_open(t)
      BY <2>2, <3>2, OpenDescriptors
    <3>3. CASE CloseFile_close(t)
      BY <2>2, <3>3, CloseDescriptors
    <3>4. CASE CloseFile_erase(t)
      BY <2>2, <3>4, EraseDescriptors
    <3>5. CASE ExceptionUncaught(t)
      BY <2>2, <3>5, EndDescriptors
    <3>6. CASE CreateFileA_parent(t) \/ CreateFileA_replace(t) \/ CreateFileA_disposition(t)
      BY <2>2, <3>6, CreateGlides, GlideAside, AsideKeeps
    <3>7. CASE \/ WriteFile_write(t) \/ ReadFile_read(t) \/ FlushFileBuffers_syncfs(t)
               \/ SetFilePointer_lseek(t) \/ GetFileAttributesA_kind(t) \/ ExceptionCaught(t) \/ MoveFileA_remove(t)
      BY <2>2, <3>7, EndGlides, GlideAside, AsideKeeps
    <3>8. CASE Descriptor_lookup(t) \/ CloseFile_lookup(t)
      BY <2>2, <3>8, LookupGlides, GlideAside, AsideKeeps
    <3>9. CASE \/ GetFileAttributesA_exists(t) \/ CopyFileA_check(t) \/ MoveFileA_check(t)
               \/ Copy_start(t) \/ Copy_end(t)
      BY <2>2, <3>9, CopyGlides, GlideAside, AsideKeeps
    <3> QED BY <2>4, <3>1, <3>2, <3>3, <3>4, <3>5, <3>6, <3>7, <3>8, <3>9, Zenon DEF FileStep
  <2>5. CASE FindStep(t)
    <3>1. ASSUME NEW r \in Rand, NEW k \in Key, FindFirstFileA_register(t, r, k) PROVE DescInv'
      BY <2>2, <3>1, RegisterDescriptors
    <3>2. CASE Find_open(t)
      BY <2>2, <3>2, OpenDescriptors
    <3>3. CASE FindNextFileA_close(t)
      BY <2>2, <3>3, CloseDescriptors
    <3>4. CASE FindNextFileA_update(t)
      BY <2>2, <3>4, UpdateDescriptors
    <3>5. CASE FindFirstFileA_list(t) \/ Find_exists(t) \/ FindNextFileA_list(t)
      BY <2>2, <3>5, FindGlides, GlideAside, AsideKeeps
    <3> QED BY <2>5, <3>1, <3>2, <3>3, <3>4, <3>5 DEF FindStep
  <2>6. CASE LoaderStep(t)
    <3>1. ASSUME NEW r \in Rand, NEW k \in Key,
                 _wrapper_init_register(t, r, k) \/ LoadLibraryA_register(t, r, k)
          PROVE  DescInv'
      BY <2>2, <3>1, LibraryAside, AsideKeeps
    <3>2. CASE \/ LoadLibraryA_dlopen(t) \/ _wrapper_init_dlopen(t)
               \/ FreeLibrary_dlclose(t) \/ FreeLibrary_erase(t)
      <4>1. NULL \in Key
        BY FileAssumption DEF NULL, Key
      <4> QED BY <2>2, <3>2, <4>1, LibraryAside, AsideKeeps
    <3>3. CASE LoadLibraryA_fails(t) \/ GetProcAddressA_dlsym(t)
      BY <2>2, <3>3, EndGlides, GlideAside, AsideKeeps
    <3>4. CASE Module_lookup(t)
      BY <2>2, <3>4, LookupGlides, GlideAside, AsideKeeps
    <3> QED BY <2>6, <3>1, <3>2, <3>3, <3>4 DEF LoaderStep
  <2> QED BY <2>1, <2>3, <2>4, <2>5, <2>6
<1> QED BY <1>1, <1>2

LEMMA DescStart ==
  ASSUME Init PROVE DescInv
<1>1. /\ Entries("FILE") = {} /\ history.stale = {} /\ \A fd \in Fd : fds[fd] = NoIno
      /\ \A t \in Thread : call[t] = Idle
  BY DEF Init, H!Init, Entries
<1>2. \A fd \in Fd : Holders(fd) = {}
  BY <1>1, IdleFrame DEF Holders
<1> QED BY <1>1, <1>2, IdleFrame DEF DescInv, StaleFits, Marked, OpenIsHeld, HeldOnce, HeldRight

(* CreateFileA, FindFirstFileA, FindNextFileA, FindClose and CloseHandle:  *)
(* as long as no descriptor that a finished search has closed is closed    *)
(* again, every open descriptor has exactly one handle or call that will   *)
(* close it, for any number of threads and descriptors.                    *)
THEOREM DescriptorsHeld == Spec => []DescriptorsHaveOneHolder
<1>1. Init => CoreInv /\ DescInv
  BY CoreStart, DescStart
<1>2. CoreInv /\ DescInv /\ [Next]_vars => CoreInv' /\ DescInv'
  BY CoreKept, DescKept
<1>3. CoreInv /\ DescInv => DescriptorsHaveOneHolder
  <2> SUFFICES ASSUME DescInv, ~history.struck, NEW fd \in Fd
               PROVE  Cardinality(Holders(fd)) = IF fds[fd] = NoIno THEN 0 ELSE 1
    BY DEF DescriptorsHaveOneHolder, DescInv, HeldRight
  <2>1. HeldOnce /\ OpenIsHeld
    BY DEF DescInv
  <2>2. CASE fds[fd] = NoIno
    <3>1. Holders(fd) = {}
      BY <2>1, <2>2 DEF HeldOnce
    <3> QED BY <2>2, <3>1, FS_EmptySet
  <2>3. CASE fds[fd] # NoIno
    <3>1. PICK x : x \in Holders(fd)
      BY <2>1, <2>3 DEF OpenIsHeld
    <3>2. Holders(fd) = {x}
      BY <2>1, <3>1 DEF HeldOnce
    <3> QED BY <2>3, <3>2, FS_Singleton
  <2> QED BY <2>2, <2>3
<1> QED BY <1>1, <1>2, <1>3, PTL DEF Spec

-----------------------------------------------------------------------------
(* Calls that nobody disturbs.                                             *)
LEMMA DisturbNoticed ==
  ASSUME CoreInv, ~over, NEW t \in Thread, NEW f, Disturb(t, f)
  PROVE  Noticed(t) /\ call'[t] = f
<1> SUFFICES ASSUME NEW u \in Thread \ {t} PROVE call'[u].op = "none" \/ call'[u].raced
  BY DEF Noticed, Disturb
<1> DEFINE c == call[u]
           b == c.op # "none"
           d == [c EXCEPT !.raced = b]
<1>1. c \in Frame /\ call'[u] = d
  BY CoreParts DEF Disturb
<1>2. d.raced = b /\ d.op = c.op
  BY <1>1 DEF Frame
<1> QED BY <1>1, <1>2

(* What t does to the disk is noticed, and its own call is in order. *)
Fairly(t) == /\ Others(t)
             /\ Noticed(t) \/ UNCHANGED disk
             /\ Undisturbed(t)'

LEMMA FairlyKeeps ==
  ASSUME CoreInv, RaceInv, ~over, NEW t \in Thread, Fairly(t)
  PROVE  RaceInv'
<1> SUFFICES ASSUME NEW u \in Thread \ {t}, ~call'[u].raced PROVE Undisturbed(u)'
  BY DEF RaceInv, Fairly, Undisturbed
<1>1. Alike(call[u], call'[u]) /\ Undisturbed(u)
  BY DEF Fairly, Others, RaceInv
<1>2. call'[u] = call[u]
  BY <1>1 DEF Alike
<1>3. CASE call'[u].op = "none"
  BY <1>3 DEF Undisturbed
<1>4. CASE UNCHANGED disk
  BY <1>1, <1>2, <1>4 DEF Undisturbed, Has, Exists, disk
<1> QED BY <1>3, <1>4 DEF Fairly, Noticed

(* Where a call has nothing to lose. *)
Carefree(c) == \/ c.op \notin {"CreateFile", "GetFileAttributes", "MoveFile"}
               \/ c.pc \notin {"disposition", "open", "kind", "copy", "copying", "remove"}

LEMMA CarefreeFair ==
  ASSUME NEW t \in Thread, Others(t), Noticed(t) \/ UNCHANGED disk, Carefree(call'[t])
  PROVE  Fairly(t)
BY DEF Fairly, Undisturbed, Carefree

LEMMA IdleCarefree == Carefree(Idle)
BY IdleFrame DEF Carefree

LEMMA StartFair ==
  ASSUME CoreInv, ~over, NEW t \in Thread, NEW f, Starts(t, f)
  PROVE  Fairly(t)
<1>1. Others(t) /\ call'[t] = f
  BY StartKeeps
<1>2. UNCHANGED disk /\ Carefree(f)
  BY DEF Starts, Begin, Carefree
<1> QED BY <1>1, <1>2, CarefreeFair

LEMMA EndFair ==
  ASSUME CoreInv, ~over, NEW t \in Thread,
         \/ WriteFile_write(t) \/ ReadFile_read(t) \/ FlushFileBuffers_syncfs(t)
         \/ SetFilePointer_lseek(t) \/ GetFileAttributesA_kind(t) \/ ExceptionCaught(t) \/ LoadLibraryA_fails(t)
         \/ GetProcAddressA_dlsym(t) \/ MoveFileA_remove(t) \/ Atomically(t)
  PROVE  Fairly(t)
<1>1. Others(t)
  BY EndGlides DEF PlainStep, Locally
<1>2. CASE Atomically(t)
  <2>1. PICK f : Atomic(t, f)
    BY <1>2 DEF Atomically, DeleteFileA, CreateDirectoryA, RemoveDirectoryA
  <2>2. Noticed(t) /\ call'[t] = Idle
    BY <2>1, DisturbNoticed DEF Atomic
  <2> QED BY <1>1, <2>2, IdleCarefree, CarefreeFair
<1>3. CASE MoveFileA_remove(t)
  <2>1. Noticed(t) /\ call'[t] = Idle
    BY <1>3, DisturbNoticed DEF MoveFileA_remove
  <2> QED BY <1>1, <2>1, IdleCarefree, CarefreeFair
<1>4. CASE WriteFile_write(t)
  <2>1. (Noticed(t) \/ UNCHANGED disk) /\ call'[t] = Idle
    BY <1>4, DisturbNoticed, CoreParts DEF WriteFile_write, Done, disk
  <2> QED BY <1>1, <2>1, IdleCarefree, CarefreeFair
<1>5. CASE \/ ReadFile_read(t) \/ FlushFileBuffers_syncfs(t) \/ SetFilePointer_lseek(t)
           \/ GetFileAttributesA_kind(t) \/ ExceptionCaught(t) \/ LoadLibraryA_fails(t) \/ GetProcAddressA_dlsym(t)
  <2>1. UNCHANGED disk /\ call'[t] = Idle
    BY <1>5, CoreParts DEF ReadFile_read, FlushFileBuffers_syncfs, SetFilePointer_lseek, ReadOnly,
                GetFileAttributesA_kind, ExceptionCaught, LoadLibraryA_fails, GetProcAddressA_dlsym, Done, Unmoved
  <2> QED BY <1>1, <2>1, IdleCarefree, CarefreeFair
<1> QED BY <1>2, <1>3, <1>4, <1>5

LEMMA LookupFair ==
  ASSUME CoreInv, ~over, NEW t \in Thread,
         Descriptor_lookup(t) \/ CloseFile_lookup(t) \/ Module_lookup(t)
  PROVE  Fairly(t)
<1>1. Others(t) /\ UNCHANGED disk /\ (call'[t] = Idle \/ call'[t].op = call[t].op)
  BY StepLookups DEF PlainStep, Locally, Descriptor_lookup, CloseFile_lookup, Module_lookup, Unmoved
<1>2. call[t].op \notin {"CreateFile", "GetFileAttributes", "MoveFile"}
  BY DEF Descriptor_lookup, CloseFile_lookup, Module_lookup, Closing
<1> QED BY <1>1, <1>2, IdleCarefree, CarefreeFair DEF Carefree

LEMMA FindFair ==
  ASSUME CoreInv, ~over, NEW t \in Thread,
         FindFirstFileA_list(t) \/ Find_exists(t) \/ FindNextFileA_list(t)
  PROVE  Fairly(t)
<1>1. Others(t) /\ UNCHANGED disk /\ (call'[t] = Idle \/ call'[t].op = call[t].op)
  BY FindGlides DEF PlainStep, Locally, FindFirstFileA_list, Find_exists, FindNextFileA_list, Leave
<1>2. call[t].op \notin {"CreateFile", "GetFileAttributes", "MoveFile"}
  BY DEF FindFirstFileA_list, Find_exists, FindNextFileA_list, At
<1> QED BY <1>1, <1>2, IdleCarefree, CarefreeFair DEF Carefree

LEMMA CloseFair ==
  ASSUME CoreInv, ~over, NEW t \in Thread, CloseFile_close(t) \/ FindNextFileA_close(t)
  PROVE  Fairly(t)
<1>1. Others(t) /\ UNCHANGED disk /\ (call'[t] = Idle \/ call'[t].op = call[t].op)
  BY StepCloses DEF PlainStep, Locally, CloseFile_close, FindNextFileA_close, CloseDescriptor
<1>2. call[t].op \notin {"CreateFile", "GetFileAttributes", "MoveFile"}
  BY DEF CloseFile_close, FindNextFileA_close, Closing, At
<1> QED BY <1>1, <1>2, IdleCarefree, CarefreeFair DEF Carefree

LEMMA TableFair ==
  ASSUME CoreInv, ~over, NEW t \in Thread, NEW r, NEW k \in Key,
         \/ CreateFileA_register(t, r, k) \/ FindFirstFileA_register(t, r, k)
         \/ FindNextFileA_update(t) \/ CloseFile_erase(t)
  PROVE  Fairly(t)
<1>1. FileEntryStep(t)
  BY StepCreateRegister, StepFirstRegister, StepNextUpdate, StepFileErase
<1> QED BY <1>1, IdleCarefree, CarefreeFair DEF FileEntryStep

LEMMA LibraryFair ==
  ASSUME CoreInv, ~over, NEW t \in Thread, NEW r, NEW k \in Key,
         \/ LoadLibraryA_dlopen(t) \/ _wrapper_init_dlopen(t)
         \/ _wrapper_init_register(t, r, k) \/ LoadLibraryA_register(t, r, k)
         \/ FreeLibrary_dlclose(t) \/ FreeLibrary_erase(t)
  PROVE  Fairly(t)
<1>1. LibraryStep(t)
  BY StepDlopen, StepLoadRegister, StepDlclose, StepModuleErase
<1>2. Carefree(call'[t])
  BY CoreParts, IdleCarefree
     DEF LoadLibraryA_dlopen, _wrapper_init_dlopen, _wrapper_init_register, LoadLibraryA_register,
         FreeLibrary_dlclose, FreeLibrary_erase, At, Goto, Done, Frame, Carefree
<1> QED BY <1>1, <1>2, CarefreeFair DEF LibraryStep

LEMMA CreateFair ==
  ASSUME CoreInv, RaceInv, ~over, NEW t \in Thread,
         CreateFileA_parent(t) \/ CreateFileA_replace(t) \/ CreateFileA_disposition(t)
  PROVE  Fairly(t)
<1> USE CoreParts
<1> DEFINE c == call[t]
<1>1. Others(t) /\ c \in Frame /\ c.op = "CreateFile" /\ Undisturbed(t)
  BY CreateGlides DEF PlainStep, Locally, CreateFileA_parent, CreateFileA_replace,
                      CreateFileA_disposition, At, RaceInv
<1>2. CASE CreateFileA_parent(t)
  <2>1. Noticed(t) \/ UNCHANGED disk
    BY <1>2, DisturbNoticed DEF CreateFileA_parent, disk
  <2>2. call'[t].op = "CreateFile" /\ call'[t].pc = "disposition" /\ home'
    BY <1>1, <1>2 DEF CreateFileA_parent, Goto, Disturb, Frame
  <2> QED BY <1>1, <2>1, <2>2 DEF Fairly, Undisturbed
<1>3. CASE CreateFileA_replace(t)
  <2> DEFINE f == [c EXCEPT !.pc = "open", !.flag = TRUE]
  <2>1. Noticed(t) /\ call'[t] = f
    BY <1>3, DisturbNoticed DEF CreateFileA_replace
  <2>2. f.op = "CreateFile" /\ f.pc = "open" /\ f.flag = TRUE /\ f.raced = c.raced
    BY <1>1 DEF Frame
  <2>3. home' = home /\ (~c.raced => home)
    BY <1>1, <1>3 DEF CreateFileA_replace, unlink, Undisturbed, At
  <2> HIDE DEF f
  <2> QED BY <1>1, <2>1, <2>2, <2>3 DEF Fairly, Undisturbed
<1>4. CASE CreateFileA_disposition(t)
  <2>1. UNCHANGED disk /\ c.pc = "disposition" /\ (~c.raced => home)
    BY <1>1, <1>4 DEF CreateFileA_disposition, Undisturbed, At
  <2>2. CASE Done(t)
    BY <1>1, <2>1, <2>2, IdleCarefree, CarefreeFair DEF Done
  <2>3. CASE ~Done(t)
    <3> DEFINE flag == c.how = "OPEN_ALWAYS" /\ ~Exists(c.p)
               f == [c EXCEPT !.pc = "open", !.flag = flag]
    <3>1. call' = [call EXCEPT ![t] = f]
      BY <1>4, <2>3 DEF CreateFileA_disposition
    <3>2. c.how = "CREATE_NEW" \/ flag \/ Exists(c.p)
      <4>1. c.how \in Dispositions /\ c.how # "none" /\ c.how # "CREATE_ALWAYS"
        BY <1>1, <1>4 DEF Frame, CallsFit, Shape, CreateFileA_disposition
      <4>2. c.how \in {"OPEN_EXISTING", "TRUNCATE_EXISTING"} => Exists(c.p)
        BY <1>4, <2>3 DEF CreateFileA_disposition
      <4> QED BY <4>1, <4>2 DEF Dispositions
    <3>3. /\ f.op = "CreateFile" /\ f.pc = "open" /\ f.flag = flag /\ f.raced = c.raced
          /\ f.how = c.how /\ f.p = c.p
      <4> HIDE DEF flag
      <4> QED BY <1>1 DEF Frame
    <3> HIDE DEF f, flag
    <3>4. call'[t] = f
      BY <3>1
    <3> QED BY <1>1, <2>1, <3>2, <3>3, <3>4 DEF Fairly, Undisturbed, Exists, disk
  <2> QED BY <2>2, <2>3
<1> QED BY <1>2, <1>3, <1>4

(* open of a file that is there, not to truncate it, leaves the disk as it is. *)
LEMMA OpenQuiet ==
  ASSUME DiskTypes, NEW p \in Name, NEW creates, NEW truncates, NEW fd,
         open(p, fd, creates, truncates), fd = NoFd \/ (Exists(p) /\ ~truncates)
  PROVE  UNCHANGED disk
<1>1. CASE fd = NoFd
  BY <1>1 DEF open
<1>2. CASE fd # NoFd
  <2>1. dir' = [dir EXCEPT ![p] = dir[p]] /\ content' = content /\ home' = home
    BY <1>2 DEF open
  <2>2. dir' = dir
    BY <2>1 DEF DiskTypes
  <2> QED BY <2>1, <2>2 DEF disk
<1> QED BY <1>1, <1>2

LEMMA FindOpens ==
  ASSUME DiskTypes, NEW t \in Thread, call[t].p \in Name, Find_open(t)
  PROVE  UNCHANGED disk
<1>1. open(call[t].p, OpenResult(call[t].p, FALSE), FALSE, FALSE)
  BY DEF Find_open
<1>2. OpenResult(call[t].p, FALSE) = NoFd \/ Exists(call[t].p)
  BY DEF OpenResult
<1> QED BY <1>1, <1>2, OpenQuiet

LEMMA OpenFair ==
  ASSUME CoreInv, ~over, NEW t \in Thread, CreateFileA_open(t) \/ Find_open(t)
  PROVE  Fairly(t)
<1> USE CoreParts
<1> DEFINE c == call[t]
<1>1. Others(t) /\ c \in Frame /\ Shape(c) /\ c.p \in Name
  BY StepOpen, StepFindOpen
     DEF PlainStep, Locally, CallsFit, Shape, CreateFileA_open, Find_open, At
<1>2. Noticed(t) \/ UNCHANGED disk
  <2>1. CASE CreateFileA_open(t)
    <3> DEFINE fd == OpenResult(c.p, c.flag)
               truncates == c.how = "TRUNCATE_EXISTING"
               f == [c EXCEPT !.pc = "register", !.fd = fd]
    <3>1. CASE Disturb(t, f)
      BY <3>1, DisturbNoticed
    <3>2. CASE ~Disturb(t, f)
      <4>1. open(c.p, fd, c.flag, truncates) /\ (fd = NoFd \/ (Exists(c.p) /\ ~truncates))
        BY <2>1, <3>2 DEF CreateFileA_open
      <4> HIDE DEF fd, truncates
      <4> QED BY <1>1, <4>1, OpenQuiet
    <3> QED BY <3>1, <3>2
  <2>2. CASE Find_open(t)
    BY <1>1, <2>2, FindOpens
  <2> QED BY <2>1, <2>2
<1>3. Carefree(call'[t])
  <2>1. CASE CreateFileA_open(t)
    <3> DEFINE fd == OpenResult(c.p, c.flag)
               f == [c EXCEPT !.pc = "register", !.fd = fd]
    <3>1. call'[t] = f
      BY <2>1 DEF CreateFileA_open, Disturb
    <3> HIDE DEF fd
    <3> QED BY <1>1, <3>1 DEF Carefree, Frame
  <2>2. CASE Find_open(t)
    BY <2>2, StepFindOpen, IdleCarefree DEF Find_open, PlainStep, Locally, Carefree
  <2> QED BY <2>1, <2>2
<1> QED BY <1>1, <1>2, <1>3, CarefreeFair

LEMMA CheckFair ==
  ASSUME CoreInv, ~over, NEW t \in Thread,
         GetFileAttributesA_exists(t) \/ CopyFileA_check(t) \/ MoveFileA_check(t)
  PROVE  Fairly(t)
<1> USE CoreParts
<1> DEFINE c == call[t]
<1>1. Others(t) /\ c \in Frame /\ Shape(c)
  BY CopyGlides DEF PlainStep, Locally, CallsFit
<1>2. CASE GetFileAttributesA_exists(t)
  <2>1. UNCHANGED disk
    BY <1>2 DEF GetFileAttributesA_exists
  <2>2. CASE Done(t)
    BY <1>1, <2>1, <2>2, IdleCarefree, CarefreeFair DEF Done
  <2>3. CASE ~Done(t)
    <3>1. Exists(c.p) /\ Goto(t, "kind") /\ c.op = "GetFileAttributes"
      BY <1>2, <2>3 DEF GetFileAttributesA_exists, At
    <3>2. call'[t].op = c.op /\ call'[t].p = c.p /\ call'[t].pc = "kind"
      BY <1>1, <3>1 DEF Goto, Frame
    <3> QED BY <1>1, <2>1, <3>1, <3>2 DEF Fairly, Undisturbed, Exists, disk
  <2> QED BY <2>2, <2>3
<1>3. CASE CopyFileA_check(t)
  <2>1. Noticed(t) \/ UNCHANGED disk
    BY <1>3, DisturbNoticed DEF CopyFileA_check
  <2>2. c.op = "CopyFile" /\ (call'[t] = Idle \/ call'[t].op = c.op)
    BY <1>3, CopyGlides DEF CopyFileA_check, At, PlainStep, Locally
  <2> QED BY <1>1, <2>1, <2>2, IdleCarefree, CarefreeFair DEF Carefree
<1>4. CASE MoveFileA_check(t)
  <2>1. UNCHANGED disk /\ c.op = "MoveFile"
    BY <1>4 DEF MoveFileA_check, At
  <2>2. CASE Done(t)
    BY <1>1, <2>1, <2>2, IdleCarefree, CarefreeFair DEF Done
  <2>3. CASE ~Done(t)
    <3> DEFINE kept == content[dir[c.p]]
               f == [c EXCEPT !.pc = "copy", !.raced = FALSE, !.kept = kept]
    <3>1. Exists(c.p) /\ call' = [call EXCEPT ![t] = f]
      BY <1>4, <2>3 DEF MoveFileA_check
    <3> HIDE DEF kept
    <3>2. f.op = c.op /\ f.p = c.p /\ f.pc = "copy" /\ f.kept = kept
      BY <1>1 DEF Frame
    <3> HIDE DEF f
    <3>3. call'[t] = f
      BY <3>1
    <3>4. Has(t, c.p)'
      BY <2>1, <3>1, <3>2, <3>3 DEF Has, Exists, disk, kept
    <3> QED BY <1>1, <2>1, <3>2, <3>3, <3>4 DEF Fairly, Undisturbed
  <2> QED BY <2>2, <2>3
<1> QED BY <1>2, <1>3, <1>4

LEMMA CopyFair ==
  ASSUME CoreInv, RaceInv, ~over, NEW t \in Thread, Copy_start(t) \/ Copy_end(t)
  PROVE  Fairly(t)
<1> USE CoreParts
<1> DEFINE c == call[t]
<1>1. /\ Others(t) /\ c \in Frame /\ Shape(c) /\ c.op \in Copiers /\ Undisturbed(t)
      /\ c.p \in Name /\ c.q \in Name /\ c.p # c.q /\ (c.pc = "copying" => c.ino \in Ino)
  <2>1. Others(t) /\ Undisturbed(t)
    BY CopyGlides DEF PlainStep, Locally, RaceInv
  <2>2. c \in Frame /\ Shape(c) /\ c.pc \in {"copy", "copying"}
    BY DEF CallsFit, Copy_start, Copy_end
  <2>3. c.op \in Copiers
    BY <2>2 DEF Shape, Copiers, OnOpen, Calls, Frame, Idle
  <2> QED BY <2>1, <2>2, <2>3 DEF Shape, Frame, Copiers
<1>2. CASE Copy_start(t)
  <2> DEFINE new == FreshIno
             kept == content[dir[c.p]]
  <2>1. /\ new \in Ino /\ new \notin InosInUse /\ Noticed(t)
        /\ Fields(c, call'[t], "copying", c.p, c.flag, c.fd, new, c.raced, kept, c.due)
    BY <1>2, StepCopyStart
  <2>2. /\ Exists(c.p) /\ dir' = [dir EXCEPT ![c.q] = new]
        /\ content' = [content EXCEPT ![new] = "part"] /\ home' = home
    BY <1>2 DEF Copy_start
  <2> HIDE DEF new
  <2>3. dir'[c.p] = dir[c.p] /\ dir'[c.q] = new /\ dir[c.p] # new /\ dir[c.p] \in Ino /\ new # NoIno
    BY <1>1, <2>1, <2>2 DEF DiskTypes, InosInUse, Range, Exists, Ino, NoIno
  <2>4. content'[dir[c.p]] = kept
    BY <2>1, <2>2, <2>3 DEF DiskTypes
  <2> HIDE DEF kept
  <2>5. Has(t, call[t].p)' /\ Exists(call[t].q)' /\ dir'[call'[t].q] = call'[t].ino
    BY <2>1, <2>2, <2>3, <2>4 DEF Has, Exists, Fields
  <2> QED BY <1>1, <2>1, <2>5 DEF Fairly, Undisturbed, Fields, Copiers
<1>3. CASE Copy_end(t)
  <2>1. PICK d \in {c.kept} \cup {content[i] : i \in {dir[c.p]} \ {NoIno}} :
          content' = [content EXCEPT ![c.ino] = d]
    BY <1>3 DEF Copy_end
  <2>2. c.pc = "copying" /\ UNCHANGED <<home, dir>>
    BY <1>3 DEF Copy_end
  <2> DEFINE f == [c EXCEPT !.pc = "remove"]
             g == IF c.op = "CopyFile" THEN Idle ELSE f
  <2>3. Noticed(t) /\ call'[t] = g
    BY <1>3, DisturbNoticed DEF Copy_end
  <2>4. CASE c.op = "CopyFile"
    BY <1>1, <2>3, <2>4, IdleCarefree, CarefreeFair
  <2>5. CASE c.op = "MoveFile"
    <3>1. MovedTo(c, f, "remove")
      BY <1>1, MovedFrame DEF Places
    <3>2. call'[t] = f
      BY <2>3, <2>5
    <3> HIDE DEF f, g
    <3> SUFFICES ASSUME ~c.raced
                 PROVE  Has(t, call[t].p)' /\ Has(t, call[t].q)'
      BY <1>1, <2>3, <2>5, <3>1, <3>2 DEF Fairly, Undisturbed, MovedTo, Fields
    <3>3. Exists(c.p) /\ content[dir[c.p]] = c.kept /\ Exists(c.q) /\ dir[c.q] = c.ino
      BY <1>1, <2>2, <2>5 DEF Undisturbed, Has
    <3>4. d = c.kept
      BY <2>1, <3>3
    <3>5. content'[c.ino] = c.kept /\ content'[dir[c.p]] = c.kept
      BY <1>1, <2>1, <2>2, <3>3, <3>4 DEF DiskTypes, Exists
    <3> QED BY <2>2, <3>1, <3>2, <3>3, <3>5 DEF Has, Exists, MovedTo, Fields
  <2> QED BY <1>1, <2>4, <2>5 DEF Copiers
<1> QED BY <1>2, <1>3

(* Every step is fair. *)
LEMMA StepFair ==
  ASSUME CoreInv, RaceInv, ~over, NEW t \in Thread,
         \/ FileCall(t) \/ FindCall(t) \/ LoaderCall(t)
         \/ FileStep(t) \/ FindStep(t) \/ LoaderStep(t)
  PROVE  Fairly(t) \/ UNCHANGED <<disk, call>>
<1>1. NULL \in Key
  BY FileAssumption DEF NULL, Key
<1>2. CASE FileCall(t) \/ FindCall(t) \/ LoaderCall(t)
  <2>1. CASE \E f : Starts(t, f)
    BY <1>1, <2>1, StartFair
  <2>2. CASE Atomically(t)
    BY <1>1, <2>2, EndFair
  <2>3. CASE _wrapper_fini(t)
    BY <2>3 DEF _wrapper_fini
  <2> QED BY <1>1, <1>2, <2>1, <2>2, <2>3, CallCases
<1>3. CASE FileStep(t)
  <2>1. ASSUME NEW r \in Rand, NEW k \in Key, CreateFileA_register(t, r, k) PROVE Fairly(t)
    BY <1>1, <2>1, TableFair
  <2>2. CASE CreateFileA_open(t)
    BY <1>1, <2>2, OpenFair
  <2>3. CASE CloseFile_close(t)
    BY <1>1, <2>3, CloseFair
  <2>4. CASE CloseFile_erase(t)
    BY <1>1, <2>4, TableFair
  <2>5. CASE ExceptionUncaught(t)
    BY <2>5 DEF ExceptionUncaught
  <2>6. CASE CreateFileA_parent(t) \/ CreateFileA_replace(t) \/ CreateFileA_disposition(t)
    BY <1>1, <2>6, CreateFair
  <2>7. CASE \/ WriteFile_write(t) \/ ReadFile_read(t) \/ FlushFileBuffers_syncfs(t)
             \/ SetFilePointer_lseek(t) \/ GetFileAttributesA_kind(t) \/ ExceptionCaught(t) \/ MoveFileA_remove(t)
    BY <1>1, <2>7, EndFair
  <2>8. CASE Descriptor_lookup(t) \/ CloseFile_lookup(t)
    BY <1>1, <2>8, LookupFair
  <2>9. CASE GetFileAttributesA_exists(t) \/ CopyFileA_check(t) \/ MoveFileA_check(t)
    BY <1>1, <2>9, CheckFair
  <2>10. CASE Copy_start(t) \/ Copy_end(t)
    BY <1>1, <2>10, CopyFair
  <2> QED BY <1>3, <2>1, <2>2, <2>3, <2>4, <2>5, <2>6, <2>7, <2>8, <2>9, <2>10, Zenon DEF FileStep
<1>4. CASE FindStep(t)
  <2>1. ASSUME NEW r \in Rand, NEW k \in Key, FindFirstFileA_register(t, r, k) PROVE Fairly(t)
    BY <1>1, <2>1, TableFair
  <2>2. CASE Find_open(t)
    BY <1>1, <2>2, OpenFair
  <2>3. CASE FindNextFileA_close(t)
    BY <1>1, <2>3, CloseFair
  <2>4. CASE FindNextFileA_update(t)
    BY <1>1, <2>4, TableFair
  <2>5. CASE FindFirstFileA_list(t) \/ Find_exists(t) \/ FindNextFileA_list(t)
    BY <1>1, <2>5, FindFair
  <2> QED BY <1>4, <2>1, <2>2, <2>3, <2>4, <2>5 DEF FindStep
<1>5. CASE LoaderStep(t)
  <2>1. ASSUME NEW r \in Rand, NEW k \in Key,
               _wrapper_init_register(t, r, k) \/ LoadLibraryA_register(t, r, k)
        PROVE  Fairly(t)
    BY <1>1, <2>1, LibraryFair
  <2>2. CASE \/ LoadLibraryA_dlopen(t) \/ _wrapper_init_dlopen(t)
             \/ FreeLibrary_dlclose(t) \/ FreeLibrary_erase(t)
    BY <1>1, <2>2, LibraryFair
  <2>3. CASE LoadLibraryA_fails(t) \/ GetProcAddressA_dlsym(t)
    BY <1>1, <2>3, EndFair
  <2>4. CASE Module_lookup(t)
    BY <1>1, <2>4, LookupFair
  <2> QED BY <1>5, <2>1, <2>2, <2>3, <2>4 DEF LoaderStep
<1> QED BY <1>2, <1>3, <1>4, <1>5

LEMMA RaceKept ==
  ASSUME CoreInv, RaceInv, [Next]_vars PROVE RaceInv'
<1>1. CASE UNCHANGED <<disk, call>>
  BY <1>1 DEF disk, RaceInv, Undisturbed, Has, Exists
<1>2. CASE ~UNCHANGED <<disk, call>>
  <2>1. PICK t \in Thread : \/ FileCall(t) \/ FindCall(t) \/ LoaderCall(t)
                            \/ FileStep(t) \/ FindStep(t) \/ LoaderStep(t)
    BY <1>2 DEF Next, vars
  <2>2. ~over
    BY <1>2 DEF Next, vars
  <2> QED BY <1>2, <2>1, <2>2, StepFair, FairlyKeeps
<1> QED BY <1>1, <1>2

LEMMA RaceStart ==
  ASSUME Init PROVE RaceInv
BY IdleFrame DEF Init, RaceInv, Undisturbed

(* Descriptors run out only when the handles and the other threads have    *)
(* them all.                                                               *)
LEMMA RunsOut ==
  ASSUME TypeOK, DescInv, NEW t \in Thread, call[t].pc = "open", Closed = {}
  PROVE  Cardinality(Entries("FILE")) + Cardinality(Thread) > MaxFd
<1> DEFINE E == Entries("FILE")
           T == Thread \ {t}
           g == [x \in E \cup T |-> IF x \in T THEN call[x].fd ELSE map[x].word]
<1>1. IsFiniteSet(E) /\ IsFiniteSet(T) /\ Cardinality(T) = Cardinality(Thread) - 1
  <2>1. E \subseteq Key
    BY DEF TypeOK, H!TypeOK, Entries, Key, H!Key
  <2> QED BY <2>1, FileAssumption, FiniteSets, FS_Subset, FS_RemoveElement
<1>2. ASSUME NEW fd \in Fd PROVE \E x \in E \cup T : fd = g[x]
  <2>1. PICK x : x \in Holders(fd)
    BY DEF DescInv, OpenIsHeld, Closed
  <2>2. CASE x \in Thread
    <3>1. x \notin E
      BY <2>2, FileAssumption DEF TypeOK, H!TypeOK, Entries, Key, H!Key
    <3> QED BY <2>1, <2>2, <3>1 DEF Holders, Entries
  <2>3. CASE x \notin Thread
    BY <2>1, <2>3 DEF Holders, Entries
  <2> QED BY <2>2, <2>3
<1> HIDE DEF g
<1>3. Cardinality(Fd) <= Cardinality(E \cup T) /\ Cardinality(E \cup T) <= Cardinality(E) + Cardinality(T)
  BY <1>1, <1>2, UnionBound, ImageBound
<1> HIDE DEF E, T
<1>4. /\ Cardinality(E) \in Nat /\ Cardinality(T) \in Nat /\ Cardinality(Thread) \in Nat
      /\ Cardinality(E \cup T) \in Nat /\ Cardinality(Fd) = MaxFd /\ MaxFd \in Nat
  BY <1>1, UnionBound, FiniteSets, FileAssumption, FS_CardinalityType
<1> QED BY <1>1, <1>3, <1>4 DEF E

(* CreateFileA, GetFileAttributesA and MoveFileA are several system calls  *)
(* each; whatever the other threads do, one that nobody has disturbed      *)
(* opens its file unless the descriptors have run out, reads the           *)
(* attributes of a file that is there, and never has its content under     *)
(* neither name.                                                           *)
THEOREM CallsWork == Spec => []UndisturbedCallsWork
<1>1. Init => CoreInv /\ DescInv /\ RaceInv
  BY CoreStart, DescStart, RaceStart
<1>2. CoreInv /\ DescInv /\ RaceInv /\ [Next]_vars => CoreInv' /\ DescInv' /\ RaceInv'
  BY CoreKept, DescKept, RaceKept
<1>3. CoreInv /\ DescInv /\ RaceInv => UndisturbedCallsWork
  <2> SUFFICES ASSUME CoreInv, DescInv, RaceInv PROVE UndisturbedCallsWork
    OBVIOUS
  <2>1. AttributesMissOnlyIfRaced /\ MovesLoseNothing
    BY DEF RaceInv, Undisturbed, Has, At, AttributesMissOnlyIfRaced, MovesLoseNothing
  <2>2. OpenFailsOnlyIfRaced
    <3> SUFFICES ASSUME NEW t \in Thread, At(t, "CreateFile", "open"), ~call[t].raced,
                        OpenResult(call[t].p, call[t].flag) = NoFd, call[t].how # "CREATE_NEW"
                 PROVE  Cardinality(Entries("FILE")) + Cardinality(Thread) > MaxFd
      BY DEF OpenFailsOnlyIfRaced
    <3>1. home /\ (call[t].flag \/ Exists(call[t].p))
      BY DEF RaceInv, Undisturbed, At
    <3>2. Closed # {} => Min(Closed) \in Closed
      BY LeastExists, FileAssumption DEF Closed, Fd
    <3>3. NoFd \notin Closed
      BY NoLibIsNumber DEF Closed
    <3>4. Closed = {}
      BY <3>1, <3>2, <3>3 DEF OpenResult
    <3> QED BY <3>4, RunsOut DEF At, CoreInv
  <2> QED BY <2>1, <2>2 DEF UndisturbedCallsWork
<1> QED BY <1>1, <1>2, <1>3, PTL DEF Spec

-----------------------------------------------------------------------------
(* Searches: every match is reported, and each once.  What a step leaves   *)
(* of them: no reports are changed, and the listing only grows unless no   *)
(* search is calm any more.                                                *)
Watched ==
  /\ history'.seen = history.seen /\ history'.due = history.due
  /\ history'.calm \subseteq history.calm
  /\ Listing \subseteq Listing' \/ history'.calm = {}

(* t looks after the entry k at most, and its own call is in order.        *)
Touches(t, K) ==
  /\ Fairly(t)
  /\ \A k \in Entries("FILE")' \ K : k \in Entries("FILE") /\ map'[k] = map[k]
  /\ \A k \in Entries("FILE") \ K : k \in Entries("FILE")' /\ map'[k] = map[k]
  /\ \A k \in Key \ K : history'.seen[k] = history.seen[k] /\ history'.due[k] = history.due[k]
  /\ history'.calm \ K \subseteq history.calm
  /\ Listing \subseteq Listing' \/ history'.calm = {}
  /\ \A u \in Thread \ {t} : call[u].op = "FindNextFile" => call[u].h \notin K
  /\ \A k \in K : k \in Entries("FILE")' /\ map'[k].pattern # NoText => SearchFits(k)'
  /\ history'.calm \cap K \subseteq {k \in Entries("FILE")' : map'[k].pattern # NoText}
  /\ FirstFits(t)' /\ NextFits(t)'

LEMMA SearchKept ==
  ASSUME CoreInv, SearchInv, ~over, NEW t \in Thread, NEW K, Touches(t, K)
  PROVE  SearchInv'
<1> USE CoreParts
<1>1. Entries("FILE") \subseteq Key
  BY DEF Entries, H!TypeOK, Key, H!Key
<1>2. /\ history.calm \subseteq {k \in Entries("FILE") : map[k].pattern # NoText}
      /\ \A k \in Entries("FILE") : map[k].pattern # NoText => SearchFits(k)
      /\ \A u \in Thread : FirstFits(u) /\ NextFits(u)
  BY DEF SearchInv
<1>3. history'.calm \subseteq {k \in Entries("FILE")' : map'[k].pattern # NoText}
  <2> SUFFICES ASSUME NEW k \in history'.calm
               PROVE  k \in Entries("FILE")' /\ map'[k].pattern # NoText
    OBVIOUS
  <2>1. CASE k \in K
    BY <2>1 DEF Touches
  <2>2. CASE k \notin K
    <3>1. k \in Entries("FILE") /\ map[k].pattern # NoText
      BY <1>2, <2>2 DEF Touches
    <3> QED BY <2>2, <3>1 DEF Touches
  <2> QED BY <2>1, <2>2
<1>4. ASSUME NEW k \in Entries("FILE")', map'[k].pattern # NoText PROVE SearchFits(k)'
  <2>1. CASE k \in K
    BY <1>4, <2>1 DEF Touches
  <2>2. CASE k \notin K
    <3>1. k \in Entries("FILE") /\ map'[k] = map[k]
      BY <2>2 DEF Touches
    <3>2. /\ SearchFits(k) /\ history'.seen[k] = history.seen[k] /\ history'.due[k] = history.due[k]
          /\ k \in history'.calm => k \in history.calm /\ Listing \subseteq Listing'
      BY <1>1, <1>2, <1>4, <2>2, <3>1 DEF Touches
    <3> QED BY <3>1, <3>2 DEF SearchFits, UpTo
  <2> QED BY <2>1, <2>2
<1>5. ASSUME NEW u \in Thread PROVE FirstFits(u)' /\ NextFits(u)'
  <2>1. CASE u = t
    BY <2>1 DEF Touches
  <2>2. CASE u # t
    <3>1. Alike(call[u], call'[u]) /\ FirstFits(u) /\ NextFits(u)
      BY <1>2, <2>2 DEF Touches, Fairly, Others
    <3>2. FirstFits(u)'
      <4>1. ASSUME ~call'[u].raced, call'[u].op # "none"
            PROVE  Listing' = Listing /\ call'[u] = call[u]
        <5>1. UNCHANGED disk
          BY <2>2, <4>1 DEF Touches, Fairly, Noticed
        <5> QED BY <3>1, <4>1, <5>1 DEF disk, Listing, Exists, Alike
      <4> QED BY <3>1, <4>1 DEF FirstFits, Alike, UpTo
    <3>3. NextFits(u)'
      <4> SUFFICES ASSUME call[u].op = "FindNextFile" PROVE NextFits(u)'
        BY <3>1 DEF NextFits, Alike
      <4> DEFINE k == call[u].h
      <4>1. k \in Entries("FILE") /\ k \notin K
        BY <2>2 DEF CallsFit, HandleFits, OnHandle, Entries, Touches
      <4>2. /\ map'[k] = map[k] /\ history'.seen[k] = history.seen[k] /\ history'.due[k] = history.due[k]
            /\ k \in history'.calm => k \in history.calm /\ Listing \subseteq Listing'
        BY <1>1, <4>1 DEF Touches
      <4>3. call'[u].h = k /\ call'[u].op = "FindNextFile" /\ call'[u].pc = call[u].pc /\ call'[u].p = call[u].p
        BY <3>1 DEF Alike
      <4> QED BY <3>1, <4>2, <4>3 DEF NextFits, UpTo
    <3> QED BY <3>2, <3>3
  <2> QED BY <2>1, <2>2
<1> QED BY <1>3, <1>4, <1>5 DEF SearchInv

(* Files' entries and reports are left alone. *)
LEMMA SearchPassed ==
  ASSUME CoreInv, SearchInv, ~over, NEW t \in Thread, Fairly(t), FilesSame, Watched,
         ~over' => FirstFits(t)' /\ NextFits(t)'
  PROVE  SearchInv'
<1>1. CASE over'
  BY <1>1 DEF SearchInv
<1>2. CASE ~over'
  <2>1. Touches(t, {})
    BY <1>2 DEF Touches, FilesSame, Watched
  <2> QED BY <2>1, SearchKept
<1> QED BY <1>1, <1>2

(* A call that is not in a search, or at its beginning. *)
Outside(c) == /\ c.op = "FindFirstFile" => c.pc = "list"
              /\ c.op # "FindNextFile"

LEMMA OutsideFits ==
  ASSUME NEW t \in Thread, Outside(call'[t]) PROVE FirstFits(t)' /\ NextFits(t)'
BY DEF Outside, FirstFits, NextFits

LEMMA IdleOutside == Outside(Idle)
BY IdleFrame DEF Outside

LEMMA QuietWatched ==
  ASSUME UNCHANGED <<disk, history>> PROVE Watched
BY DEF Watched, disk, Listing, Exists

LEMMA GrowthWatched ==
  ASSUME history' = history, home => home',
         \A p \in Name : dir[p] # NoIno => dir'[p] # NoIno
  PROVE  Watched
BY DEF Watched, Listing, Exists

LEMMA UnlinkWatched ==
  ASSUME history \in History, DiskTypes, NEW p \in Name, unlink(p) PROVE Watched
<1> DEFINE calm == IF dir[p] = NoIno THEN history.calm ELSE {}
<1>1. history' = [history EXCEPT !.calm = calm] /\ dir' = [dir EXCEPT ![p] = NoIno] /\ home' = home
  BY DEF unlink, History
<1>2. calm \subseteq history.calm /\ (calm = {} \/ dir[p] = NoIno)
  OBVIOUS
<1> HIDE DEF calm
<1>3. history'.seen = history.seen /\ history'.due = history.due /\ history'.calm = calm
  BY <1>1 DEF History
<1>4. dir[p] = NoIno => dir' = dir
  BY <1>1 DEF DiskTypes
<1> QED BY <1>1, <1>2, <1>3, <1>4 DEF Watched, Listing, Exists

LEMMA MapStays ==
  ASSUME UNCHANGED map PROVE FilesSame
BY DEF FilesSame, Entries

LEMMA StartSearch ==
  ASSUME CoreInv, SearchInv, ~over, NEW t \in Thread, NEW f, Starts(t, f)
  PROVE  SearchInv'
<1>1. Fairly(t) /\ call'[t] = f
  BY StartFair, StartKeeps
<1>2. UNCHANGED <<map, disk, history>>
  BY DEF Starts, Begin
<1>3. FirstFits(t)' /\ NextFits(t)'
  <2>1. f.op = "FindNextFile" => f.pc = "list" /\ map'[f.h].pattern # NoText
    BY <1>2 DEF Starts, Shape
  <2>2. f.op = "FindFirstFile" => f.pc = "list"
    BY DEF Starts, Shape
  <2> QED BY <1>1, <2>1, <2>2 DEF FirstFits, NextFits
<1> QED BY <1>1, <1>2, <1>3, QuietWatched, MapStays, SearchPassed

LEMMA EndSearch ==
  ASSUME CoreInv, SearchInv, ~over, NEW t \in Thread,
         \/ WriteFile_write(t) \/ ReadFile_read(t) \/ FlushFileBuffers_syncfs(t)
         \/ SetFilePointer_lseek(t) \/ GetFileAttributesA_kind(t) \/ ExceptionCaught(t) \/ LoadLibraryA_fails(t)
         \/ GetProcAddressA_dlsym(t) \/ MoveFileA_remove(t) \/ Atomically(t)
  PROVE  SearchInv'
<1> USE CoreParts
<1>1. Fairly(t) /\ PlainStep(t)
  BY EndFair, EndGlides
<1>2. CASE Atomically(t)
  <2>1. PICK f : Atomic(t, f)
    BY <1>2 DEF Atomically, DeleteFileA, CreateDirectoryA, RemoveDirectoryA
  <2>2. UNCHANGED map /\ call'[t] = Idle
    BY <2>1 DEF Atomic, Disturb
  <2>3. CASE \E p \in Name : unlink(p)
    <3>1. Watched
      BY <2>3, UnlinkWatched DEF OwnTypes
    <3> QED BY <1>1, <2>2, <3>1, MapStays, IdleOutside, OutsideFits, SearchPassed
  <2>4. CASE CreateDirectoryA(t)
    <3>1. Watched
      BY <2>4, GrowthWatched DEF CreateDirectoryA
    <3> QED BY <1>1, <2>2, <3>1, MapStays, IdleOutside, OutsideFits, SearchPassed
  <2>5. CASE RemoveDirectoryA(t)
    <3>1. Watched
      BY <2>5 DEF RemoveDirectoryA, Watched
    <3> QED BY <1>1, <2>2, <3>1, MapStays, IdleOutside, OutsideFits, SearchPassed
  <2> QED BY <1>2, <2>3, <2>4, <2>5 DEF Atomically, DeleteFileA
<1>3. CASE MoveFileA_remove(t)
  <2>1. UNCHANGED map /\ call'[t] = Idle /\ unlink(call[t].p) /\ call[t].p \in Name
    BY <1>3 DEF MoveFileA_remove, Disturb, At, CallsFit, Shape, Copiers
  <2>2. Watched
    BY <2>1, UnlinkWatched DEF OwnTypes
  <2> QED BY <1>1, <2>1, <2>2, MapStays, IdleOutside, OutsideFits, SearchPassed
<1>4. CASE WriteFile_write(t)
  <2>1. UNCHANGED map /\ call'[t] = Idle /\ history' = history /\ dir' = dir /\ home' = home
    BY <1>4 DEF WriteFile_write, Done, Disturb
  <2> QED BY <1>1, <2>1, GrowthWatched, MapStays, IdleOutside, OutsideFits, SearchPassed
<1>5. CASE \/ ReadFile_read(t) \/ FlushFileBuffers_syncfs(t) \/ SetFilePointer_lseek(t)
           \/ GetFileAttributesA_kind(t) \/ ExceptionCaught(t) \/ LoadLibraryA_fails(t) \/ GetProcAddressA_dlsym(t)
  <2>1. UNCHANGED <<disk, history, map>> /\ call'[t] = Idle
    BY <1>5 DEF ReadFile_read, FlushFileBuffers_syncfs, SetFilePointer_lseek, ReadOnly,
                GetFileAttributesA_kind, ExceptionCaught, LoadLibraryA_fails, GetProcAddressA_dlsym, Done, Unmoved
  <2> QED BY <1>1, <2>1, QuietWatched, MapStays, IdleOutside, OutsideFits, SearchPassed
<1> QED BY <1>2, <1>3, <1>4, <1>5

(* A call that is no search stays one. *)
LEMMA StaysOutside ==
  ASSUME CoreInv, SearchInv, ~over, NEW t \in Thread, Fairly(t), PlainStep(t), Watched,
         call[t].op \notin {"FindFirstFile", "FindNextFile"}
  PROVE  SearchInv'
<1>1. UNCHANGED map /\ Outside(call'[t])
  BY IdleOutside DEF PlainStep, Locally, Outside
<1> QED BY <1>1, MapStays, OutsideFits, SearchPassed

LEMMA OtherSearch ==
  ASSUME CoreInv, SearchInv, ~over, NEW t \in Thread,
         Descriptor_lookup(t) \/ CloseFile_lookup(t) \/ Module_lookup(t) \/ CloseFile_close(t)
  PROVE  SearchInv'
<1> USE CoreParts
<1>1. Fairly(t) /\ PlainStep(t)
  BY LookupFair, LookupGlides, CloseFair, StepCloses
<1>2. call[t].op \notin {"FindFirstFile", "FindNextFile"}
  BY DEF Descriptor_lookup, CloseFile_lookup, Module_lookup, CloseFile_close, Closing
<1>3. Watched
  <2>1. CASE Descriptor_lookup(t) \/ CloseFile_lookup(t) \/ Module_lookup(t)
    BY <2>1, QuietWatched DEF Descriptor_lookup, CloseFile_lookup, Module_lookup, Unmoved
  <2>2. CASE CloseFile_close(t)
    <3>1. /\ history'.seen = history.seen /\ history'.due = history.due
          /\ history'.calm = history.calm /\ UNCHANGED disk
      BY <2>2, StepCloses DEF HistoryIs, CloseFile_close, CloseDescriptor
    <3> QED BY <3>1 DEF Watched, disk, Listing, Exists
  <2> QED BY <2>1, <2>2
<1> QED BY <1>1, <1>2, <1>3, StaysOutside

LEMMA CreateSearch ==
  ASSUME CoreInv, RaceInv, SearchInv, ~over, NEW t \in Thread,
         \/ CreateFileA_parent(t) \/ CreateFileA_replace(t) \/ CreateFileA_disposition(t)
         \/ CreateFileA_open(t)
  PROVE  SearchInv'
<1> USE CoreParts
<1> DEFINE c == call[t]
<1>1. Fairly(t) /\ PlainStep(t)
  BY CreateFair, CreateGlides, OpenFair, StepOpen
<1>2. c.op = "CreateFile" /\ c.p \in Name /\ c \in Frame /\ c.ino = NoIno
  BY DEF CreateFileA_parent, CreateFileA_replace, CreateFileA_disposition, CreateFileA_open,
         At, CallsFit, Shape, Copiers
<1>3. Watched
  <2>1. CASE CreateFileA_parent(t)
    BY <2>1, GrowthWatched DEF CreateFileA_parent
  <2>2. CASE CreateFileA_replace(t)
    BY <1>2, <2>2, UnlinkWatched DEF CreateFileA_replace, OwnTypes
  <2>3. CASE CreateFileA_disposition(t)
    BY <2>3, QuietWatched DEF CreateFileA_disposition
  <2>4. CASE CreateFileA_open(t)
    <3> DEFINE fd == OpenResult(c.p, c.flag)
               truncates == c.how = "TRUNCATE_EXISTING"
    <3>1. open(c.p, fd, c.flag, truncates) /\ history' = history /\ c.flag \in BOOLEAN
      BY <1>2, <2>4 DEF CreateFileA_open, Frame
    <3>2. truncates \in BOOLEAN
      OBVIOUS
    <3> HIDE DEF truncates
    <3>3. UNCHANGED <<disk, fds>> \/ \E ino \in Ino : Opens(c.p, fd, ino)
      BY <1>2, <3>1, <3>2, OpenDoes DEF CoreInv
    <3> HIDE DEF fd
    <3>4. home' = home /\ \A p \in Name : dir[p] # NoIno => dir'[p] # NoIno
      BY <1>2, <3>3 DEF Opens, disk, DiskTypes, Ino, NoIno
    <3> QED BY <3>1, <3>4, GrowthWatched
  <2> QED BY <2>1, <2>2, <2>3, <2>4
<1> QED BY <1>1, <1>2, <1>3, StaysOutside

LEMMA CopySearch ==
  ASSUME CoreInv, RaceInv, SearchInv, ~over, NEW t \in Thread,
         \/ GetFileAttributesA_exists(t) \/ CopyFileA_check(t) \/ MoveFileA_check(t)
         \/ Copy_start(t) \/ Copy_end(t)
  PROVE  SearchInv'
<1> USE CoreParts
<1> DEFINE c == call[t]
<1>1. Fairly(t) /\ PlainStep(t)
  BY CheckFair, CopyFair, CopyGlides
<1>2. c \in Frame /\ Shape(c) /\ c.pc \in {"check", "copy", "copying"}
  BY DEF GetFileAttributesA_exists, CopyFileA_check, MoveFileA_check, Copy_start, Copy_end, At, CallsFit
<1>3. c.op \notin {"FindFirstFile", "FindNextFile"}
  BY <1>2 DEF Shape
<1>4. Watched
  <2>1. CASE GetFileAttributesA_exists(t) \/ MoveFileA_check(t)
    BY <2>1, QuietWatched DEF GetFileAttributesA_exists, MoveFileA_check
  <2>2. CASE CopyFileA_check(t)
    <3>1. c.q \in Name
      BY <1>2, <2>2 DEF CopyFileA_check, At, Shape, Copiers
    <3> QED BY <2>2, <3>1, QuietWatched, UnlinkWatched DEF CopyFileA_check, OwnTypes
  <2>3. CASE Copy_start(t)
    <3>1. dir' = [dir EXCEPT ![c.q] = FreshIno] /\ home' = home /\ history' = history
      BY <2>3 DEF Copy_start
    <3>2. FreshIno \in Ino
      BY <2>3, StepCopyStart
    <3> QED BY <3>1, <3>2, GrowthWatched DEF DiskTypes, Ino, NoIno
  <2>4. CASE Copy_end(t)
    BY <2>4, GrowthWatched DEF Copy_end
  <2> QED BY <2>1, <2>2, <2>3, <2>4
<1> QED BY <1>1, <1>3, <1>4, StaysOutside

LEMMA LibrarySearch ==
  ASSUME CoreInv, DescInv, SearchInv, ~over, NEW t \in Thread, NEW r, NEW k \in Key,
         \/ LoadLibraryA_dlopen(t) \/ _wrapper_init_dlopen(t)
         \/ _wrapper_init_register(t, r, k) \/ LoadLibraryA_register(t, r, k)
         \/ FreeLibrary_dlclose(t) \/ FreeLibrary_erase(t)
  PROVE  SearchInv'
<1> USE CoreParts
<1>1. Fairly(t) /\ LibraryStep(t) /\ FilesSame
  BY LibraryFair, StepDlopen, StepLoadRegister, StepDlclose, StepModuleErase, LibraryAside DEF Aside
<1>2. Watched
  BY <1>1, QuietWatched DEF LibraryStep
<1>3. call[t].op \notin {"FindFirstFile", "FindNextFile"}
  <2>1. Shape(call[t])
    BY DEF CallsFit
  <2> QED BY <2>1 DEF LoadLibraryA_dlopen, _wrapper_init_dlopen, _wrapper_init_register,
                      LoadLibraryA_register, FreeLibrary_dlclose, FreeLibrary_erase, At, Shape
<1>4. call'[t] = Idle \/ call'[t].op = call[t].op
  BY DEF LoadLibraryA_dlopen, _wrapper_init_dlopen, _wrapper_init_register, LoadLibraryA_register,
         FreeLibrary_dlclose, FreeLibrary_erase, Goto, Done, Frame
<1>5. Outside(call'[t])
  BY <1>3, <1>4, IdleOutside DEF Outside
<1> QED BY <1>1, <1>2, <1>5, OutsideFits, SearchPassed

(* The steps of a search that leave the table alone. *)
LEMMA FirstListSearch ==
  ASSUME CoreInv, SearchInv, ~over, NEW t \in Thread, FindFirstFileA_list(t)
  PROVE  SearchInv'
<1> USE CoreParts
<1> DEFINE c == call[t]
           found == IF c.q = Wild THEN Listing \cap WildMatches ELSE {c.q}
           due == Listing \cap Matching(c.q)
           p == Min(found)
<1>1. /\ Fairly(t) /\ UNCHANGED <<map, disk, history>> /\ c \in Frame
      /\ c.op = "FindFirstFile" /\ c.q \in Name \cup {Wild}
  BY FindFair DEF FindFirstFileA_list, Leave, At, CallsFit, Shape
<1>2. CASE Done(t)
  <2>1. call'[t] = Idle
    BY <1>2 DEF Done
  <2> QED BY <1>1, <2>1, QuietWatched, MapStays, IdleOutside, OutsideFits, SearchPassed
<1>3. CASE ~Done(t)
  <2>1. found # {} /\ call' = [call EXCEPT ![t].pc = "exists", ![t].p = p, ![t].due = due,
                                           ![t].raced = FALSE]
    BY <1>3 DEF FindFirstFileA_list
  <2>2. found \subseteq Name /\ found \subseteq Nat
    BY <1>1, FileAssumption, NamesAreNat DEF Listing
  <2>3. p \in found /\ \A y \in found : p <= y
    <3> HIDE DEF found
    <3> QED BY <2>1, <2>2, LeastExists
  <2>4. c.q # Wild => due \subseteq {p}
    BY <2>3 DEF Matching
  <2>5. c.q = Wild => /\ due \subseteq WildMatches /\ p \in Listing /\ due \subseteq Listing
                      /\ UpTo(due, p) \subseteq {p}
    <3> SUFFICES ASSUME c.q = Wild PROVE p \in Listing /\ UpTo(due, p) \subseteq {p}
      BY DEF Matching
    <3>1. due = found
      BY DEF Matching
    <3>2. p \in Listing
      BY <2>3
    <3> HIDE DEF found, due, p
    <3>3. ASSUME NEW y \in due, y <= p PROVE y = p
      BY <2>2, <2>3, <3>1, <3>3
    <3> QED BY <3>2, <3>3 DEF UpTo
  <2> HIDE DEF p, due
  <2>6. /\ call'[t].op = c.op /\ call'[t].q = c.q /\ call'[t].p = p /\ call'[t].due = due
    BY <1>1, <2>1 DEF Frame
  <2>7. Listing' = Listing
    BY <1>1 DEF Listing, Exists, disk
  <2>8. FirstFits(t)' /\ NextFits(t)'
    BY <1>1, <2>4, <2>5, <2>6, <2>7 DEF FirstFits, NextFits, UpTo
  <2> QED BY <1>1, <2>8, QuietWatched, MapStays, SearchPassed
<1> QED BY <1>2, <1>3

LEMMA NextListSearch ==
  ASSUME CoreInv, SearchInv, ~over, NEW t \in Thread, FindNextFileA_list(t)
  PROVE  SearchInv'
<1> USE CoreParts
<1> DEFINE c == call[t]
           k == c.h
           last == map[k].text
           seen == history.seen[k]
           due == history.due[k]
           rest == {p \in Listing \cap WildMatches : p > last}
           p == IF rest = {} THEN NoText ELSE Min(rest)
<1>1. /\ Fairly(t) /\ UNCHANGED <<map, disk, history>> /\ c \in Frame
      /\ c.op = "FindNextFile" /\ NextFits(t) /\ k \in Entries("FILE")
  BY FindFair DEF FindNextFileA_list, Leave, At, CallsFit, HandleFits, OnHandle, Entries, SearchInv
<1>2. CASE Done(t)
  <2>1. call'[t] = Idle
    BY <1>2 DEF Done
  <2> QED BY <1>1, <2>1, QuietWatched, MapStays, IdleOutside, OutsideFits, SearchPassed
<1>3. CASE ~Done(t)
  <2>1. /\ map[k].pattern = Wild
        /\ call' = [call EXCEPT ![t].pc = "close", ![t].fd = map[k].word, ![t].p = p]
    BY <1>1, <1>3 DEF FindNextFileA_list, Entries, H!get_fd_path, H!get_fd_findPattern, H!get_fd, H!Field
  <2>2. SearchFits(k)
    BY <1>1 DEF SearchInv, NextFits
  <2>3. rest \subseteq Name /\ rest \subseteq Nat
    BY NamesAreNat DEF Listing
  <2>4. rest # {} => p \in rest /\ \A y \in rest : p <= y
    <3> HIDE DEF rest
    <3> QED BY <2>3, LeastExists
  <2>5. /\ last \in Nat /\ due \subseteq Nat /\ NoText \notin Name
    BY <1>1, NamesAreNat, FileAssumption DEF TableFits, Entries, OwnTypes, History, H!TypeOK, H!Key, Key
  <2>6. p # NoText => rest # {} /\ p > last /\ p \in Listing /\ p \in Nat
    BY <2>3, <2>4
  <2>7. ASSUME k \in history.calm
        PROVE  /\ p # NoText => UpTo(due, p) \subseteq seen \cup {p}
               /\ p = NoText => due \subseteq seen
    <3>1. /\ due \subseteq Listing \cap WildMatches
          /\ \A x \in due : x <= last => x \in seen
      BY <2>1, <2>2, <2>7 DEF SearchFits, UpTo
    <3>2. \A x \in due : x \in rest \/ x \in seen
      BY <2>5, <3>1
    <3>3. rest # {} => p # NoText
      BY <2>3, <2>4, <2>5
    <3> HIDE DEF rest, p, due, seen
    <3> QED BY <2>3, <2>4, <2>6, <3>2, <3>3 DEF UpTo
  <2> HIDE DEF p
  <2>8. call'[t].op = c.op /\ call'[t].h = k /\ call'[t].p = p /\ call'[t].pc = "close"
    BY <1>1, <2>1 DEF Frame
  <2>9. Listing' = Listing
    BY <1>1 DEF Listing, Exists, disk
  <2>10. FirstFits(t)' /\ NextFits(t)'
    <3>1. map[k].pattern # NoText
      BY <1>1 DEF NextFits
    <3>2. FirstFits(t)'
      BY <1>1, <2>8 DEF FirstFits
    <3>3. /\ p # NoText => map[k].text < p /\ p \in Listing
          /\ k \in history.calm => /\ p # NoText => UpTo(due, p) \subseteq seen \cup {p}
                                   /\ p = NoText => due \subseteq seen
      BY <2>5, <2>6, <2>7
    <3>4. map' = map /\ history' = history /\ map[k].pattern = Wild
      BY <1>1, <2>1
    <3> HIDE DEF last
    <3>5. NextFits(t)'
      BY <2>8, <2>9, <3>1, <3>3, <3>4 DEF NextFits
    <3> QED BY <3>2, <3>5
  <2> QED BY <1>1, <2>10, QuietWatched, MapStays, SearchPassed
<1> QED BY <1>2, <1>3

(* A search goes on with the path it has found. *)
LEMMA GoesOnSearching ==
  ASSUME CoreInv, SearchInv, ~over, NEW t \in Thread, Fairly(t), UNCHANGED map,
         history'.seen = history.seen, history'.due = history.due, history'.calm = history.calm,
         UNCHANGED disk, call[t].op \in {"FindFirstFile", "FindNextFile"},
         call[t].pc \in {"exists", "open", "close"},
         call'[t].op = call[t].op, call'[t].h = call[t].h, call'[t].p = call[t].p,
         call'[t].q = call[t].q, call'[t].due = call[t].due, call'[t].raced = call[t].raced
  PROVE  SearchInv'
<1>1. FirstFits(t) /\ NextFits(t) /\ Shape(call[t])
  BY CoreParts DEF SearchInv, CallsFit
<1>2. Listing' = Listing
  BY DEF disk, Listing, Exists
<1>3. call[t].op = "FindFirstFile" => call[t].pc \in {"exists", "open"}
  BY <1>1 DEF Shape
<1>4. FirstFits(t)'
  BY <1>1, <1>2, <1>3 DEF FirstFits, UpTo
<1>5. NextFits(t)'
  BY <1>1, <1>2 DEF NextFits, UpTo
<1>6. Watched
  BY <1>2 DEF Watched
<1> QED BY <1>4, <1>5, <1>6, MapStays, SearchPassed

LEMMA FindSearch ==
  ASSUME CoreInv, SearchInv, ~over, NEW t \in Thread,
         Find_exists(t) \/ Find_open(t) \/ FindNextFileA_close(t)
  PROVE  SearchInv'
<1> USE CoreParts
<1> DEFINE c == call[t]
<1>1. Fairly(t) /\ UNCHANGED map /\ c \in Frame
  BY FindFair, OpenFair, CloseFair DEF Find_exists, Find_open, FindNextFileA_close, CloseDescriptor, Leave
<1>2. c.op \in {"FindFirstFile", "FindNextFile"} /\ c.pc \in {"exists", "open", "close"}
  BY DEF Find_exists, Find_open, FindNextFileA_close, At
<1>3. /\ history'.seen = history.seen /\ history'.due = history.due
      /\ history'.calm = history.calm /\ UNCHANGED disk
  <2>1. CASE Find_exists(t)
    BY <2>1 DEF Find_exists, Leave
  <2>2. CASE Find_open(t)
    <3>1. c.p \in Name
      BY <2>2 DEF Find_open, CallsFit, Shape
    <3>2. UNCHANGED disk
      BY <2>2, <3>1, FindOpens
    <3> QED BY <2>2, <3>2 DEF Find_open
  <2>3. CASE FindNextFileA_close(t)
    BY <2>3, StepCloses DEF HistoryIs, FindNextFileA_close, CloseDescriptor
  <2> QED BY <2>1, <2>2, <2>3
<1>4. CASE call'[t] = Idle
  <2>1. Watched
    BY <1>3 DEF Watched, disk, Listing, Exists
  <2> QED BY <1>1, <1>4, <2>1, MapStays, IdleOutside, OutsideFits, SearchPassed
<1>5. CASE call'[t] # Idle
  <2>1. /\ call'[t].op = c.op /\ call'[t].h = c.h /\ call'[t].p = c.p
        /\ call'[t].q = c.q /\ call'[t].due = c.due /\ call'[t].raced = c.raced
    <3>1. CASE Find_exists(t)
      BY <1>1, <1>5, <3>1 DEF Find_exists, Goto, Done, Frame
    <3>2. CASE Find_open(t)
      <4> DEFINE fd == OpenResult(c.p, FALSE)
                 place == IF c.op = "FindFirstFile" THEN "register" ELSE "update"
      <4>1. call' = [call EXCEPT ![t].fd = fd, ![t].pc = place]
        BY <3>2 DEF Find_open
      <4> HIDE DEF fd, place
      <4> QED BY <1>1, <4>1 DEF Frame
    <3>3. CASE FindNextFileA_close(t)
      BY <1>1, <1>5, <3>3 DEF FindNextFileA_close, Done, Frame
    <3> QED BY <3>1, <3>2, <3>3
  <2> QED BY <1>1, <1>2, <1>3, <2>1, GoesOnSearching
<1> QED BY <1>4, <1>5

-----------------------------------------------------------------------------
(* The steps that change a file's entry.                                   *)
LEMMA EntryTouched ==
  ASSUME CoreInv, ~over, NEW t \in Thread, FileEntryStep(t), NEW k \in Key,
         k \notin DOMAIN map \/ (call[t].op \in OnHandle /\ k = call[t].h),
         \A x \in DOMAIN map' \ {k} : x \in DOMAIN map /\ map'[x] = map[x],
         \A x \in DOMAIN map \ {k} : x \in DOMAIN map' /\ map'[x] = map[x],
         \A x \in Key \ {k} : history'.seen[x] = history.seen[x] /\ history'.due[x] = history.due[x],
         history'.calm \ {k} \subseteq history.calm,
         k \in Entries("FILE")' /\ map'[k].pattern # NoText => SearchFits(k)',
         k \in history'.calm => k \in Entries("FILE")' /\ map'[k].pattern # NoText
  PROVE  Touches(t, {k})
<1> USE CoreParts
<1>1. Fairly(t) /\ call'[t] = Idle /\ UNCHANGED disk
  BY IdleCarefree, CarefreeFair DEF FileEntryStep
<1>2. FirstFits(t)' /\ NextFits(t)'
  BY <1>1, IdleOutside, OutsideFits
<1>3. \A u \in Thread \ {t} : call[u].op = "FindNextFile" => call[u].h # k
  BY DEF CallsFit, HandleFits, OnHandle
<1>4. Listing' = Listing
  BY <1>1 DEF disk, Listing, Exists
<1> QED BY <1>1, <1>2, <1>3, <1>4 DEF Touches, Entries

LEMMA RegisterSearch ==
  ASSUME CoreInv, SearchInv, ~over, NEW t \in Thread, NEW r, NEW k \in Key,
         CreateFileA_register(t, r, k) \/ FindFirstFileA_register(t, r, k)
  PROVE  SearchInv'
<1> USE CoreParts
<1> DEFINE c == call[t]
<1>1. FileEntryStep(t) /\ c \in Frame /\ Shape(c)
  BY StepCreateRegister, StepFirstRegister DEF CallsFit
<1>2. history.calm \subseteq DOMAIN map /\ history \in History
  BY DEF SearchInv, Entries, OwnTypes
<1>3. CASE CreateFileA_register(t, r, k)
  <2>1. Registered(k, FileHeader(c.fd, c.p, NoText))
    BY <1>3, StepCreateRegister
  <2>2. history'.seen = history.seen /\ history'.due = history.due /\ history'.calm = history.calm
    BY <1>3, StepCreateRegister DEF HistoryIs
  <2>3. map'[k].pattern = NoText /\ k \notin history'.calm
    BY <1>2, <2>1, <2>2 DEF Registered, FileHeader
  <2>4. Touches(t, {k})
    BY <1>1, <2>1, <2>2, <2>3, EntryTouched DEF Registered
  <2> QED BY <2>4, SearchKept
<1>4. CASE FindFirstFileA_register(t, r, k)
  <2> DEFINE calm == IF c.raced THEN history.calm ELSE history.calm \cup {k}
  <2>1. Registered(k, FileHeader(c.fd, c.p, c.q)) /\ FirstFits(t)
    BY <1>4, StepFirstRegister DEF SearchInv
  <2>2. /\ history'.seen = [history.seen EXCEPT ![k] = {c.p}]
        /\ history'.due = [history.due EXCEPT ![k] = c.due]
        /\ history'.calm = calm
    <3>1. HistoryIs([history.opened EXCEPT ![k] = OpenedOn(c.fd)], history.stale, history.struck,
                    [history.seen EXCEPT ![k] = {c.p}], [history.due EXCEPT ![k] = c.due], calm)
      BY <1>4, StepFirstRegister
    <3> HIDE DEF calm
    <3> QED BY <3>1 DEF HistoryIs
  <2>3. /\ \A x \in Key \ {k} : history'.seen[x] = history.seen[x] /\ history'.due[x] = history.due[x]
        /\ history'.seen[k] = {c.p} /\ history'.due[k] = c.due
        /\ history'.calm \ {k} \subseteq history.calm
    BY <1>2, <2>2 DEF History
  <2>4. k \in history'.calm => ~c.raced
    BY <1>2, <2>1, <2>2 DEF Registered
  <2> HIDE DEF calm
  <2>5. /\ c.op = "FindFirstFile" /\ c.pc = "register" /\ c.p \in Name /\ c.q \in Name \cup {Wild}
        /\ c.p \in Nat
    BY <1>1, <1>4, NamesAreNat DEF FindFirstFileA_register, At, Shape
  <2>6. map'[k].pattern = c.q /\ map'[k].text = c.p /\ map'[k].type = "FILE" /\ k \in DOMAIN map'
    BY <2>1 DEF Registered, FileHeader
  <2>7. Listing' = Listing
    BY <1>1 DEF FileEntryStep, disk, Listing, Exists
  <2>8. SearchFits(k)'
    BY <2>1, <2>3, <2>4, <2>5, <2>6, <2>7 DEF FirstFits, SearchFits, UpTo
  <2>9. c.q # NoText
    BY <2>5, FileAssumption
  <2>10. Touches(t, {k})
    BY <1>1, <2>1, <2>3, <2>6, <2>8, <2>9, EntryTouched DEF Registered, Entries
  <2> QED BY <2>10, SearchKept
<1> QED BY <1>3, <1>4

LEMMA UpdateSearch ==
  ASSUME CoreInv, SearchInv, ~over, NEW t \in Thread, FindNextFileA_update(t)
  PROVE  SearchInv'
<1> USE CoreParts
<1> DEFINE c == call[t]
<1> PICK k : k = c.h
  OBVIOUS
<1>1. /\ FileEntryStep(t) /\ Updated(k, c.fd, c.p) /\ c \in Frame /\ history \in History
      /\ NextFits(t) /\ Shape(c) /\ HandleFits(t)
  BY StepNextUpdate DEF CallsFit, SearchInv, OwnTypes
<1>2. /\ c.op = "FindNextFile" /\ c.pc = "update" /\ c.op \in OnHandle /\ c.p \in Name
      /\ k \in Entries("FILE") /\ k \in Key /\ k \in DOMAIN map
  BY <1>1 DEF FindNextFileA_update, At, Shape, HandleFits, OnHandle, Entries, Frame, Key
<1>3. /\ history'.seen = [history.seen EXCEPT ![k] = @ \cup {c.p}]
      /\ history'.due = history.due /\ history'.calm = history.calm
  BY StepNextUpdate DEF HistoryIs
<1>4. /\ \A x \in Key \ {k} : history'.seen[x] = history.seen[x] /\ history'.due[x] = history.due[x]
      /\ history'.seen[k] = history.seen[k] \cup {c.p} /\ history'.due[k] = history.due[k]
  BY <1>1, <1>2, <1>3 DEF History
<1>5. /\ map[k].pattern = Wild /\ SearchFits(k) /\ map[k].text < c.p /\ c.p # NoText /\ Wild # NoText
  BY <1>1, <1>2, FileAssumption DEF NextFits, SearchInv
<1>6. map'[k].pattern = Wild /\ map'[k].text = c.p /\ k \in Entries("FILE")'
  BY <1>1, <1>2, <1>5 DEF Updated, Entries
<1>7. Listing' = Listing
  BY <1>1 DEF FileEntryStep, disk, Listing, Exists
<1>8. /\ map[k].text \in Nat /\ c.p \in Nat /\ history.seen[k] \subseteq Nat
  BY <1>1, <1>2, NamesAreNat DEF TableFits, Entries, History
<1>9. SearchFits(k)'
  <2>1. \A x \in history.seen[k] : x <= map[k].text
    BY <1>5 DEF SearchFits, UpTo
  <2>2. \A x \in history.seen[k] \cup {c.p} : x <= c.p
    BY <1>5, <1>8, <2>1
  <2>3. history'.seen[k] = UpTo(history'.seen[k], c.p)
    BY <1>4, <2>2 DEF UpTo
  <2>4. history.due[k] \subseteq WildMatches
    BY <1>5 DEF SearchFits
  <2>5. k \in history.calm => /\ history.due[k] \subseteq Listing /\ c.p \in Listing
                              /\ UpTo(history.due[k], c.p) \subseteq history.seen[k] \cup {c.p}
    BY <1>1, <1>2, <1>5 DEF SearchFits, NextFits
  <2> QED BY <1>3, <1>4, <1>6, <1>7, <2>3, <2>4, <2>5 DEF SearchFits, UpTo
<1>10. Touches(t, {k})
  BY <1>1, <1>2, <1>3, <1>4, <1>5, <1>6, <1>9, EntryTouched DEF Updated
<1> QED BY <1>10, SearchKept

LEMMA EraseSearch ==
  ASSUME CoreInv, SearchInv, ~over, NEW t \in Thread, CloseFile_erase(t)
  PROVE  SearchInv'
<1> USE CoreParts
<1> DEFINE c == call[t]
<1> PICK k : k = c.h
  OBVIOUS
<1>1. FileEntryStep(t) /\ Erased(k) /\ c \in Frame /\ history \in History
  BY StepFileErase DEF OwnTypes
<1>2. c.op \in OnHandle /\ k \in Key
  BY <1>1 DEF CloseFile_erase, Closing, OnHandle, Frame, Key
<1>3. /\ history'.seen = [history.seen EXCEPT ![k] = {}]
      /\ history'.due = [history.due EXCEPT ![k] = {}] /\ history'.calm = history.calm \ {k}
  BY StepFileErase DEF HistoryIs
<1>4. /\ \A x \in Key \ {k} : history'.seen[x] = history.seen[x] /\ history'.due[x] = history.due[x]
      /\ k \notin Entries("FILE")'
  BY <1>1, <1>2, <1>3 DEF History, Erased, Entries
<1>5. Touches(t, {k})
  BY <1>1, <1>2, <1>3, <1>4, EntryTouched DEF Erased
<1> QED BY <1>5, SearchKept

LEMMA StepSearch ==
  ASSUME CoreInv, DescInv, RaceInv, SearchInv, ~over, NEW t \in Thread,
         \/ FileCall(t) \/ FindCall(t) \/ LoaderCall(t)
         \/ FileStep(t) \/ FindStep(t) \/ LoaderStep(t)
  PROVE  SearchInv'
<1>1. CASE FileCall(t) \/ FindCall(t) \/ LoaderCall(t)
  <2>1. CASE \E f : Starts(t, f)
    BY <2>1, StartSearch
  <2>2. CASE Atomically(t)
    BY <2>2, EndSearch
  <2>3. CASE _wrapper_fini(t)
    BY <2>3 DEF _wrapper_fini, SearchInv
  <2> QED BY <1>1, <2>1, <2>2, <2>3, CallCases
<1>2. CASE FileStep(t)
  <2>1. ASSUME NEW r \in Rand, NEW k \in Key, CreateFileA_register(t, r, k) PROVE SearchInv'
    BY <2>1, RegisterSearch
  <2>2. CASE CloseFile_erase(t)
    BY <2>2, EraseSearch
  <2>3. CASE ExceptionUncaught(t)
    BY <2>3 DEF ExceptionUncaught, SearchInv
  <2>4. CASE \/ CreateFileA_parent(t) \/ CreateFileA_replace(t) \/ CreateFileA_disposition(t)
             \/ CreateFileA_open(t)
    BY <2>4, CreateSearch
  <2>5. CASE \/ WriteFile_write(t) \/ ReadFile_read(t) \/ FlushFileBuffers_syncfs(t)
             \/ SetFilePointer_lseek(t) \/ GetFileAttributesA_kind(t) \/ ExceptionCaught(t) \/ MoveFileA_remove(t)
    BY <2>5, EndSearch
  <2>6. CASE Descriptor_lookup(t) \/ CloseFile_lookup(t) \/ CloseFile_close(t)
    BY <2>6, OtherSearch
  <2>7. CASE \/ GetFileAttributesA_exists(t) \/ CopyFileA_check(t) \/ MoveFileA_check(t)
             \/ Copy_start(t) \/ Copy_end(t)
    BY <2>7, CopySearch
  <2> QED BY <1>2, <2>1, <2>2, <2>3, <2>4, <2>5, <2>6, <2>7, Zenon DEF FileStep
<1>3. CASE FindStep(t)
  <2>1. ASSUME NEW r \in Rand, NEW k \in Key, FindFirstFileA_register(t, r, k) PROVE SearchInv'
    BY <2>1, RegisterSearch
  <2>2. CASE FindNextFileA_update(t)
    BY <2>2, UpdateSearch
  <2>3. CASE FindFirstFileA_list(t) \/ FindNextFileA_list(t)
    BY <2>3, FirstListSearch, NextListSearch
  <2>4. CASE Find_exists(t) \/ Find_open(t) \/ FindNextFileA_close(t)
    BY <2>4, FindSearch
  <2> QED BY <1>3, <2>1, <2>2, <2>3, <2>4 DEF FindStep
<1>4. CASE LoaderStep(t)
  <2>1. NULL \in Key
    BY FileAssumption DEF NULL, Key
  <2>2. ASSUME NEW r \in Rand, NEW k \in Key,
               _wrapper_init_register(t, r, k) \/ LoadLibraryA_register(t, r, k)
        PROVE  SearchInv'
    BY <2>2, LibrarySearch
  <2>3. CASE \/ LoadLibraryA_dlopen(t) \/ _wrapper_init_dlopen(t)
             \/ FreeLibrary_dlclose(t) \/ FreeLibrary_erase(t)
    BY <2>1, <2>3, LibrarySearch
  <2>4. CASE LoadLibraryA_fails(t) \/ GetProcAddressA_dlsym(t)
    BY <2>4, EndSearch
  <2>5. CASE Module_lookup(t)
    BY <2>5, OtherSearch
  <2> QED BY <1>4, <2>2, <2>3, <2>4, <2>5 DEF LoaderStep
<1> QED BY <1>1, <1>2, <1>3, <1>4

LEMMA SearchStart ==
  ASSUME Init PROVE SearchInv
<1>1. history.calm = {} /\ Entries("FILE") = {} /\ \A t \in Thread : call[t] = Idle
  BY DEF Init, H!Init, Entries
<1> QED BY <1>1, IdleFrame DEF SearchInv, FirstFits, NextFits

(* FileInv is all that the steps keep of files, searches and libraries.    *)
FileInv == CoreInv /\ DescInv /\ RaceInv /\ SearchInv

LEMMA FileKept ==
  ASSUME FileInv, [Next]_vars PROVE FileInv'
<1>1. CoreInv' /\ DescInv' /\ RaceInv'
  BY CoreKept, DescKept, RaceKept DEF FileInv
<1>2. CASE UNCHANGED vars
  BY <1>1, <1>2 DEF FileInv, vars, disk, SearchInv, SearchFits, FirstFits, NextFits, Entries, Listing, Exists
<1>3. CASE Next
  <2>1. PICK t \in Thread : \/ FileCall(t) \/ FindCall(t) \/ LoaderCall(t)
                            \/ FileStep(t) \/ FindStep(t) \/ LoaderStep(t)
    BY <1>3 DEF Next
  <2> QED BY <1>1, <1>3, <2>1, StepSearch DEF FileInv, Next
<1> QED BY <1>2, <1>3

(* A call of FindNextFileA ends by a step of its own.                      *)
LEMMA NextEnds ==
  ASSUME FileInv, Next, NEW t \in Thread, call[t].op = "FindNextFile", call'[t] = Idle
  PROVE  /\ ~over
         /\ \/ FindNextFileA_list(t) \/ FindNextFileA_close(t) \/ FindNextFileA_update(t)
            \/ Find_exists(t)
<1>1. ~over
  BY DEF Next
<1> USE <1>1, CoreParts DEF FileInv
<1>2. Shape(call[t]) /\ call[t] # Idle /\ Idle.op = "none"
  BY IdleFrame DEF CallsFit
<1>3. PICK u \in Thread : \/ FileCall(u) \/ FindCall(u) \/ LoaderCall(u)
                          \/ FileStep(u) \/ FindStep(u) \/ LoaderStep(u)
  BY DEF Next
<1>4. u = t
  <2>1. Fairly(u)
    BY <1>2, <1>3, StepFair
  <2> QED BY <1>2, <2>1 DEF Fairly, Others, Alike
<1>5. CASE FileCall(t) \/ FindCall(t) \/ LoaderCall(t)
  <2>1. (\E f : Starts(t, f)) \/ Atomically(t) \/ _wrapper_fini(t)
    BY <1>5, CallCases
  <2>2. call[t] = Idle
    BY <2>1 DEF Starts, Begin, Atomically, DeleteFileA, CreateDirectoryA, RemoveDirectoryA, Atomic, _wrapper_fini
  <2> QED BY <1>2, <2>2
<1>6. CASE FileStep(t)
  BY <1>2, <1>6
     DEF FileStep, CreateFileA_parent, CreateFileA_replace, CreateFileA_disposition, CreateFileA_open,
         CreateFileA_register, Descriptor_lookup, WriteFile_write, ReadFile_read, FlushFileBuffers_syncfs,
         SetFilePointer_lseek, ReadOnly, CloseFile_lookup, CloseFile_close, CloseFile_erase, Closing,
         GetFileAttributesA_exists, GetFileAttributesA_kind, ExceptionCaught, CopyFileA_check, MoveFileA_check,
         Copy_start, ExceptionUncaught, Copies, Copy_end, MoveFileA_remove, At, Shape
<1>7. CASE LoaderStep(t)
  BY <1>2, <1>7
     DEF LoaderStep, LoadLibraryA_fails, LoadLibraryA_dlopen, _wrapper_init_dlopen, _wrapper_init_register,
         LoadLibraryA_register, Module_lookup, GetProcAddressA_dlsym, FreeLibrary_dlclose, FreeLibrary_erase,
         At, Shape
<1>8. CASE FindStep(t)
  <2>1. CASE Find_open(t)
    <3>1. call'[t].op = call[t].op
      <4> DEFINE c == call[t]
                 fd == OpenResult(c.p, FALSE)
                 place == IF c.op = "FindFirstFile" THEN "register" ELSE "update"
      <4>1. call' = [call EXCEPT ![t].fd = fd, ![t].pc = place]
        BY <2>1 DEF Find_open
      <4>2. call \in [Thread -> Frame]
        BY CoreParts
      <4> HIDE DEF fd, place
      <4>3. call'[t] = [c EXCEPT !.fd = fd, !.pc = place]
        BY <4>1, <4>2
      <4> QED BY <4>2, <4>3 DEF Frame
    <3> QED BY <1>2, <3>1
  <2>2. ~FindFirstFileA_list(t) /\ \A r, k : ~FindFirstFileA_register(t, r, k)
    BY DEF FindFirstFileA_list, FindFirstFileA_register, At
  <2> QED BY <1>8, <2>1, <2>2 DEF FindStep
<1> QED BY <1>3, <1>4, <1>5, <1>6, <1>7, <1>8

(* FindFirstFileA and FindNextFileA: whatever other threads create, and    *)
(* wherever the calls of several searches and threads interleave, a search *)
(* never reports a file twice; and when it says that there is no more, it  *)
(* has reported every match that was there from the beginning, unless a    *)
(* file was removed meanwhile.                                             *)
THEOREM SearchesExact == Spec => SearchesAreExact
<1> DEFINE Complete == \A t \in Thread :
                         /\ call[t].op = "FindNextFile" /\ call'[t] = Idle /\ map' = map
                         /\ call[t].h \in history.calm
                         => history.due[call[t].h] \subseteq history.seen[call[t].h]
           Once == \A t \in Thread :
                     At(t, "FindNextFile", "update") /\ call'[t] = Idle =>
                       call[t].p \notin history.seen[call[t].h]
<1>1. Init => FileInv
  BY CoreStart, DescStart, RaceStart, SearchStart DEF FileInv
<1>2. FileInv /\ [Next]_vars => FileInv'
  BY FileKept
<1>3. FileInv /\ [Next]_vars => [Complete]_vars
  <2> SUFFICES ASSUME FileInv, Next, NEW t \in Thread, call[t].op = "FindNextFile", call'[t] = Idle,
                      map' = map, call[t].h \in history.calm
               PROVE  history.due[call[t].h] \subseteq history.seen[call[t].h]
    OBVIOUS
  <2> DEFINE c == call[t]
             k == c.h
  <2>1. /\ ~over /\ CoreInv /\ NextFits(t) /\ k \in Entries("FILE")
        /\ map[k].pattern # NoText /\ SearchFits(k)
    BY NextEnds DEF FileInv, SearchInv
  <2>2. c \in Frame /\ Shape(c) /\ HandleFits(t) /\ NoText \notin Name
    BY <2>1, CoreParts, FileAssumption DEF CallsFit
  <2>3. CASE FindNextFileA_list(t)
    <3>1. Idle.op = "none"
      BY IdleFrame
    <3>2. map[k].pattern # Wild \/ map[k].text \notin Listing
      BY <2>1, <2>2, <2>3, <3>1, CoreParts
         DEF FindNextFileA_list, Entries, H!get_fd_path, H!get_fd_findPattern, H!Field, Frame
    <3> QED BY <2>1, <3>2 DEF SearchFits
  <2>4. CASE FindNextFileA_close(t)
    <3>1. c.p = NoText
      BY <2>1, <2>2, <2>4, IdleFrame, CoreParts DEF FindNextFileA_close, Frame
    <3> QED BY <2>1, <2>4, <3>1 DEF FindNextFileA_close, At, NextFits
  <2>5. CASE Find_exists(t)
    <3>1. c.pc = "exists" /\ c.p \in Name
      BY <2>2, <2>5 DEF Find_exists, Shape
    <3>2. c.p \in Listing
      BY <2>1, <2>2, <3>1 DEF NextFits
    <3>3. call'[t].op = c.op
      BY <2>1, <2>2, <2>5, <3>2, CoreParts DEF Find_exists, Listing, Goto, Frame
    <3> QED BY <3>3, IdleFrame
  <2>6. CASE FindNextFileA_update(t)
    <3>1. map'[k].text = c.p
      BY <2>1, <2>6, StepNextUpdate DEF Updated
    <3>2. c.p \in Name /\ map[k].text < c.p /\ map[k].text \in Name
      BY <2>1, <2>2, <2>6, CoreParts DEF FindNextFileA_update, At, Shape, NextFits, TableFits, Entries
    <3> QED BY <3>1, <3>2, NamesAreNat
  <2> QED BY <2>3, <2>4, <2>5, <2>6, NextEnds
<1>4. FileInv /\ [Next]_vars => [Once]_vars
  <2> SUFFICES ASSUME FileInv, Next, NEW t \in Thread, At(t, "FindNextFile", "update")
               PROVE  call[t].p \notin history.seen[call[t].h]
    OBVIOUS
  <2> DEFINE c == call[t]
             k == c.h
  <2>1. CoreInv /\ ~over /\ NextFits(t)
    BY DEF FileInv, SearchInv, Next
  <2>2. c.p \in Name /\ k \in Entries("FILE") /\ NoText \notin Name /\ k \in Key
    BY <2>1, CoreParts, FileAssumption DEF At, CallsFit, Shape, HandleFits, OnHandle, Entries, Frame, Key
  <2>3. SearchFits(k) /\ map[k].pattern = Wild /\ map[k].text < c.p
    BY <2>1, <2>2 DEF FileInv, SearchInv, NextFits, At
  <2>4. map[k].text \in Nat /\ c.p \in Nat
    BY <2>1, <2>2, CoreParts, NamesAreNat DEF TableFits, Entries
  <2> QED BY <2>3, <2>4 DEF SearchFits, UpTo
<1> QED BY <1>1, <1>2, <1>3, <1>4, PTL DEF Spec, SearchesAreExact, SearchesAreComplete, NothingIsFoundTwice

=============================================================================
