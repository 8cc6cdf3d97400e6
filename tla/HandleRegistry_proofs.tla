------------------------ MODULE HandleRegistry_proofs ------------------------
(***************************************************************************)
(* Proofs about the handle table, for every width of int and every set of  *)
(* words and texts.                                                        *)
(***************************************************************************)
EXTENDS HandleRegistry, FiniteSetTheorems, WellFoundedInduction, TLAPS

(* From one start the probing of new_key_get reaches one free key. *)
LEMMA ProbeIsUnique ==
  ASSUME NEW r \in RandResult, NEW j \in Key, NEW k \in Key,
         new_key_get(r, j), new_key_get(r, k)
  PROVE  j = k
BY TableAssumption DEF RandResult, Key, new_key_get, Probed

(* A set of numbers has a least one. *)
LEMMA LeastNumber ==
  ASSUME NEW S, S \subseteq Nat, S # {}
  PROVE  \E x \in S : \A y \in S : x <= y
<1> DEFINE R == OpToRel(<, Nat)
<1>1. IsWellFoundedOn(R, Nat)
  BY NatLessThanWellFounded
<1>2. \A y, x \in Nat : y < x => <<y, x>> \in R
  BY DEF OpToRel
<1> HIDE DEF R
<1>3. PICK x \in S : \A y \in S : ~(<<y, x>> \in R)
  BY <1>1, WFMin
<1>4. ASSUME NEW y \in S PROVE x <= y
  <2>1. x \in Nat /\ y \in Nat
    OBVIOUS
  <2>2. ~(y < x)
    BY <2>1, <1>2, <1>3, Zenon
  <2> QED BY <2>1, <2>2
<1> QED BY <1>3, <1>4

(* How many increments lead from r to k: past INT_MAX they go on at        *)
(* INT_MIN.                                                                *)
Distance(r, k) == IF r <= k THEN k - r ELSE (MaxInt - r) + 1 + (k - MinInt)

LEMMA DistanceType ==
  ASSUME NEW r \in RandResult, NEW k \in Key
  PROVE  Distance(r, k) \in Nat
BY TableAssumption DEF RandResult, Key, Distance

(* The keys probed before k are the nearer ones. *)
LEMMA ProbedAreNearer ==
  ASSUME NEW r \in RandResult, NEW k \in Key, NEW j \in Probed(r, k)
  PROVE  j \in Key /\ Distance(r, j) < Distance(r, k)
BY TableAssumption DEF RandResult, Key, Distance, Probed

(* As long as a key is free the probing reaches one: the nearest. *)
LEMMA ProbeEnds ==
  ASSUME NEW r \in RandResult, NEW free \in Key, free \notin DOMAIN map
  PROVE  \E k \in Key : new_key_get(r, k)
<1> DEFINE Free == {k \in Key : k \notin DOMAIN map}
           S == {Distance(r, k) : k \in Free}
<1>1. S \subseteq Nat /\ S # {}
  BY DistanceType
<1>2. PICK d \in S : \A e \in S : d <= e
  BY <1>1, LeastNumber
<1>3. PICK k \in Free : d = Distance(r, k)
  BY <1>2
<1>4. ASSUME NEW j \in Probed(r, k) PROVE j \in DOMAIN map
  <2>1. j \in Key /\ Distance(r, j) < Distance(r, k)
    BY ProbedAreNearer
  <2>2. Distance(r, j) \in Nat /\ Distance(r, k) \in Nat
    BY <2>1, DistanceType
  <2>3. ~(Distance(r, k) <= Distance(r, j))
    BY <2>1, <2>2
  <2>4. Distance(r, j) \notin S
    BY <1>2, <1>3, <2>3
  <2> QED BY <2>1, <2>4
<1> QED BY <1>4 DEF new_key_get

(* A registration, whatever its type, adds one fresh handle. *)
LEMMA RegisterAdds ==
  ASSUME TypeOK, NEW r \in RandResult, NEW k \in Key, NEW header \in Header,
         Register(r, k, header)
  PROVE  /\ TypeOK'
         /\ KeepsItsMeaning
         /\ k \notin DOMAIN map /\ DOMAIN map' = DOMAIN map \cup {k}
<1>1. k \notin DOMAIN map /\ DOMAIN map' = DOMAIN map \cup {k}
  BY DEF Register, new_key_get
<1>2. \A h \in DOMAIN map' : map'[h] = IF h = k THEN header ELSE map[h]
  BY DEF Register, new_key_get
<1>3. TypeOK'
  BY <1>1, <1>2 DEF TypeOK
<1>4. KeepsItsMeaning
  BY <1>1, <1>2 DEF KeepsItsMeaning
<1> QED BY <1>1, <1>3, <1>4

(* Every step registers a fresh handle, erases one, or rewrites the words  *)
(* of entries that stay.                                                   *)
Registers(k) == /\ k \notin DOMAIN map /\ DOMAIN map' = DOMAIN map \cup {k}
                /\ live' = live + 1
Erases(h)    == /\ DOMAIN map' = DOMAIN map \ {h}
                /\ live' = IF h \in DOMAIN map THEN live - 1 ELSE live
Rewrites     == DOMAIN map' = DOMAIN map /\ live' = live

LEMMA StepKinds ==
  ASSUME TypeOK, Next
  PROVE  /\ TypeOK'
         /\ KeepsItsMeaning
         /\ \/ \E k \in Key : Registers(k)
            \/ \E h \in Key : Erases(h)
            \/ Rewrites
<1>1. CASE RegFd
  <2>1. PICK r \in RandResult, k \in Key, fd \in Word, path \in Text, pattern \in Text :
          reg_fd(r, k, fd, path, pattern)
    BY <1>1 DEF RegFd
  <2> DEFINE header == [type |-> "FILE", word |-> fd, more |-> NullWord,
                        text |-> path, pattern |-> pattern]
  <2>2. header \in Header /\ Register(r, k, header)
    BY <2>1, TableAssumption DEF reg_fd, Header, Types
  <2> QED BY <1>1, <2>2, RegisterAdds DEF RegFd, Registers
<1>2. CASE RegModule
  <2>1. PICK r \in RandResult, k \in Key, native \in Word, path \in Text :
          reg_module(r, k, native, path)
    BY <1>2 DEF RegModule
  <2> DEFINE header == [type |-> "MODULE", word |-> native, more |-> NullWord,
                        text |-> path, pattern |-> NoText]
  <2>2. header \in Header /\ Register(r, k, header)
    BY <2>1, TableAssumption DEF reg_module, Header, Types
  <2> QED BY <1>2, <2>2, RegisterAdds DEF RegModule, Registers
<1>3. CASE RegThread
  <2>1. PICK r \in RandResult, k \in Key, tid \in Word : reg_thread(r, k, tid)
    BY <1>3 DEF RegThread
  <2> DEFINE header == [type |-> "THREAD", word |-> tid, more |-> NullWord,
                        text |-> NoText, pattern |-> NoText]
  <2>2. header \in Header /\ Register(r, k, header)
    BY <2>1, TableAssumption DEF reg_thread, Header, Types
  <2> QED BY <1>3, <2>2, RegisterAdds DEF RegThread, Registers
<1>4. CASE MutexReg
  <2>1. PICK r \in RandResult, k \in Key, mutex \in Word, attr \in Word, name \in Text :
          mutex_reg(r, k, mutex, attr, name)
    BY <1>4 DEF MutexReg
  <2> DEFINE header == [type |-> "MUTEX", word |-> mutex, more |-> attr,
                        text |-> name, pattern |-> NoText]
  <2>2. header \in Header /\ Register(r, k, header)
    BY <2>1, TableAssumption DEF mutex_reg, Header, Types
  <2> QED BY <1>4, <2>2, RegisterAdds DEF MutexReg, Registers
<1>5. CASE RegEvent
  <2>1. PICK r \in RandResult, k \in Key, hEvent \in Word : reg_event(r, k, hEvent)
    BY <1>5 DEF RegEvent
  <2> DEFINE header == [type |-> "EVENT", word |-> hEvent, more |-> NullWord,
                        text |-> NoText, pattern |-> NoText]
  <2>2. header \in Header /\ Register(r, k, header)
    BY <2>1, TableAssumption DEF reg_event, Header, Types
  <2> QED BY <1>5, <2>2, RegisterAdds DEF RegEvent, Registers
<1>6. ASSUME NEW h \in Key, UpdateFd(h) PROVE TypeOK' /\ KeepsItsMeaning /\ Rewrites
  <2>1. PICK fd \in Word, path \in Text : update_fd(h, fd, path)
    BY <1>6 DEF UpdateFd
  <2>2. ASSUME NEW header \in Header, h \in DOMAIN map, header.type = map[h].type,
               map' = [map EXCEPT ![h] = header]
        PROVE  TypeOK' /\ KeepsItsMeaning /\ Rewrites
    <3>1. DOMAIN map' = DOMAIN map /\ map'[h] = header
      BY <2>2 DEF TypeOK
    <3>2. \A k \in DOMAIN map \ {h} : map'[k] = map[k]
      BY <2>2 DEF TypeOK
    <3>3. TypeOK'
      BY <2>2, <3>1, <3>2 DEF TypeOK
    <3>4. KeepsItsMeaning
      BY <1>6, <2>2, <3>1, <3>2 DEF KeepsItsMeaning
    <3>5. Rewrites
      BY <1>6, <3>1 DEF Rewrites, UpdateFd
    <3> QED BY <3>3, <3>4, <3>5
  <2>3. CASE h \in DOMAIN map /\ map[h].type = "FILE"
    <3> DEFINE header == [map[h] EXCEPT !.word = fd, !.text = path]
    <3>1. map' = [map EXCEPT ![h] = header]
      BY <2>1, <2>3 DEF update_fd
    <3>2. header \in Header /\ header.type = map[h].type
      BY <2>3 DEF TypeOK, Header
    <3> HIDE DEF header
    <3> QED BY <2>2, <2>3, <3>1, <3>2
  <2>4. CASE h \in DOMAIN map /\ map[h].type # "FILE"
    <3>1. PICK word \in Word, more \in Word, text \in Text :
            map' = [map EXCEPT ![h].word = word, ![h].more = more, ![h].text = text]
      BY <2>1, <2>4 DEF update_fd
    <3> DEFINE header == [map[h] EXCEPT !.word = word, !.more = more, !.text = text]
    <3>2. map' = [map EXCEPT ![h] = header]
      BY <3>1
    <3>3. header \in Header /\ header.type = map[h].type
      BY <2>4 DEF TypeOK, Header
    <3> HIDE DEF header
    <3> QED BY <2>2, <2>4, <3>2, <3>3
  <2>5. CASE h \notin DOMAIN map
    BY <1>6, <2>1, <2>5 DEF update_fd, TypeOK, KeepsItsMeaning, Rewrites, UpdateFd
  <2> QED BY <2>3, <2>4, <2>5
<1>7. CASE Erase
  <2>1. PICK h \in Key : erase(h) /\ live' = IF h \in DOMAIN map THEN live - 1 ELSE live
    BY <1>7 DEF Erase
  <2> QED BY <2>1 DEF erase, TypeOK, KeepsItsMeaning, Erases
<1>8. CASE SetThreadExitcode
  <2>1. PICK tid \in Word, code \in Word : set_thread_exitcode(tid, code)
    BY <1>8 DEF SetThreadExitcode
  <2>2. CASE map' = map
    BY <1>8, <2>2 DEF SetThreadExitcode, TypeOK, KeepsItsMeaning, Rewrites
  <2>3. CASE map' # map
    <3>1. PICK h \in DOMAIN map : /\ map[h].type = "THREAD"
                                  /\ map' = [map EXCEPT ![h].more = code]
      BY <2>1, <2>3 DEF set_thread_exitcode, WithWord
    <3> DEFINE header == [map[h] EXCEPT !.more = code]
    <3>2. /\ header \in Header /\ header.type = map[h].type /\ header.word = map[h].word
          /\ header.text = map[h].text /\ header.pattern = map[h].pattern
      BY DEF TypeOK, Header
    <3>3. map' = [map EXCEPT ![h] = header]
      BY <3>1
    <3> HIDE DEF header
    <3>4. /\ DOMAIN map' = DOMAIN map /\ map'[h] = header
          /\ \A k \in DOMAIN map \ {h} : map'[k] = map[k]
      BY <3>3
    <3> QED BY <1>8, <3>1, <3>2, <3>4 DEF SetThreadExitcode, TypeOK, KeepsItsMeaning, Rewrites
  <2> QED BY <2>2, <2>3
<1> QED BY <1>1, <1>2, <1>3, <1>4, <1>5, <1>6, <1>7, <1>8 DEF Next

(* A step keeps the table well formed. *)
LEMMA TypeStep == TypeOK /\ [Next]_registryVars => TypeOK'
<1>1. ASSUME TypeOK, UNCHANGED registryVars PROVE TypeOK'
  BY <1>1 DEF TypeOK, registryVars
<1> QED BY <1>1, StepKinds

LEMMA TypeInit == RegistryInit => TypeOK
BY DEF RegistryInit, Init, TypeOK

(* The table stays well formed, full or not. *)
THEOREM TypeCorrect == Spec => []TypeOK
BY TypeInit, TypeStep, PTL DEF Spec

(* Wherever rand() starts, new_key_get's loop ends in exactly one key, and  *)
(* runs for ever only when every int is a handle.                          *)
LEMMA ProbeFinds == TypeOK => ProbeFindsTheKey
<1> SUFFICES ASSUME TypeOK, NEW r \in RandResult
             PROVE  Cardinality({k \in Key : new_key_get(r, k)}) =
                      IF DOMAIN map = Key THEN 0 ELSE 1
  BY DEF ProbeFindsTheKey
<1> DEFINE Found == {k \in Key : new_key_get(r, k)}
<1>1. CASE DOMAIN map = Key
  <2>1. Found = {}
    BY <1>1 DEF new_key_get
  <2> QED BY <1>1, <2>1, FS_EmptySet
<1>2. CASE DOMAIN map # Key
  <2>1. PICK free \in Key : free \notin DOMAIN map
    BY <1>2 DEF TypeOK
  <2>2. PICK k \in Key : new_key_get(r, k)
    BY <2>1, ProbeEnds
  <2>3. Found = {k}
    BY <2>2, ProbeIsUnique
  <2> QED BY <1>2, <2>3, FS_Singleton
<1> QED BY <1>1, <1>2

(* Whatever is registered, erased and stored meanwhile, only a             *)
(* FindNextFileA that was given a handle itself touches what it stands     *)
(* for, and nothing its type.                                              *)
THEOREM MeaningIsKept == Spec => HandleKeepsItsMeaning
<1>1. TypeOK /\ [Next]_registryVars => [KeepsItsMeaning]_registryVars
  BY StepKinds
<1> QED BY <1>1, TypeCorrect, PTL DEF Spec, HandleKeepsItsMeaning

(* A registration always gets a key of its own, from wherever rand() starts *)
(* and across INT_MAX, and gets one as long as there is one: the table has  *)
(* as many entries as there are live registrations, and the probing ends.   *)
THEOREM KeysAreAlwaysFresh == Spec => []KeysAreFresh
<1> DEFINE Inv == TypeOK /\ live \in Nat /\ HandlesAreDistinct
<1>1. TypeOK => IsFiniteSet(DOMAIN map)
  BY FS_Interval, FS_Subset, TableAssumption DEF TypeOK, Key
<1>2. RegistryInit => Inv
  BY TypeInit, FS_EmptySet DEF RegistryInit, Init, HandlesAreDistinct, object_count
<1>3. ASSUME Inv, [Next]_registryVars PROVE Inv'
  <2>1. TypeOK'
    BY <1>3, TypeStep
  <2>2. CASE UNCHANGED registryVars
    BY <1>3, <2>1, <2>2 DEF registryVars, HandlesAreDistinct, object_count
  <2>3. CASE \E k \in Key : Registers(k)
    BY <1>1, <1>3, <2>1, <2>3, FS_AddElement
       DEF Registers, HandlesAreDistinct, object_count
  <2>4. CASE \E h \in Key : Erases(h)
    <3>1. PICK h \in Key : Erases(h)
      BY <2>4
    <3>2. Cardinality(DOMAIN map') =
            IF h \in DOMAIN map THEN Cardinality(DOMAIN map) - 1 ELSE Cardinality(DOMAIN map)
      BY <1>1, <1>3, <3>1, FS_RemoveElement DEF Erases
    <3>3. Cardinality(DOMAIN map') \in Nat
      BY <1>1, <2>1, FS_CardinalityType, FS_RemoveElement, <1>3, FS_Subset, <3>1 DEF Erases
    <3> QED BY <1>3, <2>1, <3>1, <3>2, <3>3 DEF Erases, HandlesAreDistinct, object_count
  <2>5. CASE Rewrites
    BY <1>3, <2>1, <2>5 DEF Rewrites, HandlesAreDistinct, object_count
  <2> QED BY <1>3, <2>2, <2>3, <2>4, <2>5, StepKinds
<1>4. Inv => KeysAreFresh
  BY ProbeFinds DEF KeysAreFresh
<1> QED BY <1>2, <1>3, <1>4, PTL DEF Spec

=============================================================================
