---------------------------- MODULE WaitDeadline ----------------------------
(***************************************************************************)
(* The absolute deadline that a wait of dwMilliseconds hands to pthread,   *)
(* computed from gettimeofday in WaitForSingleObject (synchapi.cpp) and    *)
(* again in event_timedwait (eventapi.cpp).  pthread refuses a tv_nsec     *)
(* outside 0..999999999; otherwise the wait ends when the clock reaches    *)
(* the deadline.                                                           *)
(***************************************************************************)
EXTENDS Integers

CONSTANTS
  Instants,      \* the clock's readings, as a struct timeval
  Milliseconds   \* the timeouts asked for

Below(n) == {i \in Nat : i < n}
Timeval  == [tv_sec : Nat, tv_usec : Below(1000000)]
Timespec == [tv_sec : Nat, tv_nsec : Below(1000000000)]

ASSUME DeadlineAssumption ==
  /\ Instants \subseteq Timeval
  /\ Milliseconds \subseteq Nat

VARIABLES
  now,       \* what gettimeofday reads
  pc,        \* "idle", "waiting", "expired"
  start,     \* the reading at the call
  ms,        \* the timeout
  abstime    \* the deadline

vars == <<now, pc, start, ms, abstime>>

-----------------------------------------------------------------------------
(* Mutant: the carry is left out. *)
DeadlineUncarried(tv, d) ==
  [tv_sec |-> tv.tv_sec + d \div 1000,
   tv_nsec |-> tv.tv_usec * 1000 + (d % 1000) * 1000000]

Deadline(tv, d) ==
  LET sec   == tv.tv_sec + d \div 1000
      nsec  == tv.tv_usec * 1000 + (d % 1000) * 1000000
      carry == nsec >= 1000000000
  IN  [tv_sec  |-> IF carry THEN sec + 1 ELSE sec,
       tv_nsec |-> IF carry THEN nsec - 1000000000 ELSE nsec]

(* The clock reads i, and the deadline a has come. *)
Reached(a, i) ==
  \/ a.tv_sec < i.tv_sec
  \/ a.tv_sec = i.tv_sec /\ a.tv_nsec <= i.tv_usec * 1000

(* Reference: d milliseconds lie between s and i. *)
HasElapsed(s, d, i) ==
  d * 1000 <= (i.tv_sec - s.tv_sec) * 1000000 + (i.tv_usec - s.tv_usec)

Init ==
  /\ now \in Instants
  /\ pc = "idle"
  /\ start = now
  /\ ms \in Milliseconds
  /\ abstime = [tv_sec |-> 0, tv_nsec |-> 0]

Call(d) ==
  /\ pc \in {"idle", "expired"}
  /\ pc' = "waiting"
  /\ start' = now
  /\ ms' = d
  /\ abstime' = Deadline(now, d)
  /\ UNCHANGED now

TimePasses(i) ==
  /\ HasElapsed(now, 0, i)
  /\ now' = i
  /\ UNCHANGED <<pc, start, ms, abstime>>

TimeOut ==
  /\ pc = "waiting"
  /\ Reached(abstime, now)
  /\ pc' = "expired"
  /\ UNCHANGED <<now, start, ms, abstime>>

Next ==
  \/ \E d \in Milliseconds : Call(d)
  \/ \E i \in Instants : TimePasses(i)
  \/ TimeOut

Spec == Init /\ [][Next]_vars

-----------------------------------------------------------------------------
(* pthread accepts the deadline: the carry keeps tv_nsec in range.         *)
DeadlineIsValid == abstime \in Timespec

(* A wait that timed out has lasted its milliseconds, and one that has     *)
(* lasted them is over: neither early nor late, to the microsecond.        *)
ExpiresOnTime ==
  /\ pc = "expired" => HasElapsed(start, ms, now)
  /\ pc = "waiting" /\ HasElapsed(start, ms, now) => Reached(abstime, now)

(* The deadline of a timed wait (eventapi.cpp:77-87, synchapi.cpp:286-296)  *)
(* is one that pthread accepts and that comes when the milliseconds are    *)
(* over.                                                                   *)
DeadlineIsExact == DeadlineIsValid /\ ExpiresOnTime

=============================================================================
