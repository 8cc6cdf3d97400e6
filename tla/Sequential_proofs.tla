------------------------- MODULE Sequential_proofs -------------------------
(***************************************************************************)
(* What one thread does alone, for every clock reading and timeout, every  *)
(* width of a DWORD, every size of the programs' loops and every call that *)
(* the media refuse.  The components share no variable: each has its own   *)
(* inductive invariant, and a step of one leaves those of the others.      *)
(***************************************************************************)
EXTENDS Sequential, FiniteSetTheorems, SequenceTheorems, TLAPS

(* -- A timed wait.                                                        *)
(* A whole number of milliseconds is its seconds and its rest. *)
LEMMA Milli ==
  ASSUME NEW d \in Nat
  PROVE  /\ d \div 1000 \in Nat
         /\ d % 1000 \in 0..999
         /\ d = (d \div 1000) * 1000 + (d % 1000)
BY SMT

(* Deadline's result is one that pthread accepts. *)
LEMMA DeadlineType ==
  ASSUME NEW tv \in Timeval, NEW d \in Nat
  PROVE  Deadline(tv, d) \in Timespec
<1>1. d \div 1000 \in Nat /\ d % 1000 \in 0..999
  BY SMT, Milli
<1>2. tv.tv_sec \in Nat /\ tv.tv_usec \in Nat /\ tv.tv_usec < 1000000
  BY SMT DEF Timeval, Below
<1> DEFINE q == d \div 1000
           m == d % 1000
<1> HIDE DEF q, m
<1>3. q \in Nat /\ m \in 0..999
  BY SMT, <1>1 DEF q, m
<1>4. Deadline(tv, d) =
        [tv_sec  |-> IF tv.tv_usec * 1000 + m * 1000000 >= 1000000000
                     THEN tv.tv_sec + q + 1 ELSE tv.tv_sec + q,
         tv_nsec |-> IF tv.tv_usec * 1000 + m * 1000000 >= 1000000000
                     THEN tv.tv_usec * 1000 + m * 1000000 - 1000000000
                     ELSE tv.tv_usec * 1000 + m * 1000000]
  BY SMT, <1>2, <1>3 DEF Deadline, q, m
<1> QED BY SMT, <1>2, <1>3, <1>4 DEF Timespec, Below

(* The deadline has come exactly when the milliseconds have elapsed. *)
LEMMA DeadlineExact ==
  ASSUME NEW tv \in Timeval, NEW d \in Nat, NEW t \in Timeval
  PROVE  Reached(Deadline(tv, d), t) <=> HasElapsed(tv, d, t)
<1> DEFINE q == d \div 1000
           m == d % 1000
<1>1. q \in Nat /\ m \in 0..999 /\ d = q * 1000 + m
  BY SMT, Milli
<1>2. /\ tv.tv_sec \in Nat /\ tv.tv_usec \in Nat /\ tv.tv_usec < 1000000
      /\ t.tv_sec \in Nat /\ t.tv_usec \in Nat /\ t.tv_usec < 1000000
  BY SMT DEF Timeval, Below
<1>3. /\ Deadline(tv, d).tv_sec =
           IF tv.tv_usec * 1000 + m * 1000000 >= 1000000000
           THEN tv.tv_sec + q + 1 ELSE tv.tv_sec + q
      /\ Deadline(tv, d).tv_nsec =
           IF tv.tv_usec * 1000 + m * 1000000 >= 1000000000
           THEN tv.tv_usec * 1000 + m * 1000000 - 1000000000
           ELSE tv.tv_usec * 1000 + m * 1000000
  BY SMT, <1>1, <1>2 DEF Deadline
<1> HIDE DEF q, m
<1> QED BY SMT, <1>1, <1>2, <1>3 DEF Reached, HasElapsed

(* What is known of the variables in every state. *)
WaitInv ==
  /\ now \in Timeval /\ start \in Timeval /\ ms \in Nat
  /\ pc \in {"idle", "waiting", "expired"}
  /\ pc # "idle" => abstime = Deadline(start, ms)
  /\ pc = "idle" => abstime = [tv_sec |-> 0, tv_nsec |-> 0]
  /\ pc = "expired" => Reached(abstime, now)

LEMMA WaitInvInit == Init => WaitInv
BY SMT, DeadlineAssumption DEF Init, WaitInv

(* A clock that goes on does not come back from behind the deadline. *)
LEMMA StaysReached ==
  ASSUME NEW tv \in Timeval, NEW d \in Nat, NEW t \in Timeval, NEW j \in Timeval,
         HasElapsed(tv, d, t), HasElapsed(t, 0, j)
  PROVE  HasElapsed(tv, d, j)
BY SMT DEF HasElapsed, Timeval, Below

LEMMA WaitInvStep == WaitInv /\ [Next]_vars => WaitInv'
<1> SUFFICES ASSUME WaitInv, [Next]_vars PROVE WaitInv'
  OBVIOUS
<1>1. ASSUME NEW d \in Milliseconds, Call(d) PROVE WaitInv'
  BY SMT, <1>1, DeadlineAssumption DEF WaitInv, Call
<1>2. ASSUME NEW t \in Instants, TimePasses(t) PROVE WaitInv'
  <2>1. t \in Timeval /\ now' = t /\ HasElapsed(now, 0, t)
    BY SMT, <1>2, DeadlineAssumption DEF TimePasses
  <2>2. ASSUME pc = "expired" PROVE Reached(abstime, t)
    <3>1. now \in Timeval /\ start \in Timeval /\ ms \in Nat
      BY SMT DEF WaitInv
    <3>2. abstime = Deadline(start, ms) /\ Reached(abstime, now)
      BY SMT, <2>2 DEF WaitInv
    <3>3. HasElapsed(start, ms, now)
      BY SMT, <3>1, <3>2, DeadlineExact
    <3>4. HasElapsed(start, ms, t)
      BY SMT, <2>1, <3>1, <3>3, StaysReached
    <3> QED BY SMT, <2>1, <3>1, <3>2, <3>4, DeadlineExact
  <2> QED BY SMT, <1>2, <2>1, <2>2 DEF WaitInv, TimePasses
<1>3. ASSUME TimeOut PROVE WaitInv'
  BY SMT, <1>3 DEF WaitInv, TimeOut
<1>4. ASSUME UNCHANGED vars PROVE WaitInv'
  BY SMT, <1>4 DEF WaitInv, vars
<1> QED BY SMT, <1>1, <1>2, <1>3, <1>4 DEF Next

LEMMA DeadlineHolds == WaitInv => DeadlineIsExact
<1> SUFFICES ASSUME WaitInv PROVE DeadlineIsValid /\ ExpiresOnTime
  BY DEF DeadlineIsExact
<1>1. CASE pc # "idle"
  BY SMT, <1>1, DeadlineType, DeadlineExact DEF WaitInv, DeadlineIsValid, ExpiresOnTime
<1>2. CASE pc = "idle"
  BY SMT, <1>2 DEF WaitInv, DeadlineIsValid, ExpiresOnTime, Timespec, Below
<1> QED BY <1>1, <1>2

-----------------------------------------------------------------------------
(* Division by from positive number, and that its result is the only one.     *)
LEMMA Division ==
  ASSUME NEW n \in Int, NEW m \in Int, m > 0
  PROVE  /\ n \div m \in Int
         /\ n % m \in 0..m - 1
         /\ n = m * (n \div m) + (n % m)
<1>1. n \div m \in Int /\ n % m \in 0..m - 1
  BY SMT
<1>2. n = m * (n \div m) + (n % m)
  BY SMTT(30)
<1> QED BY <1>1, <1>2

LEMMA DivisionIs ==
  ASSUME NEW n \in Int, NEW m \in Int, m > 0, NEW q \in Int, NEW r \in 0..m - 1,
         n = m * q + r
  PROVE  n \div m = q /\ n % m = r
<1> DEFINE p == n \div m
           s == n % m
<1>1. p \in Int /\ s \in 0..m - 1 /\ n = m * p + s
  BY Division
<1> HIDE DEF p, s
<1>2. CASE p < q
  <2>1. m * (p + 1) <= m * q
    BY <1>1, <1>2, SMT
  <2>2. m * (p + 1) = m * p + m
    BY <1>1, SMT
  <2> QED BY <1>1, <2>1, <2>2, SMT
<1>3. CASE q < p
  <2>1. m * (q + 1) <= m * p
    BY <1>1, <1>3, SMT
  <2>2. m * (q + 1) = m * q + m
    BY <1>1, SMT
  <2> QED BY <1>1, <2>1, <2>2, SMT
<1>4. CASE p = q
  BY <1>1, <1>4, SMT DEF p, s
<1> QED BY <1>1, <1>2, <1>3, <1>4, SMT DEF p, s

LEMMA ProductOfPositives ==
  ASSUME NEW from \in Int, NEW till \in Int, from > 0, till > 0
  PROVE  from * till \in Int /\ from * till > 0
BY SMT

LEMMA Units ==
  /\ SecondTicks \in Int /\ SecondTicks > 0
  /\ MilliNs \in Int /\ MilliNs > 0
  /\ SecondNs \in Int /\ SecondNs > 0
  /\ SecondNs = MilliNs * MillisPerSecond
  /\ MillisPerSecond \in Int /\ MillisPerSecond > 0
  /\ TicksPerMilli \in Int /\ TicksPerMilli > 0
<1>1. /\ TicksPerMilli \in Int /\ TicksPerMilli > 0
      /\ NsPerTick \in Int /\ NsPerTick > 0
      /\ MillisPerSecond \in Int /\ MillisPerSecond > 0
  BY TimeAssumption, SMT
<1>2. SecondTicks \in Int /\ SecondTicks > 0
  BY <1>1, ProductOfPositives DEF SecondTicks
<1>3. MilliNs \in Int /\ MilliNs > 0
  BY <1>1, ProductOfPositives DEF MilliNs
<1>4. SecondNs \in Int /\ SecondNs > 0
  BY <1>1, <1>3, ProductOfPositives DEF SecondNs
<1> QED BY <1>1, <1>2, <1>3, <1>4 DEF SecondNs

(* Word32 is even, and a DWORD holds as many numbers or the square.        *)
LEMMA Widths ==
  /\ Word32 \in Int /\ Word32 > 1
  /\ \E half \in Int : half > 0 /\ Word32 = 2 * half /\ Word32 \div 2 = half
                       /\ Quad \div 2 = half * Word32 /\ Quad = 2 * (half * Word32)
  /\ Quad \in Int /\ Quad > Word32
  /\ \A w \in Builds : w \in Int /\ w > 0 /\ (w = Word32 \/ w = Quad)
<1>1. Word32 \in Int /\ Word32 > 0 /\ Word32 % 2 = 0
  BY TimeAssumption, SMT
<1> DEFINE half == Word32 \div 2
<1>2. half \in Int /\ half > 0 /\ Word32 = 2 * half
  BY <1>1, SMT
<1> HIDE DEF half
<1>3. Quad = 2 * (half * Word32)
  BY <1>1, <1>2, SMT DEF Quad
<1>4. half * Word32 \in Int /\ half * Word32 >= Word32
  BY <1>1, <1>2, SMT
<1>5. Quad \in Int /\ Quad > Word32 /\ Quad \div 2 = half * Word32
  BY <1>1, <1>3, <1>4, SMT
<1>6. \A w \in Builds : w = Word32 \/ w = Quad
  BY TimeAssumption
<1>7. Word32 \div 2 = half
  BY DEF half
<1>8. Word32 > 1 /\ Quad > 0
  BY <1>1, <1>2, <1>5
<1>9. \A w \in Builds : w \in Int /\ w > 0 /\ (w = Word32 \/ w = Quad)
  BY <1>1, <1>5, <1>6, <1>8
<1> QED BY <1>1, <1>2, <1>3, <1>5, <1>7, <1>8, <1>9

(* The fields of a moment are that moment.                                 *)
LEMMA FieldsAreTheSecond ==
  ASSUME NEW s \in Int, NEW milli
  PROVE  SecondsOf(Fields(s, milli)) = s
BY SMT DEF SecondsOf, Fields, Day
LEMMA TicksType ==
  ASSUME NEW w \in Builds, NEW ft \in FileTimes
  PROVE  Ticks(ft, w) \in Int
<1>1. ft.high \in Int /\ ft.low \in Int
  BY TimeAssumption
<1>2. w \in Int /\ Quad \in Int
  BY Widths
<1>3. ft.high * w + ft.low \in Int
  BY <1>1, <1>2, SMT
<1> QED BY <1>1, <1>2, <1>3 DEF Ticks, Signed, Undefined

(* What a reading of the local time gives, and what setting the time that  *)
(* was read at c may make of the clock.                                    *)
LocalTime(z, c) ==
  Fields(EpochDays * Day + z.offset + c \div SecondNs, (c % SecondNs) \div MilliNs)
SetTo(z, at, c) ==
  {at} \cup {(SecondsOf(LocalTime(z, c)) - EpochDays * Day - z.offset - slip) * SecondNs
             : slip \in z.slips}

(* A reading that is kept was taken since the clock was set.               *)
MarkFits ==
  /\ mark.op \in {"none", "GetLocalTime", "GetTickCount", "QueryPerformanceCounter"}
  /\ mark.at \in Nat /\ mark.at <= clock
  /\ mark.op = "GetLocalTime" => mark.result = LocalTime(zone, mark.at)
  /\ mark.op = "GetTickCount" => mark.result = TickCount(mark.at, dword)
  /\ mark.op = "QueryPerformanceCounter" => mark.result = mark.at

(* The last call answered what the functions compute.                      *)
Since == last.arg.at \in Nat /\ last.at \in Nat /\ last.arg.at <= last.at
ConversionFits ==
  /\ last.op = "SystemTimeToFileTime" =>
       last.arg \in SystemTimes /\ last.result = SystemTimeToFileTime(last.arg, dword)
  /\ last.op = "FileTimeToSystemTime" =>
       last.arg \in FileTimes /\ last.result = FileTimeToSystemTime(last.arg, dword)
  /\ last.op = "FileTimeToLocalFileTime" =>
       last.arg \in FileTimes
       /\ last.result = FileTimeToLocalFileTime(last.arg, dword, zone.offset)
DifferenceFits ==
  /\ last.op = "TicksSince" =>
       Since /\ last.result = (TickCount(last.at, dword) - TickCount(last.arg.at, dword)) % dword
  /\ last.op = "CountsSince" =>
       Since /\ last.result = ((last.at - last.arg.at) * MillisPerSecond) \div SecondNs
  /\ last.op = "SetLocalTime" =>
       Since /\ last.result \in SetTo(zone, last.at, last.arg.at)

TimeInv ==
  /\ dword \in Builds /\ zone \in Zones /\ clock \in Nat
  /\ MarkFits /\ ConversionFits /\ DifferenceFits

LEMMA TimeInvInit == TimeInit => TimeInv
<1> SUFFICES ASSUME TimeInit PROVE TimeInv
  OBVIOUS
<1>1. dword \in Builds /\ zone \in Zones /\ clock \in Nat
  BY TimeAssumption DEF TimeInit
<1>2. MarkFits /\ ConversionFits /\ DifferenceFits
  BY <1>1 DEF TimeInit, NoCall, MarkFits, ConversionFits, DifferenceFits
<1> QED BY <1>1, <1>2 DEF TimeInv

(* A conversion, or from difference, is put down as it is.                    *)
LEMMA ReadingStep ==
  ASSUME TimeInv, NEW o, NEW out, Reading(o, out),
         \/ o = "GetLocalTime" /\ out = LocalTime(zone, clock)
         \/ o = "GetTickCount" /\ out = TickCount(clock, dword)
         \/ o = "QueryPerformanceCounter" /\ out = clock
  PROVE  TimeInv'
<1>1. /\ mark' = [op |-> o, arg |-> 0, result |-> out, at |-> clock]
      /\ last' = NoCall /\ dword' = dword /\ zone' = zone /\ clock' = clock
  BY DEF Reading, Called
<1>2. /\ mark'.op = o /\ mark'.result = out /\ mark'.at = clock
  BY <1>1
<1>3. MarkFits'
  BY <1>1, <1>2 DEF TimeInv, MarkFits
<1>4. last'.op = "none"
  BY <1>1 DEF NoCall
<1>5. ConversionFits' /\ DifferenceFits'
  BY <1>4 DEF ConversionFits, DifferenceFits
<1> QED BY <1>1, <1>3, <1>5 DEF TimeInv

LEMMA ConvertStep ==
  ASSUME TimeInv, NEW o, NEW in, NEW out, Convert(o, in, out)
  PROVE  /\ last'.op = o /\ last'.arg = in /\ last'.result = out /\ last'.at = clock
         /\ dword' = dword /\ zone' = zone /\ clock' = clock /\ mark' = mark
         /\ dword' \in Builds /\ zone' \in Zones /\ clock' \in Nat /\ MarkFits'
<1>1. last' = [op |-> o, arg |-> in, result |-> out, at |-> clock]
  BY DEF Convert, Called
<1>2. UNCHANGED <<dword, zone, clock, mark>>
  BY DEF Convert
<1> QED BY <1>1, <1>2 DEF TimeInv, MarkFits

LEMMA TimeInvStep == TimeInv /\ [TimeNext]_timeVars => TimeInv'
<1> SUFFICES ASSUME TimeInv, [TimeNext]_timeVars PROVE TimeInv'
  OBVIOUS
<1>1. ASSUME NEW c \in Readings, ClockRuns(c) PROVE TimeInv'
  <2>1. c \in Nat /\ clock < c /\ clock' = c /\ UNCHANGED <<dword, zone, mark, last>>
    BY <1>1, TimeAssumption DEF ClockRuns
  <2>2. MarkFits'
    BY <2>1 DEF TimeInv, MarkFits
  <2>3. ConversionFits' /\ DifferenceFits'
    BY <2>1 DEF TimeInv, ConversionFits, DifferenceFits, Since
  <2> QED BY <2>1, <2>2, <2>3 DEF TimeInv
<1>2. ASSUME NEW t \in SystemTimes, CallSystemTimeToFileTime(t) PROVE TimeInv'
  BY <1>2, ConvertStep DEF CallSystemTimeToFileTime, TimeInv, ConversionFits, DifferenceFits
<1>3. ASSUME NEW ft \in FileTimes, CallFileTimeToSystemTime(ft) PROVE TimeInv'
  BY <1>3, ConvertStep DEF CallFileTimeToSystemTime, TimeInv, ConversionFits, DifferenceFits
<1>4. ASSUME NEW ft \in FileTimes, CallFileTimeToLocalFileTime(ft) PROVE TimeInv'
  BY <1>4, ConvertStep DEF CallFileTimeToLocalFileTime, TimeInv, ConversionFits, DifferenceFits
<1>5. ASSUME Refused PROVE TimeInv'
  BY <1>5, ConvertStep DEF Refused, TimeInv, ConversionFits, DifferenceFits
<1>6. ASSUME GetLocalTime \/ GetTickCount \/ QueryPerformanceCounter PROVE TimeInv'
  BY <1>6, ReadingStep DEF GetLocalTime, GetTickCount, QueryPerformanceCounter, LocalTime
<1>7. ASSUME TicksSince PROVE TimeInv'
  <2>1. mark.op = "GetTickCount" /\ mark.result = TickCount(mark.at, dword)
    BY <1>7 DEF TicksSince, TimeInv, MarkFits
  <2>2. /\ last'.op = "TicksSince" /\ last'.arg = mark /\ last'.at = clock
        /\ last'.result = (TickCount(clock, dword) - mark.result) % dword
        /\ dword' = dword
        /\ dword' \in Builds /\ zone' \in Zones /\ clock' \in Nat /\ MarkFits'
    BY <1>7, ConvertStep DEF TicksSince
  <2>3. Since'
    BY <2>2 DEF TimeInv, MarkFits, Since
  <2>4. ConversionFits' /\ DifferenceFits'
    BY <2>1, <2>2, <2>3 DEF ConversionFits, DifferenceFits, TickCount
  <2> QED BY <2>2, <2>4 DEF TimeInv
<1>8. ASSUME CountsSince PROVE TimeInv'
  <2>1. mark.op = "QueryPerformanceCounter" /\ mark.result = mark.at
    BY <1>8 DEF CountsSince, TimeInv, MarkFits
  <2>2. /\ last'.op = "CountsSince" /\ last'.arg = mark /\ last'.at = clock
        /\ last'.result = ((clock - mark.result) * MillisPerSecond) \div SecondNs
        /\ dword' = dword
        /\ dword' \in Builds /\ zone' \in Zones /\ clock' \in Nat /\ MarkFits'
    BY <1>8, ConvertStep DEF CountsSince, QueryPerformanceFrequency
  <2>3. Since'
    BY <2>2 DEF TimeInv, MarkFits, Since
  <2>4. ConversionFits' /\ DifferenceFits'
    BY <2>1, <2>2, <2>3 DEF ConversionFits, DifferenceFits
  <2> QED BY <2>2, <2>4 DEF TimeInv
<1>9. ASSUME mark.op = "GetLocalTime", SetLocalTime(mark.result) PROVE TimeInv'
  <2>1. mark.result = LocalTime(zone, mark.at) /\ mark.at \in Nat /\ mark.at <= clock
    BY <1>9 DEF TimeInv, MarkFits
  <2>2. PICK c \in SetTo(zone, clock, mark.at) :
          c \in 0..MaxReading /\ clock' = c /\ last' = Called("SetLocalTime", mark, c)
    BY <1>9, <2>1 DEF SetLocalTime, SetTo, mktime
  <2>3. mark' = NoCall /\ dword' = dword /\ zone' = zone
    BY <1>9 DEF SetLocalTime
  <2>4. /\ last'.op = "SetLocalTime" /\ last'.arg = mark /\ last'.at = clock
        /\ last'.result = c /\ c \in Nat
    BY <2>2, TimeAssumption DEF Called
  <2>5. Since' /\ last'.result \in SetTo(zone', last'.at, last'.arg.at)
    BY <2>1, <2>2, <2>3, <2>4 DEF Since, TimeInv
  <2>7. ConversionFits' /\ DifferenceFits'
    BY <2>4, <2>5 DEF ConversionFits, DifferenceFits
  <2>8. MarkFits'
    BY <2>2, <2>3, <2>4 DEF MarkFits, NoCall
  <2> QED BY <2>2, <2>3, <2>4, <2>7, <2>8 DEF TimeInv
<1>10. ASSUME UNCHANGED timeVars PROVE TimeInv'
  BY <1>10 DEF timeVars, TimeInv, MarkFits, ConversionFits, DifferenceFits, Since
<1> QED BY <1>1, <1>2, <1>3, <1>4, <1>5, <1>6, <1>7, <1>8, <1>9, <1>10
        DEF TimeNext, Conversion
-----------------------------------------------------------------------------
LEMMA SetBack == TimeInv => SettingRestoresTheSecond
<1> SUFFICES ASSUME TimeInv, last.op = "SetLocalTime", zone.slips = {0}
             PROVE  last.result \in {last.at, (last.arg.at \div SecondNs) * SecondNs}
  BY DEF SettingRestoresTheSecond
<1>1. Since /\ last.result \in SetTo(zone, last.at, last.arg.at) /\ zone.offset \in Int
  BY TimeAssumption DEF TimeInv, DifferenceFits
<1> DEFINE s == last.arg.at \div SecondNs
<1>2. s \in Int
  BY <1>1, Units, Division DEF Since
<1> DEFINE all == EpochDays * Day + zone.offset + s
<1>3. all \in Int /\ all - EpochDays * Day - zone.offset - 0 = s
  BY <1>1, <1>2, TimeAssumption, SMT DEF Day
<1>4. SecondsOf(LocalTime(zone, last.arg.at)) = all
  BY <1>3, FieldsAreTheSecond DEF LocalTime
<1> HIDE DEF all
<1>5. SetTo(zone, last.at, last.arg.at) = {last.at} \cup {s * SecondNs}
  BY <1>3, <1>4 DEF SetTo
<1> QED BY <1>1, <1>5

(* A time_t keeps the seconds it holds and no others.                      *)
LEMMA TimeTKeeps ==
  ASSUME NEW w \in Builds, NEW s \in Int
  PROVE  AsTimeT(s, w) \in Int /\ (AsTimeT(s, w) = s <=> IsTimeT(s, w))
<1> DEFINE half == TimeT32 \div 2
           cut == (s + half) % TimeT32
<1>1. TimeT32 \in Int /\ TimeT32 > 0 /\ half \in Int /\ TimeT32 = 2 * half
  BY TimeAssumption, SMT
<1>2. CASE IsTimeT(s, w)
  BY <1>2 DEF AsTimeT
<1>3. CASE ~IsTimeT(s, w)
  <2>1. s + half \in Int
    BY <1>1
  <2>2. cut \in 0..TimeT32 - 1
    BY <1>1, <2>1, Division
  <2>3. AsTimeT(s, w) = cut - half
    BY <1>3 DEF AsTimeT
  <2>4. s \notin -half..half - 1
    BY <1>3 DEF IsTimeT
  <2> HIDE DEF cut, half
  <2> QED BY <1>1, <1>3, <2>2, <2>3, <2>4, SMT
<1> QED BY <1>2, <1>3

(* What FileTimeToSystemTime makes of a time of s seconds since 1601.      *)
LEMMA SystemTimeOfSecond ==
  ASSUME NEW w \in Builds, NEW ft, NEW s \in Int,
         Quotient(Ticks(ft, w), SecondTicks) = s,
         FileTimeToSystemTime(ft, w) # Throws
  PROVE  /\ SecondsOf(FileTimeToSystemTime(ft, w)) \in Int
         /\ SecondsOf(FileTimeToSystemTime(ft, w)) = s <=> IsTimeT(s - EpochDays * Day, w)
<1> DEFINE epoch == EpochDays * Day
           kept == AsTimeT(s - epoch, w)
<1>1. epoch \in Int
  BY TimeAssumption, SMT DEF Day
<1>2. FileTimeToSystemTime(ft, w) = Fields(kept + epoch, 0)
  BY DEF FileTimeToSystemTime
<1> HIDE DEF epoch
<1>3. s - epoch \in Int
  BY <1>1
<1>4. kept \in Int /\ (kept = s - epoch <=> IsTimeT(s - epoch, w))
  BY <1>3, TimeTKeeps
<1> HIDE DEF kept
<1>5. SecondsOf(FileTimeToSystemTime(ft, w)) = kept + epoch
  BY <1>1, <1>2, <1>4, FieldsAreTheSecond
<1>6. SecondsOf(FileTimeToSystemTime(ft, w)) = s <=> kept = s - epoch
  BY <1>1, <1>4, <1>5, SMT
<1> QED BY <1>1, <1>4, <1>5, <1>6 DEF epoch

(* A time lies in the second that its quotient is, and in no other.        *)
LEMMA OneSecond ==
  ASSUME NEW T \in Int, NEW m \in Int, m > 0, NEW s \in Int, s = T \div m, NEW q \in Int
  PROVE  T - q * m \in 0..m - 1 <=> q = s
<1>1. T % m \in 0..m - 1 /\ T = m * s + (T % m)
  BY Division
<1>2. m * s = s * m /\ s * m \in Int /\ q * m \in Int
  BY SMT
<1>3. ASSUME q = s PROVE T - q * m \in 0..m - 1
  BY <1>1, <1>2, <1>3, SMT
<1>4. ASSUME T - q * m \in 0..m - 1 PROVE q = s
  <2> DEFINE r == T - q * m
  <2>1. r \in 0..m - 1
    BY <1>4
  <2>2. T = m * q + r
    BY <1>2, SMT
  <2> HIDE DEF r
  <2> QED BY <2>1, <2>2, DivisionIs
<1> QED BY <1>3, <1>4

LEMMA SecondKept == TimeInv => FileTimesKeepTheSecond
<1> DEFINE T == Ticks(last.arg, dword)
           s == T \div SecondTicks
           q == SecondsOf(last.result)
<1> SUFFICES ASSUME TimeInv, Returned("FileTimeToSystemTime"), T >= 0
             PROVE  T - q * SecondTicks \in 0..SecondTicks - 1 <=> InTimeT(s)
  BY DEF FileTimesKeepTheSecond
<1>1. last.arg \in FileTimes /\ last.result = FileTimeToSystemTime(last.arg, dword)
      /\ last.result # Throws /\ dword \in Builds
  BY DEF TimeInv, ConversionFits, Returned
<1>2. T \in Int
  BY <1>1, TicksType
<1>3. Quotient(T, SecondTicks) = s /\ s \in Int
  <2>1. Quotient(T, SecondTicks) = s
    BY <1>2 DEF Quotient
  <2>2. s \in Int
    BY <1>2, Units, Division
  <2> QED BY <2>1, <2>2
<1> HIDE DEF s
<1>4. q \in Int /\ (q = s <=> IsTimeT(s - EpochDays * Day, dword))
  BY <1>1, <1>3, SystemTimeOfSecond
<1> HIDE DEF T, q
<1>5. T - q * SecondTicks \in 0..SecondTicks - 1 <=> q = s
  BY <1>2, <1>3, <1>4, Units, OneSecond DEF s
<1> QED BY <1>4, <1>5 DEF InTimeT
(* Keeping one bit of the low half of t takes less than half of w from it. *)
LEMMA OneBitKept ==
  ASSUME NEW half \in Int, half > 0, NEW w \in Int, w = 2 * half,
         NEW t \in Int, -(half * w) <= t, t < half * w,
         NEW low, low = (IF (t \div half) % 2 = 1 THEN half ELSE 0),
         NEW high, high = ((t - low) \div w) % w,
         NEW both, both = high * w + low
  PROVE  t - (IF both >= half * w THEN both - w * w ELSE both) \in 0..half - 1
<1> DEFINE q == t \div w
           r == t % w
<1>0. w > 0
  BY SMT
<1>1. q \in Int /\ r \in 0..w - 1 /\ t = w * q + r
  BY <1>0, Division
<1> HIDE DEF q, r
<1>2. /\ w * q = half * (2 * q) /\ w * q + half = half * (2 * q + 1)
      /\ w * q = q * w /\ w * q \in Int
  BY <1>1, SMT
<1>3. /\ low \in {0, half} /\ r - low \in 0..half - 1
  <2>1. CASE r >= half
    <3>1. t = half * (2 * q + 1) + (r - half) /\ r - half \in 0..half - 1 /\ 2 * q + 1 \in Int
      BY <1>1, <1>2, <2>1, SMT
    <3>2. t \div half = 2 * q + 1
      BY <3>1, DivisionIs
    <3>3. (2 * q + 1) % 2 = 1
      BY <1>1, SMT
    <3> QED BY <3>1, <3>2, <3>3, SMT
  <2>2. CASE r < half
    <3>1. t = half * (2 * q) + r /\ r \in 0..half - 1 /\ 2 * q \in Int
      BY <1>1, <1>2, <2>2, SMT
    <3>2. t \div half = 2 * q
      BY <3>1, DivisionIs
    <3>3. (2 * q) % 2 = 0
      BY <1>1, SMT
    <3> QED BY <3>1, <3>2, <3>3, SMT
  <2> QED BY <1>1, <2>1, <2>2, SMT
<1>4. (t - low) \div w = q
  <2>1. t - low = w * q + (r - low) /\ r - low \in 0..w - 1 /\ t - low \in Int
    BY <1>1, <1>2, <1>3, SMT
  <2> QED BY <1>1, <2>1, DivisionIs, SMT
<1>5. q \in -half..half - 1
  <2>1. ASSUME q >= half PROVE FALSE
    <3>1. q * w >= half * w
      BY <1>1, <2>1, SMT
    <3> QED BY <1>1, <1>2, <3>1, SMT
  <2>2. ASSUME q < -half PROVE FALSE
    <3>1. (q + 1) * w <= (-half) * w
      BY <1>1, <2>2, SMT
    <3>2. (q + 1) * w = q * w + w /\ (-half) * w = -(half * w)
      BY <1>1, SMT
    <3> QED BY <1>1, <1>2, <3>1, <3>2, SMT
  <2> QED BY <1>1, <2>1, <2>2, SMT
<1>6. t - (q * w + low) \in 0..half - 1
  BY <1>1, <1>2, <1>3, SMT
<1>7. CASE q >= 0
  <2>1. high = q
    BY <1>1, <1>4, <1>5, <1>7, DivisionIs, SMT
  <2>2. (q + 1) * w <= half * w /\ (q + 1) * w = q * w + w
    BY <1>1, <1>5, SMT
  <2>3. ~(both >= half * w)
    BY <1>2, <1>3, <2>1, <2>2, SMT
  <2> QED BY <1>6, <2>1, <2>3
<1>8. CASE q < 0
  <2>1. q = w * (-1) + (q + w) /\ q + w \in 0..w - 1
    BY <1>1, <1>5, <1>8, SMT
  <2>2. high = q + w
    BY <1>1, <1>4, <2>1, DivisionIs, SMT
  <2>3. (q + w) * w >= half * w /\ (q + w) * w = q * w + w * w /\ w * w \in Int
    BY <1>1, <1>5, SMT
  <2>4. both >= half * w /\ both - w * w = q * w + low
    BY <1>2, <1>3, <2>2, <2>3, SMT
  <2> QED BY <1>6, <2>4
<1> QED BY <1>1, <1>7, <1>8, SMT

LEMMA LocalTimesNear == TimeInv => LocalFileTimesAreNear
<1> DEFINE true == Ticks(last.arg, dword) + zone.offset * SecondTicks
<1> SUFFICES ASSUME TimeInv, Returned("FileTimeToLocalFileTime"), dword < Quad,
                    true \in -(Quad \div 2)..Quad \div 2 - 1
             PROVE  true - Ticks(last.result, dword) \in 0..dword \div 2 - 1
  BY DEF LocalFileTimesAreNear
<1>1. /\ last.arg \in FileTimes /\ zone.offset \in Int
      /\ last.result = FileTimeToLocalFileTime(last.arg, dword, zone.offset)
  BY TimeAssumption DEF TimeInv, ConversionFits, Returned
<1>2. dword = Word32 /\ dword \in Int
  BY Widths DEF TimeInv
<1>3. PICK half \in Int : half > 0 /\ Word32 = 2 * half /\ Word32 \div 2 = half
                          /\ Quad \div 2 = half * Word32
  BY Widths
<1>4. zone.offset * MillisPerSecond * TicksPerMilli = zone.offset * SecondTicks
  BY <1>1, Units, SMT DEF SecondTicks
<1>5. Ticks(last.arg, dword) \in Int
  BY <1>1, TicksType DEF TimeInv
<1>6. zone.offset * SecondTicks \in Int
  BY <1>1, Units, SMT
<1>7. true \in Int
  BY <1>5, <1>6
<1> DEFINE low == IF (true \div half) % 2 = 1 THEN half ELSE 0
           high == ((true - low) \div Word32) % Word32
           both == high * Word32 + low
<1>8. last.result = [high |-> high, low |-> low]
  BY <1>1, <1>2, <1>3, <1>4 DEF FileTimeToLocalFileTime
<1>9. Ticks(last.result, dword) = IF both >= half * Word32 THEN both - Word32 * Word32 ELSE both
  BY <1>2, <1>3, <1>8 DEF Ticks, Signed, Quad
<1>10. -(half * Word32) <= true /\ true < half * Word32
  BY <1>2, <1>3, <1>7, SMT
<1> HIDE DEF true
<1>11. true - (IF both >= half * Word32 THEN both - Word32 * Word32 ELSE both) \in 0..half - 1
  BY <1>2, <1>3, <1>7, <1>10, OneBitKept
<1> QED BY <1>2, <1>3, <1>9, <1>11
(* A time before Quad/2 ticks is put together again from its words.        *)
LEMMA WordsOfTicks ==
  ASSUME NEW w \in Builds, NEW T \in Nat, T < Quad \div 2,
         NEW low, low = (T % Quad) % w,
         NEW high, high = (IF w = Quad THEN 0 ELSE (T \div w) % w)
  PROVE  Ticks([high |-> high, low |-> low], w) = T
<1>1. /\ Word32 \in Int /\ Word32 > 1 /\ Quad \in Int /\ Quad > Word32
      /\ w = Word32 \/ w = Quad
  BY Widths
<1>2. T < Quad /\ 0 <= T
  BY <1>1, SMT
<1>3. T % Quad = T
  <2>1. T = Quad * 0 + T /\ T \in 0..Quad - 1 /\ Quad > 0
    BY <1>1, <1>2, SMT
  <2> QED BY <1>1, <2>1, DivisionIs
<1>4. Signed(T) = T
  BY <1>1, SMT DEF Signed
<1>5. CASE w = Quad
  BY <1>1, <1>3, <1>4, <1>5 DEF Ticks
<1>6. CASE w = Word32
  <2>1. w \in Int /\ w > 0 /\ w < Quad /\ w # Quad
    BY <1>1, <1>6, SMT
  <2> DEFINE q == T \div w
             r == T % w
  <2>2. q \in Int /\ r \in 0..w - 1 /\ T = w * q + r
    BY <2>1, Division
  <2> HIDE DEF q, r
  <2>3. q \in 0..w - 1
    <3>1. ASSUME q >= w PROVE FALSE
      <4>1. w * q >= w * w
        BY <2>1, <2>2, <3>1, SMT
      <4> QED BY <1>2, <1>6, <2>1, <2>2, <4>1, SMT DEF Quad
    <3>2. ASSUME q < 0 PROVE FALSE
      <4>1. w * (q + 1) <= 0 /\ w * (q + 1) = w * q + w
        BY <2>1, <2>2, <3>2, SMT
      <4> QED BY <1>2, <2>1, <2>2, <4>1, SMT
    <3> QED BY <2>1, <2>2, <3>1, <3>2, SMT
  <2>4. high = q /\ low = r
    <3>1. q % w = q
      BY <2>1, <2>2, <2>3, SMT
    <3> QED BY <1>3, <2>1, <3>1 DEF q, r
  <2>5. high * w + low = T
    BY <2>1, <2>2, <2>4, SMT
  <2> QED BY <1>4, <2>1, <2>5 DEF Ticks
<1> QED BY <1>1, <1>5, <1>6

LEMMA TimesConvertBack == TimeInv => SystemTimesConvertBack
<1> DEFINE t == last.arg
           T == TicksOf(t)
           high == IF dword = Quad THEN 0 ELSE (T \div dword) % dword
           back == FileTimeToSystemTime([high |-> high, low |-> last.result.low], dword)
<1> SUFFICES ASSUME TimeInv, Returned("SystemTimeToFileTime"),
                    0 <= SecondsOf(t), t.milli < MillisPerSecond,
                    InTimeT(SecondsOf(t)), back # Throws
             PROVE  SecondsOf(back) = SecondsOf(t)
  BY DEF SystemTimesConvertBack
<1>1. /\ t \in SystemTimes /\ last.result # Throws
      /\ last.result = SystemTimeToFileTime(t, dword)
  BY DEF TimeInv, ConversionFits, Returned
<1>2. IsDate(t.day) /\ last.result = [high |-> ((T % Quad) \div 256) % dword,
                                     low |-> (T % Quad) % dword]
  BY <1>1, Zenon DEF SystemTimeToFileTime
<1>3. last.result.low = (T % Quad) % dword
  BY <1>2
<1> DEFINE s == SecondsOf(t)
           rest == t.milli * TicksPerMilli
<1>4. s \in Int /\ t.milli \in Nat
  <2>1. t \in [day : Int, hour : Nat, minute : Nat, second : Nat, milli : Nat]
    BY <1>1, TimeAssumption
  <2> QED BY <2>1 DEF SecondsOf, Day
<1>5. rest \in 0..SecondTicks - 1
  <2>1. rest \in Int /\ rest >= 0
    BY <1>4, Units, SMT
  <2>2. (t.milli + 1) * TicksPerMilli <= MillisPerSecond * TicksPerMilli
    BY <1>4, Units, SMT
  <2>3. (t.milli + 1) * TicksPerMilli = rest + TicksPerMilli
    BY <1>4, Units, SMT
  <2>4. MillisPerSecond * TicksPerMilli = SecondTicks
    BY Units, SMT DEF SecondTicks
  <2> QED BY <2>1, <2>2, <2>3, <2>4, Units, SMT
<1>6. T = SecondTicks * s + rest
  <2>1. s * SecondTicks = SecondTicks * s
    BY <1>4, Units, SMT
  <2> QED BY <2>1 DEF TicksOf
<1> HIDE DEF s, rest
<1>7. T \in Nat /\ T < Quad \div 2
  <2>1. SecondTicks * s >= 0 /\ SecondTicks * s \in Int
    BY <1>4, Units, SMT DEF s
  <2> QED BY <1>1, <1>2, <1>5, <1>6, <2>1, TimeAssumption, SMT
<1>8. T \div SecondTicks = s
  BY <1>4, <1>5, <1>6, Units, DivisionIs
<1>9. Quotient(T, SecondTicks) = s
  BY <1>7, <1>8 DEF Quotient
<1> HIDE DEF T
<1>10. Ticks([high |-> high, low |-> last.result.low], dword) = T
  BY <1>3, <1>7, WordsOfTicks DEF TimeInv
<1>11. Quotient(Ticks([high |-> high, low |-> last.result.low], dword), SecondTicks) = s
  BY <1>9, <1>10
<1>12. IsTimeT(s - EpochDays * Day, dword) /\ dword \in Builds
  BY DEF InTimeT, TimeInv, s
<1> HIDE DEF high
<1>13. SecondsOf(back) = s
  BY <1>4, <1>11, <1>12, SystemTimeOfSecond
<1> QED BY <1>13 DEF s

(* The difference of two counts modulo w is that of the milliseconds.      *)
LEMMA WrapsOnce ==
  ASSUME NEW from \in Nat, NEW till \in Nat, from <= till, NEW m \in Int, m > 0,
         NEW w \in Int, w > 0, till - from < (w - 1) * m
  PROVE  (((till \div m) % w) - ((from \div m) % w)) % w \in (till - from) \div m .. (till - from) \div m + 1
<1> DEFINE x == from \div m
           xr == from % m
           y == till \div m
           yr == till % m
           e == (till - from) \div m
           er == (till - from) % m
<1>1. /\ x \in Int /\ xr \in 0..m - 1 /\ from = m * x + xr
      /\ y \in Int /\ yr \in 0..m - 1 /\ till = m * y + yr
  BY Division
<1>2. e \in Int /\ er \in 0..m - 1 /\ till - from = m * e + er
  BY Division, till - from \in Int
<1> HIDE DEF x, xr, y, yr, e, er
<1> DEFINE d == y - x
<1>3. m * d = m * y - m * x /\ m * d \in Int
  BY <1>1, SMT
<1>4. d \in e..e + 1
  <2>1. ASSUME d < e PROVE FALSE
    <3>1. m * (d + 1) <= m * e /\ m * (d + 1) = m * d + m
      BY <1>1, <1>2, <2>1, SMT
    <3> QED BY <1>1, <1>2, <1>3, <3>1, SMT
  <2>2. ASSUME d > e + 1 PROVE FALSE
    <3>1. m * d >= m * (e + 2) /\ m * (e + 2) = m * e + m + m
      BY <1>1, <1>2, <2>2, SMT
    <3> QED BY <1>1, <1>2, <1>3, <3>1, SMT
  <2> QED BY <1>1, <1>2, <2>1, <2>2, SMT
<1>5. 0 <= e /\ e < w - 1
  <2>1. ASSUME e < 0 PROVE FALSE
    <3>1. m * (e + 1) <= 0 /\ m * (e + 1) = m * e + m
      BY <1>2, <2>1, SMT
    <3> QED BY <1>2, <3>1, SMT
  <2>2. ASSUME e >= w - 1 PROVE FALSE
    <3>1. m * e >= m * (w - 1) /\ m * (w - 1) = (w - 1) * m
      BY <1>2, <2>2, SMT
    <3> QED BY <1>2, <3>1, SMT
  <2> QED BY <1>2, <2>1, <2>2, SMT
<1> DEFINE p == x \div w
           u == x % w
           q == y \div w
           v == y % w
<1>6. /\ p \in Int /\ u \in 0..w - 1 /\ x = w * p + u
      /\ q \in Int /\ v \in 0..w - 1 /\ y = w * q + v
  BY <1>1, Division
<1> HIDE DEF p, u, q, v
<1>7. v - u = w * (p - q) + d
  <2>1. w * (p - q) = w * p - w * q
    BY <1>6, SMT
  <2> QED BY <1>1, <1>6, <2>1, SMT
<1>8. (v - u) % w = d
  <2>1. d \in 0..w - 1 /\ p - q \in Int /\ v - u \in Int
    BY <1>2, <1>4, <1>5, <1>6, SMT
  <2> QED BY <1>7, <2>1, DivisionIs
<1> QED BY <1>4, <1>8 DEF x, y, e, u, v

(* Counts of nanoseconds make milliseconds whatever from second is.           *)
LEMMA FactorCancels ==
  ASSUME NEW d \in Nat, NEW m \in Int, m > 0, NEW factor \in Int, factor > 0
  PROVE  (d * factor) \div (m * factor) = d \div m
<1> DEFINE e == d \div m
           r == d % m
<1>1. e \in Int /\ r \in 0..m - 1 /\ d = m * e + r
  BY Division, d \in Int
<1> HIDE DEF e, r
<1>2. d * factor = (m * factor) * e + r * factor
  BY <1>1, SMT
<1>3. r * factor \in 0..(m * factor) - 1
  <2>1. r * factor \in Int /\ r * factor >= 0
    BY <1>1, SMT
  <2>2. (r + 1) * factor <= m * factor /\ (r + 1) * factor = r * factor + factor
    BY <1>1, SMT
  <2> QED BY <2>1, <2>2, SMT
<1>4. m * factor \in Int /\ m * factor > 0 /\ d * factor \in Int
  BY ProductOfPositives, SMT
<1> QED BY <1>1, <1>2, <1>3, <1>4, DivisionIs DEF e

LEMMA TicksMeasure == TimeInv => TicksMeasureTime
<1> SUFFICES ASSUME TimeInv PROVE TicksMeasureTime
  OBVIOUS
<1>1. dword \in Int /\ dword > 0
  BY Widths DEF TimeInv
<1>2. ASSUME last.op = "TicksSince", last.at - last.arg.at < (dword - 1) * MilliNs
      PROVE  last.result \in Quotient(last.at - last.arg.at, MilliNs)
                             .. Quotient(last.at - last.arg.at, MilliNs) + 1
  <2>1. /\ Since
        /\ last.result = (TickCount(last.at, dword) - TickCount(last.arg.at, dword)) % dword
    BY <1>2 DEF TimeInv, DifferenceFits
  <2> DEFINE from == last.arg.at
             till == last.at
  <2>2. from \in Nat /\ till \in Nat /\ from <= till
    BY <2>1 DEF Since
  <2>3. last.result = (((till \div MilliNs) % dword) - ((from \div MilliNs) % dword)) % dword
    BY <2>1 DEF TickCount
  <2> HIDE DEF from, till
  <2>4. till - from < (dword - 1) * MilliNs
    BY <1>2 DEF from, till
  <2>5. last.result \in (till - from) \div MilliNs .. (till - from) \div MilliNs + 1
    BY <1>1, <2>2, <2>3, <2>4, Units, WrapsOnce
  <2>6. Quotient(till - from, MilliNs) = (till - from) \div MilliNs
    BY <2>2, SMT DEF Quotient
  <2> QED BY <2>5, <2>6 DEF from, till
<1>3. ASSUME last.op = "CountsSince"
      PROVE  last.result = (last.at - last.arg.at) \div MilliNs
  <2>1. Since /\ last.result = ((last.at - last.arg.at) * MillisPerSecond) \div SecondNs
    BY <1>3 DEF TimeInv, DifferenceFits
  <2> DEFINE d == last.at - last.arg.at
  <2>2. d \in Nat
    BY <2>1 DEF Since
  <2> HIDE DEF d
  <2>3. (d * MillisPerSecond) \div (MilliNs * MillisPerSecond) = d \div MilliNs
    BY <2>2, Units, FactorCancels
  <2> QED BY <2>1, <2>3, Units DEF d
<1> QED BY <1>2, <1>3 DEF TicksMeasureTime

LEMMA TimeInvImplies == TimeInv => TimesSurvive
BY SecondKept, TimesConvertBack, LocalTimesNear, TicksMeasure, SetBack DEF TimesSurvive

-----------------------------------------------------------------------------
(* The empty mask is one of every mask.                                    *)
LEMMA MaskedHasZero ==
  ASSUME NEW m \in Nat
  PROVE  Masked(m) \subseteq 0..m /\ 0 \in Masked(m)
<1>1. ASSUME NEW p \in PowersOfTwo(m) PROVE Bit(0, p) <= Bit(m, p)
  <2>1. p \in Int /\ p > 0
    BY DEF PowersOfTwo
  <2>2. 0 \div p = 0
    BY <2>1, SMT
  <2>3. (m \div p) % 2 \in 0..1
    BY <2>1, SMT
  <2> QED BY <2>2, <2>3 DEF Bit
<1> QED BY <1>1 DEF Masked

LEMMA Sizes ==
  /\ BLOCK \in Nat \ {0} /\ FILE_BLOCKS \in Nat \ {0} /\ WRITE_SIZE \in Nat \ {0}
  /\ Batches \in Nat \ {0} /\ Rows \in Nat \ {0}
BY CheckerAssumption

(* A block at a masked offset lies in the file; one of the offsets is 0.   *)
LEMMA OffsetsFit ==
  ASSUME asserts
  PROVE  /\ 0 \in Offsets
         /\ \A ofs \in Offsets, n \in 1..BLOCK : ofs \in Nat /\ ofs + n <= BLOCK * FILE_BLOCKS
<1>1. FILE_BLOCKS - 1 \in Nat
  BY Sizes
<1>2. BLOCK * 0 = 0
  BY Sizes
<1>3. 0 \in Offsets
  BY <1>1, <1>2, MaskedHasZero DEF Offsets
<1>4. ASSUME NEW ofs \in Offsets, NEW n \in 1..BLOCK
      PROVE  ofs \in Nat /\ ofs + n <= BLOCK * FILE_BLOCKS
  <2>1. PICK q \in 0..FILE_BLOCKS - 1 : ofs = BLOCK * q
    BY <1>1, MaskedHasZero DEF Offsets
  <2>2. BLOCK * (q + 1) <= BLOCK * FILE_BLOCKS /\ BLOCK * (q + 1) = BLOCK * q + BLOCK
    BY <2>1, Sizes, SMT
  <2>3. BLOCK * q \in Nat
    BY <2>1, Sizes, SMT
  <2>4. BLOCK * FILE_BLOCKS \in Nat
    BY Sizes, SMT
  <2> QED BY <2>1, <2>2, <2>3, <2>4, Sizes, SMT
<1> QED BY <1>3, <1>4

-----------------------------------------------------------------------------
(* The loops of FileWriteRead: at most one block beyond WRITE_SIZE; without *)
(* assertions position and count go together, and what was written in a    *)
(* row can be read in a row.                                               *)
FileFits(checks, pl, f) ==
  /\ f \in [size : Nat, pos : Nat, i : Nat]
  /\ checks => f.size <= BLOCK * FILE_BLOCKS
  /\ pl \in {"write", "reopen"} => f.i < WRITE_SIZE + BLOCK
  /\ pl = "write" => f.i = 0 \/ f.size > 0
  /\ pl = "reopen" => f.i >= WRITE_SIZE
  /\ pl \in {"reopen", "read"} => f.size > 0
  /\ ~checks =>
       /\ pl \in {"write", "read"} => f.pos = f.i
       /\ pl \in {"write", "reopen"} => f.i <= f.size
       /\ pl = "read" => WRITE_SIZE <= f.size

(* What the databases' symbols and the null pointers have to do with each  *)
(* other.                                                                  *)
SymbolsFit(lacks, pl, bad) ==
  /\ pl \in {"opendb", "drop", "create", "begin", "insert", "end"} => "open" \notin lacks
  /\ bad => "open" \notin lacks /\ lacks # {}

DbType ==
  [table : BOOLEAN, rows : [Prices -> Nat], pending : [Prices -> Nat], told : [Prices -> Nat],
   open : BOOLEAN, next : 0..Batches * Rows, clean : BOOLEAN, kept : BOOLEAN, ended : BOOLEAN]

(* The account of one price, from the dropping of the old table on.        *)
Account(rows, pending, told, new, kept) ==
  /\ rows + pending <= told /\ told <= 1
  /\ new => told = 0
  /\ kept => rows + pending = told

DbFits(pl, d) ==
  /\ d \in DbType
  /\ ~d.open => \A p \in Prices : d.pending[p] = 0
  /\ pl = "drop" =>
       /\ \A p \in Prices : d.told[p] = 0
       /\ ~d.table => \A p \in Prices : d.rows[p] = 0
  /\ pl \in {"drop", "create"} => ~d.open
  /\ pl \in {"create", "begin", "insert", "end"} /\ d.clean =>
       \A p \in Prices : Account(d.rows[p], d.pending[p], d.told[p], p >= d.next, d.kept)
  /\ pl = "begin" /\ d.ended => ~d.open
  /\ pl = "insert" => d.next < Batches * Rows

CheckerInv ==
  /\ asserts \in BOOLEAN
  /\ FileFits(asserts, place, file)
  /\ SymbolsFit(missing, place, crashed)
  /\ DbFits(place, db)

LEMMA NothingOpen ==
  ASSUME NEW checks, NEW pl, pl \in {"start", "unloaded", "opendb"}
  PROVE  FileFits(checks, pl, NoFile) /\ DbFits(pl, NoDb)
<1>0. 0 <= BLOCK * FILE_BLOCKS /\ 0 <= Batches * Rows /\ Batches * Rows \in Int
  BY Sizes, SMT
<1>1. NoFile \in [size : Nat, pos : Nat, i : Nat] /\ NoFile.size = 0
  BY DEF NoFile
<1>2. FileFits(checks, pl, NoFile)
  BY <1>0, <1>1 DEF FileFits
<1>3. NoRows \in [Prices -> Nat] /\ \A p \in Prices : NoRows[p] = 0
  BY DEF NoRows
<1> HIDE DEF NoRows
<1>4. NoDb \in DbType /\ NoDb.pending = NoRows
  BY <1>0, <1>3 DEF NoDb, DbType
<1>5. DbFits(pl, NoDb)
  BY <1>3, <1>4 DEF DbFits
<1> QED BY <1>2, <1>5
LEMMA CheckerInvInit == CheckerInit \/ (asserts = FALSE /\ missing = {} /\ place = "start"
                                       /\ file = NoFile /\ db = NoDb /\ crashed = FALSE)
                        => CheckerInv
<1> SUFFICES ASSUME asserts \in BOOLEAN, place = "start", file = NoFile, db = NoDb, crashed = FALSE
             PROVE  CheckerInv
  BY DEF CheckerInit
<1>1. SymbolsFit(missing, place, crashed)
  BY DEF SymbolsFit
<1> QED BY <1>1, NothingOpen DEF CheckerInv

(* Steps after which no file and no database is at hand.                   *)
LEMMA ReturnStep ==
  ASSUME CheckerInv, Return, UNCHANGED buildVars
  PROVE  CheckerInv'
<1>1. /\ asserts' = asserts /\ missing' = missing /\ place' = "start"
      /\ file' = NoFile /\ db' = NoDb /\ crashed' = crashed
  BY DEF Return, buildVars
<1>2. FileFits(asserts', place', file') /\ DbFits(place', db')
  BY <1>1, NothingOpen
<1>3. SymbolsFit(missing', place', crashed')
  BY <1>1 DEF CheckerInv, SymbolsFit
<1> QED BY <1>1, <1>2, <1>3 DEF CheckerInv

(* A step in a file, and one in a database.                                *)
LEMMA FileStep ==
  ASSUME CheckerInv, UNCHANGED <<buildVars, db, crashed>>,
         place' \in {"write", "reopen", "read"}, FileFits(asserts, place', file')
  PROVE  CheckerInv'
<1>1. SymbolsFit(missing', place', crashed') /\ asserts' = asserts
  BY DEF CheckerInv, SymbolsFit, buildVars
<1>2. DbFits(place', db')
  BY DEF CheckerInv, DbFits
<1> QED BY <1>1, <1>2 DEF CheckerInv

LEMMA DbStep ==
  ASSUME CheckerInv, UNCHANGED <<buildVars, file, crashed>>,
         place' \in {"unloaded", "opendb", "drop", "create", "begin", "insert", "end"},
         place' # "unloaded" => "open" \notin missing,
         DbFits(place', db')
  PROVE  CheckerInv'
<1>1. SymbolsFit(missing', place', crashed') /\ asserts' = asserts
  BY DEF CheckerInv, SymbolsFit, buildVars
<1>2. FileFits(asserts', place', file')
  BY DEF CheckerInv, FileFits, buildVars
<1> QED BY <1>1, <1>2 DEF CheckerInv

LEMMA CrashStep ==
  ASSUME CheckerInv, NEW symbols, CallNull(symbols), place \in {"opendb", "drop"}
  PROVE  CheckerInv'
<1>1. SymbolsFit(missing', place', crashed') /\ asserts' = asserts
  BY DEF CheckerInv, SymbolsFit, buildVars, CallNull
<1>2. FileFits(asserts', place', file') /\ DbFits(place', db')
  BY <1>1 DEF CheckerInv, CallNull
<1> QED BY <1>1, <1>2 DEF CheckerInv
-----------------------------------------------------------------------------
(* FileWriteRead's steps.                                                  *)
LEMMA OpenToWriteStep == CheckerInv /\ OpenToWrite => CheckerInv'
<1> SUFFICES ASSUME CheckerInv, OpenToWrite PROVE CheckerInv'
  OBVIOUS
<1>1. PICK size \in 0..BLOCK * FILE_BLOCKS : file' = [NoFile EXCEPT !.size = size]
  BY DEF OpenToWrite
<1>2. size \in Nat /\ size <= BLOCK * FILE_BLOCKS
  BY <1>1, Sizes, SMT
<1>3. file' = [size |-> size, pos |-> 0, i |-> 0]
  BY <1>1 DEF NoFile
<1>4. place' = "write" /\ UNCHANGED <<buildVars, db, crashed>>
  BY DEF OpenToWrite, Go
<1>5. FileFits(asserts, place', file')
  BY <1>2, <1>3, <1>4, Sizes DEF FileFits
<1> QED BY <1>4, <1>5, FileStep

LEMMA WriteBlockStep == CheckerInv /\ WriteBlock => CheckerInv'
<1> SUFFICES ASSUME CheckerInv, WriteBlock PROVE CheckerInv'
  OBVIOUS
<1>1. PICK ofs \in Offsets, n \in 1..BLOCK :
        file' = [size |-> Larger(file.size, ofs + n), pos |-> ofs + n, i |-> file.i + n]
  BY DEF WriteBlock
<1>2. /\ place = "write" /\ file.i < WRITE_SIZE
      /\ file.size \in Nat /\ file.pos \in Nat /\ file.i \in Nat
      /\ asserts => file.size <= BLOCK * FILE_BLOCKS
      /\ ~asserts => file.pos = file.i /\ file.i <= file.size
  BY Sizes DEF WriteBlock, LoopEnds, CheckerInv, FileFits
<1>3. /\ ofs \in Nat /\ n \in Nat /\ n > 0 /\ n <= BLOCK
      /\ asserts => ofs + n <= BLOCK * FILE_BLOCKS
      /\ ~asserts => ofs = file.pos
  BY <1>1, <1>2, OffsetsFit, Sizes DEF Offsets
<1>4. place' = "write" /\ UNCHANGED <<buildVars, db, crashed>>
  BY DEF WriteBlock, Go
<1> DEFINE top == Larger(file.size, ofs + n)
<1>5. /\ top \in Nat /\ top >= ofs + n /\ top >= file.size
      /\ asserts => top <= BLOCK * FILE_BLOCKS
  BY <1>2, <1>3 DEF Larger
<1> HIDE DEF top
<1>6. file' = [size |-> top, pos |-> ofs + n, i |-> file.i + n]
  BY <1>1 DEF top
<1>7. FileFits(asserts, place', file')
  BY <1>2, <1>3, <1>4, <1>5, <1>6, Sizes DEF FileFits
<1> QED BY <1>4, <1>7, FileStep

LEMMA CloseWrittenStep == CheckerInv /\ CloseWritten => CheckerInv'
<1> SUFFICES ASSUME CheckerInv, CloseWritten PROVE CheckerInv'
  OBVIOUS
<1>1. place = "write" /\ file.i >= WRITE_SIZE /\ place' = "reopen" /\ file' = file
      /\ UNCHANGED <<buildVars, db, crashed>>
  BY DEF CloseWritten, LoopEnds, Go
<1>2. FileFits(asserts, place', file')
  BY <1>1, Sizes DEF FileFits, CheckerInv
<1> QED BY <1>1, <1>2, FileStep

LEMMA ReopenStep == CheckerInv /\ Reopen => CheckerInv'
<1> SUFFICES ASSUME CheckerInv, Reopen PROVE CheckerInv'
  OBVIOUS
<1>1. place = "reopen" /\ place' = "read" /\ file' = [file EXCEPT !.pos = 0, !.i = 0]
      /\ UNCHANGED <<buildVars, db, crashed>>
  BY DEF Reopen, Go
<1>2. file' = [size |-> file.size, pos |-> 0, i |-> 0]
  BY <1>1 DEF CheckerInv, FileFits
<1>3. FileFits(asserts, place', file')
  BY <1>1, <1>2, Sizes DEF FileFits, CheckerInv
<1> QED BY <1>1, <1>3, FileStep

LEMMA ReadBlockStep == CheckerInv /\ ReadBlock => CheckerInv'
<1> SUFFICES ASSUME CheckerInv, ReadBlock PROVE CheckerInv'
  OBVIOUS
<1>1. PICK ofs \in Readable, n \in 1..BLOCK :
        ofs + n <= file.size /\ file' = [file EXCEPT !.pos = ofs + n, !.i = @ + n]
  BY DEF ReadBlock
<1>2. place = "read" /\ place' = "read" /\ UNCHANGED <<buildVars, db, crashed>>
  BY DEF ReadBlock, Go
<1>3. file \in [size : Nat, pos : Nat, i : Nat]
  BY DEF CheckerInv, FileFits
<1>4. file' = [size |-> file.size, pos |-> ofs + n, i |-> file.i + n]
  BY <1>1, <1>3
<1>5. ofs \in Offsets /\ n \in Nat
  BY <1>1, Sizes DEF Readable
<1>6. ofs \in Nat /\ (~asserts => ofs = file.pos)
  BY <1>3, <1>5, OffsetsFit, <1>1 DEF Offsets
<1>7. FileFits(asserts, place', file')
  BY <1>2, <1>3, <1>4, <1>5, <1>6, Sizes DEF FileFits, CheckerInv
<1> QED BY <1>2, <1>7, FileStep

-----------------------------------------------------------------------------
(* Sqlite3Insert's steps.                                                  *)
LEMMA LoadStep == CheckerInv /\ Load => CheckerInv'
<1> SUFFICES ASSUME CheckerInv, Load PROVE CheckerInv'
  OBVIOUS
<1>1. PICK found \in BOOLEAN :
        place' = IF GetProcAddressWrap(found, "open") THEN "opendb" ELSE "unloaded"
  BY DEF Load
<1>2. UNCHANGED <<buildVars, file, crashed>> /\ db' = db
  BY DEF Load
<1>3. /\ place' \in {"unloaded", "opendb"}
      /\ place' # "unloaded" => "open" \notin missing
  BY <1>1 DEF GetProcAddressWrap
<1>4. DbFits(place', db')
  BY <1>2, <1>3 DEF CheckerInv, DbFits
<1> QED BY <1>2, <1>3, <1>4, DbStep

LEMMA OpenDbStep == CheckerInv /\ OpenDb => CheckerInv'
<1> SUFFICES ASSUME CheckerInv, OpenDb PROVE CheckerInv'
  OBVIOUS
<1>1. PICK b \in BOOLEAN :
        db' = [NoDb EXCEPT !.table = b, !.rows = [p \in Prices |-> IF b THEN 1 ELSE 0]]
  BY DEF OpenDb
<1>2. place = "opendb" /\ place' = "drop" /\ UNCHANGED <<buildVars, file, crashed>>
  BY DEF OpenDb, Go
<1> DEFINE rows == [p \in Prices |-> IF b THEN 1 ELSE 0]
<1>3. rows \in [Prices -> Nat] /\ (~b => \A p \in Prices : rows[p] = 0)
  OBVIOUS
<1> HIDE DEF rows
<1>4. NoRows \in [Prices -> Nat] /\ \A p \in Prices : NoRows[p] = 0
  BY DEF NoRows
<1>5. 0 \in 0..Batches * Rows
  BY Sizes, SMT
<1>6. db' = [table |-> b, rows |-> rows, pending |-> NoRows, told |-> NoRows, open |-> FALSE,
             next |-> 0, clean |-> TRUE, kept |-> TRUE, ended |-> TRUE]
  BY <1>1 DEF NoDb, rows
<1>7. db' \in DbType
  BY <1>3, <1>4, <1>5, <1>6 DEF DbType
<1>8. DbFits(place', db')
  BY <1>2, <1>3, <1>4, <1>6, <1>7 DEF DbFits
<1>9. "open" \notin missing
  BY <1>2 DEF CheckerInv, SymbolsFit
<1> QED BY <1>2, <1>8, <1>9, DbStep

(* Exec moves on in the database.                                          *)
LEMMA ExecStep ==
  ASSUME CheckerInv, NEW at, NEW to, Exec(at, to),
         at \in {"drop", "create", "begin", "insert", "end"},
         to \in {"drop", "create", "begin", "insert", "end"},
         DbFits(to, db')
  PROVE  CheckerInv'
<1>1. place = at /\ place' = to /\ UNCHANGED <<buildVars, file, crashed>>
  BY DEF Exec, Go
<1>2. "open" \notin missing
  BY <1>1 DEF CheckerInv, SymbolsFit
<1> QED BY <1>1, <1>2, DbStep
LEMMA DbFields ==
  ASSUME NEW d \in DbType
  PROVE  /\ d.table \in BOOLEAN /\ d.open \in BOOLEAN /\ d.clean \in BOOLEAN
         /\ d.kept \in BOOLEAN /\ d.ended \in BOOLEAN
         /\ d.rows \in [Prices -> Nat] /\ d.pending \in [Prices -> Nat]
         /\ d.told \in [Prices -> Nat] /\ d.next \in 0..Batches * Rows
BY DEF DbType

LEMMA NoRowsAtAll == NoRows \in [Prices -> Nat] /\ \A p \in Prices : NoRows[p] = 0
BY DEF NoRows

LEMMA DropStep == CheckerInv /\ Drop => CheckerInv'
<1> SUFFICES ASSUME CheckerInv, Drop PROVE CheckerInv'
  OBVIOUS
<1>1. place = "drop" /\ Exec("drop", "create")
  BY DEF Drop, Exec
<1>2. /\ db \in DbType /\ ~db.open
      /\ \A p \in Prices : db.pending[p] = 0 /\ db.told[p] = 0
      /\ ~db.table => \A p \in Prices : db.rows[p] = 0
  BY <1>1 DEF CheckerInv, DbFits
<1>3. CASE db' = [db EXCEPT !.table = FALSE, !.rows = NoRows]
  <2>1. db' \in DbType /\ db'.rows = NoRows /\ db'.pending = db.pending /\ db'.told = db.told
        /\ db'.open = db.open
    BY <1>2, <1>3, NoRowsAtAll DEF DbType
  <2>2. DbFits("create", db')
    BY <1>2, <2>1, NoRowsAtAll DEF DbFits, Account
  <2> QED BY <1>1, <2>2, ExecStep
<1>4. CASE db' = [db EXCEPT !.clean = ~db.table]
  <2>1. PICK c \in BOOLEAN : c = ~db.table
    BY <1>2, DbFields
  <2>2. db' = [db EXCEPT !.clean = c]
    BY <1>4, <2>1
  <2>3. /\ db' \in DbType /\ db'.rows = db.rows /\ db'.pending = db.pending
        /\ db'.told = db.told /\ db'.open = db.open /\ db'.clean = c
    BY <1>2, <2>2 DEF DbType
  <2>4. db'.clean => \A p \in Prices : db'.rows[p] = 0
    BY <1>2, <2>1, <2>3
  <2>5. /\ ~db'.open /\ \A p \in Prices : db'.pending[p] = 0 /\ db'.told[p] = 0
    BY <1>2, <2>3
  <2>6. DbFits("create", db')
    BY <2>3, <2>4, <2>5 DEF DbFits, Account
  <2> QED BY <1>1, <2>6, ExecStep
<1> QED BY <1>3, <1>4 DEF Drop

LEMMA CreateStep == CheckerInv /\ Create => CheckerInv'
<1> SUFFICES ASSUME CheckerInv, Create PROVE CheckerInv'
  OBVIOUS
<1>1. place = "create" /\ Exec("create", "begin")
  BY DEF Create, Exec
<1>2. DbFits("create", db) /\ db \in DbType
  BY <1>1 DEF CheckerInv, DbFits
<1>3. /\ db' \in DbType /\ db'.rows = db.rows /\ db'.pending = db.pending
      /\ db'.told = db.told /\ db'.open = db.open /\ db'.clean = db.clean
      /\ db'.next = db.next /\ db'.kept = db.kept
  BY <1>2 DEF Create, DbType
<1>4. DbFits("begin", db')
  BY <1>2, <1>3 DEF DbFits
<1> QED BY <1>1, <1>4, ExecStep

LEMMA BeginStep == CheckerInv /\ Begin => CheckerInv'
<1> SUFFICES ASSUME CheckerInv, Begin PROVE CheckerInv'
  OBVIOUS
<1>1. place = "begin" /\ Exec("begin", "insert") /\ db.next < Batches * Rows
  BY DEF Begin, Exec
<1>2. DbFits("begin", db) /\ db \in DbType
  BY <1>1 DEF CheckerInv, DbFits
<1>3. /\ db' \in DbType /\ db'.rows = db.rows /\ db'.pending = db.pending
      /\ db'.told = db.told /\ (db.open => db'.open) /\ db'.clean = db.clean
      /\ db'.next = db.next /\ db'.kept = db.kept
  BY <1>2 DEF Begin, DbType
<1>4. DbFits("insert", db')
  BY <1>1, <1>2, <1>3 DEF DbFits
<1> QED BY <1>1, <1>4, ExecStep

(* An insertion takes the next price, reported or not.                     *)
LEMMA InsertFits ==
  ASSUME NEW d \in DbType, DbFits("insert", d), NEW e \in DbType, NEW to \in {"insert", "end"},
         e.next = d.next + 1, e.clean = d.clean,
         to = "insert" => e.next < Batches * Rows,
         ~e.open => \A p \in Prices : e.pending[p] = 0,
         \A p \in Prices :
           \/ /\ e.rows[p] + e.pending[p] <= d.rows[p] + d.pending[p]
              /\ e.told[p] = d.told[p]
              /\ e.kept => d.kept /\ e.rows[p] + e.pending[p] = d.rows[p] + d.pending[p]
           \/ /\ p = d.next /\ e.kept = d.kept
              /\ e.rows[p] + e.pending[p] = d.rows[p] + d.pending[p] + 1
              /\ e.told[p] = d.told[p] + 1
  PROVE  DbFits(to, e)
<1>1. ASSUME NEW p \in Prices, e.clean
      PROVE  Account(e.rows[p], e.pending[p], e.told[p], p >= e.next, e.kept)
  <2>1. Account(d.rows[p], d.pending[p], d.told[p], p >= d.next, d.kept)
    BY <1>1 DEF DbFits
  <2>2. /\ d.rows[p] \in Nat /\ d.pending[p] \in Nat /\ d.told[p] \in Nat /\ d.next \in Nat
        /\ e.rows[p] \in Nat /\ e.pending[p] \in Nat /\ e.told[p] \in Nat /\ p \in Int
    BY Sizes DEF DbType, Prices
  <2> QED BY <2>1, <2>2 DEF Account
<1> QED BY <1>1 DEF DbFits

LEMMA LastOfABatch ==
  ASSUME NEW n \in 0..Batches * Rows, n < Batches * Rows, (n + 1) % Rows # 0
  PROVE  n + 1 < Batches * Rows
<1>1. Batches * Rows \in Nat /\ Batches * Rows = Rows * Batches
  BY Sizes, SMT
<1>2. (Batches * Rows) % Rows = 0
  BY <1>1, Sizes, SMTT(30)
<1>3. n + 1 # Batches * Rows
  BY <1>2
<1> QED BY <1>1, <1>3, SMT

LEMMA InsertStep == CheckerInv /\ Insert => CheckerInv'
<1> SUFFICES ASSUME CheckerInv, Insert PROVE CheckerInv'
  OBVIOUS
<1> DEFINE to == IF (db.next + 1) % Rows = 0 THEN "end" ELSE "insert"
           p == db.next
           n == [db EXCEPT !.next = @ + 1]
<1>1. place = "insert" /\ Exec("insert", to)
  BY DEF Insert, Exec
<1>2. DbFits("insert", db) /\ db \in DbType /\ p < Batches * Rows
  BY <1>1 DEF CheckerInv, DbFits
<1>3. Batches * Rows \in Nat /\ p \in 0..Batches * Rows
  BY <1>2, Sizes, SMT DEF DbType
<1>4. p \in Prices /\ p + 1 \in 0..Batches * Rows
  BY <1>2, <1>3 DEF Prices
<1>5. to \in {"insert", "end"} /\ (to = "insert" => p + 1 < Batches * Rows)
  BY <1>2, <1>3, LastOfABatch
<1> HIDE DEF to
<1>6. /\ n \in DbType /\ n.next = p + 1 /\ n.clean = db.clean /\ n.kept = db.kept
      /\ n.rows = db.rows /\ n.pending = db.pending /\ n.told = db.told /\ n.open = db.open
      /\ n.table = db.table /\ n.ended = db.ended
  BY <1>2, <1>4 DEF DbType
<1>7. ~db.open => \A q \in Prices : db.pending[q] = 0
  BY <1>2 DEF DbFits
<1> SUFFICES DbFits(to, db')
  BY <1>1, <1>5, ExecStep
<1>8. CASE db' = n
  <2>1. /\ db' \in DbType /\ db'.next = p + 1 /\ db'.clean = db.clean /\ db'.kept = db.kept
        /\ db'.rows = db.rows /\ db'.pending = db.pending /\ db'.told = db.told
        /\ db'.open = db.open
    BY <1>6, <1>8
  <2> HIDE DEF n
  <2>2. \A q \in Prices : db.rows[q] + db.pending[q] <= db.rows[q] + db.pending[q]
    BY <1>2 DEF DbType
  <2> QED BY <1>2, <1>5, <1>7, <2>1, <2>2, InsertFits
<1>9. CASE db' = RolledBack(n)
  <2>1. CASE n.open
    <3>1. db' = [n EXCEPT !.open = FALSE, !.pending = NoRows, !.kept = FALSE]
      BY <1>9, <2>1 DEF RolledBack
    <3>2. /\ db' \in DbType /\ db'.next = p + 1 /\ db'.clean = db.clean /\ db'.kept = FALSE
          /\ db'.rows = db.rows /\ db'.pending = NoRows /\ db'.told = db.told
      BY <1>6, <3>1, NoRowsAtAll DEF DbType
    <3>3. \A q \in Prices : db'.rows[q] + db'.pending[q] <= db.rows[q] + db.pending[q]
      BY <1>2, <3>2, NoRowsAtAll DEF DbType
    <3> QED BY <1>2, <1>5, <3>2, <3>3, NoRowsAtAll, InsertFits
  <2>2. CASE ~n.open
    BY <1>8, <1>9, <2>2 DEF RolledBack
  <2> QED BY <2>1, <2>2
<1> HIDE DEF n
<1>10. CASE db.open /\ db' = [n EXCEPT !.pending[p] = @ + 1, !.told[p] = @ + 1]
  <2> DEFINE pending == [db.pending EXCEPT ![p] = @ + 1]
             told == [db.told EXCEPT ![p] = @ + 1]
  <2>1. pending \in [Prices -> Nat] /\ told \in [Prices -> Nat]
    BY <1>2, <1>4 DEF DbType
  <2>2. db' = [n EXCEPT !.pending = pending, !.told = told]
    BY <1>6, <1>10 DEF DbType
  <2>3. \A q \in Prices : /\ q # p => pending[q] = db.pending[q] /\ told[q] = db.told[q]
                          /\ q = p => pending[q] = db.pending[q] + 1 /\ told[q] = db.told[q] + 1
    BY <1>2, <1>4 DEF DbType
  <2> HIDE DEF pending, told
  <2>4. /\ db' \in DbType /\ db'.next = p + 1 /\ db'.clean = db.clean /\ db'.kept = db.kept
        /\ db'.rows = db.rows /\ db'.pending = pending /\ db'.told = told /\ db'.open
    BY <1>6, <1>10, <2>1, <2>2 DEF DbType
  <2>5. \A q \in Prices : db.rows[q] \in Nat /\ db.pending[q] \in Nat
    BY <1>2 DEF DbType
  <2>6. \A q \in Prices :
          \/ db'.pending[q] = db.pending[q] /\ db'.told[q] = db.told[q]
          \/ q = p /\ db'.rows[q] + db'.pending[q] = db.rows[q] + db.pending[q] + 1
                   /\ db'.told[q] = db.told[q] + 1
    BY <2>3, <2>4, <2>5
  <2>7. \A q \in Prices :
           \/ /\ db'.rows[q] + db'.pending[q] <= db.rows[q] + db.pending[q]
              /\ db'.told[q] = db.told[q]
              /\ db'.kept => db.kept /\ db'.rows[q] + db'.pending[q] = db.rows[q] + db.pending[q]
           \/ /\ q = p /\ db'.kept = db.kept
              /\ db'.rows[q] + db'.pending[q] = db.rows[q] + db.pending[q] + 1
              /\ db'.told[q] = db.told[q] + 1
    BY <2>4, <2>5, <2>6
  <2> QED BY <1>2, <1>5, <2>4, <2>7, InsertFits
<1>11. CASE ~db.open /\ db' = [n EXCEPT !.rows[p] = @ + 1, !.told[p] = @ + 1]
  <2> DEFINE rows == [db.rows EXCEPT ![p] = @ + 1]
             told == [db.told EXCEPT ![p] = @ + 1]
  <2>1. rows \in [Prices -> Nat] /\ told \in [Prices -> Nat]
    BY <1>2, <1>4 DEF DbType
  <2>2. db' = [n EXCEPT !.rows = rows, !.told = told]
    BY <1>6, <1>11 DEF DbType
  <2>3. \A q \in Prices : /\ q # p => rows[q] = db.rows[q] /\ told[q] = db.told[q]
                          /\ q = p => rows[q] = db.rows[q] + 1 /\ told[q] = db.told[q] + 1
    BY <1>2, <1>4 DEF DbType
  <2> HIDE DEF rows, told
  <2>4. /\ db' \in DbType /\ db'.next = p + 1 /\ db'.clean = db.clean /\ db'.kept = db.kept
        /\ db'.rows = rows /\ db'.pending = db.pending /\ db'.told = told
    BY <1>6, <1>11, <2>1, <2>2 DEF DbType
  <2>5. \A q \in Prices : db.rows[q] \in Nat /\ db.pending[q] \in Nat
    BY <1>2 DEF DbType
  <2>6. \A q \in Prices :
          \/ db'.rows[q] = db.rows[q] /\ db'.told[q] = db.told[q]
          \/ q = p /\ db'.rows[q] + db'.pending[q] = db.rows[q] + db.pending[q] + 1
                   /\ db'.told[q] = db.told[q] + 1
    BY <2>3, <2>4, <2>5
  <2>7. \A q \in Prices :
           \/ /\ db'.rows[q] + db'.pending[q] <= db.rows[q] + db.pending[q]
              /\ db'.told[q] = db.told[q]
              /\ db'.kept => db.kept /\ db'.rows[q] + db'.pending[q] = db.rows[q] + db.pending[q]
           \/ /\ q = p /\ db'.kept = db.kept
              /\ db'.rows[q] + db'.pending[q] = db.rows[q] + db.pending[q] + 1
              /\ db'.told[q] = db.told[q] + 1
    BY <2>4, <2>5, <2>6
  <2>8. \A q \in Prices : db'.pending[q] = 0
    BY <1>7, <1>11, <2>4
  <2> QED BY <1>2, <1>5, <2>4, <2>7, <2>8, InsertFits
<1> QED BY <1>8, <1>9, <1>10, <1>11 DEF Insert, n
(* After END, whatever it answers, nothing is open if it was the last to   *)
(* be answered well.                                                       *)
LEMMA EndFits ==
  ASSUME NEW d \in DbType, DbFits("end", d), NEW e \in DbType,
         e.next = d.next, e.clean = d.clean, e.told = d.told,
         e.ended => ~e.open,
         ~e.open => \A p \in Prices : e.pending[p] = 0,
         \A p \in Prices :
           /\ e.rows[p] + e.pending[p] <= d.rows[p] + d.pending[p]
           /\ e.kept => d.kept /\ e.rows[p] + e.pending[p] = d.rows[p] + d.pending[p]
  PROVE  DbFits("begin", e)
<1>1. ASSUME NEW p \in Prices, e.clean
      PROVE  Account(e.rows[p], e.pending[p], e.told[p], p >= e.next, e.kept)
  <2>1. Account(d.rows[p], d.pending[p], d.told[p], p >= d.next, d.kept)
    BY <1>1 DEF DbFits
  <2>2. /\ d.rows[p] \in Nat /\ d.pending[p] \in Nat /\ d.told[p] \in Nat
        /\ e.rows[p] \in Nat /\ e.pending[p] \in Nat
    BY DEF DbType
  <2> QED BY <2>1, <2>2 DEF Account
<1> QED BY <1>1 DEF DbFits

LEMMA EndStep == CheckerInv /\ End => CheckerInv'
<1> SUFFICES ASSUME CheckerInv, End PROVE CheckerInv'
  OBVIOUS
<1>1. place = "end" /\ Exec("end", "begin")
  BY DEF End, Exec
<1>2. DbFits("end", db) /\ db \in DbType
  BY <1>1 DEF CheckerInv, DbFits
<1>3. /\ ~db.open => \A p \in Prices : db.pending[p] = 0
      /\ \A p \in Prices : db.rows[p] \in Nat /\ db.pending[p] \in Nat
  BY <1>2 DEF DbFits, DbType
<1> SUFFICES DbFits("begin", db')
  BY <1>1, ExecStep
<1>4. CASE db' = [Committed(db) EXCEPT !.ended = TRUE]
  <2> DEFINE rows == [p \in Prices |-> db.rows[p] + db.pending[p]]
  <2>1. rows \in [Prices -> Nat] /\ \A p \in Prices : rows[p] = db.rows[p] + db.pending[p]
    BY <1>3
  <2> HIDE DEF rows
  <2>2. db' = [db EXCEPT !.open = FALSE, !.pending = NoRows, !.rows = rows, !.ended = TRUE]
    BY <1>2, <1>4 DEF Committed, rows, DbType
  <2>3. /\ db' \in DbType /\ db'.next = db.next /\ db'.clean = db.clean /\ db'.told = db.told
        /\ ~db'.open /\ db'.pending = NoRows /\ db'.rows = rows /\ db'.kept = db.kept
    BY <1>2, <2>1, <2>2, NoRowsAtAll DEF DbType
  <2>4. \A p \in Prices : db'.rows[p] + db'.pending[p] = db.rows[p] + db.pending[p]
                          /\ db'.rows[p] + db'.pending[p] <= db.rows[p] + db.pending[p]
    BY <1>3, <2>1, <2>3, NoRowsAtAll
  <2> QED BY <1>2, <2>3, <2>4, NoRowsAtAll, EndFits
<1>5. CASE db' = [db EXCEPT !.ended = ~db.open]
  <2>1. PICK c \in BOOLEAN : c = ~db.open
    BY <1>2, DbFields
  <2>2. db' = [db EXCEPT !.ended = c]
    BY <1>5, <2>1
  <2>3. /\ db' \in DbType /\ db'.next = db.next /\ db'.clean = db.clean /\ db'.told = db.told
        /\ db'.open = db.open /\ db'.pending = db.pending /\ db'.rows = db.rows
        /\ db'.kept = db.kept /\ db'.ended = c
    BY <1>2, <2>2 DEF DbType
  <2>4. db'.ended => ~db'.open
    BY <2>1, <2>3
  <2>5. \A p \in Prices : db'.rows[p] + db'.pending[p] <= db.rows[p] + db.pending[p]
    BY <1>3, <2>3
  <2> QED BY <1>2, <1>3, <2>3, <2>4, <2>5, EndFits
<1>6. CASE db' = [RolledBack(db) EXCEPT !.ended = TRUE]
  <2>1. CASE db.open
    <3>1. db' = [db EXCEPT !.open = FALSE, !.pending = NoRows, !.kept = FALSE, !.ended = TRUE]
      BY <1>2, <1>6, <2>1 DEF RolledBack, DbType
    <3>2. /\ db' \in DbType /\ db'.next = db.next /\ db'.clean = db.clean /\ db'.told = db.told
          /\ ~db'.open /\ db'.pending = NoRows /\ db'.rows = db.rows /\ ~db'.kept
      BY <1>2, <3>1, NoRowsAtAll DEF DbType
    <3>3. \A p \in Prices : db'.rows[p] + db'.pending[p] <= db.rows[p] + db.pending[p]
      BY <1>3, <3>2, NoRowsAtAll
    <3> QED BY <1>2, <3>2, <3>3, NoRowsAtAll, EndFits
  <2>2. CASE ~db.open
    <3>1. /\ db' \in DbType /\ db'.next = db.next /\ db'.clean = db.clean /\ db'.told = db.told
          /\ db'.open = db.open /\ db'.pending = db.pending /\ db'.rows = db.rows
          /\ db'.kept = db.kept
      BY <1>2, <1>6, <2>2 DEF RolledBack, DbType
    <3>2. \A p \in Prices : db'.rows[p] + db'.pending[p] <= db.rows[p] + db.pending[p]
      BY <1>3, <3>1
    <3> QED BY <1>2, <1>3, <2>2, <3>1, <3>2, EndFits
  <2> QED BY <2>1, <2>2
<1> QED BY <1>4, <1>5, <1>6 DEF End

-----------------------------------------------------------------------------
LEMMA CheckerInvStep == CheckerInv /\ [CheckerNext]_checkerVars => CheckerInv'
<1> SUFFICES ASSUME CheckerInv, [CheckerNext]_checkerVars PROVE CheckerInv'
  OBVIOUS
<1>1. ASSUME OpenFails \/ CloseRead \/ Unloaded \/ Finished PROVE CheckerInv'
  BY <1>1, ReturnStep DEF OpenFails, CloseRead, Unloaded, Finished
<1>2. ASSUME OpenDbFails PROVE CheckerInv'
  <2>1. CASE CallNull({"error", "close"})
    BY <1>2, <2>1, CrashStep DEF OpenDbFails
  <2>2. CASE Return /\ UNCHANGED buildVars
    BY <2>2, ReturnStep
  <2> QED BY <1>2, <2>1, <2>2 DEF OpenDbFails
<1>3. ASSUME ExecNull PROVE CheckerInv'
  BY <1>3, CrashStep DEF ExecNull
<1>4. ASSUME UNCHANGED checkerVars PROVE CheckerInv'
  BY <1>4 DEF checkerVars, buildVars, CheckerInv
<1> QED BY <1>1, <1>2, <1>3, <1>4, OpenToWriteStep, WriteBlockStep, CloseWrittenStep, ReopenStep,
           ReadBlockStep, LoadStep, OpenDbStep, DropStep, CreateStep, BeginStep, InsertStep, EndStep
        DEF CheckerNext, Step

(* What the invariant says of the loops, the symbols and the rows.         *)
LEMMA LoopsFinish == CheckerInv => LoopsCanFinish
<1> SUFFICES ASSUME CheckerInv PROVE LoopsCanFinish
  OBVIOUS
<1>1. ASSUME place = "read", ~LoopEnds(file.i) PROVE Readable # {}
  <2>1. /\ file.size \in Nat /\ file.size > 0 /\ file.i \in Nat /\ file.i < WRITE_SIZE
        /\ ~asserts => file.pos = file.i /\ WRITE_SIZE <= file.size
    BY <1>1, Sizes DEF CheckerInv, FileFits, LoopEnds
  <2>2. CASE asserts
    BY <2>1, <2>2, OffsetsFit DEF Readable
  <2>3. CASE ~asserts
    <3>1. file.pos \in Offsets /\ file.pos < file.size
      BY <2>1, <2>3, Sizes DEF Offsets
    <3> QED BY <3>1 DEF Readable
  <2> QED BY <2>2, <2>3
<1>2. place = "reopen" => file.i \in WRITE_SIZE..WRITE_SIZE + BLOCK - 1
  BY Sizes DEF CheckerInv, FileFits
<1>3. asserts => file.size <= BLOCK * FILE_BLOCKS
  BY DEF CheckerInv, FileFits
<1> QED BY <1>1, <1>2, <1>3 DEF LoopsCanFinish

LEMMA PartsCrash == CheckerInv => OnlyPartOfALibraryCrashes
BY DEF CheckerInv, SymbolsFit, OnlyPartOfALibraryCrashes

LEMMA RowsStored == CheckerInv => InsertedRowsAreStored
<1> SUFFICES ASSUME CheckerInv, place = "begin", db.next = Batches * Rows, db.clean
             PROVE  /\ \A p \in Prices : db.rows[p] <= db.told[p] /\ db.told[p] <= 1
                    /\ db.kept /\ db.ended => db.rows = db.told
  BY DEF InsertedRowsAreStored
<1>1. /\ db \in DbType
      /\ \A p \in Prices : Account(db.rows[p], db.pending[p], db.told[p], p >= db.next, db.kept)
      /\ db.ended => \A p \in Prices : db.pending[p] = 0
  BY DEF CheckerInv, DbFits
<1>2. ASSUME NEW p \in Prices
      PROVE  /\ db.rows[p] <= db.told[p] /\ db.told[p] <= 1
             /\ db.kept /\ db.ended => db.rows[p] = db.told[p]
  <2>1. db.rows[p] \in Nat /\ db.pending[p] \in Nat /\ db.told[p] \in Nat
    BY <1>1 DEF DbType
  <2> QED BY <1>1, <2>1 DEF Account
<1>3. db.kept /\ db.ended => db.rows = db.told
  BY <1>1, <1>2 DEF DbType
<1> QED BY <1>2, <1>3

-----------------------------------------------------------------------------
(* What lies in a file behind the prepared blocks, and how it has to look  *)
(* while the programs get along.                                           *)
Behind(d, f) == d[f] \ 0..Prepared - 1
AsPrepared(d, f) == d[f] = Absent \/ d[f] \subseteq 0..Prepared - 1

PlacesFit ==
  /\ i \in Nat /\ k \in Nat /\ a \in Seq(FileNo)
  /\ disk \in [FileNo -> SUBSET Int]
  /\ step \in {"prepare", "fill", "pick", "add", "failed", "succeeded"}
  /\ step \in {"fill", "add"} => hfile \in FileNo
  /\ step \notin {"fill", "add"} => hfile = NoHandle
  /\ step = "fill" => k <= Prepared /\ disk[hfile] # Absent
  /\ step = "add" => k <= Added
  /\ step \in {"prepare", "fill"} => a = <<>>
  /\ step = "pick" => Len(a) = i
  /\ step = "add" => Len(a) = i + 1 /\ hfile = a[Len(a)]
  /\ step = "succeeded" => Len(a) = Picks

AllDifferent == \A m, n \in 1..Len(a) : a[m] = a[n] => m = n

FilesFit ==
  step # "failed" =>
    \A f \in FileNo :
      /\ ~Taken(f) => AsPrepared(disk, f)
      /\ Taken(f) /\ ~(step = "add" /\ f = hfile) => Behind(disk, f) = Prepared..Prepared + Added - 1
      /\ step = "add" /\ f = hfile => Behind(disk, f) = Prepared..Prepared + k - 1

WritetimeInv == PlacesFit /\ AllDifferent /\ FilesFit

LEMMA Amounts ==
  /\ Count \in Nat \ {0} /\ Picks \in Nat \ {0} /\ Prepared \in Nat \ {0} /\ Added \in Nat \ {0}
  /\ NoHandle \notin FileNo
BY WritetimeAssumption DEF NoHandle, FileNo

LEMMA WritetimeInvInit == WritetimeInit => WritetimeInv
<1> SUFFICES ASSUME WritetimeInit PROVE WritetimeInv
  OBVIOUS
<1>1. /\ disk = [f \in FileNo |-> Absent] /\ step = "prepare" /\ hfile = NoHandle
      /\ i = 0 /\ a = <<>> /\ k = 0
  BY DEF WritetimeInit
<1>2. <<>> \in Seq(FileNo) /\ Len(<<>>) = 0
  OBVIOUS
<1>3. PlacesFit
  BY <1>1, <1>2 DEF PlacesFit, Absent
<1>4. AllDifferent /\ \A f \in FileNo : ~Taken(f)
  BY <1>1, <1>2 DEF AllDifferent, Taken
<1>5. FilesFit
  BY <1>1, <1>4 DEF FilesFit, AsPrepared
<1> QED BY <1>3, <1>4, <1>5 DEF WritetimeInv

(* No file is taken while they are prepared.                               *)
LEMMA NoneTaken ==
  ASSUME a = <<>>, NEW f
  PROVE  ~Taken(f)
BY DEF Taken

LEMMA PrepareSteps ==
  ASSUME WritetimeInv,
         Prepare_create \/ Prepare_fails \/ Prepare_write \/ Prepare_close \/ Prepare_done
  PROVE  WritetimeInv'
<1>1. /\ step \in {"prepare", "fill"} /\ a = <<>> /\ a' = a
      /\ PlacesFit /\ AllDifferent
      /\ \A f \in FileNo : AsPrepared(disk, f)
  BY NoneTaken DEF WritetimeInv, PlacesFit, FilesFit, Prepare_create, Prepare_fails, Prepare_write,
                   Prepare_close, Prepare_done
<1>2. AllDifferent' /\ \A f \in FileNo : ~Taken(f)'
  BY <1>1 DEF AllDifferent, Taken
<1> SUFFICES PlacesFit' /\ step' \in {"prepare", "fill", "pick"}
             /\ \A f \in FileNo : AsPrepared(disk', f)
  BY <1>2 DEF WritetimeInv, FilesFit
<1>3. CASE Prepare_create
  <2>1. /\ i \in FileNo /\ disk' = [disk EXCEPT ![i] = {}] /\ step' = "fill" /\ hfile' = i
        /\ k' = 0 /\ i' = i
    BY <1>1, <1>3, Amounts DEF Prepare_create, To, PlacesFit, FileNo
  <2>0. disk' \in [FileNo -> SUBSET Int] /\ disk'[hfile'] # Absent
    BY <1>1, <2>1 DEF PlacesFit, Absent
  <2>2. PlacesFit'
    BY <1>1, <2>0, <2>1, Amounts DEF PlacesFit
  <2>3. \A f \in FileNo : AsPrepared(disk', f)
    BY <1>1, <2>1 DEF PlacesFit, AsPrepared
  <2> QED BY <2>1, <2>2, <2>3
<1>4. CASE Prepare_fails
  <2>1. i' = 0 /\ step' = "pick" /\ hfile' = NoHandle /\ disk' = disk /\ k' = k
    BY <1>4 DEF Prepare_fails, Close, To
  <2>2. PlacesFit'
    BY <1>1, <2>1 DEF PlacesFit
  <2> QED BY <1>1, <2>1, <2>2
<1>5. CASE Prepare_write
  <2>1. /\ hfile \in FileNo /\ k \in Nat /\ k < Prepared /\ step = "fill"
        /\ disk' = [disk EXCEPT ![hfile] = @ \cup {k}]
        /\ step' = step /\ hfile' = hfile /\ i' = i /\ k' = k + 1
    BY <1>1, <1>5 DEF Prepare_write, PlacesFit
  <2>2. disk \in [FileNo -> SUBSET Int] /\ k \in Int
    BY <1>1, <2>1 DEF PlacesFit
  <2>3. disk' \in [FileNo -> SUBSET Int] /\ k \in disk'[hfile]
    BY <2>1, <2>2
  <2>4. PlacesFit'
    <3>1. disk'[hfile'] # Absent
      BY <2>1, <2>3 DEF Absent
    <3> QED BY <1>1, <2>1, <2>3, <3>1, Amounts DEF PlacesFit
  <2>5. ASSUME NEW f \in FileNo PROVE AsPrepared(disk', f)
    <3>1. CASE f = hfile
      <4>1. disk[f] \subseteq 0..Prepared - 1 /\ disk'[f] = disk[f] \cup {k}
        BY <1>1, <2>1, <2>2, <3>1 DEF AsPrepared, PlacesFit
      <4>2. k \in 0..Prepared - 1
        BY <2>1, Amounts
      <4> QED BY <4>1, <4>2 DEF AsPrepared
    <3>2. CASE f # hfile
      BY <1>1, <2>1, <2>2, <3>2 DEF AsPrepared
    <3> QED BY <3>1, <3>2
  <2> QED BY <2>1, <2>4, <2>5
<1>6. CASE Prepare_close
  <2>1. step' = "prepare" /\ hfile' = NoHandle /\ disk' = disk /\ k' = k /\ i' = i + 1
    BY <1>6 DEF Prepare_close, Close, To
  <2>2. PlacesFit'
    BY <1>1, <2>1 DEF PlacesFit
  <2> QED BY <1>1, <2>1, <2>2
<1>7. CASE Prepare_done
  <2>1. i' = 0 /\ step' = "pick" /\ hfile' = hfile /\ disk' = disk /\ k' = k /\ hfile = NoHandle
    BY <1>1, <1>7 DEF Prepare_done, To, PlacesFit
  <2>2. PlacesFit'
    BY <1>1, <2>1 DEF PlacesFit
  <2> QED BY <1>1, <2>1, <2>2
<1> QED BY <1>3, <1>4, <1>5, <1>6, <1>7

LEMMA OpenStep ==
  ASSUME WritetimeInv, NEW j \in FileNo, Rand_open(j)
  PROVE  WritetimeInv'
<1>1. /\ step = "pick" /\ ~Taken(j) /\ disk[j] # Absent
      /\ a' = Append(a, j) /\ hfile' = j /\ k' = 0 /\ step' = "add" /\ disk' = disk /\ i' = i
  BY DEF Rand_open, To
<1>2. PlacesFit /\ AllDifferent /\ FilesFit /\ a \in Seq(FileNo) /\ Len(a) = i /\ Len(a) \in Nat
  BY <1>1 DEF WritetimeInv, PlacesFit
<1>3. /\ a' \in Seq(FileNo) /\ Len(a') = Len(a) + 1 /\ a'[Len(a) + 1] = j
      /\ \A n \in 1..Len(a) : a'[n] = a[n]
  BY <1>1, <1>2
<1>4. PlacesFit'
  BY <1>1, <1>2, <1>3, Amounts DEF PlacesFit
<1>5. AllDifferent'
  <2>1. \A n \in 1..Len(a) : a[n] # j
    BY <1>1 DEF Taken
  <2>2. \A m \in 1..Len(a') : m = Len(a) + 1 \/ m \in 1..Len(a)
    BY <1>2, <1>3
  <2> QED BY <1>2, <1>3, <2>1, <2>2 DEF AllDifferent
<1>6. ASSUME NEW f \in FileNo
      PROVE  Taken(f)' <=> (Taken(f) \/ f = j)
  <2>1. \A m \in 1..Len(a') : m = Len(a) + 1 \/ m \in 1..Len(a)
    BY <1>2, <1>3
  <2>2. Len(a) + 1 \in 1..Len(a') /\ 1..Len(a) \subseteq 1..Len(a')
    BY <1>2, <1>3
  <2> QED BY <1>3, <2>1, <2>2 DEF Taken
<1>7. Behind(disk, j) = Prepared..Prepared + 0 - 1
  <2>1. disk[j] \subseteq 0..Prepared - 1
    BY <1>1, <1>2 DEF FilesFit, AsPrepared
  <2>2. Prepared..Prepared + 0 - 1 = {}
    BY Amounts
  <2> QED BY <2>1, <2>2 DEF Behind
<1>8. FilesFit'
  BY <1>1, <1>2, <1>6, <1>7 DEF FilesFit
<1> QED BY <1>4, <1>5, <1>8 DEF WritetimeInv

LEMMA AddSteps ==
  ASSUME WritetimeInv, Rand_fails \/ Rand_write \/ Rand_close \/ Rand_done
  PROVE  WritetimeInv'
<1>1. /\ a' = a /\ PlacesFit /\ AllDifferent /\ FilesFit /\ step \in {"pick", "add"}
  BY DEF WritetimeInv, Rand_fails, Rand_write, Rand_close, Rand_done
<1>2. AllDifferent' /\ \A f \in FileNo : Taken(f)' <=> Taken(f)
  BY <1>1 DEF AllDifferent, Taken
<1>3. CASE Rand_fails
  <2>1. step' = "failed" /\ hfile' = NoHandle /\ disk' = disk /\ i' = i /\ k' = k
    BY <1>3 DEF Rand_fails, Close, To
  <2>2. PlacesFit'
    BY <1>1, <2>1 DEF PlacesFit
  <2> QED BY <1>2, <2>1, <2>2 DEF WritetimeInv, FilesFit
<1>4. CASE Rand_write
  <2>1. /\ step = "add" /\ hfile \in FileNo /\ k \in Nat /\ k < Added
        /\ disk' = [disk EXCEPT ![hfile] = @ \cup {Prepared + k}]
        /\ step' = step /\ hfile' = hfile /\ i' = i /\ k' = k + 1
    BY <1>1, <1>4 DEF Rand_write, Offset, PlacesFit
  <2>2. disk \in [FileNo -> SUBSET Int] /\ Prepared + k \in Int
    BY <1>1, <2>1, Amounts DEF PlacesFit
  <2>3. disk' \in [FileNo -> SUBSET Int]
    BY <2>1, <2>2
  <2>4. PlacesFit'
    BY <1>1, <2>1, <2>3, Amounts DEF PlacesFit
  <2>5. Behind(disk', hfile) = Prepared..Prepared + (k + 1) - 1
    <3>1. Behind(disk, hfile) = Prepared..Prepared + k - 1
      BY <1>1, <2>1 DEF FilesFit
    <3>2. disk'[hfile] = disk[hfile] \cup {Prepared + k} /\ Prepared + k \notin 0..Prepared - 1
      BY <2>1, <2>2, Amounts
    <3>3. Behind(disk', hfile) = Behind(disk, hfile) \cup {Prepared + k}
      BY <3>2 DEF Behind
    <3>4. Prepared..Prepared + (k + 1) - 1 = (Prepared..Prepared + k - 1) \cup {Prepared + k}
      BY <2>1, Amounts
    <3> QED BY <3>1, <3>3, <3>4
  <2>6. \A f \in FileNo : f # hfile => disk'[f] = disk[f]
    BY <2>1, <2>2
  <2>7. FilesFit'
    BY <1>1, <1>2, <2>1, <2>5, <2>6 DEF FilesFit, Behind, AsPrepared, PlacesFit, Taken
  <2> QED BY <1>2, <2>4, <2>7 DEF WritetimeInv
<1>5. CASE Rand_close
  <2>1. /\ step = "add" /\ k = Added /\ step' = "pick" /\ hfile' = NoHandle /\ i' = i + 1
        /\ disk' = disk /\ k' = k
    BY <1>5 DEF Rand_close, Close, To
  <2>2. PlacesFit'
    BY <1>1, <2>1 DEF PlacesFit
  <2>3. hfile \in FileNo /\ Taken(hfile)
    BY <1>1, <2>1 DEF PlacesFit, Taken
  <2>4. FilesFit'
    BY <1>1, <1>2, <2>1, <2>3 DEF FilesFit
  <2> QED BY <1>2, <2>2, <2>4 DEF WritetimeInv
<1>6. CASE Rand_done
  <2>1. step = "pick" /\ i = Picks /\ step' = "succeeded" /\ UNCHANGED <<disk, hfile, i, k>>
    BY <1>6 DEF Rand_done, To
  <2>2. PlacesFit'
    BY <1>1, <2>1 DEF PlacesFit
  <2>3. FilesFit'
    BY <1>1, <1>2, <2>1 DEF FilesFit
  <2> QED BY <1>2, <2>2, <2>3 DEF WritetimeInv
<1> QED BY <1>3, <1>4, <1>5, <1>6

LEMMA WritetimeInvStep == WritetimeInv /\ [WritetimeNext]_writetimeVars => WritetimeInv'
<1> SUFFICES ASSUME WritetimeInv, [WritetimeNext]_writetimeVars PROVE WritetimeInv'
  OBVIOUS
<1>1. CASE UNCHANGED writetimeVars
  BY <1>1 DEF writetimeVars, WritetimeInv, PlacesFit, AllDifferent, FilesFit, Taken
<1> QED BY <1>1, PrepareSteps, OpenStep, AddSteps DEF WritetimeNext

LEMMA FilesExtended == WritetimeInv => PickedFilesAreExtended
<1> SUFFICES ASSUME WritetimeInv PROVE PickedFilesAreExtended
  OBVIOUS
<1>1. step \in {"succeeded", "failed"} => hfile = NoHandle
  BY DEF WritetimeInv, PlacesFit
<1>2. \A m, n \in 1..Len(a) : a[m] = a[n] => m = n
  BY DEF WritetimeInv, AllDifferent
<1>3. ASSUME step = "succeeded"
      PROVE  /\ Len(a) = Picks
             /\ \A f \in FileNo :
                  disk[f] \ 0..Prepared - 1 =
                    IF \E n \in 1..Picks : a[n] = f THEN Prepared..Prepared + Added - 1
                    ELSE disk[f] \cap Absent
  <2>1. Len(a) = Picks
    BY <1>3 DEF WritetimeInv, PlacesFit
  <2>2. ASSUME NEW f \in FileNo, \E n \in 1..Picks : a[n] = f
        PROVE  disk[f] \ 0..Prepared - 1 = Prepared..Prepared + Added - 1
    BY <1>3, <2>1, <2>2 DEF WritetimeInv, FilesFit, Taken, Behind
  <2>3. ASSUME NEW f \in FileNo, ~\E n \in 1..Picks : a[n] = f
        PROVE  disk[f] \ 0..Prepared - 1 = disk[f] \cap Absent
    <3>1. AsPrepared(disk, f)
      BY <1>3, <2>1, <2>3 DEF WritetimeInv, FilesFit, Taken
    <3>2. -1 \notin 0..Prepared - 1
      BY Amounts
    <3>3. CASE disk[f] = Absent
      BY <3>2, <3>3 DEF Absent
    <3>4. CASE disk[f] \subseteq 0..Prepared - 1
      BY <3>2, <3>4 DEF Absent
    <3> QED BY <3>1, <3>3, <3>4 DEF AsPrepared
  <2> QED BY <2>1, <2>2, <2>3
<1> QED BY <1>1, <1>2, <1>3 DEF PickedFilesAreExtended

-----------------------------------------------------------------------------
LEMMA Lots ==
  /\ CsBlocks \in Nat \ {0} /\ CsBatches \in Nat \ {0} /\ CsRows \in Nat \ {0} /\ CsRows <= 100
BY CSharpAssumption

(* A price tells its batch and its row: its last two digits are the row,   *)
(* and what is before them the batch.                                      *)
LEMMA PricesDiffer ==
  ASSUME NEW m \in Nat, NEW n \in Nat, NEW j \in 0..99, NEW l \in 0..99, Price(m, j) = Price(n, l)
  PROVE  m = n /\ j = l
<1> DEFINE x == IF j < 10 THEN 10 * m ELSE 100 * m
           y == IF l < 10 THEN 10 * n ELSE 100 * n
<1>1. x \in Nat /\ y \in Nat
  OBVIOUS
<1>2. Price(m, j) = 100 * x + j /\ Price(n, l) = 100 * y + l
  BY SMT DEF Price
<1>3. j = l /\ x = y
  <2>1. 100 * x + j = 100 * y + l
    BY <1>2
  <2> HIDE DEF x, y
  <2>2. x \in Int /\ y \in Int /\ 0 <= j /\ j <= 99 /\ 0 <= l /\ l <= 99 /\ j \in Int /\ l \in Int
    BY <1>1
  <2>3. x = y
    BY ONLY <2>1, <2>2, SMT
  <2> QED BY <2>1, <2>2, <2>3, SMT
<1> QED BY <1>3

LEMMA PriceType ==
  ASSUME NEW n \in Nat, NEW j \in 0..99
  PROVE  Price(n, j) \in Nat
BY SMT DEF Price

HoldsWhole(prices) == \E whole \in Nat : Cardinality(prices) = whole * CsRows

(* The transaction at hand holds its rows, and the database those of the   *)
(* batches before it.                                                      *)
TransactionFits ==
  /\ program \in {2, 4} /\ count <= CsBatches
  /\ row > 0 => count < CsBatches
  /\ Cardinality(stored) = count * CsRows
  /\ stored \subseteq {Price(n, j) : n \in 0..count - 1, j \in 0..CsRows - 1}
  /\ batch \subseteq {Price(count, j) : j \in 0..row - 1}

CSharpInv ==
  /\ program \in 1..Ended /\ count \in Nat /\ row \in Nat /\ row <= CsRows
  /\ IsFiniteSet(stored) /\ IsFiniteSet(batch)
  /\ HoldsWhole(stored)
  /\ Cardinality(batch) = row
  /\ spot # "insert" => batch = {}
  /\ spot = "insert" => TransactionFits
  /\ program = Ended => Cardinality(stored) = CsBatches * CsRows

LEMMA CSharpInvInit == CSharpInit => CSharpInv
<1> SUFFICES ASSUME CSharpInit PROVE CSharpInv
  OBVIOUS
<1>1. IsFiniteSet({}) /\ Cardinality({}) = 0 /\ 0 * CsRows = 0
  BY FS_EmptySet, Lots
<1>2. HoldsWhole({})
  BY <1>1, 0 \in Nat DEF HoldsWhole
<1> QED BY <1>1, <1>2, Lots DEF CSharpInit, CSharpInv, Ended

(* Steps that leave the database alone and end no insertion.               *)
LEMMA QuietStep ==
  ASSUME CSharpInv, spot # "insert", spot' # "insert", UNCHANGED <<stored, batch, row>>,
         program' \in 1..Ended - 1, count' \in Nat
  PROVE  CSharpInv'
<1>1. program' \in 1..Ended /\ program' # Ended
  BY DEF Ended
<1>2. /\ HoldsWhole(stored') /\ IsFiniteSet(stored') /\ IsFiniteSet(batch') /\ Cardinality(batch') = row'
      /\ row' \in Nat /\ row' <= CsRows /\ batch' = {}
  BY DEF CSharpInv, TransactionFits
<1>3. spot' # "insert" /\ count' \in Nat
  OBVIOUS
<1> QED BY ONLY <1>1, <1>2, <1>3 DEF CSharpInv, Ended

LEMMA ExceptionStep == CSharpInv /\ Exception => CSharpInv'
<1> SUFFICES ASSUME CSharpInv, Exception PROVE CSharpInv'
  OBVIOUS
<1>1. /\ program' = program /\ program # Ended /\ spot' = "thrown" /\ count' = 0 /\ batch' = {}
      /\ row' = 0 /\ stored' = stored
  BY DEF Exception, Move, CSharpInv, Ended
<1>2. IsFiniteSet({}) /\ Cardinality({}) = 0
  BY FS_EmptySet
<1> QED BY <1>1, <1>2, Lots DEF CSharpInv, TransactionFits

LEMMA InsertRowStep == CSharpInv /\ Insert_row => CSharpInv'
<1> SUFFICES ASSUME CSharpInv, Insert_row PROVE CSharpInv'
  OBVIOUS
<1>1. /\ spot = "insert" /\ row \in Nat /\ row < CsRows /\ count \in Nat /\ count < CsBatches
      /\ batch' = batch \cup {Price(count, row)} /\ row' = row + 1
      /\ UNCHANGED <<program, spot, count, stored>>
  BY DEF Insert_row, CSharpInv
<1>2. Price(count, row) \notin batch
  <2>1. ASSUME NEW j \in 0..row - 1 PROVE Price(count, j) # Price(count, row)
    <3>1. j \in 0..99 /\ row \in 0..99 /\ count \in Nat /\ j # row
      BY <1>1, Lots
    <3> QED BY <3>1, PricesDiffer
  <2> QED BY <1>1, <2>1 DEF CSharpInv, TransactionFits
<1>3. IsFiniteSet(batch') /\ Cardinality(batch') = row'
  BY <1>1, <1>2, FS_AddElement DEF CSharpInv, TransactionFits
<1>4. batch' \subseteq {Price(count, j) : j \in 0..row' - 1}
  <2>1. 0..row' - 1 = (0..row - 1) \cup {row}
    BY <1>1
  <2> QED BY <1>1, <2>1 DEF CSharpInv, TransactionFits
<1>5. row' \in Nat /\ row' <= CsRows /\ (row' > 0 => count' < CsBatches)
  BY <1>1, Lots
<1>6. /\ program' \in {2, 4} /\ program' # Ended /\ program' \in 1..Ended /\ count' \in Nat /\ count' <= CsBatches
      /\ Cardinality(stored') = count' * CsRows /\ IsFiniteSet(stored') /\ HoldsWhole(stored')
      /\ stored' \subseteq {Price(n, j) : n \in 0..count' - 1, j \in 0..CsRows - 1}
  BY <1>1 DEF CSharpInv, TransactionFits, Ended
<1>7. batch' \subseteq {Price(count', j) : j \in 0..row' - 1}
  BY <1>1, <1>4
<1> QED BY <1>1, <1>3, <1>5, <1>6, <1>7 DEF CSharpInv, TransactionFits

LEMMA CommitStep == CSharpInv /\ Commit => CSharpInv'
<1> SUFFICES ASSUME CSharpInv, Commit PROVE CSharpInv'
  OBVIOUS
<1>1. /\ spot = "insert" /\ row = CsRows /\ stored' = stored \cup batch /\ batch' = {} /\ row' = 0
      /\ program' = program /\ spot' = spot /\ count' = count + 1
  BY DEF Commit, Move
<1>2. /\ count \in Nat /\ count < CsBatches /\ IsFiniteSet(stored) /\ IsFiniteSet(batch)
      /\ Cardinality(stored) = count * CsRows /\ Cardinality(batch) = CsRows
      /\ stored \subseteq {Price(n, j) : n \in 0..count - 1, j \in 0..CsRows - 1}
      /\ batch \subseteq {Price(count, j) : j \in 0..CsRows - 1}
      /\ program \in {2, 4}
  BY <1>1, Lots DEF CSharpInv, TransactionFits
<1>3. stored \cap batch = {}
  <2>1. ASSUME NEW n \in 0..count - 1, NEW j \in 0..CsRows - 1, NEW l \in 0..CsRows - 1
        PROVE  Price(n, j) # Price(count, l)
    <3>1. j \in 0..99 /\ l \in 0..99 /\ n \in Nat /\ count \in Nat /\ n # count
      BY <1>2, Lots
    <3> QED BY <3>1, PricesDiffer
  <2> QED BY <1>2, <2>1
<1>4. IsFiniteSet(stored') /\ Cardinality(stored') = (count + 1) * CsRows
  <2>1. /\ IsFiniteSet(stored \cup batch)
        /\ Cardinality(stored \cup batch)
             = Cardinality(stored) + Cardinality(batch) - Cardinality(stored \cap batch)
    BY <1>2, FS_Union
  <2>2. Cardinality({}) = 0
    BY FS_EmptySet
  <2> DEFINE before == count * CsRows
  <2>3. (count + 1) * CsRows = before + CsRows /\ before \in Int /\ CsRows \in Int
    BY <1>2, Lots, SMT
  <2>4. Cardinality(stored) = before /\ Cardinality(batch) = CsRows /\ Cardinality(stored \cap batch) = 0
    BY <1>2, <1>3, <2>2
  <2> HIDE DEF before
  <2>5. Cardinality(stored \cup batch) = before + CsRows
    BY ONLY <2>1, <2>3, <2>4, SMT
  <2>6. Cardinality(stored \cup batch) = (count + 1) * CsRows
    BY ONLY <2>3, <2>5, Zenon
  <2> QED BY ONLY <1>1, <2>1, <2>6, Zenon
<1>5. stored' \subseteq {Price(n, j) : n \in 0..count' - 1, j \in 0..CsRows - 1}
  <2>1. 0..count' - 1 = (0..count - 1) \cup {count}
    BY <1>1, <1>2
  <2> QED BY <1>1, <1>2, <2>1
<1>6. IsFiniteSet({}) /\ Cardinality({}) = 0
  BY FS_EmptySet
<1>7. HoldsWhole(stored')
  BY <1>2, <1>4, count + 1 \in Nat DEF HoldsWhole
<1>8. /\ program' \in 1..Ended /\ program' # Ended /\ row' \in Nat /\ row' <= CsRows /\ ~(row' > 0)
      /\ count' \in Nat /\ count' <= CsBatches /\ Cardinality(batch') = row' /\ IsFiniteSet(batch')
      /\ batch' \subseteq {Price(count', j) : j \in 0..row' - 1}
  BY <1>1, <1>2, <1>6, Lots DEF Ended
<1> QED BY <1>1, <1>2, <1>4, <1>5, <1>7, <1>8 DEF CSharpInv, TransactionFits

LEMMA CSharpInvStep == CSharpInv /\ [CSharpNext]_csharpVars => CSharpInv'
<1> SUFFICES ASSUME CSharpInv, [CSharpNext]_csharpVars PROVE CSharpInv'
  OBVIOUS
<1>1. CASE Transfer
  <2>1. spot # "insert" /\ spot' # "insert" /\ program' \in 1..Ended - 1 /\ count' \in Nat
        /\ UNCHANGED <<stored, batch, row>>
    BY <1>1 DEF Transfer, Move, Ended, CSharpInv, TransactionFits
  <2> QED BY <2>1, QuietStep
<1>2. CASE Excuted
  <2>1. spot # "insert" /\ spot' # "insert" /\ program' \in 1..Ended - 1 /\ count' \in Nat
        /\ UNCHANGED <<stored, batch, row>>
    BY <1>2 DEF Excuted, Move, Ended, CSharpInv, TransactionFits
  <2> QED BY <2>1, QuietStep
<1>3. CASE Recreate
  <2>1. /\ program' = program /\ program \in {2, 4} /\ stored' = {} /\ spot' = "insert"
        /\ count' = 0 /\ spot = "file" /\ batch' = batch /\ row' = row
    BY <1>3 DEF Recreate, Move
  <2>2. IsFiniteSet({}) /\ Cardinality({}) = 0 /\ 0 * CsRows = 0 /\ batch = {} /\ row = 0
    BY <2>1, FS_EmptySet, Lots DEF CSharpInv, TransactionFits
  <2>3. HoldsWhole({})
    BY <2>2, 0 \in Nat DEF HoldsWhole
  <2> QED BY <2>1, <2>2, <2>3, Lots DEF CSharpInv, TransactionFits, Ended
<1>4. CASE CloseDatabase
  <2>1. /\ spot = "insert" /\ count = CsBatches /\ program' = program + 1 /\ spot' = "write"
        /\ count' = 0 /\ UNCHANGED <<stored, batch, row>>
    BY <1>4 DEF CloseDatabase, Move
  <2>2. /\ row = 0 /\ program' \in {3, 5} /\ Cardinality(stored) = CsBatches * CsRows
    BY <2>1 DEF CSharpInv, TransactionFits
  <2>3. batch = {}
    BY <2>2, FS_EmptySet DEF CSharpInv, TransactionFits
  <2> QED BY <2>1, <2>2, <2>3 DEF CSharpInv, TransactionFits, Ended
<1>5. CASE UNCHANGED csharpVars
  BY <1>5 DEF csharpVars, CSharpInv, TransactionFits
<1> QED BY <1>1, <1>2, <1>3, <1>4, <1>5, ExceptionStep, InsertRowStep, CommitStep DEF CSharpNext

LEMMA WholeBatches == CSharpInv => BatchesAreWhole
<1> SUFFICES ASSUME CSharpInv PROVE BatchesAreWhole
  OBVIOUS
<1>1. PICK whole \in Nat : Cardinality(stored) = whole * CsRows
  BY DEF CSharpInv, HoldsWhole
<1>2. (whole * CsRows) % CsRows = 0
  BY Lots, SMTT(30)
<1> QED BY <1>1, <1>2 DEF CSharpInv, TransactionFits, BatchesAreWhole

-----------------------------------------------------------------------------

(* All of them together.                                                   *)
SequentialInv == WaitInv /\ TimeInv /\ CheckerInv /\ WritetimeInv /\ CSharpInv

LEMMA SequentialInvInit == SequentialInit => SequentialInv
<1> SUFFICES ASSUME SequentialInit PROVE SequentialInv
  OBVIOUS
<1>1. Init /\ TimeInit /\ WritetimeInit /\ CSharpInit
  BY DEF SequentialInit
<1>2. CheckerInit \/ NoChecker
  BY DEF SequentialInit
<1>3. CheckerInv
  BY <1>2, CheckerInvInit DEF NoChecker
<1> QED BY <1>1, <1>3, WaitInvInit, TimeInvInit, WritetimeInvInit, CSharpInvInit DEF SequentialInv

(* A step of one component is a stutter of every other one.                *)
LEMMA OneMoves ==
  ASSUME [SequentialNext]_sequentialVars
  PROVE  /\ [Next]_vars /\ [TimeNext]_timeVars /\ [CheckerNext]_checkerVars
         /\ [WritetimeNext]_writetimeVars /\ [CSharpNext]_csharpVars
<1>1. CASE UNCHANGED sequentialVars
  BY <1>1 DEF sequentialVars
<1>2. CASE SequentialNext
  BY <1>2 DEF SequentialNext
<1> QED BY <1>1, <1>2

LEMMA SequentialInvStep == SequentialInv /\ [SequentialNext]_sequentialVars => SequentialInv'
BY OneMoves, WaitInvStep, TimeInvStep, CheckerInvStep, WritetimeInvStep, CSharpInvStep
   DEF SequentialInv

LEMMA SequentialInvHolds == SequentialSpec => []SequentialInv
BY SequentialInvInit, SequentialInvStep, PTL DEF SequentialSpec

(* The deadline handed to pthread_mutex_timedlock and                      *)
(* pthread_cond_timedwait is never refused as malformed, and a timed wait  *)
(* ends neither early nor late, for every clock reading and every number   *)
(* of milliseconds.                                                        *)
THEOREM DeadlineAlwaysExact == SequentialSpec => []DeadlineIsExact
<1>1. SequentialInv => DeadlineIsExact
  BY DeadlineHolds DEF SequentialInv
<1> QED BY <1>1, SequentialInvHolds, PTL

(* What timezoneapi.cpp, sysinfoapi.cpp and profileapi.cpp answer: file    *)
(* times keep the second, those made of a date give it back where the      *)
(* words fit, a local file time is less than half a DWORD off, tick counts *)
(* measure what has passed although they wrap, and setting the clock back  *)
(* restores the second.  For every width of a DWORD, every zone and every  *)
(* reading of the clock.                                                   *)
THEOREM TimesAlwaysSurvive == SequentialSpec => []TimesSurvive
<1>1. SequentialInv => TimesSurvive
  BY TimeInvImplies DEF SequentialInv
<1> QED BY <1>1, SequentialInvHolds, PTL

(* The three programs, for every number of blocks, rows, transactions and  *)
(* files, and whatever calls fail: what they report is on the medium.      *)
THEOREM ProgramsAlwaysKeepTheirWord == SequentialSpec => []ProgramsKeepTheirWord
<1>1. SequentialInv => ProgramsKeepTheirWord
  BY LoopsFinish, PartsCrash, RowsStored, FilesExtended, WholeBatches
     DEF SequentialInv, ProgramsKeepTheirWord
<1> QED BY <1>1, SequentialInvHolds, PTL

=============================================================================
