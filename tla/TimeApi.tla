------------------------------- MODULE TimeApi -------------------------------
(***************************************************************************)
(* Clocks and times: timezoneapi.cpp, sysinfoapi.cpp, profileapi.cpp and   *)
(* FileTimeToLocalFileTime of fileapi.cpp.  A date is the number of days   *)
(* since 1601-01-01, the calendar being boost::gregorian's.  All clocks    *)
(* read std::chrono's system clock, which SetLocalTime sets.               *)
(***************************************************************************)
EXTENDS Integers

CONSTANTS
  Word32,           \* how many numbers 32 bits hold: 2^32 in the code
  Builds,           \* those of a DWORD: Word32 or, where a long has 64 bits, Quad
  TimeT32,          \* how many seconds a time_t of 32 bits tells apart: 2^32 in the code
  NsPerTick,        \* 100 in the code: a FILETIME counts 100 ns
  TicksPerMilli,    \* 10000 in the code
  MillisPerSecond,  \* 1000 in the code
  EpochDays,        \* from 1601-01-01 to 1970-01-01
  MinDay, MaxDay,   \* boost's first and last date
  Readings,         \* what the system clock shows, in ns since 1970
  MaxReading,       \* bound: no clock is set beyond it
  Zones,            \* time zones
  SystemTimes, FileTimes  \* the arguments of the conversions

VARIABLES
  dword,     \* how many numbers a DWORD holds in this build
  zone,      \* [offset: seconds east of UTC, slips: see SetLocalTime]
  clock,     \* the system clock
  mark,      \* the last reading of a clock since it was set
  last       \* the last call, its arguments, what it returned and when

timeVars == <<dword, zone, clock, mark, last>>

-----------------------------------------------------------------------------
Quad == Word32 * Word32
SecondTicks == TicksPerMilli * MillisPerSecond
MilliNs  == TicksPerMilli * NsPerTick
SecondNs == MilliNs * MillisPerSecond
Day == 86400

(* The fields of a moment, in seconds since 1601.                          *)
Fields(s, milli) ==
  [day |-> s \div Day, hour |-> (s % Day) \div 3600,
   minute |-> (s % 3600) \div 60, second |-> s % 60, milli |-> milli]

(* The moment of the fields, not looked at: 25 hours are a day and one.    *)
SecondsOf(t) == t.day * Day + t.hour * 3600 + t.minute * 60 + t.second

IsDate(day) == day \in MinDay..MaxDay

(* The ticks of a SYSTEMTIME since 1601.                                   *)
TicksOf(t) == SecondsOf(t) * SecondTicks + t.milli * TicksPerMilli

(* boost's last date, and any WORDs beside it, is far from 2^63 ticks.     *)
ASSUME TimeAssumption ==
  /\ Word32 \in Nat \ {0} /\ Word32 % 2 = 0
  /\ Builds \subseteq {Word32, Quad}
  /\ TimeT32 \in Nat \ {0} /\ TimeT32 % 2 = 0
  /\ {NsPerTick, TicksPerMilli, MillisPerSecond} \subseteq Nat \ {0}
  /\ {EpochDays, MaxDay} \subseteq Nat /\ MinDay \in Int /\ MinDay <= 0
  /\ Readings \subseteq 0..MaxReading /\ MaxReading \in Nat
  /\ \A z \in Zones : z.offset \in Int /\ z.slips \subseteq Int
  /\ SystemTimes \subseteq [day : Int, hour : Nat, minute : Nat, second : Nat, milli : Nat]
  /\ \A t \in SystemTimes : IsDate(t.day) => TicksOf(t) < Quad \div 2
  /\ FileTimes \subseteq [high : Nat, low : Nat]

Undefined == -1
Throws == [throws |-> TRUE]

(* 64 bits read as an int64_t, and its division, which rounds to zero.     *)
Signed(v) == IF v >= Quad \div 2 THEN v - Quad ELSE v
Quotient(a, b) == IF a >= 0 THEN a \div b ELSE -((-a) \div b)

(* sizeof(dwLowDateTime * 8ULL) is 8: the high word is not shifted enough. *)
(* A date that is none makes boost throw.                                  *)
SystemTimeToFileTime(t, w) ==
  LET total == TicksOf(t) % Quad
  IN  IF ~IsDate(t.day) THEN Throws
      ELSE [high |-> (total \div 256) % w, low |-> total % w]

(* Both words as one; shifting by all 64 bits is undefined.                *)
Ticks(ft, w) ==
  IF w < Quad THEN Signed(ft.high * w + ft.low)
  ELSE IF ft.high = 0 THEN Signed(ft.low) ELSE Undefined

(* A time_t, seconds since 1970, has the width of a long as a DWORD has:   *)
(* the cast keeps what 32 bits hold, the dates from 1901 to 2038.          *)
IsTimeT(s, w) == w = Quad \/ s \in -(TimeT32 \div 2)..TimeT32 \div 2 - 1
AsTimeT(s, w) ==
  IF IsTimeT(s, w) THEN s ELSE ((s + TimeT32 \div 2) % TimeT32) - TimeT32 \div 2

FileTimeToSystemTime(ft, w) ==
  LET since1970 == Quotient(Ticks(ft, w), SecondTicks) - EpochDays * Day
      s == AsTimeT(since1970, w) + EpochDays * Day
  IN  IF IsDate(s \div Day) THEN Fields(s, 0) ELSE Throws

(* 1LL << 32 - 1 is one bit, not 32: of the low word only the top bit      *)
(* remains.  The offset is today's, not that of the file's date.           *)
FileTimeToLocalFileTime(ft, w, offset) ==
  LET t == Ticks(ft, w) + offset * MillisPerSecond * TicksPerMilli
      low == IF (t \div (w \div 2)) % 2 = 1 THEN w \div 2 ELSE 0
  IN  [high |-> IF w < Quad THEN ((t - low) \div w) % w ELSE Undefined, low |-> low]

-----------------------------------------------------------------------------
Called(o, in, out) == [op |-> o, arg |-> in, result |-> out, at |-> clock]
NoCall == [op |-> "none", arg |-> 0, result |-> 0, at |-> 0]

TimeInit ==
  /\ dword \in Builds
  /\ zone \in Zones
  /\ clock \in Readings
  /\ mark = NoCall
  /\ last = NoCall

ClockRuns(c) ==
  /\ clock < c
  /\ clock' = c
  /\ UNCHANGED <<dword, zone, mark, last>>

Convert(o, in, out) ==
  /\ last' = Called(o, in, out)
  /\ UNCHANGED <<dword, zone, clock, mark>>

(* A null argument, or one FILETIME for both, is answered by FALSE.        *)
Refused == Convert("refused", 0, 0)

CallSystemTimeToFileTime(t) == Convert("SystemTimeToFileTime", t, SystemTimeToFileTime(t, dword))

CallFileTimeToSystemTime(ft) ==
  /\ Ticks(ft, dword) # Undefined
  /\ Convert("FileTimeToSystemTime", ft, FileTimeToSystemTime(ft, dword))

CallFileTimeToLocalFileTime(ft) ==
  /\ Ticks(ft, dword) # Undefined
  /\ Convert("FileTimeToLocalFileTime", ft, FileTimeToLocalFileTime(ft, dword, zone.offset))

(* A reading is kept as mark.                                              *)
Reading(o, out) ==
  /\ mark' = Called(o, 0, out)
  /\ last' = NoCall
  /\ UNCHANGED <<dword, zone, clock>>

(* wDayOfWeek is left as it was.                                           *)
GetLocalTime ==
  Reading("GetLocalTime",
          Fields(EpochDays * Day + zone.offset + clock \div SecondNs, (clock % SecondNs) \div MilliNs))

(* Mutant: what a DWORD cannot hold is cut off at the top. *)
TicksSaturated(c, w) == IF c \div MilliNs < w THEN c \div MilliNs ELSE w - 1
TickCount(c, w) == (c \div MilliNs) % w

GetTickCount == Reading("GetTickCount", TickCount(clock, dword))

QueryPerformanceCounter == Reading("QueryPerformanceCounter", clock)

QueryPerformanceFrequency == SecondNs

(* The difference of two readings, as a caller forms it, in milliseconds.  *)
TicksSince ==
  /\ mark.op = "GetTickCount"
  /\ Convert("TicksSince", mark, (TickCount(clock, dword) - mark.result) % dword)

CountsSince ==
  /\ mark.op = "QueryPerformanceCounter"
  /\ Convert("CountsSince", mark,
             ((clock - mark.result) * MillisPerSecond) \div QueryPerformanceFrequency)

(* mktime reads tm_isdst, which is not set: in a zone with summer time it  *)
(* may be off by zone.slips.                                               *)
mktime(t, slip) == SecondsOf(t) - EpochDays * Day - zone.offset - slip

(* TRUE whether or not stime was allowed to set the clock.  The clock has  *)
(* whole seconds then, and earlier readings no longer count.               *)
SetLocalTime(t) ==
  /\ \E c \in {clock} \cup {mktime(t, slip) * SecondNs : slip \in zone.slips} :
       /\ c \in 0..MaxReading
       /\ clock' = c
       /\ last' = Called("SetLocalTime", mark, c)
  /\ mark' = NoCall
  /\ UNCHANGED <<dword, zone>>

(* The conversions read no clock: they are called while no reading is kept.*)
Conversion ==
  \/ \E t \in SystemTimes : CallSystemTimeToFileTime(t)
  \/ \E ft \in FileTimes : CallFileTimeToSystemTime(ft) \/ CallFileTimeToLocalFileTime(ft)
  \/ Refused

TimeNext ==
  \/ \E c \in Readings : ClockRuns(c)
  \/ mark = NoCall /\ last = NoCall /\ Conversion
  \/ GetLocalTime \/ GetTickCount \/ QueryPerformanceCounter
  \/ TicksSince \/ CountsSince
  \/ mark.op = "GetLocalTime" /\ SetLocalTime(mark.result)

-----------------------------------------------------------------------------
Returned(o) == last.op = o /\ last.result # Throws

(* A second since 1601 that this build's time_t holds.                     *)
InTimeT(s) == IsTimeT(s - EpochDays * Day, dword)

(* FileTimeToSystemTime gives the second in which the file time lies, for  *)
(* every file time from 1601 on whose second a time_t holds: in the builds *)
(* of 32 bits those of 1901 to 2038, and only those.                       *)
FileTimesKeepTheSecond ==
  Returned("FileTimeToSystemTime") /\ Ticks(last.arg, dword) >= 0 =>
    LET since == Ticks(last.arg, dword) - SecondsOf(last.result) * SecondTicks
    IN  since \in 0..SecondTicks - 1 <=> InTimeT(Ticks(last.arg, dword) \div SecondTicks)

(* The low word that SystemTimeToFileTime stores is right: with the high   *)
(* word that belongs to it, it converts back to the same second, if a      *)
(* time_t holds that second.                                               *)
SystemTimesConvertBack ==
  Returned("SystemTimeToFileTime") =>
    LET seconds == SecondsOf(last.arg)
        high == IF dword = Quad THEN 0 ELSE (TicksOf(last.arg) \div dword) % dword
        back == FileTimeToSystemTime([high |-> high, low |-> last.result.low], dword)
    IN  0 <= seconds /\ last.arg.milli < MillisPerSecond /\ InTimeT(seconds) /\ back # Throws =>
          SecondsOf(back) = seconds

(* Where DWORD has 32 bits a local file time is never after the local time *)
(* it stands for, and less than 2^31 ticks (3.6 minutes) before it.        *)
LocalFileTimesAreNear ==
  Returned("FileTimeToLocalFileTime") /\ dword < Quad =>
    LET true == Ticks(last.arg, dword) + zone.offset * SecondTicks
    IN  true \in -(Quad \div 2)..Quad \div 2 - 1 =>
          true - Ticks(last.result, dword) \in 0..dword \div 2 - 1

(* The difference of two GetTickCounts modulo 2^32, and that of two        *)
(* QueryPerformanceCounters divided by the frequency, are the milliseconds *)
(* between them, also across the wrap, as long as nobody sets the clock.   *)
TicksMeasureTime ==
  /\ last.op = "TicksSince" /\ last.at - last.arg.at < (dword - 1) * MilliNs =>
       last.result \in Quotient(last.at - last.arg.at, MilliNs)
                       .. Quotient(last.at - last.arg.at, MilliNs) + 1
  /\ last.op = "CountsSince" => last.result = (last.at - last.arg.at) \div MilliNs

(* Setting the local time that was read puts the clock, if it may be set,  *)
(* back to the second of that reading, in a zone without summer time.      *)
SettingRestoresTheSecond ==
  last.op = "SetLocalTime" /\ zone.slips = {0} =>
    last.result \in {last.at, (last.arg.at \div SecondNs) * SecondNs}

(* What is kept of a time on its way through the conversions of            *)
(* timezoneapi.cpp and fileapi.cpp and the clocks of sysinfoapi.cpp and    *)
(* profileapi.cpp, in both widths of DWORD.                                *)
TimesSurvive ==
  /\ FileTimesKeepTheSecond /\ SystemTimesConvertBack /\ LocalFileTimesAreNear
  /\ TicksMeasureTime /\ SettingRestoresTheSecond

=============================================================================
