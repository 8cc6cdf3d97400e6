--------------------------- MODULE MCSequential ---------------------------
(* Waits and clocks at the edges of a millisecond, a second, a day and of a  *)
(* DWORD; the test program with a file of six blocks and two transactions. *)
EXTENDS Sequential

MCInstants == [tv_sec : 1..4, tv_usec : {0, 1, 999, 1000, 500000, 999000, 999999}]
MCMilliseconds == {0, 1, 2, 499, 500, 999, 1000, 1001, 1999, 2000}

\* A second has 4 milliseconds of 2 ticks of 2 ns.  At 12 bits GetTickCount
\* wraps after 1024 seconds, a FILETIME after 24 days.  A time_t of 6 days
\* begins 3 days before 1970, which is 2 days after 1601.
MCMinDay == -1
MCReadings == {0, 3, 15, 16, 1023 * 16 + 15, 1024 * 16, 1024 * 16 + 5, 2047 * 16 + 14,
               2048 * 16 + 3, 86399 * 16 + 12, 86400 * 16, 86400 * 16 + 17}
MCZones == {[offset |-> o, slips |-> {0}] : o \in {0, 3600, -18000, 19800}}
           \cup {[offset |-> 3600, slips |-> {0, 3600, -3600}]}
MCSystemTimes == [day : {-2, -1, 0, 1, 2, 8, 9, 20}, hour : {0, 23, 24}, minute : {0, 59},
                  second : {0, 59}, milli : {0, 1, 3}]
MCFileTimes == [high : {0, 1, 255, 800, 1600, 2047, 2048, 4095}, low : {0, 1, 7, 8, 2047, 2048, 4095}]

=============================================================================
