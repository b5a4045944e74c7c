----------------------------- MODULE Timestamp -----------------------------
(***************************************************************************)
(* The conversions of Unix timestamps in kn/tool/src/datetime.h, with the  *)
(* StrToNum of str_to_number.h.  A timestamp comes as a string of digits,  *)
(* and its unit is guessed from the length of the string.                  *)
(*                                                                         *)
(* Of a string we keep its length and what from_chars makes of its         *)
(* characters.  An instant is a number of nanoseconds since 1970, as is    *)
(* the duration of a tick; the representation of a duration has 64 bits.   *)
(***************************************************************************)
EXTENDS Integers

Units == {"seconds", "milliseconds", "microseconds", "nanoseconds"}

Tick ==
  [seconds |-> 1000000000,
   milliseconds |-> 1000000,
   microseconds |-> 1000,
   nanoseconds |-> 1]

\* from_chars reads the number in front, whatever follows it, so that value
\* and size need not agree; it fails with either error and leaves value alone.
Strings == [errc : {"ok", "invalid_argument", "result_out_of_range"},
            value : Nat, size : Nat]
StrToNum(str) == str.errc

\* uint64_t to the signed representation.
Int64Limit == 9223372036854775808
Signed(n) == IF n < Int64Limit THEN n ELSE n - 2 * Int64Limit
Fits(n) == -Int64Limit <= n /\ n < Int64Limit

\* duration_cast rounds towards zero.
RoundToZero(n, d) == IF n >= 0 THEN n \div d ELSE -((-n) \div d)

\* TimePoint has the unit res, Dur is a unit as well.
UnixTsToTP(ts, dur, res) ==
  IF Tick[dur] >= Tick[res]
  THEN Signed(ts) * (Tick[dur] \div Tick[res])
  ELSE RoundToZero(Signed(ts), Tick[res] \div Tick[dur])

Size ==
  [seconds |-> 10,
   milliseconds |-> 13,
   microseconds |-> 16,
   nanoseconds |-> 19]

\* The error code, and the time point, which stays as it was if there is one.
StrUnixTsToTP(str, ts, res) ==
  IF StrToNum(str) # "ok" THEN [errc |-> StrToNum(str), ts |-> ts]
  ELSE IF \A u \in Units : str.size # Size[u]
       THEN [errc |-> "invalid_argument", ts |-> ts]
  ELSE [errc |-> "ok",
        ts |-> UnixTsToTP(str.value, CHOOSE u \in Units : str.size = Size[u], res)]

\* What a clock of nanoseconds shows, in ticks of dur.
NowTS(now, dur) == now \div Tick[dur]

-----------------------------------------------------------------------------
(* The instants that can be told in strings, and what they should give.     *)

\* The least number of as many digits as the unit expects.
Least ==
  [seconds |-> 1000000000,
   milliseconds |-> 1000000000000,
   microseconds |-> 1000000000000000,
   nanoseconds |-> 1000000000000000000]

\* str is n in decimal digits, without leading zeros.
Writes(str, n) ==
  /\ str.errc = "ok" /\ str.value = n
  /\ \A u \in Units : str.size = Size[u] <=> Least[u] <= n /\ n < 10 * Least[u]

\* The instant in ticks of res, as far as ticks of dur can tell it.
Told(now, dur, res) == (NowTS(now, dur) * Tick[dur]) \div Tick[res]

January1970 == 1000000000000000
April1970 == 10000000000000000
September2001 == 1000000000000000000
=============================================================================
