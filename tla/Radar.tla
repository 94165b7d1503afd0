-------------------------------- MODULE Radar --------------------------------
(***************************************************************************)
(* terminal/modules/radar-engine.js, researchFeaturesAt of galka-stats.js  *)
(* and decorateRadarCandidates of pro.js: which patterns a chart shows at  *)
(* a moment, and which of them count as confirmed.                         *)
(*                                                                         *)
(* Pure functions of the candles.  Prices and times are integers; a ratio  *)
(* to the average range is compared by multiplying out, and a score is in  *)
(* tenths, as the code rounds it.  The newest candle is still forming, and *)
(* a candle whose last update was lost stays as the one before left it.    *)
(* The class of a pattern (the nearest centre of the pack), its strength   *)
(* and the match with the examples of the user are left out.               *)
(***************************************************************************)
EXTENDS Integers, Sequences, FiniteSets, FiniteSetsExt, SequencesExt

CONSTANTS
  Side,     \* candles on each side of a pivot
  Period,   \* candles of the average range
  Merge,    \* candidates this close are one
  Around,   \* candles on each side of a pivot that make it confirmed
  Warmup,   \* candles before the first that can be confirmed
  MinScore, \* least score of a candidate
  Past      \* ticks of the tape before time 0

ASSUME RadarAssumption ==
  /\ Side \in Nat \ {0} /\ Period \in Nat \ {0} /\ Merge \in Nat
  /\ Around \in Nat \ {0} /\ Side <= Around /\ Warmup \in Nat /\ Warmup >= Around
  /\ MinScore \in 0..100 /\ Past \in Nat

------------------------------------------------------------------------------
(* The chart: tick t of a tape is its entry t + Past + 1.                    *)

PriceAt(tape, t) == tape[t + Past + 1]

\* The candle of "length" ticks that opens at "open", as an update at "until" tells it.
Candle(tape, length, open, until) ==
  LET ticks  == open..Min({until, open + length - 1})
      prices == {PriceAt(tape, t) : t \in ticks}
  IN  [time |-> open, high |-> Max(prices), low |-> Min(prices),
       close |-> PriceAt(tape, Max(ticks))]

\* updateCandleMap: the ticks of the k-th candle at which the chart got an update of it.
Updates(length, k, until, lost) ==
  (((k - 1) * length - Past)..Min({until, k * length - Past - 1})) \ lost

\* The n-th number of a set.
nth(numbers, n) == CHOOSE k \in numbers : Cardinality({j \in numbers : j <= k}) = n

\* The chart at the moment "until" if it got no update at the ticks of "lost".  A candle
\* without any update is not there, and the next one follows the one before.
chartRows(tape, length, until, lost) ==
  LET shown == {k \in 1..((until + Past) \div length + 1) : Updates(length, k, until, lost) # {}}
  IN  [n \in 1..Cardinality(shown) |->
         LET k == nth(shown, n)
         IN  Candle(tape, length, (k - 1) * length - Past, Max(Updates(length, k, until, lost)))]

------------------------------------------------------------------------------
(* radar-engine.js                                                          *)

\* Of the Period candles up to i, the ranges they cover, added up.
atrAt(rows, i) ==
  MapThenSumSet(LAMBDA k : LET before == rows[k - 1].close
                           IN  Max({rows[k].high, before}) - Min({rows[k].low, before}),
                (i - Period + 1)..i)

Lows(rows, ks)  == {rows[k].low : k \in ks}
Highs(rows, ks) == {rows[k].high : k \in ks}

\* The features of the candle i, or none.  Depths are in prices; they are
\* divided by atr / Period where the code has them in ranges.
NoFeature == [time |-> -Past - 1]

radarFeatureAt(rows, i) ==
  LET low   == rows[i].low
      left  == Max(Highs(rows, (i - Side)..(i - 1))) - low
      right == Max(Highs(rows, (i + 1)..(i + Side))) - low
      atr   == atrAt(rows, i)
  IN  IF i <= Period \/ i <= Side \/ i + Side > Len(rows) THEN NoFeature
      ELSE IF \/ low > Min(Lows(rows, (i - Side)..(i + Side)))
              \/ atr = 0 \/ left <= 0 \/ right <= 0 THEN NoFeature
      ELSE [time |-> rows[i].time, level |-> low, index |-> i, atr |-> atr,
            left |-> left, right |-> right,
            sharp |-> Max({0, Min({rows[i - 1].low, rows[i + 1].low}) - low}),
            lift  |-> rows[i].close - low]

\* points * clamp(n / d, 0, 1), in thousandths.
Part(points, n, d) == (1000 * points * Max({0, Min({n, d})})) \div d

Score(f) ==
  LET ranges(x) == x * Period
      sum == Part(20, 10 * ranges(f.left) - 6 * f.atr, 24 * f.atr)
           + Part(30, 100 * f.right - 25 * f.left, 85 * f.left)
           + Part(20, Min({f.left, f.right}), Max({f.left, f.right}))
           + Part(20, 10 * ranges(f.sharp), 9 * f.atr)
           + Part(10, 10 * ranges(f.lift), 7 * f.atr)
  IN  [exact |-> sum, shown |-> (sum + 50) \div 100]

\* The candidates before those close to each other are merged.
Scored(rows) ==
  {i \in DOMAIN rows : /\ radarFeatureAt(rows, i) # NoFeature
                       /\ Score(radarFeatureAt(rows, i)).exact >= 1000 * MinScore}

\* From left to right; of two close ones the better, of two equal the first.
mergedWith(rows, i, merged) ==
  LET shown(k) == Score(radarFeatureAt(rows, k)).shown
  IN  IF merged = <<>> \/ i - Last(merged) > Merge THEN Append(merged, i)
      ELSE IF shown(i) > shown(Last(merged)) THEN Append(Front(merged), i) ELSE merged

scanRadarCandidates(rows) ==
  MapThenFoldSet(LAMBDA i, merged : mergedWith(rows, i, merged), <<>>, LAMBDA i : i, Max, Scored(rows))

------------------------------------------------------------------------------
(* Confirmation                                                             *)

\* researchFeaturesAt, as far as it says yes or no.  No candle may be missing before
\* the confirmation; the code looks back 288 candles, which no chart here has.
researchFeaturesAt(rows, i, length) ==
  /\ i > Warmup /\ i > Period /\ i + Around <= Len(rows)
  /\ \A k \in 2..(i + Around) : rows[k].time - rows[k - 1].time = length
  /\ LET low   == rows[i].low
         drop  == Max(Highs(rows, (i - Around)..(i - 1))) - low
         climb == Max(Highs(rows, (i + 1)..(i + Around))) - low
     IN  /\ atrAt(rows, i) > 0
         /\ low = Min(Lows(rows, (i - Around)..(i + Around)))
         /\ 10 * drop * Period >= 8 * atrAt(rows, i)
         /\ 4 * climb >= drop

\* The end of the last candle that is looked at.
ConfirmationAt(rows, i, length) == rows[i + Around].time + length

\* Mutant: the last candle may still be forming.
ConfirmedEarly(rows, i, length, until) == researchFeaturesAt(rows, i, length)

\* The clock is asked whether the last candle has ended, not the candle.
Confirmed(rows, i, length, until) ==
  researchFeaturesAt(rows, i, length) /\ ConfirmationAt(rows, i, length) <= until

\* The candidates of a chart; one that is confirmed gets a type.  A pattern is known
\* by the time of its candle, whatever the interval.
decorateRadarCandidates(rows, length, until) ==
  {[id |-> rows[i].time, level |-> rows[i].low, typed |-> Confirmed(rows, i, length, until),
    confirmed |-> IF Confirmed(rows, i, length, until) THEN ConfirmationAt(rows, i, length)
                                                       ELSE -Past - 1] :
     i \in ToSet(scanRadarCandidates(rows))}
==============================================================================
