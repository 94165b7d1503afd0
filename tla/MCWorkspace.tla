----------------------------- MODULE MCWorkspace -----------------------------
(* Instances of Workspace for TLC: candles of one and of two ticks.           *)
EXTENDS Workspace

Durations == [i \in {"m15", "h1"} |-> IF i = "m15" THEN 1 ELSE 2]

\* From tick -14.  A dip at -8 that the fast chart has confirmed before tick 0 and
\* the slow one confirms at tick 0, under the same id; one at -3 that the fast chart
\* alone confirms at tick 1; then far down, up and back.
Recovering == <<6, 5, 4, 3, 2, 4, 1, 3, 4, 4, 4, 2, 4, 4, 3, 0, 6, 3, 1>>

\* Equal lows at -8 and -6, one pattern of either chart; the market goes through
\* them while the candle is forming that would confirm the second.
Breaking == <<6, 6, 6, 5, 4, 3, 1, 4, 1, 3, 4, 4, 2, 4, 5, 0, 2, 4, 3>>

Markets == {Recovering, Breaking}
==============================================================================
