----------------------------- MODULE PaperEngine -----------------------------
(***************************************************************************)
(* terminal/modules/paper-engine.js: what one quote does to one simulated  *)
(* campaign, what one closed minute candle is replayed as, and which       *)
(* answers of the candle service are accepted.                             *)
(*                                                                         *)
(* Prices are ranks.  Level l of a ladder rests l ranks below the GALKA    *)
(* (vLow), a reclaim is one rank above it, the trailing stop follows       *)
(* Distance ranks behind the high; every level holds one unit.  Fees and   *)
(* slippage are left out: they change amounts, never what happens.         *)
(* The quantities that recalculateCampaign stores are derived from the     *)
(* filled levels here, since the code recomputes them before each use.     *)
(***************************************************************************)
EXTENDS Integers, Sequences, FiniteSets, FiniteSetsExt

CONSTANTS
  NLevels,    \* levels of a ladder
  Distance,   \* trailing distance, in ranks
  MaxAge,     \* ticks until a campaign expires (maxHours)
  Minute      \* ticks of a one-minute candle

ASSUME PaperEngineAssumption ==
  /\ NLevels \in Nat \ {0} /\ Distance \in Nat \ {0}
  /\ MaxAge \in Nat \ {0}  /\ Minute \in Nat \ {0, 1}

Levels == 1..NLevels
Never  == -1       \* null for a time

------------------------------------------------------------------------------
(* Campaigns                                                                *)

\* A manual campaign leaves at the GALKA itself, an automatic one trails.
createCampaign(id, source, level, now) ==
  [id |-> id, source |-> source, status |-> "waiting", vLow |-> level,
   reclaim |-> IF source = "manual" THEN level ELSE level + 1,
   createdAt |-> now, expiresAt |-> now + MaxAge,
   fill |-> [l \in Levels |-> Never], cycles |-> 0,
   armed |-> FALSE, high |-> Never, stop |-> Never]

NoCampaign == [createCampaign(0, "none", 0, 0) EXCEPT !.status = "none"]

Active(c)     == c.status \in {"waiting", "open", "trailing"}
LevelPrice(c, l) == c.vLow - l
Filled(c)     == {l \in Levels : c.fill[l] # Never}
Qty(c)        == Cardinality(Filled(c))
Entered(c)    == Min({c.fill[l] : l \in Filled(c)})
Unrealized(c, price) == Qty(c) * (price - c.vLow) + SumSet(Filled(c))

\* The level may be dragged until the first purchase.
Editable(c) == c.source = "manual" /\ Filled(c) = {}
moveManualCampaign(c, level) == [c EXCEPT !.vLow = level, !.reclaim = level]

------------------------------------------------------------------------------
(* processCampaignQuote                                                     *)

FillLevels(c, ask, now) ==
  LET hit == {l \in Levels \ Filled(c) : ask <= LevelPrice(c, l)}
  IN  IF c.armed \/ hit = {} THEN c
      ELSE [c EXCEPT !.fill = [l \in Levels |-> IF l \in hit THEN now ELSE @[l]],
                     !.status = "open"]

\* One cycle of the first level: sold at the GALKA and put back.
closeAndRearmL1(c) ==
  [c EXCEPT !.fill[1] = Never, !.cycles = @ + 1, !.status = "waiting"]

ArmTrailing(c, bid, now) ==
  IF c.armed \/ bid < c.reclaim THEN c
  ELSE [c EXCEPT !.armed = TRUE, !.status = "trailing", !.high = bid,
                 !.stop = c.vLow, !.expiresAt = now + MaxAge]

RaiseStop(c, bid) ==
  LET high == Max({c.high, bid})
  IN  IF ~c.armed THEN c
      ELSE [c EXCEPT !.high = high, !.stop = Max({@, c.vLow, high - Distance})]

\* What a quote led to: the campaign afterwards, the campaign as it was held,
\* and the exit to record, if any.
Outcome(c, held, exit, price) ==
  [campaign |-> c, held |-> held, exit |-> exit, price |-> price]

Nothing(c) == Outcome(c, c, "none", 0)

\* Mutant: a campaign that holds something is dropped as well.
ExpireDrops(c, bid) == Outcome(c, c, "expired", bid)

\* Past its time a campaign is sold at the bid, or dropped if it holds nothing.
Expire(c, bid) ==
  Outcome(c, c, IF Filled(c) = {} THEN "expired" ELSE "time_exit", bid)

TargetExit(c, bid) ==
  CASE bid < c.vLow     -> Nothing(c)
    [] bid >= c.vLow /\ Filled(c) = {1} ->
         Outcome(closeAndRearmL1(c), c, "l1_cycle", c.vLow)
    [] bid >= c.vLow /\ Filled(c) # {1} -> Outcome(c, c, "v_low_target", c.vLow)

TrailExit(c, bid) ==
  IF c.armed /\ bid <= c.stop THEN Outcome(c, c, "trailing_stop", bid) ELSE Nothing(c)

processCampaignQuote(c, bid, ask, now) ==
  LET bought == FillLevels(c, ask, now)
  IN  CASE ~Active(c) -> Nothing(c)
        [] Active(c) /\ now >= c.expiresAt -> Expire(c, bid)
        [] Active(c) /\ now < c.expiresAt ->
             CASE Filled(bought) = {} -> Nothing(bought)
               [] Filled(bought) # {} /\ c.source = "manual" -> TargetExit(bought, bid)
               [] Filled(bought) # {} /\ c.source # "manual" ->
                    TrailExit(RaiseStop(ArmTrailing(bought, bid, now), bid), bid)

------------------------------------------------------------------------------
(* Candles                                                                  *)

OpenOf(m)  == m * Minute              \* first tick of minute m
CloseOf(m) == m * Minute + Minute - 1 \* closeTime, the last tick

\* lastClosedMinute: the close of the newest minute that is over.
LastClosed(now) == (now \div Minute) * Minute - 1

\* The minutes a replay needs, from the first that closes after "after".
Needed(after, end) ==
  {m \in 0..(end \div Minute) : CloseOf(m) > after /\ CloseOf(m) <= end}

\* Mutant: an answer with a hole in it is accepted.
AnySubset(minutes, after, end) == minutes \subseteq Needed(after, end)

\* validateRecoveryCandleRange: an answer with a hole is an error.
Complete(minutes, after, end) == minutes = Needed(after, end)

\* recoveryCandlePath: of a candle that overlaps the last known moment only the
\* close is used; any other runs open, low, high, close, or open, high, low,
\* close when it falls.  The instants are those of the code.
recoveryCandlePath(m, ticks, after) ==
  LET open   == Head(ticks)
      close  == ticks[Minute]
      seen   == {ticks[i] : i \in 1..Minute}
      span   == Minute - 1
      At(offset, price, k) == [at |-> OpenOf(m) + offset, price |-> price, k |-> k, minute |-> m]
      ends   == IF close >= open THEN <<Min(seen), Max(seen)>> ELSE <<Max(seen), Min(seen)>>
  IN  IF OpenOf(m) < after THEN {At(span, close, 4)}
      ELSE {At(1, open, 1), At(Max({1, span \div 3}), ends[1], 2),
            At(Max({1, (2 * span) \div 3}), ends[2], 3), At(span, close, 4)}
==============================================================================
