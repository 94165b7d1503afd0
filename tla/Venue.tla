-------------------------------- MODULE Venue --------------------------------
(***************************************************************************)
(* The Hyperliquid account of one coin, as live/engine.py sees it through  *)
(* live/hyperliquid_gateway.py: the position, the engine's resting orders, *)
(* the orders the engine does not recognise, and the fills the engine has  *)
(* not read yet.  The venue moves between any two gateway calls.           *)
(*                                                                         *)
(* Sizes are whole units; one ladder level is Lot units, so a level can be *)
(* partially filled when Lot > 1.  An owned order is named by its level:   *)
(* entry[l] and target[l] are the open units of the ALO entry and of the   *)
(* native reduce-only TP of level l, target[0] those of the fallback       *)
(* target (the code, too, files the fallback under target level 0).        *)
(*                                                                         *)
(* Fills are kept as what an application of them changes: units bought by  *)
(* owned entries, the deepest level among them, units sold by owned        *)
(* targets, and whether any fill is not owned.                             *)
(***************************************************************************)
EXTENDS Integers, FiniteSets

CONSTANTS
  NLevels,     \* ladder levels (8 in the code)
  Lot,         \* units per level
  MaxManual    \* bound: trades, orders and cancels made by hand

ASSUME NLevelsAssumption   == NLevels \in Nat \ {0}
ASSUME LotAssumption       == Lot \in Nat \ {0}
ASSUME MaxManualAssumption == MaxManual \in Nat

VARIABLES
  pos,         \* signed position of the coin
  entry,       \* [Levels -> open units of the owned entry]
  target,      \* [TargetLevels -> open units of the owned target]
  due,         \* [Levels -> filled units whose native TP is not listed yet]
  strayBuy,    \* open buy units of orders the engine cannot recognise
  straySell,   \* open reduce-only sell units the engine cannot recognise
  unseen,      \* fills no sync has read yet
  manual       \* actions made by hand so far (bounded by MaxManual)

venueVars == <<pos, entry, target, due, strayBuy, straySell, unseen, manual>>

Levels       == 1..NLevels
TargetLevels == 0..NLevels
Fallback     == 0

Fills   == [bought : Nat, deepest : TargetLevels, sold : Nat, foreign : BOOLEAN]
NoFills == [bought |-> 0, deepest |-> 0, sold |-> 0, foreign |-> FALSE]

Deeper(a, b) == IF a > b THEN a ELSE b

\* Two batches of fills read as one.
Merge(f, g) == [bought  |-> f.bought + g.bought,
                deepest |-> Deeper(f.deepest, g.deepest),
                sold    |-> f.sold + g.sold,
                foreign |-> f.foreign \/ g.foreign]

NoEntries == [l \in Levels |-> 0]
NoTargets == [l \in TargetLevels |-> 0]
NoDue     == [l \in Levels |-> 0]

OpenEntries(e) == {l \in Levels : e[l] > 0}
OpenTargets(t) == {l \in TargetLevels : t[l] > 0}

\* No owned order is open and no native TP of an owned entry is still to be listed.
Quiet == entry = NoEntries /\ target = NoTargets /\ due = NoDue

VenueTypeOK ==
  /\ pos \in Int
  /\ entry \in [Levels -> Nat]
  /\ target \in [TargetLevels -> Nat]
  /\ due \in [Levels -> Nat]
  /\ strayBuy \in Nat /\ straySell \in Nat
  /\ unseen \in Fills
  /\ manual \in Nat

VenueInit ==
  /\ pos = 0
  /\ entry = NoEntries /\ target = NoTargets /\ due = NoDue
  /\ strayBuy = 0 /\ straySell = 0
  /\ unseen = NoFills
  /\ manual = 0

------------------------------------------------------------------------------
(* The position becomes p: TPs still to be listed die with the position.   *)
SetPosition(p, d) ==
  /\ pos' = p
  /\ due' = IF p <= 0 THEN NoDue ELSE d

Foreign == unseen' = [unseen EXCEPT !.foreign = TRUE]

\* A limit buy fills only when no owned buy rests at a better price above it.
EntryFill(l) ==
  /\ entry[l] > 0
  /\ \A m \in Levels : m < l => entry[m] = 0
  /\ entry' = [entry EXCEPT ![l] = @ - 1]
  /\ SetPosition(pos + 1, [due EXCEPT ![l] = @ + 1])
  /\ unseen' = [unseen EXCEPT !.bought = @ + 1, !.deepest = Deeper(@, l)]
  /\ UNCHANGED <<target, strayBuy, straySell, manual>>

\* The native TP of what level l has bought becomes an open order.
ListTarget(l) ==
  /\ due[l] > 0
  /\ target' = [target EXCEPT ![l] = @ + due[l]]
  /\ due' = [due EXCEPT ![l] = 0]
  /\ UNCHANGED <<pos, entry, strayBuy, straySell, unseen, manual>>

\* An owned target (native or fallback) sells one unit; reduce-only.
TargetFill(l) ==
  /\ target[l] > 0 /\ pos > 0
  /\ target' = [target EXCEPT ![l] = @ - 1]
  /\ SetPosition(pos - 1, due)
  /\ unseen' = [unseen EXCEPT !.sold = @ + 1]
  /\ UNCHANGED <<entry, strayBuy, straySell, manual>>

\* The venue drops reduce-only orders that have nothing left to reduce.
DropReduceOnly ==
  /\ pos <= 0
  /\ OpenTargets(target) # {} \/ straySell > 0
  /\ target' = NoTargets /\ straySell' = 0
  /\ UNCHANGED <<pos, entry, due, strayBuy, unseen, manual>>

\* An order of a rearm whose answer was lost brings its TP.
StrayBuyFill ==
  /\ strayBuy > 0
  /\ strayBuy' = strayBuy - 1
  /\ straySell' \in {straySell, straySell + 1}
  /\ SetPosition(pos + 1, due)
  /\ Foreign
  /\ UNCHANGED <<entry, target, manual>>

StraySellFill ==
  /\ straySell > 0 /\ pos > 0
  /\ straySell' = straySell - 1
  /\ SetPosition(pos - 1, due)
  /\ Foreign
  /\ UNCHANGED <<entry, target, strayBuy, manual>>

ByHand == manual < MaxManual /\ manual' = manual + 1

ManualTrade ==
  /\ ByHand
  /\ \E d \in {-1, 1} : SetPosition(pos + d, due)
  /\ Foreign
  /\ UNCHANGED <<entry, target, strayBuy, straySell>>

ManualOrder ==
  /\ ByHand
  /\ strayBuy' = strayBuy + 1
  /\ UNCHANGED <<pos, entry, target, due, straySell, unseen>>

ManualCancel ==
  /\ ByHand
  /\ \/ \E l \in Levels : entry[l] > 0 /\ entry' = [entry EXCEPT ![l] = 0] /\ target' = target
     \/ \E l \in TargetLevels : target[l] > 0 /\ target' = [target EXCEPT ![l] = 0] /\ entry' = entry
  /\ UNCHANGED <<pos, due, strayBuy, straySell, unseen>>

VenueNext ==
  \/ \E l \in Levels : EntryFill(l) \/ ListTarget(l)
  \/ \E l \in TargetLevels : TargetFill(l)
  \/ DropReduceOnly \/ StrayBuyFill \/ StraySellFill
  \/ ManualTrade \/ ManualOrder \/ ManualCancel
==============================================================================
