-------------------------- MODULE PaperReplayProofs --------------------------
(***************************************************************************)
(* What quotes, the margin check and a replay do to the books, for every   *)
(* number of symbols and levels, every tape and every length of a minute.  *)
(*                                                                         *)
(* Everything that touches the books is a sequence of moves of single      *)
(* campaigns (Move): a campaign grows, expires, or is sold.  Each move     *)
(* keeps the ledger in step with the campaigns (LedgerOK), loses no        *)
(* position without a trade (Leads), and adds its trade after those there  *)
(* are if no quote before them is processed (Ordered, NotAfter).  The      *)
(* folds of the model, over quotes, positions, instants and symbols, are   *)
(* restated as functions on finite sets, so that each is a run of states   *)
(* of which one lemma says what a step keeps: QuotesIs for processQuotes,  *)
(* LiquidationIs for the margin check, ReplayIs for a replay.              *)
(***************************************************************************)
EXTENDS PaperTrading, FoldLemmas

------------------------------------------------------------------------------
(* One campaign                                                             *)

\* The campaigns, as records.
CampSet ==
  [id : Nat, source : {"none", "manual", "auto"}, status : {"none", "waiting", "open", "trailing"},
   vLow : Int, reclaim : Int, createdAt : Int, expiresAt : Int, fill : [Levels -> Int],
   cycles : Nat, armed : BOOLEAN, high : Int, stop : Int]

\* What StoreOK says of one campaign, and what the engine needs besides.
CampOK(c) ==
  /\ c \in CampSet
  /\ (c.status = "none") = (c = NoCampaign)
  /\ c.status = "open" => Filled(c) # {}
  /\ c.armed = (c.status = "trailing")
  /\ c.armed => c.source = "auto" /\ c.stop >= c.vLow /\ c.high >= c.reclaim
  /\ Active(c) => c.source \in {"manual", "auto"}

\* The same campaign after quotes of time t that sold nothing.
Grown(c, d, t) ==
  /\ CampOK(d)
  /\ d.id = c.id /\ d.source = c.source /\ d.createdAt = c.createdAt /\ d.cycles = c.cycles
  /\ Active(d) = Active(c)
  /\ ~Active(c) => d = c
  /\ \A l \in Levels : d.fill[l] = c.fill[l] \/ (c.fill[l] = Never /\ d.fill[l] = t)

\* What the assumptions say of the parameters of the engine.
LEMMA LevelsOne == 1 \in Levels /\ NLevels \in Nat /\ MaxAge \in Nat /\ Distance \in Nat
BY PaperEngineAssumption DEF Levels

\* A new campaign (createCampaign) holds nothing and is as it should be.
LEMMA CreatedOK ==
  ASSUME NEW id \in Nat, NEW source \in {"manual", "auto"}, NEW level \in Int, NEW t \in Int
  PROVE  /\ CampOK(createCampaign(id, source, level, t))
         /\ Active(createCampaign(id, source, level, t))
         /\ Filled(createCampaign(id, source, level, t)) = {}
         /\ createCampaign(id, source, level, t).id = id
         /\ createCampaign(id, source, level, t).createdAt = t
         /\ createCampaign(id, source, level, t).cycles = 0
<1> DEFINE c == createCampaign(id, source, level, t)
           f == [l \in Levels |-> Never]
<1>1. f \in [Levels -> Int] /\ \A l \in Levels : f[l] = Never
  BY DEF Never
<1>2. t + MaxAge \in Int /\ level + 1 \in Int /\ Never \in Int
  BY LevelsOne DEF Never
<1>3. /\ c.id = id /\ c.source = source /\ c.status = "waiting" /\ c.vLow = level
      /\ c.createdAt = t /\ c.fill = f /\ c.cycles = 0 /\ c.armed = FALSE
      /\ c \in CampSet
  <2> HIDE DEF f
  <2> QED
    BY <1>1, <1>2 DEF createCampaign, CampSet, f
<1>4. NoCampaign.status = "none"
  BY DEF NoCampaign, createCampaign
<1> HIDE DEF c
<1>5. Filled(c) = {} /\ Active(c)
  BY <1>1, <1>3 DEF Filled, Active
<1>6. CampOK(c)
  BY <1>3, <1>4, <1>5 DEF CampOK
<1> QED
  BY <1>3, <1>5, <1>6 DEF c

\* The absent campaign holds nothing and is not active.
LEMMA NoneOK == CampOK(NoCampaign) /\ ~Active(NoCampaign) /\ Filled(NoCampaign) = {}
                /\ NoCampaign.id = 0
<1> DEFINE f == [l \in Levels |-> Never]
<1>1. f \in [Levels -> Int] /\ \A l \in Levels : f[l] = Never
  BY DEF Never
<1>2. Never \in Int /\ MaxAge \in Int
  BY LevelsOne DEF Never
<1>3. /\ NoCampaign.status = "none" /\ NoCampaign.fill = f /\ NoCampaign.armed = FALSE
      /\ NoCampaign.id = 0 /\ NoCampaign \in CampSet
  <2>1. NoCampaign = [id |-> 0, source |-> "none", status |-> "none", vLow |-> 0,
                      reclaim |-> 1, createdAt |-> 0, expiresAt |-> MaxAge, fill |-> f,
                      cycles |-> 0, armed |-> FALSE, high |-> Never, stop |-> Never]
    <3>1. createCampaign(0, "none", 0, 0) =
            [id |-> 0, source |-> "none", status |-> "waiting", vLow |-> 0,
             reclaim |-> 0 + 1, createdAt |-> 0, expiresAt |-> 0 + MaxAge, fill |-> f,
             cycles |-> 0, armed |-> FALSE, high |-> Never, stop |-> Never]
      BY Zenon DEF createCampaign
    <3>2. 0 + 1 = 1 /\ 0 + MaxAge = MaxAge
      BY <1>2
    <3> DEFINE r == createCampaign(0, "none", 0, 0)
    <3>3. NoCampaign = [r EXCEPT !.status = "none"]
      BY DEF NoCampaign
    <3>4. r = [id |-> 0, source |-> "none", status |-> "waiting", vLow |-> 0,
               reclaim |-> 1, createdAt |-> 0, expiresAt |-> MaxAge, fill |-> f,
               cycles |-> 0, armed |-> FALSE, high |-> Never, stop |-> Never]
      BY <3>1, <3>2
    <3> HIDE DEF f, r
    <3> QED
      BY <3>3, <3>4
  <2> HIDE DEF f
  <2> QED
    BY <1>1, <1>2, <2>1 DEF CampSet
<1>4. Filled(NoCampaign) = {} /\ ~Active(NoCampaign)
  BY <1>1, <1>3 DEF Filled, Active
<1> QED
  BY <1>3, <1>4 DEF CampOK

\* A campaign is active or absent, and one that holds something is active.
LEMMA ActiveOrNone ==
  ASSUME NEW c, CampOK(c)
  PROVE  /\ ~Active(c) => c = NoCampaign
         /\ Filled(c) # {} => Active(c)
         /\ Active(c) => c # NoCampaign
<1>1. ~Active(c) => c = NoCampaign
  BY DEF CampOK, CampSet, Active
<1>2. Filled(c) # {} => Active(c)
  BY <1>1, NoneOK
<1>3. Active(c) => c # NoCampaign
  BY NoneOK
<1> QED
  BY <1>1, <1>2, <1>3

\* A campaign that a quote leaves alone has grown.
LEMMA GrownSelf == ASSUME NEW c, CampOK(c), NEW t PROVE Grown(c, c, t)
BY DEF Grown

\* A level that was moved (moveManualCampaign) leaves the campaign as it should be.
LEMMA MovedOK ==
  ASSUME NEW c, CampOK(c), Editable(c), Active(c), NEW level \in Int
  PROVE  /\ CampOK(moveManualCampaign(c, level))
         /\ Active(moveManualCampaign(c, level)) /\ Filled(moveManualCampaign(c, level)) = {}
<1> DEFINE d == moveManualCampaign(c, level)
<1>1. d \in CampSet /\ d.status = c.status /\ d.source = c.source /\ d.armed = c.armed
      /\ d.fill = c.fill /\ d.high = c.high /\ d.stop = c.stop
  BY DEF moveManualCampaign, CampOK, CampSet
<1>2. Filled(d) = Filled(c) /\ Active(d)
  BY <1>1 DEF Filled, Active
<1>3. d # NoCampaign /\ d.status # "none"
  BY <1>2, NoneOK DEF Active
<1> HIDE DEF d
<1>4. c.source = "manual" /\ Filled(c) = {}
  BY DEF Editable
<1>5. ~c.armed
  BY <1>4 DEF CampOK
<1> QED
  BY <1>1, <1>2, <1>3, <1>4, <1>5 DEF CampOK, d

\* Levels that were filled (FillLevels) leave the campaign as it should be.
LEMMA FilledGrown ==
  ASSUME NEW c, CampOK(c), NEW t \in Nat, Active(c), NEW ask \in Int
  PROVE  Grown(c, FillLevels(c, ask, t), t) /\ FillLevels(c, ask, t).armed = c.armed
<1> DEFINE hit == {l \in Levels \ Filled(c) : ask <= LevelPrice(c, l)}
           d   == [c EXCEPT !.fill = [l \in Levels |-> IF l \in hit THEN t ELSE @[l]],
                            !.status = "open"]
<1>1. CASE c.armed \/ hit = {}
  BY <1>1, GrownSelf DEF FillLevels
<1>2. CASE ~c.armed /\ hit # {}
  <2>1. FillLevels(c, ask, t) = d
    BY <1>2 DEF FillLevels
  <2>2. /\ d \in CampSet /\ d.status = "open" /\ d.source = c.source /\ d.armed = FALSE
        /\ d.id = c.id /\ d.createdAt = c.createdAt /\ d.cycles = c.cycles
        /\ d.fill = [l \in Levels |-> IF l \in hit THEN t ELSE c.fill[l]]
    <3> DEFINE f == [l \in Levels |-> IF l \in hit THEN t ELSE c.fill[l]]
    <3>1. c \in CampSet /\ c.fill \in [Levels -> Int]
      BY DEF CampOK, CampSet
    <3>2. f \in [Levels -> Int]
      BY <3>1
    <3>3. d = [c EXCEPT !.fill = f, !.status = "open"]
      OBVIOUS
    <3> HIDE DEF hit, f, d
    <3>4. /\ d \in CampSet /\ d.status = "open" /\ d.source = c.source /\ d.armed = c.armed
          /\ d.id = c.id /\ d.createdAt = c.createdAt /\ d.cycles = c.cycles /\ d.fill = f
      BY <3>1, <3>2, <3>3 DEF CampSet
    <3>5. c.armed = FALSE
      BY <1>2, <3>1 DEF CampSet
    <3> QED
      BY <3>4, <3>5 DEF f
  <2>3. \A l \in hit : c.fill[l] = Never /\ l \in Levels
    BY DEF Filled
  <2> HIDE DEF d, hit
  <2>4. \A l \in Levels : d.fill[l] = c.fill[l] \/ (c.fill[l] = Never /\ d.fill[l] = t)
    BY <2>2, <2>3
  <2>5. Filled(d) # {}
    <3>1. PICK l \in hit : TRUE
      BY <1>2
    <3>2. d.fill[l] = t /\ t # Never
      BY <2>2, <2>3 DEF Never
    <3> QED
      BY <2>3, <3>2 DEF Filled
  <2>6. d # NoCampaign
    BY <2>5, NoneOK
  <2>7. CampOK(d) /\ Active(d)
    BY <2>2, <2>5, <2>6 DEF CampOK, Active
  <2>8. c.armed = FALSE
    BY <1>2 DEF CampOK, CampSet
  <2>9. Grown(c, d, t)
    BY <2>2, <2>4, <2>7 DEF Grown
  <2> QED
    BY <2>1, <2>2, <2>8, <2>9
<1> QED
  BY <1>1, <1>2

\* Trailing changes nothing that counts.
LEMMA ArmedGrown ==
  ASSUME NEW c, CampOK(c), Active(c), c.source = "auto", NEW bid \in Int, NEW t \in Nat
  PROVE  LET d == RaiseStop(ArmTrailing(c, bid, t), bid)
         IN  /\ CampOK(d) /\ Active(d) /\ d.id = c.id /\ d.source = c.source
             /\ d.createdAt = c.createdAt /\ d.cycles = c.cycles /\ d.fill = c.fill
<1> DEFINE a == ArmTrailing(c, bid, t)
           h == Max({a.high, bid})
           e == Max({a.stop, a.vLow, h - Distance})
           d == RaiseStop(a, bid)
<1>0. c \in CampSet
  BY DEF CampOK
<1>1. /\ CampOK(a) /\ Active(a) /\ a.id = c.id /\ a.source = "auto"
      /\ a.createdAt = c.createdAt /\ a.cycles = c.cycles /\ a.fill = c.fill
  <2>1. CASE c.armed \/ bid < c.reclaim
    BY <2>1 DEF ArmTrailing
  <2>2. CASE ~c.armed /\ ~(bid < c.reclaim)
    <3>1. a = [c EXCEPT !.armed = TRUE, !.status = "trailing", !.high = bid,
                        !.stop = c.vLow, !.expiresAt = t + MaxAge]
      BY <2>2 DEF ArmTrailing
    <3>2. t + MaxAge \in Int
      BY LevelsOne
    <3> HIDE DEF a
    <3>3. /\ a \in CampSet /\ a.status = "trailing" /\ a.armed = TRUE /\ a.high = bid
          /\ a.stop = c.vLow /\ a.id = c.id /\ a.source = "auto" /\ a.vLow = c.vLow
          /\ a.reclaim = c.reclaim
          /\ a.createdAt = c.createdAt /\ a.cycles = c.cycles /\ a.fill = c.fill
      BY <1>0, <3>1, <3>2 DEF CampSet
    <3>4. a # NoCampaign /\ Active(a)
      BY <3>3, NoneOK DEF Active
    <3>5. a.stop >= a.vLow /\ a.high >= a.reclaim
      BY <1>0, <2>2, <3>3 DEF CampSet
    <3> QED
      BY <3>3, <3>4, <3>5 DEF CampOK
  <2> QED
    BY <2>1, <2>2
<1> HIDE DEF a
<1>2. a \in CampSet
  BY <1>1 DEF CampOK
<1>3. a.high \in Int /\ a.stop \in Int /\ a.vLow \in Int /\ a.reclaim \in Int
  BY <1>2 DEF CampSet
<1>4. h \in Int /\ h >= a.high
  BY <1>3, MaxOfTwo
<1> HIDE DEF h
<1>5. h - Distance \in Int
  BY <1>4, LevelsOne
<1>6. e \in Int /\ e >= a.vLow
  BY <1>3, <1>5, MaxOfThree
<1>7. CASE ~a.armed
  <2>1. d = a
    BY <1>7 DEF RaiseStop
  <2> HIDE DEF d
  <2> QED
    BY <1>1, <2>1 DEF a, d
<1>8. CASE a.armed
  <2>1. d = [a EXCEPT !.high = h, !.stop = e]
    BY <1>8 DEF RaiseStop, h
  <2> HIDE DEF d, e
  <2>2. /\ d \in CampSet /\ d.status = a.status /\ d.armed = TRUE /\ d.high = h
        /\ d.stop = e /\ d.id = c.id /\ d.source = "auto" /\ d.vLow = a.vLow
        /\ d.reclaim = a.reclaim
        /\ d.createdAt = c.createdAt /\ d.cycles = c.cycles /\ d.fill = c.fill
    BY <1>1, <1>2, <1>4, <1>6, <1>8, <2>1 DEF CampSet
  <2>3. a.high >= a.reclaim /\ a.status = "trailing"
    BY <1>1, <1>8 DEF CampOK
  <2>4. d.stop >= d.vLow /\ d.high >= d.reclaim
    BY <1>3, <1>4, <1>6, <2>2, <2>3
  <2>5. Active(d) /\ d # NoCampaign
    BY <2>2, <2>3, NoneOK DEF Active
  <2>6. CampOK(d)
    BY <2>2, <2>3, <2>4, <2>5 DEF CampOK
  <2> QED
    BY <2>2, <2>5, <2>6 DEF a, d
<1> QED
  BY <1>7, <1>8

\* What processCampaignQuote can return as exit.
Exits == {"none", "l1_cycle", "expired", "time_exit", "v_low_target", "trailing_stop"}

\* What the engine can make of a campaign c at time t.
Engine(c, o, t) ==
  /\ o.price \in Int /\ o.exit \in Exits
  /\ o.exit = "none" => Grown(c, o.campaign, t)
  /\ o.exit = "expired" => Active(c) /\ Filled(c) = {}
  /\ o.exit = "l1_cycle" =>
       /\ Active(c) /\ Grown(c, o.held, t) /\ Filled(o.held) # {}
       /\ CampOK(o.campaign) /\ Active(o.campaign) /\ Filled(o.campaign) = {}
       /\ o.campaign.id = c.id /\ o.campaign.createdAt = c.createdAt
       /\ o.campaign.cycles = c.cycles + 1
  /\ o.exit \notin {"none", "l1_cycle", "expired"} =>
       /\ Active(c) /\ Grown(c, o.held, t) /\ Filled(o.held) # {}
       /\ CampOK(o.campaign)

\* A first level that was sold and put back (closeAndRearmL1) is empty.
LEMMA RearmedOK ==
  ASSUME NEW c, CampOK(c), Active(c), Filled(c) = {1}, ~c.armed
  PROVE  LET d == closeAndRearmL1(c)
         IN  /\ CampOK(d) /\ Active(d) /\ d.id = c.id /\ d.createdAt = c.createdAt
             /\ d.source = c.source
             /\ d.cycles = c.cycles + 1 /\ Filled(d) = {}
<1> DEFINE d == closeAndRearmL1(c)
           f == [c.fill EXCEPT ![1] = Never]
           n == c.cycles + 1
<1>1. c \in CampSet /\ c.fill \in [Levels -> Int] /\ c.cycles \in Nat
  BY DEF CampOK, CampSet
<1>2. f \in [Levels -> Int] /\ \A l \in Levels : f[l] = IF l = 1 THEN Never ELSE c.fill[l]
  BY <1>1, LevelsOne DEF Never
<1>3. d = [c EXCEPT !.fill = f, !.cycles = n, !.status = "waiting"] /\ n \in Nat
  BY <1>1 DEF closeAndRearmL1
<1> HIDE DEF f, d, n
<1>4. /\ d \in CampSet /\ d.fill = f /\ d.cycles = n /\ d.status = "waiting"
      /\ d.id = c.id /\ d.createdAt = c.createdAt /\ d.source = c.source /\ d.armed = c.armed
  BY <1>1, <1>2, <1>3 DEF CampSet
<1>5. \A l \in Levels : l # 1 => c.fill[l] = Never
  BY DEF Filled
<1>6. Filled(d) = {}
  BY <1>2, <1>4, <1>5 DEF Filled
<1>7. Active(d) /\ d # NoCampaign
  BY <1>4, NoneOK DEF Active
<1>8. CampOK(d)
  BY <1>4, <1>6, <1>7 DEF CampOK
<1> QED
  BY <1>4, <1>6, <1>7, <1>8 DEF d, n

\* processCampaignQuote makes of a campaign what Engine says.
LEMMA EngineIs ==
  ASSUME NEW c, CampOK(c), NEW bid \in Int, NEW t \in Nat
  PROVE  Engine(c, processCampaignQuote(c, bid, bid, t), t)
<1> DEFINE o == processCampaignQuote(c, bid, bid, t)
           b == FillLevels(c, bid, t)
           r == RaiseStop(ArmTrailing(b, bid, t), bid)
<1> USE DEF Outcome, Exits
<1>0. c \in CampSet /\ c.expiresAt \in Int /\ c.vLow \in Int
  BY DEF CampOK, CampSet
<1>1. CASE ~Active(c)
  <2>1. o = Nothing(c)
    BY <1>1 DEF processCampaignQuote
  <2> HIDE DEF o
  <2>2. o.exit = "none" /\ o.campaign = c /\ o.price = 0
    BY <2>1 DEF Nothing
  <2> QED
    BY <2>2, GrownSelf DEF Engine, o
<1>2. CASE Active(c) /\ t >= c.expiresAt
  <2>1. o = Expire(c, bid)
    BY <1>0, <1>2 DEF processCampaignQuote
  <2> HIDE DEF o
  <2>2. /\ o.campaign = c /\ o.held = c /\ o.price = bid
        /\ o.exit = IF Filled(c) = {} THEN "expired" ELSE "time_exit"
    BY <2>1 DEF Expire
  <2> QED
    BY <1>2, <2>2, GrownSelf DEF Engine, o
<1>3. CASE Active(c) /\ t < c.expiresAt
  <2>0. Grown(c, b, t) /\ b.armed = c.armed
    BY <1>3, FilledGrown
  <2>a. CampOK(b) /\ Active(b) /\ b.source = c.source /\ b \in CampSet /\ b.vLow \in Int
    BY <1>3, <2>0 DEF Grown, CampOK, CampSet
  <2>b. o = CASE Filled(b) = {} -> Nothing(b)
              [] Filled(b) # {} /\ c.source = "manual" -> TargetExit(b, bid)
              [] Filled(b) # {} /\ c.source # "manual" -> TrailExit(r, bid)
    BY <1>0, <1>3 DEF processCampaignQuote
  <2> HIDE DEF o, b
  <2>1. CASE Filled(b) = {}
    <3>1. o = Nothing(b)
      BY <2>1, <2>b
    <3>2. o.exit = "none" /\ o.campaign = b /\ o.price = 0
      BY <3>1 DEF Nothing
    <3> QED
      BY <2>0, <3>2 DEF Engine, o
  <2>2. CASE Filled(b) # {} /\ c.source = "manual"
    <3>1. o = TargetExit(b, bid)
      BY <2>2, <2>b
    <3>2. CASE bid < b.vLow
      <4>1. o = Nothing(b)
        BY <2>a, <3>1, <3>2 DEF TargetExit
      <4>2. o.exit = "none" /\ o.campaign = b /\ o.price = 0
        BY <4>1 DEF Nothing
      <4> QED
        BY <2>0, <4>2 DEF Engine, o
    <3>3. CASE bid >= b.vLow /\ Filled(b) = {1}
      <4>1. o = Outcome(closeAndRearmL1(b), b, "l1_cycle", b.vLow)
        BY <2>a, <3>1, <3>3 DEF TargetExit
      <4>2. o.exit = "l1_cycle" /\ o.campaign = closeAndRearmL1(b) /\ o.held = b /\ o.price = b.vLow
        BY <4>1
      <4>3. ~b.armed
        BY <2>2, <2>a DEF CampOK
      <4>4. /\ CampOK(o.campaign) /\ Active(o.campaign) /\ o.campaign.id = b.id
            /\ o.campaign.createdAt = b.createdAt
            /\ o.campaign.cycles = b.cycles + 1 /\ Filled(o.campaign) = {}
        BY <2>a, <3>3, <4>2, <4>3, RearmedOK
      <4>5. b.id = c.id /\ b.createdAt = c.createdAt /\ b.cycles = c.cycles
        BY <2>0 DEF Grown
      <4> QED
        BY <1>3, <2>0, <2>2, <2>a, <4>2, <4>4, <4>5 DEF Engine, o
    <3>4. CASE bid >= b.vLow /\ Filled(b) # {1}
      <4>1. o = Outcome(b, b, "v_low_target", b.vLow)
        BY <2>a, <3>1, <3>4 DEF TargetExit
      <4>2. o.exit = "v_low_target" /\ o.campaign = b /\ o.held = b /\ o.price = b.vLow
        BY <4>1
      <4> QED
        BY <1>3, <2>0, <2>2, <2>a, <4>2 DEF Engine, o
    <3> QED
      BY <2>a, <3>2, <3>3, <3>4
  <2>3. CASE Filled(b) # {} /\ c.source # "manual"
    <3>1. o = TrailExit(r, bid)
      BY <2>3, <2>b
    <3>2. b.source = "auto"
      BY <2>3, <2>a DEF CampOK
    <3>3. /\ CampOK(r) /\ Active(r) /\ r.id = b.id /\ r.source = b.source
          /\ r.createdAt = b.createdAt /\ r.cycles = b.cycles /\ r.fill = b.fill
      BY <2>a, <3>2, ArmedGrown, Zenon
    <3> HIDE DEF r
    <3>4. Grown(c, r, t)
      BY <1>3, <2>0, <3>3 DEF Grown
    <3>5. Filled(r) # {}
      BY <2>3, <3>3 DEF Filled
    <3>6. CASE r.armed /\ bid <= r.stop
      <4>1. o = Outcome(r, r, "trailing_stop", bid)
        BY <3>1, <3>6 DEF TrailExit
      <4>2. o.exit = "trailing_stop" /\ o.campaign = r /\ o.held = r /\ o.price = bid
        BY <4>1
      <4> QED
        BY <1>3, <3>3, <3>4, <3>5, <4>2 DEF Engine, o
    <3>7. CASE ~(r.armed /\ bid <= r.stop)
      <4>1. o = Nothing(r)
        BY <3>1, <3>7 DEF TrailExit
      <4>2. o.exit = "none" /\ o.campaign = r /\ o.price = 0
        BY <4>1 DEF Nothing
      <4> QED
        BY <3>4, <4>2 DEF Engine, o
    <3> QED
      BY <3>6, <3>7
  <2> QED
    BY <2>1, <2>2, <2>3
<1> QED
  BY <1>0, <1>1, <1>2, <1>3

------------------------------------------------------------------------------
(* Amounts and moments of a campaign                                        *)

\* An element of a set.
One(s) == CHOOSE x \in s : TRUE

\* The sum over a finite set as a function on its subsets, in place of the fold: one step.
OneSum(g, s) == IF s = {} THEN 0 ELSE One(s) + g[s \ {One(s)}]

\* The function that sums is one of these,
IsSum(g, D) == g = [s \in SUBSET D |-> OneSum(g, s)]

\* and this is it.
SumOf(D) == CHOOSE g : IsSum(g, D)

\* The fold of the library is this function.
LEMMA SumIs == ASSUME NEW D PROVE SumSet(D) = SumOf(D)[D]
BY Zenon DEF SumSet, FoldSet, MapThenFoldSet, SumOf, IsSum, OneSum, One

\* A sum of finitely many integers is one.
LEMMA SumType ==
  ASSUME NEW D \in SUBSET Int, IsFiniteSet(D)
  PROVE  SumSet(D) \in Int
<1> DEFINE F == [p \in Int \X D |-> p[2] + p[1]]
           c == [s \in SUBSET D |-> One(s)]
<1>1. \A v \in Int : \A d \in D : F[<<v, d>>] = d + v /\ F[<<v, d>>] \in Int
  OBVIOUS
<1>2. \A s \in SUBSET D : c[s] = One(s) /\ (s # {} => c[s] \in s)
  BY DEF One
<1>a. \A v \in Int : \A d \in D : F[<<v, d>>] \in Int
  BY <1>1
<1>b. \A s \in SUBSET D : s # {} => c[s] \in s
  BY <1>2
<1>c. 0 \in Int
  OBVIOUS
<1> HIDE DEF F, c
<1>3. \E g : IsSum(g, D)
  <2>1. PICK g \in [SUBSET D -> Int] : IsFold(g, D, 0, F, c)
    BY <1>a, <1>b, <1>c, FoldExists, Zenon
  <2>2. ASSUME NEW s \in SUBSET D PROVE g[s] = OneSum(g, s)
    <3>1. g[s] = IF s = {} THEN 0 ELSE F[<<g[s \ {c[s]}], c[s]>>]
      BY <2>1, Zenon DEF IsFold
    <3>2. CASE s = {}
      BY <3>1, <3>2 DEF OneSum
    <3>3. CASE s # {}
      <4>1. c[s] = One(s) /\ c[s] \in D /\ g[s \ {c[s]}] \in Int
        BY <1>2, <2>1, <3>3
      <4> QED
        BY <1>1, <3>1, <3>3, <4>1 DEF OneSum
    <3> QED
      BY <3>2, <3>3
  <2>3. g = [s \in SUBSET D |-> OneSum(g, s)]
    BY <2>1, <2>2
  <2> QED
    BY <2>3, Zenon DEF IsSum
<1> DEFINE g == SumOf(D)
<1>4. IsSum(g, D)
  BY <1>3 DEF SumOf
<1>5. g[D] = SumSet(D)
  BY SumIs
<1> HIDE DEF g
<1>6. \A s \in SUBSET D : g[s] = OneSum(g, s)
  BY <1>4, Zenon DEF IsSum
<1>7. ASSUME NEW s \in SUBSET D, s # {} => g[s \ {c[s]}] \in Int PROVE g[s] \in Int
  <2>1. CASE s = {}
    <3>1. g[s] = OneSum(g, s)
      BY <1>6
    <3> QED
      BY <2>1, <3>1 DEF OneSum
  <2>2. CASE s # {}
    <3>1. c[s] = One(s) /\ c[s] \in D /\ g[s \ {c[s]}] \in Int
      BY <1>2, <1>7, <2>2
    <3>2. g[s] = One(s) + g[s \ {One(s)}]
      BY <1>6, <2>2 DEF OneSum
    <3>3. c[s] \in Int
      BY <3>1
    <3>4. c[s] + g[s \ {c[s]}] \in Int
      BY <3>1, <3>3
    <3> QED
      BY <3>1, <3>2, <3>4
  <2> QED
    BY <2>1, <2>2
<1>8. StaysIn(g, D, Int, c)
  BY <1>2, <1>7 DEF StaysIn
<1> QED
  BY <1>5, <1>8, FoldIn

\* A campaign has finitely many filled levels.
LEMMA FilledFinite ==
  ASSUME NEW c
  PROVE  Filled(c) \in SUBSET Levels /\ Filled(c) \in SUBSET Int /\ IsFiniteSet(Filled(c))
<1>1. Filled(c) \in SUBSET Levels
  BY DEF Filled
<1>2. IsFiniteSet(Levels) /\ Levels \in SUBSET Int
  BY LevelsOne, FS_Interval DEF Levels
<1>3. IsFiniteSet(Filled(c))
  BY <1>1, <1>2, FS_Subset
<1> QED
  BY <1>1, <1>2, <1>3

\* An unrealized result is a number.
LEMMA UnrealizedType ==
  ASSUME NEW c \in CampSet, NEW price \in Int
  PROVE  Unrealized(c, price) \in Int
<1>1. SumSet(Filled(c)) \in Int
  BY FilledFinite, SumType
<1>2. Qty(c) \in Int
  BY FilledFinite, FS_CardinalityType DEF Qty
<1>3. c.vLow \in Int
  BY DEF CampSet
<1>4. price - c.vLow \in Int
  BY <1>3
<1>5. Qty(c) * (price - c.vLow) \in Int
  BY <1>2, <1>4
<1> QED
  BY <1>1, <1>5 DEF Unrealized

\* A position was entered when its first level was filled.
LEMMA EnteredIs ==
  ASSUME NEW c \in CampSet, Filled(c) # {}
  PROVE  /\ Entered(c) \in Int
         /\ \E l \in Filled(c) : Entered(c) = c.fill[l]
         /\ \A l \in Filled(c) : Entered(c) <= c.fill[l]
<1> DEFINE D == Filled(c)
           f == [l \in D |-> c.fill[l]]
           T == {f[l] : l \in D}
<1>1. IsFiniteSet(D) /\ D \in SUBSET Levels
  BY FilledFinite
<1>2. c.fill \in [Levels -> Int]
  BY DEF CampSet
<1>3. f = [l \in D |-> f[l]]
  OBVIOUS
<1>4. {c.fill[l] : l \in Filled(c)} = T
  OBVIOUS
<1>5. \A l \in D : f[l] = c.fill[l] /\ f[l] \in Int
  BY <1>1, <1>2
<1> HIDE DEF f
<1>6. IsFiniteSet(T)
  BY <1>1, <1>3, FiniteImage
<1>7. T \in SUBSET Int /\ T # {}
  BY <1>5
<1> HIDE DEF T
<1>8. Min(T) \in T /\ \A k \in T : Min(T) <= k
  BY <1>6, <1>7, MinMaxOfFinite
<1>9. Entered(c) = Min(T)
  BY <1>4, Zenon DEF Entered
<1> QED
  BY <1>5, <1>7, <1>8, <1>9 DEF T

------------------------------------------------------------------------------
(* The store                                                                *)

\* The campaigns that are as they should be.
CampGood == {c \in CampSet : CampOK(c)}

\* The trades of the ledger.
TradeSet == [id : Nat, sym : Symbols, cycle : Nat, entry : Int, exit : Int]

\* The stores.
StoreSet ==
  [camp : [Symbols -> CampGood], trades : Seq(TradeSet), realized : Int,
   chk : Times, gap : Times, at : [Symbols -> Times], rec : [Symbols -> Times], since : Times,
   live : [Symbols -> SUBSET Minutes], replayed : [Symbols -> SUBSET Minutes],
   again : SUBSET Symbols, slipped : SUBSET Symbols, mixed : SUBSET Symbols,
   early : SUBSET Symbols]

\* The fields that only the bookkeeping of gaps touches.
Frame(st, x) ==
  /\ x.chk = st.chk /\ x.gap = st.gap /\ x.at = st.at /\ x.rec = st.rec /\ x.since = st.since
  /\ x.live = st.live /\ x.replayed = st.replayed /\ x.again = st.again
  /\ x.slipped = st.slipped /\ x.mixed = st.mixed /\ x.early = st.early

\* The trade that Book writes.
Sale(held, s, cycle, t) ==
  [id |-> held.id, sym |-> s, cycle |-> cycle, entry |-> Entered(held), exit |-> t]

\* A campaign of a store is as it should be.
LEMMA CampIn ==
  ASSUME NEW st \in StoreSet, NEW s \in Symbols
  PROVE  st.camp[s] \in CampGood /\ CampOK(st.camp[s]) /\ st.camp[s] \in CampSet
BY DEF StoreSet, CampGood

\* A trade of a store has its types.
LEMMA TradesIn ==
  ASSUME NEW st \in StoreSet
  PROVE  /\ st.trades \in Seq(TradeSet) /\ Len(st.trades) \in Nat
         /\ DOMAIN st.trades = 1..Len(st.trades)
         /\ \A i \in DOMAIN st.trades :
              /\ st.trades[i] \in TradeSet
              /\ st.trades[i].entry \in Int /\ st.trades[i].exit \in Int
              /\ st.trades[i].id \in Nat /\ st.trades[i].cycle \in Nat
              /\ st.trades[i].sym \in Symbols
<1>1. st.trades \in Seq(TradeSet)
  BY DEF StoreSet
<1>2. Len(st.trades) \in Nat /\ DOMAIN st.trades = 1..Len(st.trades)
  BY <1>1, LenProperties
<1>3. \A i \in DOMAIN st.trades : st.trades[i] \in TradeSet
  BY <1>1, ElementOfSeq, <1>2
<1>4. \A x \in TradeSet : /\ x.entry \in Int /\ x.exit \in Int /\ x.id \in Nat /\ x.cycle \in Nat
                          /\ x.sym \in Symbols
  BY DEF TradeSet
<1> QED
  BY <1>1, <1>2, <1>3, <1>4

\* The campaign of s is replaced.
Put(st, s, c) == [st EXCEPT !.camp[s] = c]

\* Nothing but the campaign of s differs.
Beside(st, x, s) ==
  /\ x \in StoreSet /\ Frame(st, x) /\ x.trades = st.trades
  /\ \A u \in Symbols \ {s} : x.camp[u] = st.camp[u]

\* A store stays one when a campaign is replaced.
LEMMA CampPut ==
  ASSUME NEW st \in StoreSet, NEW s \in Symbols, NEW c \in CampGood
  PROVE  Beside(st, Put(st, s, c), s) /\ Put(st, s, c).camp[s] = c
<1> DEFINE f == [st.camp EXCEPT ![s] = c]
           x == Put(st, s, c)
<1>1. /\ f \in [Symbols -> CampGood] /\ f[s] = c /\ \A u \in Symbols \ {s} : f[u] = st.camp[u]
  BY DEF StoreSet
<1>2. x = [st EXCEPT !.camp = f]
  BY DEF Put
<1> HIDE DEF f, x
<1>3. x \in StoreSet /\ Frame(st, x) /\ x.trades = st.trades /\ x.camp = f
  BY <1>1, <1>2 DEF StoreSet, Frame
<1> QED
  BY <1>1, <1>3 DEF Beside, x

\* A trade is appended to the ledger.
WithTrade(st, x, trade) ==
  /\ x \in StoreSet /\ Frame(st, x) /\ x.camp = st.camp
  /\ x.trades = Append(st.trades, trade)

\* Book appends the sale and moves the realized result.
LEMMA Booked ==
  ASSUME NEW st \in StoreSet, NEW s \in Symbols, NEW held \in CampGood, Filled(held) # {},
         NEW cycle \in Nat, NEW price \in Int, NEW t \in Int
  PROVE  WithTrade(st, Book(st, s, held, cycle, price, t), Sale(held, s, cycle, t))
<1> DEFINE ts == Append(st.trades, Sale(held, s, cycle, t))
           r  == st.realized + Unrealized(held, price)
           y  == [st EXCEPT !.trades = ts, !.realized = r]
<1>1. held \in CampSet /\ held.id \in Nat
  BY DEF CampGood, CampSet
<1>2. Sale(held, s, cycle, t) \in TradeSet
  BY <1>1, EnteredIs DEF Sale, TradeSet
<1>3. ts \in Seq(TradeSet)
  BY <1>2, TradesIn, AppendProperties
<1>4. r \in Int
  BY <1>1, UnrealizedType DEF StoreSet
<1>5. Book(st, s, held, cycle, price, t) = y
  BY Zenon DEF Book, Sale
<1> HIDE DEF ts, r
<1>6. y \in StoreSet /\ Frame(st, y) /\ y.camp = st.camp /\ y.trades = ts
  BY <1>3, <1>4 DEF StoreSet, Frame
<1> HIDE DEF y
<1> QED
  BY <1>5, <1>6 DEF ts, WithTrade

------------------------------------------------------------------------------
(* One campaign moves                                                       *)

\* The ledger and the campaigns: LedgerMatches, stated with the trades that must
\* be there, and with the ids that were given out so far.
LedgerOK(st, n) ==
  /\ \A i, j \in DOMAIN st.trades :
       st.trades[i].id = st.trades[j].id /\ st.trades[i].cycle = st.trades[j].cycle => i = j
  /\ \A i \in DOMAIN st.trades : st.trades[i].id \in 1..n
  /\ \A s \in Symbols : Active(st.camp[s]) =>
       /\ st.camp[s].id \in 1..n
       /\ \A i \in DOMAIN st.trades :
            st.trades[i].id = st.camp[s].id => st.trades[i].cycle \in 1..st.camp[s].cycles
       /\ \A k \in 1..st.camp[s].cycles : Recorded(st, st.camp[s].id, k)
  /\ \A s, u \in Symbols :
       s # u /\ Active(st.camp[s]) /\ Active(st.camp[u]) => st.camp[s].id # st.camp[u].id

\* The trades of st come first in x.
Extends(st, x) ==
  /\ DOMAIN st.trades \subseteq DOMAIN x.trades
  /\ \A i \in DOMAIN st.trades : x.trades[i] = st.trades[i]

\* A position of st is held in x, or one of its trades was booked since.
SoldSince(st, x, id) ==
  \E i \in DOMAIN x.trades : x.trades[i].id = id /\ ~Recorded(st, id, x.trades[i].cycle)

\* Every position of st is held in x, or was sold on the way.
Leads(st, x) ==
  \A s \in Symbols : Filled(st.camp[s]) # {} =>
    \/ SoldSince(st, x, st.camp[s].id)
    \/ x.camp[s].id = st.camp[s].id /\ Filled(x.camp[s]) # {}

\* A campaign of x was one of st.
Heirs(st, x) ==
  \A s \in Symbols : Active(x.camp[s]) =>
    /\ Active(st.camp[s])
    /\ x.camp[s].id = st.camp[s].id /\ x.camp[s].createdAt = st.camp[s].createdAt

\* What HoldingsDisjoint says of the trades of s, and what keeps it so.
Ordered(st, s) ==
  /\ \A i \in DOMAIN st.trades : st.trades[i].sym = s =>
       /\ st.trades[i].entry <= st.trades[i].exit
       /\ \A l \in Filled(st.camp[s]) : st.trades[i].exit <= st.camp[s].fill[l]
  /\ \A i, j \in DOMAIN st.trades : i # j /\ st.trades[i].sym = s /\ st.trades[j].sym = s =>
       \/ st.trades[i].exit <= st.trades[j].entry
       \/ st.trades[j].exit <= st.trades[i].entry

\* Nothing that s bought or sold is later than t.
NotAfter(st, s, t) ==
  /\ \A i \in DOMAIN st.trades : st.trades[i].sym = s => st.trades[i].exit <= t
  /\ \A l \in Filled(st.camp[s]) : st.camp[s].fill[l] <= t

\* The campaign of s at time t: it grew, expired, or was sold.
Sold(st, x, s, t, held) ==
  /\ Active(st.camp[s]) /\ Grown(st.camp[s], held, t) /\ Filled(held) # {}
  /\ \/ /\ x.trades = Append(st.trades, Sale(held, s, held.cycles + 1, t))
        /\ Active(x.camp[s]) /\ x.camp[s].id = held.id /\ x.camp[s].createdAt = held.createdAt
        /\ x.camp[s].cycles = held.cycles + 1 /\ Filled(x.camp[s]) = {}
     \/ x.trades = Append(st.trades, Sale(held, s, Final, t)) /\ x.camp[s] = NoCampaign

\* One campaign moves.
Move(st, x, s, t) ==
  /\ x \in StoreSet
  /\ \A u \in Symbols \ {s} : x.camp[u] = st.camp[u]
  /\ \/ x.trades = st.trades /\ Grown(st.camp[s], x.camp[s], t)
     \/ x.trades = st.trades /\ Filled(st.camp[s]) = {} /\ x.camp[s] = NoCampaign
     \/ \E held \in CampGood : Sold(st, x, s, t, held)

\* A live campaign has neither a final trade on the books nor one of its next cycle.
LEMMA NotFinal ==
  ASSUME NEW st \in StoreSet, NEW n \in Nat, LedgerOK(st, n), NEW s \in Symbols, Active(st.camp[s])
  PROVE  /\ ~Recorded(st, st.camp[s].id, Final)
         /\ ~Recorded(st, st.camp[s].id, st.camp[s].cycles + 1)
         /\ st.camp[s].cycles \in Nat
<1>1. st.camp[s].cycles \in Nat
  BY CampIn DEF CampSet
<1>2. \A i \in DOMAIN st.trades :
        st.trades[i].id = st.camp[s].id => st.trades[i].cycle \in 1..st.camp[s].cycles
  BY DEF LedgerOK
<1> QED
  BY <1>1, <1>2 DEF Recorded, Final

\* Selling a position that is held.
Closed(st, x, s, t, held) ==
  /\ Move(st, x, s, t) /\ Frame(st, x) /\ x.camp[s] = NoCampaign
  /\ x.trades = Append(st.trades, Sale(held, s, Final, t))

\* closeCampaign is a move.
LEMMA CloseMoves ==
  ASSUME NEW st \in StoreSet, NEW n \in Nat, LedgerOK(st, n), NEW s \in Symbols,
         NEW price \in Int, NEW t \in Int, NEW held \in CampGood,
         Active(st.camp[s]), Grown(st.camp[s], held, t), Filled(held) # {},
         NEW k, Beside(st, k, s)
  PROVE  Closed(st, closeCampaign(k, s, held, price, t), s, t, held)
<1> DEFINE d == Put(k, s, NoCampaign)
           x == closeCampaign(k, s, held, price, t)
<1>0. NoCampaign \in CampGood
  BY NoneOK DEF CampGood, CampOK
<1>1. /\ k \in StoreSet /\ Frame(st, k) /\ k.trades = st.trades
      /\ \A u \in Symbols \ {s} : k.camp[u] = st.camp[u]
  BY DEF Beside
<1>2. Beside(k, d, s) /\ d.camp[s] = NoCampaign
  BY <1>0, <1>1, CampPut, Zenon
<1>3. ~Recorded(k, held.id, Final)
  <2>1. ~Recorded(st, st.camp[s].id, Final) /\ held.id = st.camp[s].id
    BY NotFinal DEF Grown
  <2> QED
    BY <1>1, <2>1 DEF Recorded
<1>4. x = Book(d, s, held, Final, price, t)
  BY <1>3, Zenon DEF closeCampaign, Put
<1> HIDE DEF d, x
<1>5. WithTrade(d, x, Sale(held, s, Final, t))
  <2>1. Final \in Nat
    BY DEF Final
  <2>2. d \in StoreSet
    BY <1>2 DEF Beside
  <2> QED
    BY <1>4, <2>1, <2>2, Booked, Zenon
<1>6. /\ Frame(st, x) /\ x.camp[s] = NoCampaign
      /\ x.trades = Append(st.trades, Sale(held, s, Final, t))
      /\ \A u \in Symbols \ {s} : x.camp[u] = st.camp[u]
  BY <1>1, <1>2, <1>5 DEF Frame, Beside, WithTrade
<1>7. Move(st, x, s, t)
  BY <1>5, <1>6 DEF Move, Sold, WithTrade
<1> QED
  BY <1>6, <1>7 DEF Closed, x

\* What the engine returns, applied by Settle, is a move.
LEMMA SettleMoves ==
  ASSUME NEW st \in StoreSet, NEW n \in Nat, LedgerOK(st, n), NEW s \in Symbols,
         NEW price \in Int, NEW t \in Int, NEW o, Engine(st.camp[s], o, t)
  PROVE  /\ Move(st, Settle(st, s, o, price, t), s, t)
         /\ Frame(st, Settle(st, s, o, price, t))
<1> DEFINE c == st.camp[s]
           k == Put(st, s, o.campaign)
           x == Settle(st, s, o, price, t)
<1>0. CampOK(c) /\ c \in CampSet
  BY CampIn
<1>1. CASE o.exit = "none"
  <2>1. o.campaign \in CampGood /\ Grown(c, o.campaign, t)
    BY <1>1 DEF Engine, Grown, CampGood, CampOK
  <2>2. x = k
    BY <1>1 DEF Settle, Put
  <2>3. Beside(st, k, s) /\ k.camp[s] = o.campaign
    BY <2>1, CampPut, Zenon
  <2> HIDE DEF k, x
  <2>4. Grown(c, k.camp[s], t)
    BY <2>1, <2>3
  <2> QED
    BY <2>2, <2>3, <2>4 DEF Move, Beside, x
<1>2. CASE o.exit = "expired"
  <2> DEFINE d == Put(st, s, NoCampaign)
  <2>1. x = d
    BY <1>2 DEF Settle, Put
  <2>2. NoCampaign \in CampGood
    BY NoneOK DEF CampGood, CampOK
  <2>3. Beside(st, d, s) /\ d.camp[s] = NoCampaign
    BY <2>2, CampPut, Zenon
  <2>4. Filled(c) = {}
    BY <1>2 DEF Engine
  <2> HIDE DEF d, x
  <2> QED
    BY <2>1, <2>3, <2>4 DEF Move, Beside, x
<1>3. CASE o.exit = "l1_cycle"
  <2>1. /\ Active(c) /\ Grown(c, o.held, t) /\ Filled(o.held) # {} /\ o.held \in CampGood
        /\ o.campaign \in CampGood /\ Active(o.campaign) /\ Filled(o.campaign) = {}
        /\ o.campaign.id = c.id /\ o.campaign.createdAt = c.createdAt
        /\ o.campaign.cycles = c.cycles + 1
    BY <1>3 DEF Engine, Grown, CampGood, CampOK
  <2>2. o.held.id = c.id /\ o.held.cycles = c.cycles /\ o.held.createdAt = c.createdAt
    BY <2>1 DEF Grown
  <2>3. Beside(st, k, s) /\ k.camp[s] = o.campaign
    BY <2>1, CampPut, Zenon
  <2>4. x = recordL1Cycle(k, s, o, t)
    BY <1>3 DEF Settle, Put
  <2> HIDE DEF k, x
  <2>5. k.trades = st.trades /\ k \in StoreSet
    BY <2>3 DEF Beside
  <2>6. ~Recorded(k, o.held.id, o.campaign.cycles)
    BY <2>1, <2>2, <2>5, NotFinal DEF Recorded
  <2>7. x = Book(k, s, o.held, o.campaign.cycles, o.price, t)
    BY <2>4, <2>6, Zenon DEF recordL1Cycle
  <2>8. o.campaign.cycles \in Nat /\ o.price \in Int
    BY <2>1 DEF CampGood, CampSet, Engine
  <2>9. WithTrade(k, x, Sale(o.held, s, o.campaign.cycles, t))
    BY <2>1, <2>5, <2>7, <2>8, Booked, Zenon
  <2>10. Sold(st, x, s, t, o.held)
    BY <2>1, <2>2, <2>3, <2>5, <2>9 DEF Sold, WithTrade
  <2>11. Frame(st, x)
    BY <2>3, <2>9 DEF Frame, Beside, WithTrade
  <2> QED
    BY <2>1, <2>3, <2>9, <2>10, <2>11 DEF Move, Beside, WithTrade, x
<1>4. CASE o.exit \notin {"none", "l1_cycle", "expired"}
  <2>1. /\ Active(c) /\ Grown(c, o.held, t) /\ Filled(o.held) # {} /\ o.held \in CampGood
        /\ o.campaign \in CampGood
    BY <1>4 DEF Engine, Grown, CampGood, CampOK
  <2>2. x = closeCampaign(k, s, o.held, price, t)
    BY <1>4 DEF Settle, Put
  <2>3. Beside(st, k, s)
    BY <2>1, CampPut, Zenon
  <2> HIDE DEF k, x
  <2>4. Closed(st, x, s, t, o.held)
    BY <2>1, <2>2, <2>3, CloseMoves, Zenon
  <2> QED
    BY <2>4 DEF Closed, x
<1> QED
  BY <1>1, <1>2, <1>3, <1>4

------------------------------------------------------------------------------
(* What a move keeps                                                        *)

\* The trades of a ledger that one was appended to.
LEMMA AppendIs ==
  ASSUME NEW st \in StoreSet, NEW trade \in TradeSet
  PROVE  LET ts == Append(st.trades, trade)
             m  == Len(st.trades) + 1
         IN  /\ DOMAIN ts = DOMAIN st.trades \cup {m} /\ m \notin DOMAIN st.trades
             /\ ts[m] = trade /\ \A i \in DOMAIN st.trades : ts[i] = st.trades[i]
<1>1. st.trades \in Seq(TradeSet) /\ Len(st.trades) \in Nat /\ DOMAIN st.trades = 1..Len(st.trades)
  BY TradesIn
<1>2. /\ Len(Append(st.trades, trade)) = Len(st.trades) + 1
      /\ Append(st.trades, trade) \in Seq(TradeSet)
      /\ \A i \in 1..Len(st.trades) : Append(st.trades, trade)[i] = st.trades[i]
      /\ Append(st.trades, trade)[Len(st.trades) + 1] = trade
  BY <1>1, AppendProperties
<1>3. DOMAIN Append(st.trades, trade) = 1..(Len(st.trades) + 1)
  BY <1>2, LenProperties
<1> QED
  BY <1>1, <1>2, <1>3

\* The sale of a move, taken apart.
SaleAt(st, x, s, t, held, m) ==
  /\ DOMAIN x.trades = DOMAIN st.trades \cup {m} /\ m \notin DOMAIN st.trades
  /\ \A i \in DOMAIN st.trades : x.trades[i] = st.trades[i]
  /\ x.trades[m].id = st.camp[s].id /\ x.trades[m].sym = s
  /\ x.trades[m].entry = Entered(held) /\ x.trades[m].exit = t
  /\ \/ /\ x.trades[m].cycle = st.camp[s].cycles + 1
        /\ Active(x.camp[s]) /\ x.camp[s].id = st.camp[s].id
        /\ x.camp[s].createdAt = st.camp[s].createdAt
        /\ x.camp[s].cycles = st.camp[s].cycles + 1 /\ Filled(x.camp[s]) = {}
     \/ x.trades[m].cycle = Final /\ x.camp[s] = NoCampaign

\* A sale has the parts of SaleAt.
LEMMA SoldIs ==
  ASSUME NEW st \in StoreSet, NEW x, NEW s \in Symbols, NEW t \in Int, NEW held \in CampGood,
         Sold(st, x, s, t, held)
  PROVE  \E m : SaleAt(st, x, s, t, held, m)
<1> DEFINE m == Len(st.trades) + 1
<1>1. /\ held.id = st.camp[s].id /\ held.cycles = st.camp[s].cycles
      /\ held.createdAt = st.camp[s].createdAt
  BY DEF Sold, Grown
<1>2. held \in CampSet /\ held.id \in Nat /\ held.cycles \in Nat /\ Entered(held) \in Int
  BY EnteredIs DEF Sold, CampGood, CampSet
<1>3. ASSUME NEW cycle \in Nat, x.trades = Append(st.trades, Sale(held, s, cycle, t))
      PROVE  /\ DOMAIN x.trades = DOMAIN st.trades \cup {m} /\ m \notin DOMAIN st.trades
             /\ \A i \in DOMAIN st.trades : x.trades[i] = st.trades[i]
             /\ x.trades[m].id = st.camp[s].id /\ x.trades[m].sym = s
             /\ x.trades[m].entry = Entered(held) /\ x.trades[m].exit = t
             /\ x.trades[m].cycle = cycle
  <2> DEFINE trade == Sale(held, s, cycle, t)
  <2>1. /\ trade \in TradeSet /\ trade.id = held.id /\ trade.sym = s /\ trade.cycle = cycle
        /\ trade.entry = Entered(held) /\ trade.exit = t
    BY <1>2 DEF Sale, TradeSet
  <2>2. x.trades = Append(st.trades, trade)
    BY <1>3
  <2> HIDE DEF trade
  <2>3. /\ DOMAIN x.trades = DOMAIN st.trades \cup {m} /\ m \notin DOMAIN st.trades
        /\ x.trades[m] = trade /\ \A i \in DOMAIN st.trades : x.trades[i] = st.trades[i]
    BY <2>1, <2>2, AppendIs
  <2> QED
    BY <1>1, <2>1, <2>3
<1>4. held.cycles + 1 \in Nat /\ Final \in Nat
  BY <1>2 DEF Final
<1> HIDE DEF m
<1>5. CASE /\ x.trades = Append(st.trades, Sale(held, s, held.cycles + 1, t))
           /\ Active(x.camp[s]) /\ x.camp[s].id = held.id /\ x.camp[s].createdAt = held.createdAt
           /\ x.camp[s].cycles = held.cycles + 1 /\ Filled(x.camp[s]) = {}
  <2>1. SaleAt(st, x, s, t, held, m)
    BY <1>1, <1>3, <1>4, <1>5 DEF SaleAt
  <2> QED
    BY <2>1
<1>6. CASE x.trades = Append(st.trades, Sale(held, s, Final, t)) /\ x.camp[s] = NoCampaign
  <2>1. SaleAt(st, x, s, t, held, m)
    BY <1>3, <1>4, <1>6 DEF SaleAt
  <2> QED
    BY <2>1
<1> QED
  BY <1>5, <1>6 DEF Sold

\* A sale keeps the ledger in step with the campaigns.
LEMMA SaleLedger ==
  ASSUME NEW st \in StoreSet, NEW n \in Nat, LedgerOK(st, n), NEW s \in Symbols, NEW t \in Int,
         NEW x \in StoreSet, \A u \in Symbols \ {s} : x.camp[u] = st.camp[u],
         NEW held \in CampGood, Active(st.camp[s]), NEW m, SaleAt(st, x, s, t, held, m)
  PROVE  LedgerOK(x, n)
<1> DEFINE c == st.camp[s]
<1>0. c.cycles \in Nat /\ c.id \in 1..n
  BY NotFinal DEF LedgerOK
<1>1. \A i \in DOMAIN st.trades : st.trades[i].id = c.id => st.trades[i].cycle \in 1..c.cycles
  BY DEF LedgerOK
<1>2. DOMAIN x.trades = DOMAIN st.trades \cup {m} /\ m \notin DOMAIN st.trades
      /\ (\A i \in DOMAIN st.trades : x.trades[i] = st.trades[i])
      /\ x.trades[m].id = c.id /\ (x.trades[m].cycle = c.cycles + 1 \/ x.trades[m].cycle = 0)
  BY DEF SaleAt, Final
<1>3. ASSUME NEW i \in DOMAIN x.trades, NEW j \in DOMAIN x.trades,
             x.trades[i].id = x.trades[j].id, x.trades[i].cycle = x.trades[j].cycle
      PROVE  i = j
  <2>1. CASE i = m /\ j # m
    BY <1>0, <1>1, <1>2, <1>3, <2>1
  <2>2. CASE j = m /\ i # m
    BY <1>0, <1>1, <1>2, <1>3, <2>2
  <2>3. CASE i # m /\ j # m
    BY <1>2, <1>3, <2>3 DEF LedgerOK
  <2> QED
    BY <2>1, <2>2, <2>3
<1>4. \A i \in DOMAIN x.trades : x.trades[i].id \in 1..n
  BY <1>0, <1>2 DEF LedgerOK
<1>5. \A id, k : Recorded(st, id, k) => Recorded(x, id, k)
  BY <1>2 DEF Recorded
<1>6. ASSUME NEW u \in Symbols, Active(x.camp[u])
      PROVE  /\ Active(st.camp[u]) /\ x.camp[u].id = st.camp[u].id
             /\ x.camp[u].id \in 1..n
             /\ \A i \in DOMAIN x.trades :
                  x.trades[i].id = x.camp[u].id => x.trades[i].cycle \in 1..x.camp[u].cycles
             /\ \A k \in 1..x.camp[u].cycles : Recorded(x, x.camp[u].id, k)
  <2>1. CASE u # s
    <3>1. x.camp[u] = st.camp[u] /\ st.camp[u].id # c.id
      BY <1>6, <2>1 DEF LedgerOK
    <3>2. /\ st.camp[u].id \in 1..n
          /\ \A i \in DOMAIN st.trades :
               st.trades[i].id = st.camp[u].id => st.trades[i].cycle \in 1..st.camp[u].cycles
          /\ \A k \in 1..st.camp[u].cycles : Recorded(st, st.camp[u].id, k)
      BY <1>6, <3>1 DEF LedgerOK
    <3> QED
      BY <1>2, <1>5, <1>6, <3>1, <3>2
  <2>2. CASE u = s
    <3>1. x.camp[s] # NoCampaign
      BY <1>6, <2>2, NoneOK
    <3>2. x.camp[s].id = c.id /\ x.camp[s].cycles = c.cycles + 1 /\ x.trades[m].cycle = c.cycles + 1
      BY <3>1 DEF SaleAt
    <3>3. \A i \in DOMAIN x.trades : x.trades[i].id = c.id => x.trades[i].cycle \in 1..(c.cycles + 1)
      BY <1>0, <1>1, <1>2, <3>2
    <3>4. ASSUME NEW k \in 1..(c.cycles + 1) PROVE Recorded(x, c.id, k)
      <4>1. CASE k = c.cycles + 1
        BY <1>2, <3>2, <4>1 DEF Recorded
      <4>2. CASE k # c.cycles + 1
        <5>1. k \in 1..c.cycles
          BY <1>0, <4>2
        <5> QED
          BY <1>5, <5>1 DEF LedgerOK
      <4> QED
        BY <4>1, <4>2
    <3> QED
      BY <1>0, <2>2, <3>2, <3>3, <3>4
  <2> QED
    BY <2>1, <2>2
<1>7. \A u, v \in Symbols :
        u # v /\ Active(x.camp[u]) /\ Active(x.camp[v]) => x.camp[u].id # x.camp[v].id
  BY <1>6 DEF LedgerOK
<1> QED
  BY <1>3, <1>4, <1>6, <1>7 DEF LedgerOK

\* The other moves book nothing.
LEMMA QuietLedger ==
  ASSUME NEW st \in StoreSet, NEW n \in Nat, LedgerOK(st, n),
         NEW x \in StoreSet, x.trades = st.trades,
         \A u \in Symbols : Active(x.camp[u]) =>
           /\ Active(st.camp[u]) /\ x.camp[u].id = st.camp[u].id
           /\ x.camp[u].cycles = st.camp[u].cycles
  PROVE  LedgerOK(x, n)
<1>1. \A id, k : Recorded(st, id, k) = Recorded(x, id, k)
  BY DEF Recorded
<1>2. \A i \in DOMAIN x.trades : x.trades[i].id \in 1..n
  BY DEF LedgerOK
<1>3. \A i, j \in DOMAIN x.trades :
       x.trades[i].id = x.trades[j].id /\ x.trades[i].cycle = x.trades[j].cycle => i = j
  BY DEF LedgerOK
<1>4. ASSUME NEW u \in Symbols, Active(x.camp[u])
      PROVE  /\ x.camp[u].id \in 1..n
             /\ \A i \in DOMAIN x.trades :
                  x.trades[i].id = x.camp[u].id => x.trades[i].cycle \in 1..x.camp[u].cycles
             /\ \A k \in 1..x.camp[u].cycles : Recorded(x, x.camp[u].id, k)
  BY <1>1, <1>4 DEF LedgerOK
<1>5. \A u, v \in Symbols :
        u # v /\ Active(x.camp[u]) /\ Active(x.camp[v]) => x.camp[u].id # x.camp[v].id
  BY DEF LedgerOK
<1> QED
  BY <1>2, <1>3, <1>4, <1>5 DEF LedgerOK

\* What any number of moves at time t lead to; symbols outside S were left alone.
Kept(st, x, u) ==
  /\ x.camp[u] = st.camp[u]
  /\ Ordered(st, u) => Ordered(x, u)
  /\ \A b \in Int : NotAfter(st, u, b) => NotAfter(x, u, b)

\* The books after it follow from those before, and the trades of S stay in order.
Sweep(st, x, n, t, S) ==
  /\ x \in StoreSet /\ LedgerOK(x, n)
  /\ Extends(st, x) /\ Leads(st, x) /\ Heirs(st, x)
  /\ \A u \in Symbols : \A b \in Int : b >= t /\ NotAfter(st, u, b) => NotAfter(x, u, b)
  /\ \A u \in Symbols : Ordered(st, u) /\ NotAfter(st, u, t) => Ordered(x, u)
  /\ \A u \in Symbols \ S : Kept(st, x, u)

\* A filled level has a time.
LEMMA FillsIn ==
  ASSUME NEW c \in CampSet
  PROVE  /\ c.fill \in [Levels -> Int] /\ \A l \in Levels : c.fill[l] \in Int
         /\ \A l : l \in Filled(c) <=> l \in Levels /\ c.fill[l] # Never
BY DEF CampSet, Filled

\* With the same trades, only the fills of one campaign count.
LEMMA SameTrades ==
  ASSUME NEW st \in StoreSet, NEW x, x.trades = st.trades, NEW u \in Symbols,
         x.camp[u] = st.camp[u]
  PROVE  Kept(st, x, u)
BY DEF Kept, Ordered, NotAfter

\* A campaign that grew keeps the books.
LEMMA GrownSweep ==
  ASSUME NEW st \in StoreSet, NEW n \in Nat, LedgerOK(st, n), NEW s \in Symbols, NEW t \in Int,
         NEW x \in StoreSet, \A u \in Symbols \ {s} : x.camp[u] = st.camp[u],
         x.trades = st.trades, Grown(st.camp[s], x.camp[s], t), t # Never
  PROVE  Sweep(st, x, n, t, {s})
<1> DEFINE c == st.camp[s]
           d == x.camp[s]
<1>0. c \in CampSet /\ d \in CampSet /\ CampOK(c)
  BY CampIn
<1>1. /\ d.id = c.id /\ d.createdAt = c.createdAt /\ d.cycles = c.cycles
      /\ Active(d) = Active(c)
      /\ \A l \in Levels : d.fill[l] = c.fill[l] \/ (c.fill[l] = Never /\ d.fill[l] = t)
  BY DEF Grown
<1>2. /\ \A l \in Filled(c) : l \in Filled(d) /\ d.fill[l] = c.fill[l]
      /\ \A l \in Filled(d) : (l \in Filled(c) /\ d.fill[l] = c.fill[l]) \/ d.fill[l] = t
  BY <1>0, <1>1, FillsIn
<1>3. LedgerOK(x, n)
  BY <1>1, QuietLedger
<1>4. Extends(st, x)
  BY DEF Extends
<1>5. Leads(st, x)
  BY <1>1, <1>2 DEF Leads
<1>6. Heirs(st, x)
  BY <1>1 DEF Heirs
<1>7. \A u \in Symbols \ {s} : Kept(st, x, u)
  BY SameTrades
<1>8. ASSUME NEW b \in Int, b >= t, NotAfter(st, s, b) PROVE NotAfter(x, s, b)
  BY <1>2, <1>8 DEF NotAfter
<1>9. ASSUME Ordered(st, s), NotAfter(st, s, t) PROVE Ordered(x, s)
  BY <1>2, <1>9 DEF Ordered, NotAfter
<1>10. \A u \in Symbols : \A b \in Int : b >= t /\ NotAfter(st, u, b) => NotAfter(x, u, b)
  BY <1>7, <1>8 DEF Kept
<1>11. \A u \in Symbols : Ordered(st, u) /\ NotAfter(st, u, t) => Ordered(x, u)
  BY <1>7, <1>9 DEF Kept
<1> QED
  BY <1>3, <1>4, <1>5, <1>6, <1>7, <1>10, <1>11 DEF Sweep

\* A campaign that was dropped with nothing in it keeps the books.
LEMMA DroppedSweep ==
  ASSUME NEW st \in StoreSet, NEW n \in Nat, LedgerOK(st, n), NEW s \in Symbols, NEW t \in Int,
         NEW x \in StoreSet, \A u \in Symbols \ {s} : x.camp[u] = st.camp[u],
         x.trades = st.trades, Filled(st.camp[s]) = {}, x.camp[s] = NoCampaign
  PROVE  Sweep(st, x, n, t, {s})
<1>1. ~Active(x.camp[s]) /\ Filled(x.camp[s]) = {}
  BY NoneOK
<1>2. LedgerOK(x, n)
  BY <1>1, QuietLedger
<1>3. Extends(st, x)
  BY DEF Extends
<1>4. Leads(st, x)
  BY DEF Leads
<1>5. Heirs(st, x)
  BY <1>1 DEF Heirs
<1>6. \A u \in Symbols \ {s} : Kept(st, x, u)
  BY SameTrades
<1>7. \A b \in Int : NotAfter(st, s, b) => NotAfter(x, s, b)
  BY <1>1 DEF NotAfter
<1>8. Ordered(st, s) => Ordered(x, s)
  BY <1>1 DEF Ordered
<1>9. \A u \in Symbols : \A b \in Int : b >= t /\ NotAfter(st, u, b) => NotAfter(x, u, b)
  BY <1>6, <1>7 DEF Kept
<1>10. \A u \in Symbols : Ordered(st, u) /\ NotAfter(st, u, t) => Ordered(x, u)
  BY <1>6, <1>8 DEF Kept
<1> QED
  BY <1>2, <1>3, <1>4, <1>5, <1>6, <1>9, <1>10 DEF Sweep

\* A sale keeps the books.
LEMMA SoldSweep ==
  ASSUME NEW st \in StoreSet, NEW n \in Nat, LedgerOK(st, n), NEW s \in Symbols, NEW t \in Int,
         NEW x \in StoreSet, \A u \in Symbols \ {s} : x.camp[u] = st.camp[u],
         NEW held \in CampGood, Sold(st, x, s, t, held), t # Never
  PROVE  Sweep(st, x, n, t, {s})
<1> DEFINE c == st.camp[s]
<1>0. /\ c \in CampSet /\ held \in CampSet /\ CampOK(c)
      /\ Active(c) /\ Grown(c, held, t) /\ Filled(held) # {}
  BY CampIn DEF CampGood, Sold
<1>1. PICK m : SaleAt(st, x, s, t, held, m)
  BY SoldIs
<1>2. /\ DOMAIN x.trades = DOMAIN st.trades \cup {m} /\ m \notin DOMAIN st.trades
      /\ \A i \in DOMAIN st.trades : x.trades[i] = st.trades[i]
      /\ x.trades[m].id = c.id /\ x.trades[m].sym = s
      /\ x.trades[m].entry = Entered(held) /\ x.trades[m].exit = t
  BY <1>1 DEF SaleAt
<1>3. LedgerOK(x, n)
  BY <1>0, <1>1, SaleLedger
<1>4. Extends(st, x)
  BY <1>2 DEF Extends
<1>5. Filled(x.camp[s]) = {}
  BY <1>1, NoneOK DEF SaleAt
<1>6. SoldSince(st, x, c.id)
  <2>1. ~Recorded(st, c.id, x.trades[m].cycle)
    BY <1>0, <1>1, NotFinal DEF SaleAt
  <2> QED
    BY <1>2, <2>1 DEF SoldSince
<1>7. Leads(st, x)
  BY <1>6 DEF Leads
<1>8. Heirs(st, x)
  BY <1>0, <1>1, NoneOK DEF Heirs, SaleAt
<1>9. \A u \in Symbols \ {s} : Kept(st, x, u)
  <2> TAKE u \in Symbols \ {s}
  <2>1. \A i \in DOMAIN x.trades : x.trades[i].sym = u => i \in DOMAIN st.trades
    BY <1>2
  <2>2. Ordered(st, u) => Ordered(x, u)
    BY <1>2, <2>1 DEF Ordered
  <2>3. \A b \in Int : NotAfter(st, u, b) => NotAfter(x, u, b)
    BY <1>2, <2>1 DEF NotAfter
  <2> QED
    BY <2>2, <2>3 DEF Kept
<1>10. ASSUME NEW b \in Int, b >= t, NotAfter(st, s, b) PROVE NotAfter(x, s, b)
  BY <1>2, <1>5, <1>10 DEF NotAfter
<1>11. ASSUME Ordered(st, s), NotAfter(st, s, t) PROVE Ordered(x, s)
  <2>1. \A l \in Filled(held) : (l \in Filled(c) /\ held.fill[l] = c.fill[l]) \/ held.fill[l] = t
    BY <1>0, FillsIn DEF Grown
  <2>2. PICK l \in Filled(held) : Entered(held) = held.fill[l]
    BY <1>0, EnteredIs
  <2>3. Entered(held) \in Int
    BY <1>0, EnteredIs
  <2>4. Entered(held) <= t
    BY <1>11, <2>1, <2>2, <2>3 DEF NotAfter
  <2>5. \A i \in DOMAIN st.trades : st.trades[i].sym = s => st.trades[i].exit <= Entered(held)
    BY <1>11, <2>1, <2>2, TradesIn DEF Ordered, NotAfter
  <2>6. \A i \in DOMAIN x.trades :
          i = m \/ (i \in DOMAIN st.trades /\ x.trades[i] = st.trades[i])
    BY <1>2, Zenon
  <2>7. \A i \in DOMAIN x.trades : x.trades[i].sym = s => x.trades[i].entry <= x.trades[i].exit
    BY <1>2, <1>11, <2>4, <2>6 DEF Ordered
  <2>8. ASSUME NEW i \in DOMAIN x.trades, NEW j \in DOMAIN x.trades, i # j,
               x.trades[i].sym = s, x.trades[j].sym = s
        PROVE  x.trades[i].exit <= x.trades[j].entry \/ x.trades[j].exit <= x.trades[i].entry
    <3>1. CASE i = m
      BY <1>2, <2>5, <2>6, <2>8, <3>1
    <3>2. CASE j = m
      BY <1>2, <2>5, <2>6, <2>8, <3>2
    <3>3. CASE i # m /\ j # m
      BY <1>11, <2>6, <2>8, <3>3 DEF Ordered
    <3> QED
      BY <3>1, <3>2, <3>3
  <2> QED
    BY <1>5, <2>7, <2>8 DEF Ordered
<1>12. \A u \in Symbols : \A b \in Int : b >= t /\ NotAfter(st, u, b) => NotAfter(x, u, b)
  BY <1>9, <1>10 DEF Kept
<1>13. \A u \in Symbols : Ordered(st, u) /\ NotAfter(st, u, t) => Ordered(x, u)
  BY <1>9, <1>11 DEF Kept
<1> QED
  BY <1>3, <1>4, <1>7, <1>8, <1>9, <1>12, <1>13 DEF Sweep

\* Each move keeps the books.
LEMMA MoveSweep ==
  ASSUME NEW st \in StoreSet, NEW n \in Nat, LedgerOK(st, n), NEW s \in Symbols,
         NEW t \in Nat, NEW x, Move(st, x, s, t)
  PROVE  Sweep(st, x, n, t, {s})
<1>1. x \in StoreSet /\ t \in Int /\ t # Never /\ \A u \in Symbols \ {s} : x.camp[u] = st.camp[u]
  BY DEF Move, Never
<1>2. CASE x.trades = st.trades /\ Grown(st.camp[s], x.camp[s], t)
  BY <1>1, <1>2, GrownSweep
<1>3. CASE x.trades = st.trades /\ Filled(st.camp[s]) = {} /\ x.camp[s] = NoCampaign
  BY <1>1, <1>3, DroppedSweep
<1>4. CASE \E held \in CampGood : Sold(st, x, s, t, held)
  BY <1>1, <1>4, SoldSweep
<1> QED
  BY <1>2, <1>3, <1>4 DEF Move

\* Ledgers that extend one another do so step by step.
LEMMA ExtendsTrans ==
  ASSUME NEW st, NEW x, NEW z, Extends(st, x), Extends(x, z)
  PROVE  /\ Extends(st, z)
         /\ \A id, k : Recorded(st, id, k) => Recorded(x, id, k)
         /\ \A id : SoldSince(st, x, id) => SoldSince(st, z, id)
         /\ \A id : SoldSince(x, z, id) => SoldSince(st, z, id)
<1>1. Extends(st, z)
  BY DEF Extends
<1>2. \A id, k : Recorded(st, id, k) => Recorded(x, id, k)
  BY DEF Extends, Recorded
<1>3. \A id : SoldSince(st, x, id) => SoldSince(st, z, id)
  BY DEF Extends, SoldSince
<1>4. \A id : SoldSince(x, z, id) => SoldSince(st, z, id)
  BY <1>2 DEF SoldSince
<1> QED
  BY <1>1, <1>2, <1>3, <1>4

\* So do the sales of positions.
LEMMA LeadsTrans ==
  ASSUME NEW st, NEW x, NEW z, Extends(st, x), Extends(x, z), Leads(st, x), Leads(x, z)
  PROVE  Leads(st, z)
BY ExtendsTrans DEF Leads

\* Moves at one time compose.
LEMMA SweepTrans ==
  ASSUME NEW st, NEW x, NEW z, NEW n, NEW t \in Int, NEW S, NEW T,
         Sweep(st, x, n, t, S), Sweep(x, z, n, t, T)
  PROVE  Sweep(st, z, n, t, S \cup T)
<1>1. Extends(st, z) /\ Leads(st, z)
  BY ExtendsTrans, LeadsTrans DEF Sweep
<1>2. Heirs(st, z)
  BY DEF Sweep, Heirs
<1>3. \A u \in Symbols : \A b \in Int : b >= t /\ NotAfter(st, u, b) => NotAfter(z, u, b)
  BY DEF Sweep
<1>4. \A u \in Symbols : Ordered(st, u) /\ NotAfter(st, u, t) => Ordered(z, u)
  BY DEF Sweep
<1>5. \A u \in Symbols \ (S \cup T) : Kept(st, z, u)
  BY DEF Sweep, Kept
<1> QED
  BY <1>1, <1>2, <1>3, <1>4, <1>5 DEF Sweep

\* A store that is left alone keeps the books.
LEMMA SweepSelf ==
  ASSUME NEW st \in StoreSet, NEW n, LedgerOK(st, n), NEW t \in Int, NEW S
  PROVE  Sweep(st, st, n, t, S)
BY DEF Sweep, Extends, Leads, Heirs, Kept

\* Only campaigns and trades count.
SameBooks(x, y) == y \in StoreSet /\ y.camp = x.camp /\ y.trades = x.trades

\* What is said of the books holds of every store with the same ones.
LEMMA SameBooksIs ==
  ASSUME NEW x, NEW y, SameBooks(x, y)
  PROVE  /\ \A n : LedgerOK(x, n) = LedgerOK(y, n)
         /\ \A u : Ordered(x, u) = Ordered(y, u)
         /\ \A u, b : NotAfter(x, u, b) = NotAfter(y, u, b)
         /\ \A st : Extends(st, x) = Extends(st, y) /\ Leads(st, x) = Leads(st, y)
                    /\ Heirs(st, x) = Heirs(st, y)
         /\ \A st : Extends(x, st) = Extends(y, st) /\ Leads(x, st) = Leads(y, st)
                    /\ Heirs(x, st) = Heirs(y, st)
         /\ \A st, u : Kept(st, x, u) = Kept(st, y, u) /\ Kept(x, st, u) = Kept(y, st, u)
<1>1. \A n : LedgerOK(x, n) = LedgerOK(y, n)
  BY DEF SameBooks, LedgerOK, Recorded
<1>2. \A u : Ordered(x, u) = Ordered(y, u)
  BY DEF SameBooks, Ordered
<1>3. \A u, b : NotAfter(x, u, b) = NotAfter(y, u, b)
  BY DEF SameBooks, NotAfter
<1>4. \A st : Extends(st, x) = Extends(st, y) /\ Leads(st, x) = Leads(st, y)
              /\ Heirs(st, x) = Heirs(st, y)
  BY DEF SameBooks, Extends, Leads, Heirs, SoldSince
<1>5. \A st : Extends(x, st) = Extends(y, st) /\ Leads(x, st) = Leads(y, st)
              /\ Heirs(x, st) = Heirs(y, st)
  BY DEF SameBooks, Extends, Leads, Heirs, SoldSince, Recorded
<1>6. \A st, u : Kept(st, x, u) = Kept(st, y, u) /\ Kept(x, st, u) = Kept(y, st, u)
  BY <1>2, <1>3 DEF SameBooks, Kept
<1> QED
  BY <1>1, <1>2, <1>3, <1>4, <1>5, <1>6

\* The last store of a sweep may be replaced by one with the same books.
LEMMA SweepInto ==
  ASSUME NEW st, NEW x, NEW y, NEW n, NEW t, NEW S, Sweep(st, x, n, t, S), SameBooks(x, y)
  PROVE  Sweep(st, y, n, t, S)
BY SameBooksIs DEF Sweep, SameBooks

\* So may the first.
LEMMA SweepFrom ==
  ASSUME NEW st, NEW x, NEW y, NEW n, NEW t, NEW S, Sweep(x, y, n, t, S), SameBooks(st, x)
  PROVE  Sweep(st, y, n, t, S)
BY SameBooksIs DEF Sweep, SameBooks

------------------------------------------------------------------------------
(* The margin check                                                         *)

\* The fields that are left alone stay so.
LEMMA FrameTrans ==
  ASSUME NEW st, NEW x, NEW z, Frame(st, x), Frame(x, z) PROVE Frame(st, z)
BY DEF Frame

\* There are finitely many symbols, and at least one.
LEMMA SymbolsFinite == NSymbols \in Nat /\ IsFiniteSet(Symbols) /\ 1 \in Symbols
BY PaperTradingAssumption, FS_Interval DEF Symbols

\* A close keeps the shape of the store, whatever it finds.
LEMMA CloseType ==
  ASSUME NEW x \in StoreSet, NEW s \in Symbols, NEW price \in Int, NEW t \in Int
  PROVE  closeCampaign(x, s, x.camp[s], price, t) \in StoreSet
<1> DEFINE d == Put(x, s, NoCampaign)
           held == x.camp[s]
<1>1. NoCampaign \in CampGood
  BY NoneOK DEF CampGood, CampOK
<1>2. Beside(x, d, s)
  BY <1>1, CampPut, Zenon
<1>3. d \in StoreSet
  BY <1>2 DEF Beside
<1>4. held \in CampGood
  BY CampIn
<1>5. closeCampaign(x, s, held, price, t) =
        IF Filled(held) = {} THEN x
        ELSE IF Recorded(x, held.id, Final) THEN d ELSE Book(d, s, held, Final, price, t)
  BY Zenon DEF closeCampaign, Put
<1> HIDE DEF d, held
<1>6. Final \in Nat
  BY DEF Final
<1>7. CASE Filled(held) # {}
  <2>1. WithTrade(d, Book(d, s, held, Final, price, t), Sale(held, s, Final, t))
    BY <1>3, <1>4, <1>6, <1>7, Booked, Zenon
  <2>2. Book(d, s, held, Final, price, t) \in StoreSet
    BY <2>1 DEF WithTrade
  <2> QED
    BY <1>3, <1>5, <2>2, Zenon DEF held
<1>8. CASE Filled(held) = {}
  BY <1>5, <1>8, Zenon DEF held
<1> QED
  BY <1>7, <1>8

\* The positions of D are sold one after the other.
Close(x, s, prices, t) == closeCampaign(x, s, x.camp[s], prices[s], t)

\* The fold of checkGlobalLiquidation as a function on the sets of symbols.
OneSale(g, s, st, prices, t) ==
  IF s = {} THEN st ELSE Close(g[s \ {One(s)}], One(s), prices, t)

\* The function is one of these,
IsSale(g, D, st, prices, t) == g = [s \in SUBSET D |-> OneSale(g, s, st, prices, t)]

\* and this is it.
SalesOf(D, st, prices, t) == CHOOSE g : IsSale(g, D, st, prices, t)

\* The fold of the library is this function.
LEMMA SaleFold ==
  ASSUME NEW D, NEW st, NEW prices, NEW t
  PROVE  FoldSet(LAMBDA s, x : closeCampaign(x, s, x.camp[s], prices[s], t), st, D)
           = SalesOf(D, st, prices, t)[D]
BY Zenon DEF FoldSet, MapThenFoldSet, SalesOf, IsSale, OneSale, One, Close

\* What the sale of the positions of s leaves.
Emptied(st, x, n, t, s) ==
  /\ s \subseteq Symbols /\ Sweep(st, x, n, t, s) /\ Frame(st, x)
  /\ \A u \in s : x.camp[u] = NoCampaign
  /\ \A u \in Symbols \ s : x.camp[u] = st.camp[u]

\* One more position sold.
LEMMA CloseEmpties ==
  ASSUME NEW st \in StoreSet, NEW n \in Nat, NEW t \in Nat, NEW prices \in [Symbols -> Int],
         NEW u \in Symbols, Filled(st.camp[u]) # {}, NEW s, u \notin s,
         NEW x, Emptied(st, x, n, t, s)
  PROVE  Emptied(st, Close(x, u, prices, t), n, t, s \cup {u})
<1> DEFINE held  == x.camp[u]
           price == prices[u]
           z     == closeCampaign(x, u, held, price, t)
<1>1. x \in StoreSet /\ LedgerOK(x, n) /\ Sweep(st, x, n, t, s) /\ Frame(st, x)
  BY DEF Emptied, Sweep
<1>2. x.camp[u] = st.camp[u]
  BY DEF Emptied
<1>3. held \in CampGood /\ CampOK(held) /\ Active(held)
  BY <1>1, <1>2, CampIn, ActiveOrNone
<1>4. Grown(held, held, t) /\ Filled(held) # {} /\ Active(x.camp[u]) /\ Grown(x.camp[u], held, t)
  BY <1>2, <1>3, GrownSelf
<1>5. Beside(x, x, u)
  BY <1>1 DEF Beside, Frame
<1>6. price \in Int /\ t \in Int
  OBVIOUS
<1> HIDE DEF held, price
<1>a. Closed(x, z, u, t, held)
  BY <1>1, <1>3, <1>4, <1>5, <1>6, CloseMoves, Zenon
<1> HIDE DEF z
<1>7. Move(x, z, u, t) /\ Frame(x, z) /\ z.camp[u] = NoCampaign
  BY <1>a DEF Closed
<1>8. Sweep(x, z, n, t, {u})
  BY <1>1, <1>7, MoveSweep
<1>9. Sweep(st, z, n, t, s \cup {u})
  BY <1>1, <1>6, <1>8, SweepTrans
<1>10. Frame(st, z)
  BY <1>1, <1>7, FrameTrans
<1>11. \A v \in Symbols \ {u} : z.camp[v] = x.camp[v]
  BY <1>7 DEF Move
<1>12. s \subseteq Symbols /\ \A v \in s \cup {u} : z.camp[v] = NoCampaign
  BY <1>7, <1>11 DEF Emptied
<1>13. \A v \in Symbols \ (s \cup {u}) : z.camp[v] = st.camp[v]
  BY <1>11 DEF Emptied
<1>14. Close(x, u, prices, t) = z
  BY DEF Close, z, held, price
<1> QED
  BY <1>9, <1>10, <1>12, <1>13, <1>14 DEF Emptied

\* The sale of a set of positions empties them and keeps the books.
LEMMA SalesIs ==
  ASSUME NEW st \in StoreSet, NEW n \in Nat, LedgerOK(st, n), NEW t \in Nat,
         NEW prices \in [Symbols -> Int],
         NEW D \in SUBSET Symbols, \A u \in D : Filled(st.camp[u]) # {}
  PROVE  Emptied(st, SalesOf(D, st, prices, t)[D], n, t, D)
<1> DEFINE F == [p \in StoreSet \X D |-> Close(p[1], p[2], prices, t)]
           c == [s \in SUBSET D |-> One(s)]
<1>1. IsFiniteSet(D)
  BY SymbolsFinite, FS_Subset
<1>2. \A x \in StoreSet : \A d \in D : Close(x, d, prices, t) \in StoreSet
  BY CloseType DEF Close
<1>3. \A x \in StoreSet : \A d \in D : F[<<x, d>>] = Close(x, d, prices, t)
  OBVIOUS
<1>4. \A x \in StoreSet : \A d \in D : F[<<x, d>>] \in StoreSet
  BY <1>2, <1>3
<1>5. \A s \in SUBSET D : c[s] = One(s) /\ (s # {} => c[s] \in s)
  BY DEF One
<1>6. \A s \in SUBSET D : s # {} => c[s] \in s
  BY <1>5
<1> HIDE DEF F, c
<1>7. \E g : IsSale(g, D, st, prices, t)
  <2>1. PICK g \in [SUBSET D -> StoreSet] : IsFold(g, D, st, F, c)
    BY <1>1, <1>4, <1>6, FoldExists, Zenon
  <2>2. ASSUME NEW s \in SUBSET D PROVE g[s] = OneSale(g, s, st, prices, t)
    <3>1. g[s] = IF s = {} THEN st ELSE F[<<g[s \ {c[s]}], c[s]>>]
      BY <2>1, Zenon DEF IsFold
    <3>2. CASE s = {}
      BY <3>1, <3>2 DEF OneSale
    <3>3. CASE s # {}
      <4>1. c[s] = One(s) /\ c[s] \in D /\ g[s \ {c[s]}] \in StoreSet
        BY <1>5, <2>1, <3>3
      <4>2. g[s] = Close(g[s \ {c[s]}], c[s], prices, t)
        BY <1>3, <3>1, <3>3, <4>1
      <4> QED
        BY <3>3, <4>1, <4>2 DEF OneSale
    <3> QED
      BY <3>2, <3>3
  <2>3. g = [s \in SUBSET D |-> OneSale(g, s, st, prices, t)]
    BY <2>1, <2>2
  <2> QED
    BY <2>3, Zenon DEF IsSale
<1> DEFINE g == SalesOf(D, st, prices, t)
<1>8. IsSale(g, D, st, prices, t)
  BY <1>7, Zenon DEF SalesOf
<1> HIDE DEF g
<1>9. \A s \in SUBSET D : g[s] = OneSale(g, s, st, prices, t)
  BY <1>8, Zenon DEF IsSale
<1> DEFINE h == [s \in SUBSET D |-> <<s, g[s]>>]
           W == {p \in (SUBSET D) \X StoreSet : Emptied(st, p[2], n, t, p[1])}
<1>10. ASSUME NEW s \in SUBSET D, Emptied(st, g[s], n, t, s) PROVE h[s] \in W
  <2>1. g[s] \in StoreSet
    BY <1>10 DEF Emptied, Sweep
  <2> QED
    BY <1>10, <2>1
<1>11. ASSUME NEW s \in SUBSET D, s # {} => h[s \ {c[s]}] \in W PROVE h[s] \in W
  <2>1. CASE s = {}
    <3>1. g[s] = st
      BY <1>9, <2>1 DEF OneSale
    <3>2. Sweep(st, st, n, t, {}) /\ Frame(st, st)
      BY SweepSelf DEF Frame
    <3>3. Emptied(st, g[s], n, t, s)
      BY <2>1, <3>1, <3>2 DEF Emptied
    <3> QED
      BY <1>10, <3>3
  <2>2. CASE s # {}
    <3> DEFINE u == c[s]
               v == s \ {u}
    <3>1. u = One(s) /\ u \in s /\ u \in D /\ u \in Symbols /\ v \in SUBSET D /\ v \cup {u} = s
      BY <1>5, <2>2
    <3>2. <<v, g[v]>> \in W
      BY <1>11, <2>2, <3>1
    <3> HIDE DEF u
    <3>3. Emptied(st, g[v], n, t, v)
      BY <3>2
    <3>4. g[s] = Close(g[v], u, prices, t)
      BY <1>9, <2>2, <3>1 DEF OneSale
    <3>5. Filled(st.camp[u]) # {} /\ u \notin v
      BY <3>1
    <3> HIDE DEF v
    <3>6. Emptied(st, Close(g[v], u, prices, t), n, t, v \cup {u})
      BY <3>1, <3>3, <3>5, CloseEmpties
    <3>7. Emptied(st, g[s], n, t, s)
      BY <3>1, <3>4, <3>6
    <3> QED
      BY <1>10, <3>7
  <2> QED
    BY <2>1, <2>2
<1> HIDE DEF h, W
<1>12. StaysIn(h, D, W, c)
  BY <1>6, <1>11, Zenon DEF StaysIn
<1>13. h[D] \in W
  BY <1>1, <1>12, FoldIn
<1> QED
  BY <1>13 DEF h, W, g

\* The margin check sells every position with a price, or nothing.
Checked(st, x, n, prices, t) ==
  \E S \in SUBSET Valued(st, prices) : Emptied(st, x, n, t, S)

\* checkGlobalLiquidation does what Checked says.
LEMMA LiquidationIs ==
  ASSUME NEW st \in StoreSet, NEW n \in Nat, LedgerOK(st, n), NEW t \in Nat,
         NEW prices \in [Symbols -> Int]
  PROVE  Checked(st, checkGlobalLiquidation(st, prices, t), n, prices, t)
<1> DEFINE D == Valued(st, prices)
           x == checkGlobalLiquidation(st, prices, t)
<1>1. D \in SUBSET Symbols /\ \A u \in D : Filled(st.camp[u]) # {}
  BY DEF Valued
<1>2. x = IF Equity(st, prices) > 0 THEN st ELSE SalesOf(D, st, prices, t)[D]
  BY SaleFold, Zenon DEF checkGlobalLiquidation
<1>3. Emptied(st, SalesOf(D, st, prices, t)[D], n, t, D)
  BY <1>1, SalesIs
<1>4. Emptied(st, st, n, t, {})
  <2>1. Sweep(st, st, n, t, {}) /\ Frame(st, st)
    BY SweepSelf DEF Frame
  <2> QED
    BY <2>1 DEF Emptied
<1> QED
  BY <1>2, <1>3, <1>4, Zenon DEF Checked

------------------------------------------------------------------------------
(* Quotes                                                                   *)

\* The times of the clock.
Clock == 0..Horizon

\* A tick belongs to a minute of the model.
LEMMA MinuteOf ==
  ASSUME NEW t \in Clock
  PROVE  t \div Minute \in Minutes /\ t % Minute \in 0..(Minute - 1) /\ Minute \in Nat /\ Minute >= 2
         /\ t \in Nat /\ t \in Times /\ Horizon \in Nat
<1>1. Minute \in Nat /\ Minute >= 2 /\ Horizon \in Nat
  BY PaperEngineAssumption, PaperTradingAssumption
<1>2. t \in Nat /\ t <= Horizon
  BY <1>1 DEF Clock
<1>3. t \div Minute \in Nat /\ t \div Minute <= Horizon \div Minute
  BY <1>1, <1>2
<1>4. t % Minute \in 0..(Minute - 1)
  BY <1>1, <1>2
<1>5. Horizon \div Minute \in Nat
  BY <1>1
<1> QED
  BY <1>1, <1>2, <1>3, <1>4, <1>5 DEF Minutes, Times, Clock

\* A price of the tape is a number.
LEMMA PriceType ==
  ASSUME NEW mk \in Tapes, NEW s \in Symbols, NEW t \in Clock
  PROVE  PriceIn(mk, s, t) \in Nat
<1>1. mk[(t \div Minute) + 1] \in [Symbols -> [1..Minute -> Nat]]
  BY MinuteOf, PaperTradingAssumption
<1>2. (t % Minute) + 1 \in 1..Minute
  BY MinuteOf
<1> QED
  BY <1>1, <1>2 DEF PriceIn

\* processBotQuote moves the campaigns at the time of the quote.
LEMMA BotQuoteIs ==
  ASSUME NEW st \in StoreSet, NEW n \in Nat, LedgerOK(st, n), NEW s \in Symbols, NEW t \in Nat,
         NEW prices \in [Symbols -> Int]
  PROVE  /\ Sweep(st, processBotQuote(st, s, prices, t), n, t, Symbols)
         /\ Frame(st, processBotQuote(st, s, prices, t))
<1> DEFINE c     == st.camp[s]
           price == prices[s]
           o     == processCampaignQuote(c, price, price, t)
           m     == Settle(st, s, o, o.price, t)
           x     == checkGlobalLiquidation(m, prices, t)
<1>1. CampOK(c) /\ price \in Int /\ t \in Int
  BY CampIn
<1> HIDE DEF price
<1>2. Engine(c, o, t)
  BY <1>1, EngineIs
<1>3. processBotQuote(st, s, prices, t) =
        IF o.exit \notin {"none", "l1_cycle", "expired"} THEN m ELSE x
  BY Zenon DEF processBotQuote, price
<1> HIDE DEF o
<1>4. o.price \in Int
  BY <1>2 DEF Engine
<1>5. Move(st, m, s, t) /\ Frame(st, m)
  BY <1>1, <1>2, <1>4, SettleMoves, Zenon
<1> HIDE DEF m, x
<1>6. Sweep(st, m, n, t, {s})
  BY <1>5, MoveSweep
<1>7. m \in StoreSet /\ LedgerOK(m, n)
  BY <1>6 DEF Sweep
<1>8. Checked(m, x, n, prices, t)
  BY <1>7, LiquidationIs, Zenon DEF x
<1>9. PICK S \in SUBSET Symbols : Emptied(m, x, n, t, S)
  BY <1>8 DEF Checked, Valued
<1>10. Sweep(m, x, n, t, S) /\ Frame(m, x)
  BY <1>9 DEF Emptied
<1>11. Sweep(st, x, n, t, {s} \cup S) /\ Frame(st, x)
  BY <1>1, <1>5, <1>6, <1>10, SweepTrans, FrameTrans
<1>12. \A y, T : T \subseteq Symbols /\ Sweep(st, y, n, t, T) => Sweep(st, y, n, t, Symbols)
  BY DEF Sweep
<1> QED
  BY <1>3, <1>5, <1>6, <1>11, <1>12

\* What markMarketProcessed writes.
Marked(x, y, s, t, clock) ==
  /\ y \in StoreSet /\ SameBooks(x, y)
  /\ y.rec = x.rec /\ y.gap = x.gap /\ y.since = x.since /\ y.replayed = x.replayed
  /\ y.again = x.again /\ y.slipped = x.slipped /\ y.early = x.early
  /\ y.chk = clock
  /\ y.at[s] \in {x.at[s], t} /\ y.at[s] >= x.at[s] /\ y.at[s] >= t
  /\ \A u \in Symbols \ {s} : y.at[u] = x.at[u] /\ y.live[u] = x.live[u]
  /\ y.live[s] = x.live[s] \cup {t \div Minute}
  /\ y.mixed = IF x.gap = Never THEN x.mixed ELSE x.mixed \cup {s}

\* markMarketProcessed writes what Marked says.
LEMMA MarkIs ==
  ASSUME NEW x \in StoreSet, NEW s \in Symbols, NEW t \in Clock, NEW clock \in Clock
  PROVE  Marked(x, markMarketProcessed(x, s, t, clock), s, t, clock)
<1> DEFINE a == [x.at EXCEPT ![s] = Max({@, t})]
           v == [x.live EXCEPT ![s] = @ \cup {t \div Minute}]
           w == IF x.gap = Never THEN x.mixed ELSE x.mixed \cup {s}
           y == markMarketProcessed(x, s, t, clock)
           q == Max({x.at[s], t})
<1>1. /\ x.at \in [Symbols -> Times] /\ x.live \in [Symbols -> SUBSET Minutes]
      /\ x.mixed \in SUBSET Symbols /\ x.at[s] \in Times
  BY DEF StoreSet
<1>2. t \in Times /\ clock \in Times /\ t \in Int /\ x.at[s] \in Int /\ t \div Minute \in Minutes
  BY <1>1, MinuteOf DEF Times, Never
<1>3. q \in {x.at[s], t} /\ q >= x.at[s] /\ q >= t
  BY <1>2, MaxOfTwo
<1>4. q \in Times
  BY <1>1, <1>2, <1>3
<1> HIDE DEF q
<1>5. a \in [Symbols -> Times] /\ a[s] = q /\ \A u \in Symbols \ {s} : a[u] = x.at[u]
  BY <1>1, <1>4 DEF q
<1>6. /\ v \in [Symbols -> SUBSET Minutes] /\ v[s] = x.live[s] \cup {t \div Minute}
      /\ \A u \in Symbols \ {s} : v[u] = x.live[u]
  BY <1>1, <1>2
<1>7. w \in SUBSET Symbols
  BY <1>1
<1>8. y = [x EXCEPT !.at = a, !.chk = clock, !.live = v, !.mixed = w]
  BY DEF markMarketProcessed
<1> HIDE DEF a, v, w, y
<1>9. /\ y \in StoreSet /\ y.camp = x.camp /\ y.trades = x.trades
      /\ y.rec = x.rec /\ y.gap = x.gap /\ y.since = x.since /\ y.replayed = x.replayed
      /\ y.again = x.again /\ y.slipped = x.slipped /\ y.early = x.early
      /\ y.chk = clock /\ y.at = a /\ y.live = v /\ y.mixed = w
  BY <1>2, <1>5, <1>6, <1>7, <1>8 DEF StoreSet
<1> QED
  BY <1>3, <1>5, <1>6, <1>9 DEF Marked, SameBooks, y, w

\* The stores whose ledger is in step, with the ids given out so far.
BookSet(n) == {x \in StoreSet : LedgerOK(x, n)}

\* What processQuotes runs on.
QuoteStates(n) == [quote : [Symbols -> Int], st : BookSet(n)]

\* The moments of quotes.
MomentSet == Clock \X Symbols

\* A moment has a time and a symbol.
LEMMA MomentIs ==
  \A m \in MomentSet : m[1] \in Clock /\ m[1] \in Nat /\ m[1] \in Int /\ m[2] \in Symbols
<1>1. \A t \in Clock : t \in Nat /\ t \in Int
  BY MinuteOf
<1> QED
  BY <1>1 DEF MomentSet

\* The quotes shown after the moment m.
Seen(x, m, mk) == [x.quote EXCEPT ![m[2]] = PriceIn(mk, m[2], m[1])]

\* One step of processQuotes.
QuoteStep(x, m, mk, clock) ==
  [quote |-> Seen(x, m, mk),
   st |-> processBotQuote(markMarketProcessed(x.st, m[2], m[1], clock),
                          m[2], Seen(x, m, mk), m[1])]

\* One quote: the cursors are moved, then the campaign and the margin check run.
Quoted(x, z, m, clock, n) ==
  /\ z \in QuoteStates(n)
  /\ \E y : /\ Marked(x.st, y, m[2], m[1], clock)
            /\ Sweep(y, z.st, n, m[1], Symbols) /\ Frame(y, z.st)

\* One quote does what Quoted says.
LEMMA QuoteStepIs ==
  ASSUME NEW n \in Nat, NEW x \in QuoteStates(n), NEW m \in MomentSet, NEW mk \in Tapes,
         NEW clock \in Clock
  PROVE  Quoted(x, QuoteStep(x, m, mk, clock), m, clock, n)
<1> DEFINE s    == m[2]
           t    == m[1]
           st   == x.st
           seen == Seen(x, m, mk)
           y    == markMarketProcessed(st, s, t, clock)
           z    == processBotQuote(y, s, seen, t)
<1>1. s \in Symbols /\ t \in Clock /\ t \in Nat
  BY MinuteOf DEF MomentSet
<1>2. st \in StoreSet /\ LedgerOK(st, n) /\ x.quote \in [Symbols -> Int]
  BY DEF QuoteStates, BookSet
<1>3. seen \in [Symbols -> Int]
  <2>1. PriceIn(mk, s, t) \in Int
    BY <1>1, PriceType
  <2> QED
    BY <1>1, <1>2, <2>1 DEF Seen
<1>4. QuoteStep(x, m, mk, clock) = [quote |-> seen, st |-> z]
  BY Zenon DEF QuoteStep
<1> HIDE DEF s, t, st, seen
<1>5. Marked(st, y, s, t, clock)
  BY <1>1, <1>2, MarkIs
<1> HIDE DEF y
<1>6. y \in StoreSet /\ LedgerOK(y, n)
  BY <1>2, <1>5, SameBooksIs DEF Marked
<1>7. Sweep(y, z, n, t, Symbols) /\ Frame(y, z)
  BY <1>1, <1>3, <1>6, BotQuoteIs, Zenon
<1> HIDE DEF z
<1>8. z \in BookSet(n)
  BY <1>7 DEF Sweep, BookSet
<1> DEFINE q == [quote |-> seen, st |-> z]
<1>9. q \in QuoteStates(n) /\ q.st = z
  BY <1>3, <1>8 DEF QuoteStates
<1> HIDE DEF q
<1>10. Quoted(x, q, m, clock, n)
  BY <1>5, <1>7, <1>9 DEF Quoted, s, t, st
<1> QED
  BY <1>4, <1>10 DEF q

\* The fold of processQuotes as a function on sets of positions.
OneQuote(g, s, base, moments, mk, clock) ==
  IF s = {} THEN base ELSE QuoteStep(g[s \ {Max(s)}], moments[Max(s)], mk, clock)

\* The function is one of these,
IsQuotes(g, base, moments, mk, clock) ==
  g = [s \in SUBSET DOMAIN moments |-> OneQuote(g, s, base, moments, mk, clock)]

\* and this is it.
QuotesOf(base, moments, mk, clock) == CHOOSE g : IsQuotes(g, base, moments, mk, clock)

\* The fold of the library is this function.
LEMMA QuotesFold ==
  ASSUME NEW st, NEW q, NEW moments, NEW mk, NEW clock
  PROVE  processQuotes(st, q, moments, mk, clock)
           = QuotesOf([st |-> st, quote |-> q], moments, mk, clock)[DOMAIN moments]
BY Zenon DEF processQuotes, FoldLeft, MapThenFoldSet, QuotesOf, IsQuotes, OneQuote, QuoteStep, Seen

\* The states a sequence of quotes runs through.
QuoteRun(h, st, q, moments, mk, clock) ==
  /\ h[0] = [st |-> st, quote |-> q]
  /\ \A k \in 1..Len(moments) : h[k] = QuoteStep(h[k - 1], moments[k], mk, clock)
  /\ processQuotes(st, q, moments, mk, clock) = h[Len(moments)]

\* A sequence of quotes has such a run, which ends at what processQuotes returns.
LEMMA QuoteRunExists ==
  ASSUME NEW n \in Nat, NEW st \in BookSet(n), NEW q \in [Symbols -> Int],
         NEW moments \in Seq(MomentSet), NEW mk \in Tapes, NEW clock \in Clock
  PROVE  \E h : QuoteRun(h, st, q, moments, mk, clock)
<1> DEFINE base == [st |-> st, quote |-> q]
           len == Len(moments)
           V == QuoteStates(n)
           F == [p \in V \X (1..len) |-> QuoteStep(p[1], moments[p[2]], mk, clock)]
<1>1. base \in V
  BY DEF QuoteStates
<1>2. len \in Nat /\ DOMAIN moments = 1..len /\ \A i \in 1..len : moments[i] \in MomentSet
  BY LenProperties, ElementOfSeq
<1>3. \A v \in V : \A i \in 1..len : QuoteStep(v, moments[i], mk, clock) \in V
  BY <1>2, QuoteStepIs DEF Quoted
<1>4. \A v \in V : \A i \in 1..len : F[<<v, i>>] = QuoteStep(v, moments[i], mk, clock)
  OBVIOUS
<1>5. \A v \in V : \A i \in 1..len : F[<<v, i>>] \in V
  BY <1>3, <1>4
<1> HIDE DEF base, V, F, len
<1>6. \E g : IsQuotes(g, base, moments, mk, clock)
  <2>a. PICK g \in [SUBSET (1..len) -> V] : IsLeftFold(g, len, V, base, F)
    BY <1>1, <1>2, <1>5, LeftFoldExists
  <2>1. \A s \in SUBSET (1..len) :
           /\ s # {} => Max(s) \in 1..len /\ g[s \ {Max(s)}] \in V
           /\ g[s] = IF s = {} THEN base ELSE F[<<g[s \ {Max(s)}], Max(s)>>]
    BY <2>a, Zenon DEF IsLeftFold
  <2>2. ASSUME NEW s \in SUBSET (1..len) PROVE g[s] = OneQuote(g, s, base, moments, mk, clock)
    <3>1. CASE s = {}
      BY <2>1, <3>1 DEF OneQuote
    <3>2. CASE s # {}
      <4>1. Max(s) \in 1..len /\ g[s \ {Max(s)}] \in V
        BY <2>1, <3>2
      <4>2. g[s] = F[<<g[s \ {Max(s)}], Max(s)>>]
        BY <2>1, <3>2
      <4>3. g[s] = QuoteStep(g[s \ {Max(s)}], moments[Max(s)], mk, clock)
        BY <1>4, <4>1, <4>2
      <4> QED
        BY <3>2, <4>3 DEF OneQuote
    <3> QED
      BY <3>1, <3>2
  <2>3. g = [s \in SUBSET (1..len) |-> OneQuote(g, s, base, moments, mk, clock)]
    BY <2>1, <2>2
  <2>4. SUBSET DOMAIN moments = SUBSET (1..len)
    BY <1>2
  <2>5. IsQuotes(g, base, moments, mk, clock)
    BY <2>3, <2>4, Zenon DEF IsQuotes
  <2> QED
    BY <2>5
<1> DEFINE g == QuotesOf(base, moments, mk, clock)
<1>7. IsQuotes(g, base, moments, mk, clock)
  BY <1>6, Zenon DEF QuotesOf
<1>8. processQuotes(st, q, moments, mk, clock) = g[1..len]
  BY <1>2, QuotesFold, Zenon DEF base
<1> HIDE DEF g
<1>9. \A s \in SUBSET (1..len) : g[s] = OneQuote(g, s, base, moments, mk, clock)
  BY <1>2, <1>7, Zenon DEF IsQuotes
<1> DEFINE h == [k \in 0..len |-> g[1..k]]
<1>10. h[0] = base
  <2>1. 1..0 = {} /\ {} \in SUBSET (1..len) /\ 0 \in 0..len
    BY <1>2
  <2>2. g[{}] = base
    BY <1>9, <2>1 DEF OneQuote
  <2> QED
    BY <2>1, <2>2
<1>11. ASSUME NEW k \in 1..len PROVE h[k] = QuoteStep(h[k - 1], moments[k], mk, clock)
  <2>1. /\ k \in Nat \ {0} /\ k \in 0..len /\ k - 1 \in 0..len /\ 1..k \in SUBSET (1..len)
    BY <1>2
  <2>2. 1..k # {} /\ Max(1..k) = k /\ (1..k) \ {k} = 1..(k - 1)
    BY <2>1, LastOfPrefix
  <2>3. g[1..k] = OneQuote(g, 1..k, base, moments, mk, clock)
    BY <1>9, <2>1
  <2>4. g[1..k] = QuoteStep(g[1..(k - 1)], moments[k], mk, clock)
    BY <2>2, <2>3, Zenon DEF OneQuote
  <2> QED
    BY <2>1, <2>4
<1>12. h[len] = g[1..len]
  BY <1>2
<1> HIDE DEF h
<1>13. QuoteRun(h, st, q, moments, mk, clock)
  BY <1>8, <1>10, <1>11, <1>12 DEF QuoteRun, base, len
<1> QED
  BY <1>13

\* What a sequence of quotes does to the books, the cursors and the order of trades.
Follows(st, x, n) == x \in BookSet(n) /\ Extends(st, x) /\ Leads(st, x) /\ Heirs(st, x)

\* What follows from what follows, follows.
LEMMA FollowsTrans ==
  ASSUME NEW st, NEW x, NEW z, NEW n, Follows(st, x, n), Follows(x, z, n)
  PROVE  Follows(st, z, n)
<1>1. Extends(st, z) /\ Leads(st, z)
  BY ExtendsTrans, LeadsTrans DEF Follows
<1>2. Heirs(st, z)
  BY DEF Follows, Heirs
<1> QED
  BY <1>1, <1>2 DEF Follows

\* A store follows from itself.
LEMMA FollowsSelf ==
  ASSUME NEW n, NEW st \in BookSet(n) PROVE Follows(st, st, n)
BY DEF Follows, Extends, Leads, Heirs

\* The moments are in the order of time.
Sorted(moments) ==
  \A i, j \in 1..Len(moments) : i <= j => moments[i][1] <= moments[j][1]

\* What k quotes do to the cursors.
Marks(st, y, moments, clock, k) ==
  /\ y.rec = st.rec /\ y.gap = st.gap /\ y.since = st.since /\ y.replayed = st.replayed
  /\ y.again = st.again /\ y.slipped = st.slipped /\ y.early = st.early
  /\ y.chk = IF k = 0 THEN st.chk ELSE clock
  /\ \A u \in Symbols : y.at[u] >= st.at[u] /\ st.live[u] \subseteq y.live[u]
  /\ \A u \in Symbols :
       y.at[u] = st.at[u] \/ \E i \in 1..k : moments[i][2] = u /\ y.at[u] = moments[i][1]
  /\ \A i \in 1..k : /\ y.at[moments[i][2]] >= moments[i][1]
                     /\ moments[i][1] \div Minute \in y.live[moments[i][2]]
  /\ \A u \in Symbols :
       u \in y.mixed <=> \/ u \in st.mixed
                         \/ st.gap # Never /\ \E i \in 1..k : moments[i][2] = u

\* Trades stay in order where no quote came before what the books hold.
InTime(st, y, moments, k) ==
  \A u \in Symbols :
    (Ordered(st, u) /\ \A i \in 1..Len(moments) : NotAfter(st, u, moments[i][1]))
      => Ordered(y, u) /\ \A i \in 1..Len(moments) : i >= k => NotAfter(y, u, moments[i][1])

\* One more quote moves the cursors.
LEMMA MarksStep ==
  ASSUME NEW st \in StoreSet, NEW moments \in Seq(MomentSet), NEW clock \in Clock,
         NEW k \in 1..Len(moments), NEW x \in StoreSet, Marks(st, x, moments, clock, k - 1),
         NEW y, Marked(x, y, moments[k][2], moments[k][1], clock),
         NEW z, Frame(y, z)
  PROVE  Marks(st, z, moments, clock, k)
<1> DEFINE s == moments[k][2]
           t == moments[k][1]
<1>1. Len(moments) \in Nat /\ k \in Nat \ {0} /\ \A i \in 1..Len(moments) : moments[i] \in MomentSet
  BY LenProperties, ElementOfSeq
<1>2. s \in Symbols /\ t \in Int
  BY <1>1, MomentIs
<1>a. 1..k = (1..(k - 1)) \cup {k} /\ k # 0
  BY <1>1
<1>b. \A i \in 1..k : moments[i][2] \in Symbols /\ moments[i][1] \in Int
  BY <1>1, MomentIs
<1>3. \A u \in Symbols : x.at[u] \in Int /\ st.at[u] \in Int
  BY MinuteOf DEF StoreSet, Times, Never
<1> HIDE DEF s, t
<1>4. Marked(x, y, s, t, clock)
  BY DEF s, t
<1>5. \A u \in Symbols : y.at[u] \in Int /\ y.at[u] >= x.at[u] /\ x.live[u] \subseteq y.live[u]
  BY <1>2, <1>3, <1>4 DEF Marked
<1>6. \A u \in Symbols : z.at[u] >= st.at[u] /\ st.live[u] \subseteq z.live[u]
  BY <1>3, <1>5 DEF Marks, Frame
<1>7. ASSUME NEW u \in Symbols
      PROVE  z.at[u] = st.at[u] \/ \E i \in 1..k : moments[i][2] = u /\ z.at[u] = moments[i][1]
  <2>1. CASE z.at[u] = x.at[u]
    BY <1>a, <2>1 DEF Marks
  <2>2. CASE z.at[u] # x.at[u]
    <3>1. u = s /\ z.at[u] = t
      BY <1>4, <2>2 DEF Marked, Frame
    <3> QED
      BY <1>a, <3>1 DEF s, t
  <2> QED
    BY <2>1, <2>2
<1>8. ASSUME NEW i \in 1..k
      PROVE  /\ z.at[moments[i][2]] >= moments[i][1]
             /\ moments[i][1] \div Minute \in z.live[moments[i][2]]
  <2>1. CASE i = k
    BY <1>4, <2>1 DEF Marked, Frame, s, t
  <2>2. CASE i # k
    <3> DEFINE u == moments[i][2]
               e == moments[i][1]
               w == e \div Minute
    <3>1. i \in 1..(k - 1) /\ u \in Symbols /\ e \in Int
      BY <1>1, <1>b, <2>2
    <3>2. x.at[u] >= e /\ w \in x.live[u]
      BY <3>1 DEF Marks
    <3> HIDE DEF u, e, w
    <3>3. y.at[u] >= e /\ w \in y.live[u]
      BY <1>3, <1>5, <3>1, <3>2
    <3> QED
      BY <3>3 DEF Frame, u, e, w
  <2> QED
    BY <2>1, <2>2
<1>9. ASSUME NEW u \in Symbols
      PROVE  u \in z.mixed <=> \/ u \in st.mixed
                               \/ st.gap # Never /\ \E i \in 1..k : moments[i][2] = u
  <2>1. u \in x.mixed <=> \/ u \in st.mixed
                          \/ st.gap # Never /\ \E i \in 1..(k - 1) : moments[i][2] = u
    BY DEF Marks
  <2>2. x.gap = st.gap
    BY DEF Marks
  <2>3. u \in z.mixed <=> u \in x.mixed \/ (st.gap # Never /\ u = s)
    BY <1>4, <2>2 DEF Marked, Frame
  <2> QED
    BY <1>a, <2>1, <2>3 DEF s
<1>10. z.chk = clock
  BY <1>4 DEF Marked, Frame
<1>11. /\ z.rec = st.rec /\ z.gap = st.gap /\ z.since = st.since /\ z.replayed = st.replayed
       /\ z.again = st.again /\ z.slipped = st.slipped /\ z.early = st.early
  BY <1>4 DEF Marked, Frame, Marks
<1> QED
  BY <1>a, <1>6, <1>7, <1>8, <1>9, <1>10, <1>11 DEF Marks

\* One more quote keeps the trades in order.
LEMMA InTimeStep ==
  ASSUME NEW n, NEW st \in StoreSet, NEW moments \in Seq(MomentSet), Sorted(moments),
         NEW k \in 1..Len(moments), NEW x \in StoreSet, InTime(st, x, moments, k - 1),
         NEW y, SameBooks(x, y), NEW z, Sweep(y, z, n, moments[k][1], Symbols)
  PROVE  InTime(st, z, moments, k)
<1>1. Len(moments) \in Nat /\ k \in Nat \ {0} /\ \A i \in 1..Len(moments) : moments[i] \in MomentSet
  BY LenProperties, ElementOfSeq
<1>2. \A i \in 1..Len(moments) : moments[i][1] \in Int
  BY <1>1, MomentIs
<1> SUFFICES ASSUME NEW u \in Symbols, Ordered(st, u),
                    \A i \in 1..Len(moments) : NotAfter(st, u, moments[i][1])
             PROVE  /\ Ordered(z, u)
                    /\ \A i \in 1..Len(moments) : i >= k => NotAfter(z, u, moments[i][1])
  BY DEF InTime
<1>3. Ordered(x, u) /\ \A i \in 1..Len(moments) : i >= k - 1 => NotAfter(x, u, moments[i][1])
  BY DEF InTime
<1>4. Ordered(y, u) /\ \A i \in 1..Len(moments) : i >= k => NotAfter(y, u, moments[i][1])
  BY <1>1, <1>3, SameBooksIs
<1>5. NotAfter(y, u, moments[k][1])
  BY <1>1, <1>4
<1>6. Ordered(z, u)
  BY <1>4, <1>5 DEF Sweep
<1>7. ASSUME NEW i \in 1..Len(moments), i >= k PROVE NotAfter(z, u, moments[i][1])
  <2>1. moments[i][1] >= moments[k][1]
    BY <1>1, <1>2, <1>7 DEF Sorted
  <2> QED
    BY <1>2, <1>4, <1>7, <2>1 DEF Sweep
<1> QED
  BY <1>6, <1>7

\* The whole of it.
Followed(st, q, moments, clock, n, k, x) ==
  /\ x \in QuoteStates(n) /\ Follows(st, x.st, n)
  /\ Marks(st, x.st, moments, clock, k)
  /\ Sorted(moments) => InTime(st, x.st, moments, k)

\* processQuotes does what Followed says.
LEMMA QuotesIs ==
  ASSUME NEW n \in Nat, NEW st \in BookSet(n), NEW q \in [Symbols -> Int],
         NEW moments \in Seq(MomentSet), NEW mk \in Tapes, NEW clock \in Clock
  PROVE  Followed(st, q, moments, clock, n, Len(moments), processQuotes(st, q, moments, mk, clock))
<1> DEFINE len == Len(moments)
           W == {p \in Nat \X QuoteStates(n) : Followed(st, q, moments, clock, n, p[1], p[2])}
<1>1. PICK h : QuoteRun(h, st, q, moments, mk, clock)
  BY QuoteRunExists
<1>2. len \in Nat /\ \A i \in 1..len : moments[i] \in MomentSet
  BY LenProperties, ElementOfSeq
<1>3. ASSUME NEW k \in Nat, Followed(st, q, moments, clock, n, k, h[k])
      PROVE  <<k, h[k]>> \in W
  BY <1>3 DEF Followed
<1>4. <<0, h[0]>> \in W
  <2>1. h[0] = [st |-> st, quote |-> q]
    BY <1>1 DEF QuoteRun
  <2> DEFINE x == h[0]
  <2>2. x.st = st /\ x \in QuoteStates(n)
    BY <2>1 DEF QuoteStates
  <2> HIDE DEF x
  <2>3. Follows(st, x.st, n)
    BY <2>2, FollowsSelf
  <2>4. st \in StoreSet
    BY DEF BookSet
  <2>5. Marks(st, st, moments, clock, 0)
    <3>1. \A u \in Symbols : st.at[u] \in Int
      BY <2>4, MinuteOf DEF StoreSet, Times, Never
    <3> QED
      BY <3>1 DEF Marks
  <2>6. InTime(st, st, moments, 0)
    BY DEF InTime
  <2>7. Followed(st, q, moments, clock, n, 0, x)
    BY <2>2, <2>3, <2>5, <2>6 DEF Followed
  <2> QED
    BY <1>3, <2>7 DEF x
<1>5. ASSUME NEW k \in 1..len, <<k - 1, h[k - 1]>> \in W PROVE <<k, h[k]>> \in W
  <2> DEFINE x == h[k - 1]
             m == moments[k]
             z == h[k]
  <2>1. Followed(st, q, moments, clock, n, k - 1, x)
    BY <1>5
  <2>2. z = QuoteStep(x, m, mk, clock) /\ m \in MomentSet /\ k \in Nat
    BY <1>1, <1>2 DEF QuoteRun
  <2> HIDE DEF x, z, W
  <2>3. x \in QuoteStates(n)
    BY <2>1 DEF Followed
  <2>4. Quoted(x, z, m, clock, n)
    BY <2>2, <2>3, QuoteStepIs
  <2>5. PICK y : /\ Marked(x.st, y, m[2], m[1], clock)
                 /\ Sweep(y, z.st, n, m[1], Symbols) /\ Frame(y, z.st)
    BY <2>4 DEF Quoted
  <2>6. z \in QuoteStates(n) /\ z.st \in BookSet(n) /\ z.st \in StoreSet /\ x.st \in StoreSet
        /\ st \in StoreSet
    BY <2>3, <2>4 DEF Quoted, QuoteStates, BookSet
  <2>7. SameBooks(x.st, y)
    BY <2>5 DEF Marked
  <2>8. Sweep(x.st, z.st, n, m[1], Symbols)
    BY <2>5, <2>7, SweepFrom
  <2>9. Follows(x.st, z.st, n)
    BY <2>6, <2>8 DEF Follows, Sweep
  <2>10. Follows(st, z.st, n)
    BY <2>1, <2>9, FollowsTrans DEF Followed
  <2>11. Marks(st, z.st, moments, clock, k)
    BY <2>1, <2>5, <2>6, MarksStep DEF Followed
  <2>12. Sorted(moments) => InTime(st, z.st, moments, k)
    BY <2>1, <2>5, <2>6, <2>7, InTimeStep DEF Followed
  <2>13. Followed(st, q, moments, clock, n, k, z)
    BY <2>6, <2>10, <2>11, <2>12 DEF Followed
  <2> QED
    BY <1>3, <2>2, <2>13 DEF z
<1> HIDE DEF W
<1>6. \A k \in 0..len : <<k, h[k]>> \in W
  BY <1>2, <1>4, <1>5, PrefixIn
<1>7. <<len, h[len]>> \in W
  BY <1>2, <1>6
<1>8. processQuotes(st, q, moments, mk, clock) = h[len]
  BY <1>1 DEF QuoteRun
<1> QED
  BY <1>7, <1>8 DEF W

------------------------------------------------------------------------------
(* Candles and instants                                                     *)

\* The instants of a candle, in ticks from its open.
Offset(k) ==
  CASE k = 1 -> 1
    [] k = 2 -> Max({1, (Minute - 1) \div 3})
    [] k = 3 -> Max({1, (2 * (Minute - 1)) \div 3})
    [] k = 4 -> Minute - 1

\* The time of the k-th point of a candle.
AtOf(m, k) == OpenOf(m) + Offset(k)

\* The points of a candle are in order, and the last is its close.
LEMMA OffsetIs ==
  /\ \A k \in 1..4 : Offset(k) \in Nat /\ 1 <= Offset(k) /\ Offset(k) <= Minute - 1
  /\ Offset(1) <= Offset(2) /\ Offset(2) <= Offset(3) /\ Offset(3) <= Offset(4)
  /\ Offset(4) = Minute - 1
<1> DEFINE span == Minute - 1
           b == span \div 3
           d == (2 * span) \div 3
<1>1. span \in Nat /\ span >= 1
  BY PaperEngineAssumption
<1>2. b \in Nat /\ d \in Nat /\ b <= d /\ d <= span
  <2> HIDE DEF span
  <2> QED
    BY <1>1
<1>3. Offset(1) = 1 /\ Offset(4) = span
  BY DEF Offset
<1>4. Offset(2) = Max({1, b}) /\ Offset(3) = Max({1, d})
  BY DEF Offset
<1> HIDE DEF span, b, d
<1>a. 1 \in Int /\ b \in Int /\ d \in Int
  BY <1>2
<1>5. /\ Max({1, b}) \in {1, b} /\ Max({1, b}) >= 1 /\ Max({1, b}) >= b
      /\ Max({1, d}) \in {1, d} /\ Max({1, d}) >= 1 /\ Max({1, d}) >= d
  BY <1>a, MaxOfTwo, Zenon
<1>6. Offset(1) <= Offset(2) /\ Offset(2) <= Offset(3) /\ Offset(3) <= Offset(4)
  BY <1>1, <1>2, <1>3, <1>4, <1>5
<1>7. \A k \in 1..4 : k = 1 \/ k = 2 \/ k = 3 \/ k = 4
  OBVIOUS
<1>8. \A k \in 1..4 : Offset(k) \in Nat /\ 1 <= Offset(k) /\ Offset(k) <= span
  BY <1>1, <1>2, <1>3, <1>4, <1>5, <1>7
<1> QED
  BY <1>3, <1>6, <1>8 DEF span

\* The minutes of the clock, their opens and their closes.
LEMMA MinutesIs ==
  ASSUME NEW m \in Nat
  PROVE  /\ OpenOf(m) \in Nat /\ CloseOf(m) \in Nat /\ CloseOf(m) = OpenOf(m) + (Minute - 1)
         /\ CloseOf(m) > OpenOf(m)
         /\ \A w \in Nat : w < m => CloseOf(w) < OpenOf(m) /\ CloseOf(w) < CloseOf(m)
         /\ \A w \in Nat : w <= m => CloseOf(w) <= CloseOf(m) /\ OpenOf(w) <= OpenOf(m)
         /\ \A t \in Nat : CloseOf(m) <= t => m <= t \div Minute
         /\ \A k \in 1..4 : AtOf(m, k) \in Nat /\ OpenOf(m) < AtOf(m, k) /\ AtOf(m, k) <= CloseOf(m)
         /\ AtOf(m, 4) = CloseOf(m)
<1>1. Minute \in Nat /\ Minute >= 2
  BY PaperEngineAssumption
<1>2. m * Minute \in Nat
  BY <1>1
<1>3. \A w \in Nat : w < m => w * Minute + Minute <= m * Minute
  BY <1>1
<1>4. OpenOf(m) = m * Minute /\ CloseOf(m) = m * Minute + Minute - 1
  BY DEF OpenOf, CloseOf
<1>5. \A w \in Nat : w * Minute \in Nat /\ OpenOf(w) = w * Minute /\ CloseOf(w) = w * Minute + Minute - 1
  BY <1>1 DEF OpenOf, CloseOf
<1>6. \A t \in Nat : CloseOf(m) <= t => m <= t \div Minute
  BY <1>1, <1>2, <1>4
<1>7. \A w \in Nat : w < m => CloseOf(w) < OpenOf(m) /\ CloseOf(w) < CloseOf(m)
  <2> TAKE w \in Nat
  <2> DEFINE q == w * Minute
             r == m * Minute
  <2>1. q \in Nat /\ r \in Nat /\ (w < m => q + Minute <= r)
    BY <1>2, <1>3, <1>5
  <2>2. OpenOf(m) = r /\ CloseOf(m) = r + Minute - 1 /\ CloseOf(w) = q + Minute - 1
    BY <1>4, <1>5
  <2> HIDE DEF q, r
  <2> QED
    BY <1>1, <2>1, <2>2
<1>8. \A w \in Nat : w <= m => CloseOf(w) <= CloseOf(m) /\ OpenOf(w) <= OpenOf(m)
  <2> TAKE w \in Nat
  <2> DEFINE q == w * Minute
             r == m * Minute
  <2>1. q \in Nat /\ r \in Nat /\ (w < m => q + Minute <= r)
    BY <1>2, <1>3, <1>5
  <2>2. /\ OpenOf(m) = r /\ CloseOf(m) = r + Minute - 1
        /\ OpenOf(w) = q /\ CloseOf(w) = q + Minute - 1
    BY <1>4, <1>5
  <2>3. w = m => q = r
    OBVIOUS
  <2> HIDE DEF q, r
  <2> QED
    BY <1>1, <2>1, <2>2, <2>3
<1> HIDE DEF AtOf
<1>9. OpenOf(m) \in Nat /\ CloseOf(m) \in Nat /\ CloseOf(m) = OpenOf(m) + (Minute - 1)
      /\ CloseOf(m) > OpenOf(m)
  <2> DEFINE r == m * Minute
  <2>1. r \in Nat /\ OpenOf(m) = r /\ CloseOf(m) = r + Minute - 1
    BY <1>2, <1>4
  <2> HIDE DEF r
  <2> QED
    BY <1>1, <2>1
<1>10. \A k \in 1..4 : AtOf(m, k) \in Nat /\ OpenOf(m) < AtOf(m, k) /\ AtOf(m, k) <= CloseOf(m)
  BY <1>1, <1>9, OffsetIs DEF AtOf
<1>11. AtOf(m, 4) = CloseOf(m)
  BY <1>9, OffsetIs DEF AtOf
<1> QED
  BY <1>6, <1>7, <1>8, <1>9, <1>10, <1>11

\* A point of the candle of minute m.
PointOK(p, m) ==
  p.minute = m /\ p.k \in 1..4 /\ p.at = AtOf(m, p.k) /\ p.price \in Nat

\* The path of a candle has its four points, or the last one alone.
LEMMA PathIs ==
  ASSUME NEW m \in Nat, NEW ticks \in [1..Minute -> Nat], NEW after \in Int
  PROVE  /\ \A p \in recoveryCandlePath(m, ticks, after) :
              PointOK(p, m) /\ (OpenOf(m) < after => p.k = 4)
         /\ \A k \in 1..4 : OpenOf(m) >= after \/ k = 4 =>
              \E p \in recoveryCandlePath(m, ticks, after) : p.k = k
<1> DEFINE open == Head(ticks)
           close == ticks[Minute]
           seen == {ticks[i] : i \in 1..Minute}
           ends == IF close >= open THEN <<Min(seen), Max(seen)>> ELSE <<Max(seen), Min(seen)>>
           P(price, k) == [at |-> AtOf(m, k), price |-> price, k |-> k, minute |-> m]
           path == recoveryCandlePath(m, ticks, after)
<1>1. Minute \in Nat /\ Minute >= 2 /\ 1 \in 1..Minute /\ Minute \in 1..Minute
  BY PaperEngineAssumption
<1>2. close \in Nat
  BY <1>1
<1>3. open \in Nat
  <2>1. ticks \in Seq(Nat)
    <3>1. ticks = [i \in 1..Minute |-> ticks[i]] /\ \A i \in 1..Minute : ticks[i] \in Nat
      OBVIOUS
    <3> QED
      BY <1>1, <3>1, IsASeq
  <2>2. Len(ticks) = Minute
    BY <1>1, <2>1, LenProperties
  <2>3. ticks # <<>>
    BY <1>1, <2>1, <2>2, EmptySeq
  <2> QED
    BY <2>1, <2>3, HeadTailProperties
<1>4. Min(seen) \in Nat /\ Max(seen) \in Nat
  <2>1. seen \in SUBSET Int /\ seen # {} /\ seen \in SUBSET Nat
    BY <1>1
  <2>2. IsFiniteSet(1..Minute)
    BY <1>1, FS_Interval
  <2>3. ticks = [i \in 1..Minute |-> ticks[i]]
    OBVIOUS
  <2>4. IsFiniteSet(seen)
    BY <2>2, <2>3, FiniteImage
  <2> HIDE DEF seen
  <2>5. Min(seen) \in seen /\ Max(seen) \in seen
    BY <2>1, <2>4, MinMaxOfFinite
  <2> QED
    BY <2>1, <2>5
<1> HIDE DEF seen, close, open
<1>5. ends[1] \in Nat /\ ends[2] \in Nat
  BY <1>4
<1> HIDE DEF ends
<1>6. path = IF OpenOf(m) < after THEN {P(close, 4)}
             ELSE {P(open, 1), P(ends[1], 2), P(ends[2], 3), P(close, 4)}
  <2>1. /\ AtOf(m, 1) = OpenOf(m) + 1
        /\ AtOf(m, 2) = OpenOf(m) + Max({1, (Minute - 1) \div 3})
        /\ AtOf(m, 3) = OpenOf(m) + Max({1, (2 * (Minute - 1)) \div 3})
        /\ AtOf(m, 4) = OpenOf(m) + (Minute - 1)
    BY DEF AtOf, Offset
  <2> QED
    BY <2>1, Zenon DEF recoveryCandlePath, open, close, seen, ends
<1>7. \A price \in Nat : \A k \in 1..4 : PointOK(P(price, k), m) /\ P(price, k).k = k
  BY DEF PointOK
<1> HIDE DEF P, path
<1>8. OpenOf(m) \in Int
  BY MinutesIs
<1>9. CASE OpenOf(m) < after
  <2>1. path = {P(close, 4)}
    BY <1>6, <1>9
  <2>2. PointOK(P(close, 4), m) /\ P(close, 4).k = 4
    BY <1>2, <1>7
  <2> QED
    BY <1>8, <1>9, <2>1, <2>2 DEF path
<1>10. CASE ~(OpenOf(m) < after)
  <2>1. path = {P(open, 1), P(ends[1], 2), P(ends[2], 3), P(close, 4)}
    BY <1>6, <1>10
  <2>2. /\ PointOK(P(open, 1), m) /\ P(open, 1).k = 1
        /\ PointOK(P(ends[1], 2), m) /\ P(ends[1], 2).k = 2
        /\ PointOK(P(ends[2], 3), m) /\ P(ends[2], 3).k = 3
        /\ PointOK(P(close, 4), m) /\ P(close, 4).k = 4
    BY <1>2, <1>3, <1>5, <1>7
  <2>3. \A k \in 1..4 : k = 1 \/ k = 2 \/ k = 3 \/ k = 4
    OBVIOUS
  <2> QED
    BY <1>8, <1>10, <2>1, <2>2, <2>3 DEF path
<1> QED
  BY <1>9, <1>10

\* The answers a replay runs on: every candle of a symbol from its starting point to the end.
Asked(a, syms) ==
  /\ task.end \in Int /\ task.end <= Horizon
  /\ syms \in SUBSET Symbols
  /\ \A s \in syms : task.after[s] \in Int /\ a[s] = Needed(task.after[s], task.end)

\* The minute and the point of the j-th instant.
Inst(j) == <<(j - 1) \div 4, ((j - 1) % 4) + 1>>
At(j) == AtOf(Inst(j)[1], Inst(j)[2])
NInstants == 4 * Cardinality(Minutes)

\* The instants of a replay are numbered minute by minute, point by point.
LEMMA InstIs ==
  ASSUME NEW j \in 1..NInstants
  PROVE  /\ NInstants \in Nat /\ j \in Nat
         /\ Instants[j] = Inst(j) /\ Inst(j)[1] \in Minutes /\ Inst(j)[1] \in Nat
         /\ Inst(j)[2] \in 1..4
<1>1. Horizon \div Minute \in Nat /\ 0 \in Int
  BY PaperEngineAssumption, PaperTradingAssumption
<1>2. Cardinality(Minutes) = (Horizon \div Minute) + 1
  BY <1>1, FS_Interval DEF Minutes
<1>3. NInstants \in Nat /\ j \in Nat /\ (j - 1) \div 4 <= Horizon \div Minute /\ (j - 1) \div 4 \in Nat
  <2> DEFINE q == Horizon \div Minute
  <2>1. q \in Nat /\ NInstants = 4 * (q + 1)
    BY <1>1, <1>2 DEF NInstants
  <2> HIDE DEF q
  <2> QED
    BY <2>1 DEF q
<1>4. ((j - 1) % 4) + 1 \in 1..4
  BY <1>3
<1>5. Instants[j] = Inst(j)
  BY DEF Instants, Inst, NInstants
<1> QED
  BY <1>1, <1>3, <1>4, <1>5 DEF Inst, Minutes

\* There is an instant.
LEMMA LastIs == NInstants \in Nat /\ NInstants >= 1
<1>1. Horizon \div Minute \in Nat /\ 0 \in Int
  BY PaperEngineAssumption, PaperTradingAssumption
<1>2. Cardinality(Minutes) = (Horizon \div Minute) + 1
  BY <1>1, FS_Interval DEF Minutes
<1> QED
  BY <1>1, <1>2 DEF NInstants

\* Instants come in the order of time.
LEMMA NextInst ==
  ASSUME NEW j \in 1..NInstants, j # 1
  PROVE  /\ j - 1 \in 1..NInstants
         /\ Inst(j - 1)[1] <= Inst(j)[1] /\ At(j - 1) <= At(j)
<1> DEFINE m == Inst(j)[1]
           k == Inst(j)[2]
           w == Inst(j - 1)[1]
           e == Inst(j - 1)[2]
<1>1. j \in Nat /\ NInstants \in Nat /\ j - 1 \in 1..NInstants
  BY InstIs
<1>2. m \in Nat /\ k \in 1..4 /\ w \in Nat /\ e \in 1..4
  BY <1>1, InstIs
<1>3. (w = m /\ k = e + 1) \/ (m = w + 1 /\ k = 1 /\ e = 4)
  BY <1>1 DEF Inst
<1>4. AtOf(w, e) <= AtOf(m, k)
  <2>1. CASE w = m /\ k = e + 1
    <3>1. OpenOf(m) \in Nat
      BY <1>2, MinutesIs
    <3>2. e = 1 \/ e = 2 \/ e = 3
      BY <1>2, <2>1
    <3>3. \A i \in 1..4 : Offset(i) \in Nat
      BY OffsetIs
    <3>4. Offset(e) <= Offset(k)
      BY <2>1, <3>2, OffsetIs
    <3> QED
      BY <1>2, <2>1, <3>1, <3>3, <3>4 DEF AtOf
  <2>2. CASE m = w + 1 /\ k = 1 /\ e = 4
    <3>1. w < m
      BY <1>2, <2>2
    <3>2. CloseOf(w) < OpenOf(m) /\ OpenOf(m) < AtOf(m, k) /\ AtOf(w, e) <= CloseOf(w)
      BY <1>2, <3>1, MinutesIs
    <3>3. CloseOf(w) \in Nat /\ OpenOf(m) \in Nat /\ AtOf(m, k) \in Nat /\ AtOf(w, e) \in Nat
      BY <1>2, MinutesIs
    <3> QED
      BY <3>2, <3>3
  <2> QED
    BY <1>3, <2>1, <2>2
<1>5. w <= m
  BY <1>2, <1>3
<1> QED
  BY <1>1, <1>4, <1>5 DEF At

\* The time of an instant.
LEMMA AtIs ==
  ASSUME NEW j \in 1..NInstants
  PROVE  /\ At(j) \in Nat /\ OpenOf(Inst(j)[1]) < At(j) /\ At(j) <= CloseOf(Inst(j)[1])
         /\ CloseOf(Inst(j)[1]) \in Nat
BY InstIs, MinutesIs DEF At

\* The minutes of an answer that was accepted.
LEMMA NeededIs ==
  ASSUME NEW a, NEW syms, Asked(a, syms), NEW s \in syms
  PROVE  /\ \A m : m \in a[s] <=>
              m \in Nat /\ CloseOf(m) > task.after[s] /\ CloseOf(m) <= task.end
         /\ \A m \in a[s] : m \in Minutes /\ CloseOf(m) \in Clock /\ CloseOf(m) \in Times
<1>1. Minute \in Nat /\ Minute >= 2 /\ Horizon \in Nat
  BY PaperEngineAssumption, PaperTradingAssumption
<1>2. task.end \in Int /\ task.end <= Horizon /\ a[s] = Needed(task.after[s], task.end)
  BY DEF Asked
<1>3. ASSUME NEW m \in Nat, CloseOf(m) <= task.end
      PROVE  m \in 0..(task.end \div Minute) /\ m \in Minutes /\ CloseOf(m) \in Clock
  <2>1. CloseOf(m) \in Nat /\ \A t \in Nat : CloseOf(m) <= t => m <= t \div Minute
    BY MinutesIs
  <2>2. task.end \in Nat /\ CloseOf(m) <= Horizon
    BY <1>1, <1>2, <1>3, <2>1
  <2>3. m <= task.end \div Minute /\ m <= Horizon \div Minute
    BY <1>1, <1>3, <2>1, <2>2
  <2>4. task.end \div Minute \in Int /\ Horizon \div Minute \in Int
    BY <1>1, <2>2
  <2> QED
    BY <1>1, <2>1, <2>2, <2>3, <2>4 DEF Minutes, Clock
<1>4. \A m : m \in a[s] <=> m \in Nat /\ CloseOf(m) > task.after[s] /\ CloseOf(m) <= task.end
  <2>1. \A m \in a[s] : m \in Nat
    BY <1>2 DEF Needed
  <2> QED
    BY <1>2, <1>3, <2>1 DEF Needed
<1>5. \A t \in Clock : t \in Times
  BY DEF Clock, Times
<1> QED
  BY <1>3, <1>4, <1>5

\* A symbol has at most one point at an instant, and where it has it.
LEMMA PointsAtIs ==
  ASSUME NEW a, NEW syms, Asked(a, syms), market \in Tapes, NEW s \in syms, NEW j \in 1..NInstants
  PROVE  LET m == Inst(j)[1]
         IN  /\ \A p \in PointsAt(a, s, Inst(j)) :
                  m \in a[s] /\ PointOK(p, m) /\ p.at = At(j) /\ At(j) > task.after[s]
             /\ m \in a[s] /\ (Inst(j)[2] = 4 \/ OpenOf(m) >= task.after[s]) =>
                  PointsAt(a, s, Inst(j)) # {}
<1> DEFINE m     == Inst(j)[1]
           k     == Inst(j)[2]
           after == task.after[s]
           ticks == market[m + 1][s]
           path  == recoveryCandlePath(m, ticks, after)
           pts   == PointsAt(a, s, Inst(j))
<1>1. m \in Minutes /\ m \in Nat /\ k \in 1..4
  BY InstIs
<1>2. s \in Symbols /\ after \in Int
  BY DEF Asked
<1>3. ticks \in [1..Minute -> Nat]
  BY <1>1, <1>2, PaperTradingAssumption
<1>4. pts = IF m \notin a[s] THEN {} ELSE {p \in path : p.k = k}
  BY DEF PointsAt
<1>5. m \in a[s] => CloseOf(m) > after
  BY NeededIs
<1>6. OpenOf(m) \in Nat /\ OpenOf(m) < AtOf(m, k) /\ AtOf(m, 4) = CloseOf(m) /\ AtOf(m, k) \in Nat
  BY <1>1, MinutesIs
<1> HIDE DEF m, k, after, ticks, pts
<1>7. /\ \A p \in path : PointOK(p, m) /\ (OpenOf(m) < after => p.k = 4)
      /\ \A e \in 1..4 : OpenOf(m) >= after \/ e = 4 => \E p \in path : p.k = e
  BY <1>1, <1>2, <1>3, PathIs
<1> HIDE DEF path
<1>8. \A p \in pts : m \in a[s] /\ p \in path /\ p.k = k
  BY <1>4
<1>9. ASSUME NEW p \in pts
      PROVE  m \in a[s] /\ PointOK(p, m) /\ p.at = AtOf(m, k) /\ AtOf(m, k) > after
  <2>1. m \in a[s] /\ PointOK(p, m) /\ p.k = k /\ (OpenOf(m) < after => k = 4)
    BY <1>7, <1>8, <1>9
  <2>2. p.at = AtOf(m, k)
    BY <2>1 DEF PointOK
  <2>3. AtOf(m, k) > after
    BY <1>2, <1>5, <1>6, <2>1
  <2> QED
    BY <2>1, <2>2, <2>3
<1>10. m \in a[s] /\ (k = 4 \/ OpenOf(m) >= after) => pts # {}
  BY <1>1, <1>4, <1>7
<1> QED
  BY <1>9, <1>10 DEF m, k, after, pts, At

------------------------------------------------------------------------------
(* One point of a replay                                                    *)

\* The states of a replay.
ReplayStates(n) ==
  [st : BookSet(n), done : SUBSET Symbols, prices : [Symbols -> Int],
   last : [Symbols -> Times], closed : [Symbols -> Times]]

\* The cursors, which a replay leaves alone until its end.
Still(x, y) ==
  /\ y.chk = x.chk /\ y.gap = x.gap /\ y.at = x.at /\ y.rec = x.rec /\ y.since = x.since
  /\ y.live = x.live /\ y.again = x.again /\ y.slipped = x.slipped /\ y.mixed = x.mixed

\* What is known of u is the same in both.
Untouched(x, z, u) ==
  /\ Kept(x.st, z.st, u)
  /\ z.prices[u] = x.prices[u] /\ z.last[u] = x.last[u] /\ z.closed[u] = x.closed[u]
  /\ z.st.replayed[u] = x.st.replayed[u]
  /\ u \in z.done <=> u \in x.done
  /\ u \in z.st.early <=> u \in x.st.early

\* The symbol s takes the point p.
Takes(x, z, s, p, n) ==
  /\ z \in ReplayStates(n) /\ Follows(x.st, z.st, n) /\ Still(x.st, z.st)
  /\ z.st.early = x.st.early
  /\ Sweep(x.st, z.st, n, p.at, {s})
  /\ \A u \in Symbols \ {s} : Untouched(x, z, u)
  /\ z.prices[s] = p.price /\ z.last[s] = p.at /\ z.closed[s] = CloseOf(p.minute)
  /\ z.st.replayed[s] = x.st.replayed[s] \cup {p.minute}
  /\ s \in z.done => z.st.camp[s] = NoCampaign

\* A campaign whose end is terminal is gone.
LEMMA SettleEnds ==
  ASSUME NEW st \in StoreSet, NEW s \in Symbols, NEW price, NEW t, NEW o, Terminal(o),
         o.exit # "expired" => Filled(o.held) # {}
  PROVE  Settle(st, s, o, price, t).camp[s] = NoCampaign
<1> DEFINE k == Put(st, s, o.campaign)
           x == Settle(st, s, o, price, t)
<1>0. st.camp \in [Symbols -> CampGood]
  BY DEF StoreSet
<1>1. CASE o.exit = "expired"
  <2>1. x = Put(st, s, NoCampaign)
    BY <1>1 DEF Settle, Put
  <2>2. Put(st, s, NoCampaign).camp = [st.camp EXCEPT ![s] = NoCampaign]
    BY DEF Put, StoreSet
  <2> QED
    BY <1>0, <2>1, <2>2
<1>2. CASE o.exit # "expired"
  <2> DEFINE d == Put(k, s, NoCampaign)
  <2>1. x = closeCampaign(k, s, o.held, price, t)
    BY <1>2 DEF Settle, Put, Terminal
  <2>2. x = d \/ x = Book(d, s, o.held, Final, price, t)
    BY <1>2, <2>1, Zenon DEF closeCampaign, Put
  <2>3. k.camp = [st.camp EXCEPT ![s] = o.campaign] /\ DOMAIN st = DOMAIN k /\ "camp" \in DOMAIN k
    BY DEF Put, StoreSet
  <2>4. d.camp = [k.camp EXCEPT ![s] = NoCampaign]
    BY <2>3 DEF Put
  <2>5. Book(d, s, o.held, Final, price, t).camp = d.camp
    BY DEF Book
  <2>6. d.camp[s] = NoCampaign
    BY <1>0, <2>3, <2>4
  <2> QED
    BY <2>2, <2>5, <2>6
<1> QED
  BY <1>1, <1>2

\* One point does what Takes says.
LEMMA ReplayPointIs ==
  ASSUME NEW n \in Nat, NEW x \in ReplayStates(n), NEW s \in Symbols, s \notin x.done,
         NEW m \in Minutes, NEW p, PointOK(p, m), p.at \in Times, CloseOf(m) \in Times
  PROVE  Takes(x, ReplayPoint(x, s, p), s, p, n)
<1> DEFINE st == x.st
           c == st.camp[s]
           o == processCampaignQuote(c, p.price, p.price, p.at)
           price == IF o.exit = "trailing_stop" /\ c.armed THEN c.stop ELSE o.price
           y == Settle(st, s, o, price, p.at)
           r == [y.replayed EXCEPT ![s] = @ \cup {p.minute}]
           v == [y EXCEPT !.replayed = r]
           done == IF Terminal(o) THEN x.done \cup {s} ELSE x.done
           z == [st |-> v, done |-> done,
                 prices |-> [x.prices EXCEPT ![s] = p.price],
                 last |-> [x.last EXCEPT ![s] = p.at],
                 closed |-> [x.closed EXCEPT ![s] = CloseOf(p.minute)]]
<1>1. st \in StoreSet /\ LedgerOK(st, n) /\ st \in BookSet(n)
  BY DEF ReplayStates, BookSet
<1>2. CampOK(c) /\ c \in CampSet /\ c.stop \in Int
  BY <1>1, CampIn DEF CampSet
<1>3. p.price \in Nat /\ p.price \in Int /\ p.at \in Nat /\ p.at \in Int /\ p.minute = m
  <2>1. m \in Nat
    BY DEF Minutes
  <2>2. p.at \in Nat
    BY <2>1, MinutesIs DEF PointOK
  <2> QED
    BY <2>2 DEF PointOK
<1>4. ReplayPoint(x, s, p) = z
  <2>1. [y EXCEPT !.replayed[s] = @ \cup {p.minute}] = v
    BY Zenon
  <2> QED
    BY <2>1, Zenon DEF ReplayPoint
<1>5. Engine(c, o, p.at)
  BY <1>2, <1>3, EngineIs
<1>6. price \in Int
  BY <1>2, <1>5 DEF Engine
<1> HIDE DEF o, price, st
<1>7. Move(st, y, s, p.at) /\ Frame(st, y)
  BY <1>1, <1>3, <1>5, <1>6, SettleMoves, Zenon
<1>8. Terminal(o) => y.camp[s] = NoCampaign
  <2>1. Terminal(o) /\ o.exit # "expired" => Filled(o.held) # {}
    BY <1>5 DEF Engine, Terminal
  <2> QED
    BY <1>1, <2>1, SettleEnds
<1> HIDE DEF y
<1>9. Sweep(st, y, n, p.at, {s})
  BY <1>1, <1>3, <1>7, MoveSweep
<1>10. y \in StoreSet
  BY <1>9 DEF Sweep
<1>11. /\ r \in [Symbols -> SUBSET Minutes] /\ r[s] = st.replayed[s] \cup {p.minute}
       /\ \A u \in Symbols \ {s} : r[u] = st.replayed[u]
  BY <1>3, <1>7, <1>10 DEF StoreSet, Frame
<1> HIDE DEF r
<1>12. /\ v \in StoreSet /\ v.camp = y.camp /\ v.trades = y.trades /\ v.replayed = r
       /\ v.chk = y.chk /\ v.gap = y.gap /\ v.at = y.at /\ v.rec = y.rec /\ v.since = y.since
       /\ v.live = y.live /\ v.again = y.again /\ v.slipped = y.slipped /\ v.mixed = y.mixed
       /\ v.early = y.early
  BY <1>10, <1>11 DEF StoreSet
<1> HIDE DEF v
<1>13. Sweep(st, v, n, p.at, {s})
  BY <1>9, <1>12, SweepInto DEF SameBooks
<1>14. Still(st, v) /\ v.early = st.early
  BY <1>7, <1>12 DEF Still, Frame
<1>15. v \in BookSet(n) /\ Follows(st, v, n)
  BY <1>13 DEF Follows, Sweep, BookSet
<1>16. done \in SUBSET Symbols /\ done \in {x.done, x.done \cup {s}}
       /\ (s \in done => v.camp[s] = NoCampaign)
  BY <1>8, <1>12 DEF ReplayStates
<1> HIDE DEF done
<1>17. /\ z \in ReplayStates(n) /\ z.st = v /\ z.done = done
       /\ z.prices = [x.prices EXCEPT ![s] = p.price] /\ z.last = [x.last EXCEPT ![s] = p.at]
       /\ z.closed = [x.closed EXCEPT ![s] = CloseOf(p.minute)]
  BY <1>3, <1>15, <1>16 DEF ReplayStates
<1>18. /\ x.prices \in [Symbols -> Int] /\ x.last \in [Symbols -> Times]
       /\ x.closed \in [Symbols -> Times]
  BY DEF ReplayStates
<1> HIDE DEF z
<1>19. \A u \in Symbols \ {s} : Untouched(x, z, u)
  <2> TAKE u \in Symbols \ {s}
  <2>1. Kept(st, v, u)
    BY <1>13 DEF Sweep
  <2>2. z.prices[u] = x.prices[u] /\ z.last[u] = x.last[u] /\ z.closed[u] = x.closed[u]
    BY <1>17, <1>18
  <2>3. z.st.replayed[u] = x.st.replayed[u]
    BY <1>11, <1>12, <1>17 DEF st
  <2>4. u \in z.done <=> u \in x.done
    BY <1>16, <1>17
  <2> QED
    BY <1>14, <1>17, <2>1, <2>2, <2>3, <2>4 DEF Untouched, st
<1>20. z.prices[s] = p.price /\ z.last[s] = p.at /\ z.closed[s] = CloseOf(p.minute)
  BY <1>17, <1>18
<1>21. z.st.replayed[s] = x.st.replayed[s] \cup {p.minute}
  BY <1>11, <1>12, <1>17 DEF st
<1>22. s \in z.done => z.st.camp[s] = NoCampaign
  BY <1>16, <1>17
<1>23. Takes(x, z, s, p, n)
  BY <1>13, <1>14, <1>15, <1>17, <1>19, <1>20, <1>21, <1>22 DEF Takes, st
<1> QED
  BY <1>4, <1>23

------------------------------------------------------------------------------
(* What a replay of st has done to a symbol after j instants                *)

\* Before its first point a symbol is as it was.
Unseen(st, x, s) ==
  /\ Kept(st, x.st, s) /\ x.closed[s] = Never /\ x.last[s] = Never
  /\ x.st.replayed[s] = st.replayed[s]

\* The last candle taken is the one under way, unless the campaign ended before.
Reached(x, a, s, j) ==
  \E m \in a[s] :
    /\ x.closed[s] = CloseOf(m) /\ m <= Inst(j)[1]
    /\ s \notin x.done /\ CloseOf(Inst(j)[1]) <= task.end => m = Inst(j)[1]

\* The books of s hold nothing that is later than the start of its replay.
Calm(st, s) == Ordered(st, s) /\ NotAfter(st, s, task.after[s])

\* After a point the symbol is replayed up to it.
Played(st, x, a, s, j) ==
  /\ j \in 1..NInstants /\ Reached(x, a, s, j)
  /\ x.last[s] \in Nat /\ x.last[s] <= x.closed[s] /\ x.last[s] <= At(j)
  /\ st.replayed[s] \subseteq x.st.replayed[s]
  /\ \A w \in x.st.replayed[s] :
       w \in st.replayed[s] \/ (w \in a[s] /\ CloseOf(w) <= x.closed[s])
  /\ Calm(st, s) => Ordered(x.st, s) /\ NotAfter(x.st, s, x.last[s])

\* The candles that are through were replayed, unless the campaign ended.
Covered(x, a, s, j) ==
  s \notin x.done => \A m \in a[s] : 4 * m + 4 <= j => m \in x.st.replayed[s]

\* A symbol that is not replayed is as it was, unless the margin check sold it.
Aside(st, x, s) ==
  /\ x.prices[s] = Never /\ x.closed[s] = Never /\ x.st.replayed[s] = st.replayed[s]
  /\ s \notin x.st.early => Kept(st, x.st, s)

\* What a replay of st has done to s after j instants.
SymbolOK(st, x, a, syms, s, j) ==
  /\ s \in x.done => x.st.camp[s] = NoCampaign
  /\ s \notin syms => Aside(st, x, s)
  /\ s \in syms /\ x.prices[s] = Never => Unseen(st, x, s)
  /\ s \in syms /\ x.prices[s] # Never => Played(st, x, a, s, j)
  /\ s \in syms => Covered(x, a, s, j)

\* What is left alone twice is left alone.
LEMMA KeptTrans ==
  ASSUME NEW st, NEW x, NEW z, NEW u, Kept(st, x, u), Kept(x, z, u) PROVE Kept(st, z, u)
BY DEF Kept

\* What is not after b is not after a later time.
LEMMA NotAfterMore ==
  ASSUME NEW st \in StoreSet, NEW s \in Symbols, NEW b \in Int, NEW e \in Int, b <= e,
         NotAfter(st, s, b)
  PROVE  NotAfter(st, s, e)
<1>1. \A l \in Filled(st.camp[s]) : st.camp[s].fill[l] \in Int
  BY CampIn, FillsIn
<1>2. \A i \in DOMAIN st.trades : st.trades[i].exit \in Int
  BY TradesIn
<1> QED
  BY <1>1, <1>2 DEF NotAfter

\* Points of other symbols change nothing of it.
LEMMA UntouchedOK ==
  ASSUME NEW st, NEW x, NEW z, NEW a, NEW syms, NEW s, NEW j,
         SymbolOK(st, x, a, syms, s, j), Untouched(x, z, s), x.last[s] \in Int
  PROVE  SymbolOK(st, z, a, syms, s, j)
<1>1. z.st.camp[s] = x.st.camp[s]
  BY DEF Untouched, Kept
<1>2. s \notin syms => Aside(st, z, s)
  BY KeptTrans DEF SymbolOK, Untouched, Aside
<1>3. s \in syms /\ z.prices[s] = Never => Unseen(st, z, s)
  BY KeptTrans DEF SymbolOK, Untouched, Unseen
<1>4. s \in syms /\ z.prices[s] # Never => Played(st, z, a, s, j)
  BY DEF SymbolOK, Untouched, Played, Kept, Reached
<1>5. s \in syms => Covered(z, a, s, j)
  BY DEF SymbolOK, Untouched, Covered
<1> QED
  BY <1>1, <1>2, <1>3, <1>4, <1>5 DEF SymbolOK, Untouched

\* An instant at which the symbol has no point.
LEMMA EmptyOK ==
  ASSUME NEW st, NEW x, NEW a, NEW syms, Asked(a, syms), market \in Tapes, NEW s \in Symbols,
         NEW j \in 1..NInstants, SymbolOK(st, x, a, syms, s, j - 1),
         s \in syms => s \in x.done \/ PointsAt(a, s, Inst(j)) = {}
  PROVE  SymbolOK(st, x, a, syms, s, j)
<1> SUFFICES ASSUME s \in syms
             PROVE  /\ x.prices[s] # Never => Played(st, x, a, s, j)
                    /\ Covered(x, a, s, j)
  BY DEF SymbolOK
<1> DEFINE w == Inst(j)[1]
<1>1. j \in Nat /\ w \in Nat /\ Inst(j)[2] \in 1..4
  BY InstIs
<1>2. task.end \in Int /\ task.after[s] \in Int
  BY DEF Asked
<1>3. Covered(x, a, s, j)
  <2> SUFFICES ASSUME s \notin x.done, NEW m \in a[s], 4 * m + 4 <= j
               PROVE  m \in x.st.replayed[s]
    BY DEF Covered
  <2>1. m \in Nat
    BY NeededIs
  <2>2. CASE 4 * m + 4 <= j - 1
    BY <2>2 DEF SymbolOK, Covered
  <2>3. CASE 4 * m + 4 = j
    <3>1. w = m /\ Inst(j)[2] = 4
      BY <2>1, <2>3 DEF Inst
    <3>2. PointsAt(a, s, Inst(j)) # {}
      BY <3>1, PointsAtIs
    <3> QED
      BY <3>2
  <2> QED
    BY <1>1, <2>1, <2>2, <2>3
<1>4. ASSUME x.prices[s] # Never PROVE Played(st, x, a, s, j)
  <2>1. Played(st, x, a, s, j - 1)
    BY <1>4 DEF SymbolOK
  <2>2. j - 1 \in 1..NInstants /\ j # 1
    BY <1>1, <2>1 DEF Played
  <2> DEFINE v == Inst(j - 1)[1]
  <2>3. v <= w /\ At(j - 1) <= At(j) /\ v \in Nat /\ At(j - 1) \in Nat /\ At(j) \in Nat
    BY <2>2, NextInst, InstIs, AtIs
  <2>4. PICK m \in a[s] :
          /\ x.closed[s] = CloseOf(m) /\ m <= v
          /\ s \notin x.done /\ CloseOf(v) <= task.end => m = v
    BY <2>1 DEF Played, Reached
  <2>5. m \in Nat /\ CloseOf(m) > task.after[s] /\ CloseOf(m) <= task.end
    BY NeededIs
  <2> HIDE DEF v, w
  <2>6. ASSUME s \notin x.done, CloseOf(w) <= task.end PROVE m = w
    <3>1. m <= w /\ PointsAt(a, s, Inst(j)) = {}
      BY <1>1, <2>3, <2>4, <2>5, <2>6
    <3> SUFFICES ASSUME m < w PROVE FALSE
      BY <1>1, <2>5, <3>1
    <3>2. /\ CloseOf(m) < OpenOf(w) /\ CloseOf(m) < CloseOf(w)
          /\ OpenOf(w) \in Nat /\ CloseOf(w) \in Nat
      BY <1>1, <2>5, MinutesIs
    <3>3. CloseOf(m) \in Nat
      BY <2>5, MinutesIs
    <3>4. w \in a[s] /\ OpenOf(w) >= task.after[s]
      BY <1>1, <1>2, <2>5, <2>6, <3>2, <3>3, NeededIs
    <3>5. PointsAt(a, s, Inst(j)) # {}
      BY <3>4, PointsAtIs DEF w
    <3> QED
      BY <3>1, <3>5
  <2>7. m <= w
    BY <1>1, <2>3, <2>4, <2>5
  <2>8. Reached(x, a, s, j)
    BY <2>4, <2>6, <2>7 DEF Reached, w
  <2> QED
    BY <1>1, <2>1, <2>3, <2>8 DEF Played
<1> QED
  BY <1>3, <1>4

\* An instant at which the symbol has one.
LEMMA PassOK ==
  ASSUME NEW n, NEW st \in StoreSet, NEW x \in ReplayStates(n), NEW a, NEW syms,
         Asked(a, syms), market \in Tapes, NEW s \in syms, s \notin x.done,
         NEW j \in 1..NInstants, SymbolOK(st, x, a, syms, s, j - 1),
         NEW p \in PointsAt(a, s, Inst(j)), NEW z, Takes(x, z, s, p, n)
  PROVE  SymbolOK(st, z, a, syms, s, j)
<1> DEFINE m == Inst(j)[1]
           after == task.after[s]
<1>1. j \in Nat /\ m \in Nat /\ Inst(j)[2] \in 1..4 /\ At(j) \in Nat /\ At(j) <= CloseOf(m)
      /\ CloseOf(m) \in Nat
  BY InstIs, AtIs
<1>2. m \in a[s] /\ PointOK(p, m) /\ p.at = At(j) /\ At(j) > after
  BY PointsAtIs
<1>3. p.minute = m /\ p.price \in Nat
  BY <1>2 DEF PointOK
<1>4. /\ z.prices[s] # Never /\ z.last[s] = At(j) /\ z.closed[s] = CloseOf(m)
      /\ z.st.replayed[s] = x.st.replayed[s] \cup {m}
      /\ s \in z.done => z.st.camp[s] = NoCampaign
  BY <1>2, <1>3 DEF Takes, Never
<1>5. Reached(z, a, s, j)
  BY <1>1, <1>2, <1>4 DEF Reached
<1>6. st.replayed[s] \subseteq z.st.replayed[s]
  <2>1. CASE x.prices[s] = Never
    BY <1>4, <2>1 DEF SymbolOK, Unseen
  <2>2. CASE x.prices[s] # Never
    BY <1>4, <2>2 DEF SymbolOK, Played
  <2> QED
    BY <2>1, <2>2
<1>7. ASSUME x.prices[s] # Never
      PROVE  /\ j - 1 \in 1..NInstants /\ x.closed[s] \in Nat /\ x.closed[s] <= CloseOf(m)
             /\ x.last[s] \in Nat /\ x.last[s] <= At(j)
  <2>1. Played(st, x, a, s, j - 1)
    BY <1>7 DEF SymbolOK
  <2>2. j - 1 \in 1..NInstants /\ j # 1
    BY <1>1, <2>1 DEF Played
  <2> DEFINE v == Inst(j - 1)[1]
  <2>3. v <= m /\ At(j - 1) <= At(j) /\ v \in Nat /\ At(j - 1) \in Nat
    BY <2>2, NextInst, InstIs, AtIs
  <2>4. PICK w \in a[s] : x.closed[s] = CloseOf(w) /\ w <= v
    BY <2>1 DEF Played, Reached
  <2> HIDE DEF v, m
  <2>5. w \in Nat /\ CloseOf(w) \in Nat
    BY NeededIs, MinutesIs
  <2>6. w <= m
    BY <1>1, <2>3, <2>4, <2>5
  <2>7. CloseOf(w) <= CloseOf(m)
    BY <1>1, <2>5, <2>6, MinutesIs
  <2>8. x.last[s] \in Nat /\ x.last[s] <= At(j - 1)
    BY <2>1 DEF Played
  <2> QED
    BY <1>1, <2>2, <2>3, <2>4, <2>5, <2>7, <2>8
<1>8. ASSUME NEW w \in z.st.replayed[s]
      PROVE  w \in st.replayed[s] \/ (w \in a[s] /\ CloseOf(w) <= z.closed[s])
  <2>1. CASE w = m
    BY <1>1, <1>2, <1>4, <2>1
  <2>2. CASE w # m /\ x.prices[s] = Never
    BY <1>4, <1>8, <2>2 DEF SymbolOK, Unseen
  <2>3. CASE w # m /\ x.prices[s] # Never
    <3>1. w \in st.replayed[s] \/ (w \in a[s] /\ CloseOf(w) <= x.closed[s])
      BY <1>4, <1>8, <2>3 DEF SymbolOK, Played
    <3>2. w \in a[s] => CloseOf(w) \in Nat
      BY NeededIs, MinutesIs
    <3> QED
      BY <1>1, <1>4, <1>7, <2>3, <3>1, <3>2
  <2> QED
    BY <2>1, <2>2, <2>3
<1>9. ASSUME Calm(st, s) PROVE Ordered(z.st, s) /\ NotAfter(z.st, s, z.last[s])
  <2>0. x.st \in StoreSet /\ s \in Symbols /\ after \in Int
    BY DEF ReplayStates, BookSet, Asked
  <2>1. Ordered(x.st, s) /\ NotAfter(x.st, s, At(j))
    <3>1. CASE x.prices[s] = Never
      <4>1. Kept(st, x.st, s)
        BY <3>1 DEF SymbolOK, Unseen
      <4>2. Ordered(x.st, s) /\ NotAfter(x.st, s, after)
        BY <1>9, <2>0, <4>1 DEF Kept, Calm
      <4>3. NotAfter(x.st, s, At(j))
        BY <1>1, <1>2, <2>0, <4>2, NotAfterMore
      <4> QED
        BY <4>2, <4>3
    <3>2. CASE x.prices[s] # Never
      <4>1. Ordered(x.st, s) /\ NotAfter(x.st, s, x.last[s])
        BY <1>9, <3>2 DEF SymbolOK, Played
      <4>2. NotAfter(x.st, s, At(j))
        BY <1>1, <1>7, <2>0, <3>2, <4>1, NotAfterMore
      <4> QED
        BY <4>1, <4>2
    <3> QED
      BY <3>1, <3>2
  <2>2. Sweep(x.st, z.st, n, At(j), {s})
    BY <1>2 DEF Takes
  <2> QED
    BY <1>1, <1>4, <2>0, <2>1, <2>2 DEF Sweep
<1>10. Covered(z, a, s, j)
  <2> SUFFICES ASSUME NEW w \in a[s], 4 * w + 4 <= j
               PROVE  w \in z.st.replayed[s]
    BY DEF Covered
  <2>1. w \in Nat
    BY NeededIs
  <2>2. CASE 4 * w + 4 <= j - 1
    BY <1>4, <2>2 DEF SymbolOK, Covered
  <2>3. CASE 4 * w + 4 = j
    <3>1. m = w
      BY <2>1, <2>3 DEF Inst
    <3> QED
      BY <1>4, <3>1
  <2> QED
    BY <1>1, <2>1, <2>2, <2>3
<1>11. z.last[s] \in Nat /\ z.last[s] <= z.closed[s] /\ z.last[s] <= At(j)
  BY <1>1, <1>4
<1>12. Played(st, z, a, s, j)
  BY <1>5, <1>6, <1>8, <1>9, <1>11 DEF Played
<1> QED
  BY <1>4, <1>10, <1>12 DEF SymbolOK

------------------------------------------------------------------------------
(* One instant, symbol by symbol                                            *)

\* The points of an instant.
Here(a, syms, i) == [s \in Symbols |-> IF s \in syms THEN PointsAt(a, s, i) ELSE {}]

\* One symbol of an instant.
PointStep(x, s, here) ==
  IF here[s] = {} THEN x ELSE ReplayPoint(x, s, CHOOSE p \in here[s] : TRUE)

\* The fold of an instant as a function on sets of symbols.
OnePoint(g, s, base, here) ==
  IF s = {} THEN base ELSE PointStep(g[s \ {Max(s)}], InOrder[Max(s)], here)

\* The function is one of these,
IsPoints(g, base, here) == g = [s \in SUBSET DOMAIN InOrder |-> OnePoint(g, s, base, here)]

\* and this is it.
PointsOf(base, here) == CHOOSE g : IsPoints(g, base, here)

\* The instant without its margin check.
Points(x, here) ==
  FoldLeft(LAMBDA z, s : IF here[s] = {} THEN z
                         ELSE ReplayPoint(z, s, CHOOSE p \in here[s] : TRUE),
           x, InOrder)

\* The fold of the library is this function.
LEMMA PointsFold ==
  ASSUME NEW x, NEW here PROVE Points(x, here) = PointsOf(x, here)[DOMAIN InOrder]
BY Zenon DEF Points, FoldLeft, MapThenFoldSet, PointsOf, IsPoints, OnePoint, PointStep

\* A set of points with at most one of each symbol.
GoodPoints(here) ==
  \A s \in Symbols : \A p \in here[s] :
    p.at \in Times /\ \E m \in Minutes : PointOK(p, m) /\ CloseOf(m) \in Times

\* The points of an instant are such a set.
LEMMA HereIs ==
  ASSUME NEW a, NEW syms, Asked(a, syms), market \in Tapes, NEW j \in 1..NInstants
  PROVE  /\ GoodPoints(Here(a, syms, Inst(j)))
         /\ \A s \in Symbols : \A p \in Here(a, syms, Inst(j))[s] :
              s \in syms /\ p \in PointsAt(a, s, Inst(j)) /\ p.at = At(j) /\ At(j) \in Times
              /\ CloseOf(Inst(j)[1]) <= task.end
<1> DEFINE here == Here(a, syms, Inst(j))
<1> SUFFICES ASSUME NEW s \in Symbols, NEW p \in here[s]
             PROVE  /\ p.at \in Times /\ \E m \in Minutes : PointOK(p, m) /\ CloseOf(m) \in Times
                    /\ s \in syms /\ p \in PointsAt(a, s, Inst(j)) /\ p.at = At(j)
                    /\ At(j) \in Times /\ CloseOf(Inst(j)[1]) <= task.end
  BY DEF GoodPoints
<1>1. s \in syms /\ p \in PointsAt(a, s, Inst(j))
  BY DEF Here
<1> DEFINE m == Inst(j)[1]
<1>2. m \in a[s] /\ PointOK(p, m) /\ p.at = At(j)
  BY <1>1, PointsAtIs
<1>3. m \in Minutes /\ CloseOf(m) \in Clock /\ CloseOf(m) \in Times /\ CloseOf(m) <= task.end
  BY <1>1, <1>2, NeededIs
<1>4. At(j) \in Nat /\ At(j) <= CloseOf(m)
  BY AtIs
<1>5. At(j) \in Times
  BY <1>3, <1>4, MinuteOf DEF Clock, Times
<1> QED
  BY <1>1, <1>2, <1>3, <1>5

\* One symbol takes its point, if it has one.
LEMMA PointStepIs ==
  ASSUME NEW n \in Nat, NEW x \in ReplayStates(n), NEW s \in Symbols, NEW here, GoodPoints(here)
  PROVE  \/ PointStep(x, s, here) = x /\ (here[s] = {} \/ s \in x.done)
         \/ s \notin x.done /\ \E p \in here[s] : Takes(x, PointStep(x, s, here), s, p, n)
<1>1. CASE here[s] = {}
  BY <1>1 DEF PointStep
<1>2. CASE here[s] # {}
  <2> DEFINE p == CHOOSE q \in here[s] : TRUE
  <2>1. p \in here[s]
    BY <1>2
  <2>2. PointStep(x, s, here) = ReplayPoint(x, s, p)
    BY <1>2 DEF PointStep
  <2> HIDE DEF p
  <2>3. CASE s \in x.done
    <3>1. ReplayPoint(x, s, p) = x
      BY <2>3 DEF ReplayPoint
    <3> QED
      BY <2>2, <2>3, <3>1
  <2>4. CASE s \notin x.done
    <3>1. PICK m \in Minutes : p.at \in Times /\ PointOK(p, m) /\ CloseOf(m) \in Times
      BY <2>1 DEF GoodPoints
    <3>2. Takes(x, ReplayPoint(x, s, p), s, p, n)
      BY <2>4, <3>1, ReplayPointIs
    <3> QED
      BY <2>1, <2>2, <2>4, <3>2
  <2> QED
    BY <2>3, <2>4
<1> QED
  BY <1>1, <1>2

\* The states of an instant, symbol by symbol.
PointsRun(h, x, here) ==
  /\ h[0] = x
  /\ \A k \in 1..NSymbols : h[k] = PointStep(h[k - 1], k, here)
  /\ Points(x, here) = h[NSymbols]

\* An instant has such a run.
LEMMA PointsRunExists ==
  ASSUME NEW n \in Nat, NEW x \in ReplayStates(n), NEW here, GoodPoints(here)
  PROVE  \E h : PointsRun(h, x, here)
<1> DEFINE V == ReplayStates(n)
           len == NSymbols
           F == [p \in V \X (1..len) |-> PointStep(p[1], p[2], here)]
<1>1. len \in Nat /\ Symbols = 1..len /\ DOMAIN InOrder = 1..len /\ \A i \in 1..len : InOrder[i] = i
  BY SymbolsFinite DEF Symbols, InOrder
<1>2. \A v \in V : \A i \in 1..len : PointStep(v, i, here) \in V
  BY <1>1, PointStepIs DEF Takes
<1>3. \A v \in V : \A i \in 1..len : F[<<v, i>>] = PointStep(v, i, here)
  OBVIOUS
<1>4. x \in V /\ \A v \in V : \A i \in 1..len : F[<<v, i>>] \in V
  BY <1>2, <1>3
<1> HIDE DEF V, F, len
<1>5. \E g : IsPoints(g, x, here)
  <2>a. PICK g \in [SUBSET (1..len) -> V] : IsLeftFold(g, len, V, x, F)
    BY <1>1, <1>4, LeftFoldExists
  <2>1. \A s \in SUBSET (1..len) :
           /\ s # {} => Max(s) \in 1..len /\ g[s \ {Max(s)}] \in V
           /\ g[s] = IF s = {} THEN x ELSE F[<<g[s \ {Max(s)}], Max(s)>>]
    BY <2>a, Zenon DEF IsLeftFold
  <2>2. ASSUME NEW s \in SUBSET (1..len) PROVE g[s] = OnePoint(g, s, x, here)
    <3>1. CASE s = {}
      BY <2>1, <3>1 DEF OnePoint
    <3>2. CASE s # {}
      <4>1. Max(s) \in 1..len /\ g[s \ {Max(s)}] \in V
        BY <2>1, <3>2
      <4>2. g[s] = F[<<g[s \ {Max(s)}], Max(s)>>]
        BY <2>1, <3>2
      <4>3. g[s] = PointStep(g[s \ {Max(s)}], InOrder[Max(s)], here)
        BY <1>1, <1>3, <4>1, <4>2
      <4> QED
        BY <3>2, <4>3 DEF OnePoint
    <3> QED
      BY <3>1, <3>2
  <2>3. g = [s \in SUBSET (1..len) |-> OnePoint(g, s, x, here)]
    BY <2>1, <2>2
  <2>4. SUBSET DOMAIN InOrder = SUBSET (1..len)
    BY <1>1
  <2>5. IsPoints(g, x, here)
    BY <2>3, <2>4, Zenon DEF IsPoints
  <2> QED
    BY <2>5
<1> DEFINE g == PointsOf(x, here)
<1>6. IsPoints(g, x, here)
  BY <1>5, Zenon DEF PointsOf
<1>7. Points(x, here) = g[1..len]
  BY <1>1, PointsFold, Zenon
<1> HIDE DEF g
<1>8. \A s \in SUBSET (1..len) : g[s] = OnePoint(g, s, x, here)
  BY <1>1, <1>6, Zenon DEF IsPoints
<1> DEFINE h == [k \in 0..len |-> g[1..k]]
<1>9. h[0] = x
  <2>1. 1..0 = {} /\ {} \in SUBSET (1..len) /\ 0 \in 0..len
    BY <1>1
  <2>2. g[{}] = x
    BY <1>8, <2>1 DEF OnePoint
  <2> QED
    BY <2>1, <2>2
<1>10. ASSUME NEW k \in 1..len PROVE h[k] = PointStep(h[k - 1], k, here)
  <2>1. /\ k \in Nat \ {0} /\ k \in 0..len /\ k - 1 \in 0..len /\ 1..k \in SUBSET (1..len)
    BY <1>1
  <2>2. 1..k # {} /\ Max(1..k) = k /\ (1..k) \ {k} = 1..(k - 1)
    BY <2>1, LastOfPrefix
  <2>3. g[1..k] = OnePoint(g, 1..k, x, here)
    BY <1>8, <2>1
  <2>4. g[1..k] = PointStep(g[1..(k - 1)], InOrder[k], here)
    BY <2>2, <2>3, Zenon DEF OnePoint
  <2> QED
    BY <1>1, <2>1, <2>4
<1>11. h[len] = g[1..len]
  BY <1>1
<1> HIDE DEF h
<1>12. PointsRun(h, x, here)
  BY <1>7, <1>9, <1>10, <1>11 DEF PointsRun, len
<1> QED
  BY <1>12

\* A replay after j instants.
ReplayInv(st, x, a, syms, n, j) ==
  /\ x \in ReplayStates(n) /\ Follows(st, x.st, n) /\ Still(st, x.st)
  /\ st.early \subseteq x.st.early
  /\ \A s \in Symbols : SymbolOK(st, x, a, syms, s, j)

\* A replay between two symbols of an instant.
Between(st, x, a, syms, n, j, k) ==
  /\ x \in ReplayStates(n) /\ Follows(st, x.st, n) /\ Still(st, x.st)
  /\ st.early \subseteq x.st.early
  /\ \A s \in Symbols : IF s <= k THEN SymbolOK(st, x, a, syms, s, j)
                                  ELSE SymbolOK(st, x, a, syms, s, j - 1)

\* Cursors that are left alone twice are left alone.
LEMMA StillTrans ==
  ASSUME NEW st, NEW x, NEW z, Still(st, x), Still(x, z) PROVE Still(st, z)
BY DEF Still

\* The next symbol of the instant.
LEMMA BetweenStep ==
  ASSUME NEW n \in Nat, NEW st \in StoreSet, NEW a, NEW syms, Asked(a, syms), market \in Tapes,
         NEW j \in 1..NInstants, NEW k \in Symbols, NEW x, Between(st, x, a, syms, n, j, k - 1)
  PROVE  Between(st, PointStep(x, k, Here(a, syms, Inst(j))), a, syms, n, j, k)
<1> DEFINE here == Here(a, syms, Inst(j))
           z == PointStep(x, k, here)
<1>0. x \in ReplayStates(n) /\ GoodPoints(here) /\ NSymbols \in Nat
  BY HereIs, SymbolsFinite DEF Between
<1>1. k \in Nat /\ \A s \in Symbols : s \in Int /\ x.last[s] \in Int
  BY <1>0 DEF ReplayStates, Times, Never, Symbols
<1>2. SymbolOK(st, x, a, syms, k, j - 1)
  BY <1>1 DEF Between
<1>3. \/ z = x /\ (here[k] = {} \/ k \in x.done)
      \/ k \notin x.done /\ \E p \in here[k] : Takes(x, z, k, p, n)
  BY <1>0, PointStepIs
<1>4. \A p \in here[k] : k \in syms /\ p \in PointsAt(a, k, Inst(j))
  BY HereIs
<1>5. k \in syms /\ here[k] = {} => PointsAt(a, k, Inst(j)) = {}
  BY DEF Here
<1> HIDE DEF here, z
<1>6. CASE z = x /\ (here[k] = {} \/ k \in x.done)
  <2>1. SymbolOK(st, x, a, syms, k, j)
    BY <1>2, <1>5, <1>6, EmptyOK
  <2> QED
    BY <1>1, <1>6, <2>1 DEF Between, z, here
<1>7. CASE k \notin x.done /\ \E p \in here[k] : Takes(x, z, k, p, n)
  <2>1. PICK p \in here[k] : Takes(x, z, k, p, n)
    BY <1>7
  <2>2. SymbolOK(st, z, a, syms, k, j)
    BY <1>0, <1>2, <1>4, <1>7, <2>1, PassOK
  <2>3. z \in ReplayStates(n) /\ Follows(x.st, z.st, n) /\ Still(x.st, z.st)
        /\ z.st.early = x.st.early /\ \A u \in Symbols \ {k} : Untouched(x, z, u)
    BY <2>1 DEF Takes
  <2>4. Follows(st, z.st, n) /\ Still(st, z.st) /\ st.early \subseteq z.st.early
    BY <2>3, FollowsTrans, StillTrans DEF Between
  <2>5. ASSUME NEW s \in Symbols
        PROVE  IF s <= k THEN SymbolOK(st, z, a, syms, s, j) ELSE SymbolOK(st, z, a, syms, s, j - 1)
    <3>1. CASE s = k
      BY <1>1, <2>2, <3>1
    <3>2. CASE s < k
      <4>1. SymbolOK(st, x, a, syms, s, j) /\ s # k
        BY <1>1, <3>2 DEF Between
      <4>2. Untouched(x, z, s) /\ x.last[s] \in Int
        BY <1>1, <2>3, <4>1
      <4>3. SymbolOK(st, z, a, syms, s, j)
        BY <4>1, <4>2, UntouchedOK, Zenon
      <4> QED
        BY <1>1, <3>2, <4>3
    <3>3. CASE s > k
      <4>1. SymbolOK(st, x, a, syms, s, j - 1) /\ s # k
        BY <1>1, <3>3 DEF Between
      <4>2. Untouched(x, z, s) /\ x.last[s] \in Int
        BY <1>1, <2>3, <4>1
      <4>3. SymbolOK(st, z, a, syms, s, j - 1)
        BY <4>1, <4>2, UntouchedOK, Zenon
      <4>4. s \in Int /\ k \in Int
        BY <1>1
      <4>5. ~(s <= k)
        BY <3>3, <4>4
      <4> QED
        BY <4>3, <4>5
    <3> QED
      BY <1>1, <3>1, <3>2, <3>3
  <2> QED
    BY <2>3, <2>4, <2>5 DEF Between, z, here
<1> QED
  BY <1>3, <1>6, <1>7

\* All symbols of an instant.
LEMMA PointsIs ==
  ASSUME NEW n \in Nat, NEW st \in StoreSet, NEW a, NEW syms, Asked(a, syms), market \in Tapes,
         NEW j \in 1..NInstants, NEW x, ReplayInv(st, x, a, syms, n, j - 1)
  PROVE  ReplayInv(st, Points(x, Here(a, syms, Inst(j))), a, syms, n, j)
<1> DEFINE here == Here(a, syms, Inst(j))
           W == {p \in Nat \X ReplayStates(n) : Between(st, p[2], a, syms, n, j, p[1])}
<1>1. x \in ReplayStates(n) /\ GoodPoints(here) /\ NSymbols \in Nat
  BY HereIs, SymbolsFinite DEF ReplayInv
<1>2. PICK h : PointsRun(h, x, here)
  BY <1>1, PointsRunExists
<1>3. \A k \in Nat : \A y : Between(st, y, a, syms, n, j, k) => <<k, y>> \in W
  BY DEF Between
<1>4. <<0, h[0]>> \in W
  <2>1. h[0] = x
    BY <1>2 DEF PointsRun
  <2>2. Between(st, x, a, syms, n, j, 0)
    BY DEF Between, ReplayInv, Symbols
  <2> QED
    BY <1>3, <2>1, <2>2
<1>5. ASSUME NEW k \in 1..NSymbols, <<k - 1, h[k - 1]>> \in W PROVE <<k, h[k]>> \in W
  <2>1. Between(st, h[k - 1], a, syms, n, j, k - 1)
    BY <1>5
  <2>2. h[k] = PointStep(h[k - 1], k, here) /\ k \in Nat /\ k \in Symbols
    BY <1>2 DEF PointsRun, Symbols
  <2> HIDE DEF W
  <2>3. Between(st, h[k], a, syms, n, j, k)
    BY <2>1, <2>2, BetweenStep
  <2> QED
    BY <1>3, <2>2, <2>3
<1> HIDE DEF W
<1>6. \A k \in 0..NSymbols : <<k, h[k]>> \in W
  BY <1>1, <1>4, <1>5, PrefixIn
<1>7. <<NSymbols, h[NSymbols]>> \in W
  BY <1>1, <1>6
<1>8. Between(st, Points(x, here), a, syms, n, j, NSymbols)
  BY <1>2, <1>7 DEF W, PointsRun
<1> QED
  BY <1>1, <1>8 DEF Between, ReplayInv, Symbols

------------------------------------------------------------------------------
(* One instant of a replay                                                  *)

\* The margin check of a replay: what it sold takes no more points.
SoldBy(y, liq) == {s \in Symbols : y.st.camp[s] # liq.camp[s]}

\* The state after the margin check.
Sell(y, liq, syms, at) ==
  [y EXCEPT !.st = [liq EXCEPT !.early = @ \cup (SoldBy(y, liq) \ syms)],
            !.done = @ \cup SoldBy(y, liq),
            !.last = [s \in Symbols |-> IF s \in SoldBy(y, liq) THEN at ELSE @[s]]]

\* The prices of a margin check: those of the replay, else the quotes.
Mix(y) == [s \in Symbols |-> IF y.prices[s] = Never THEN quote[s] ELSE y.prices[s]]

\* The positions of the replay.
Open(y, syms) == {s \in syms \ y.done : Filled(y.st.camp[s]) # {}}

\* An instant without points changes nothing; another may end in the margin check.
LEMMA InstantIs ==
  ASSUME NEW x, NEW a, NEW syms, NEW i
  PROVE  LET here == Here(a, syms, i)
             y    == Points(x, here)
             at   == Max({p.at : p \in UNION {here[s] : s \in Symbols}})
         IN  ReplayInstant(x, a, syms, i) =
               IF \A s \in Symbols : here[s] = {} THEN x
               ELSE IF Open(y, syms) = {} \/ \E s \in Open(y, syms) : y.prices[s] = Never THEN y
               ELSE Sell(y, checkGlobalLiquidation(y.st, Mix(y), at), syms, at)
BY Zenon DEF ReplayInstant, Here, Points, Open, Mix, Sell, SoldBy

\* The sale, field by field.
Sells(y, z, syms, S, t, n) ==
  /\ z \in ReplayStates(n) /\ Follows(y.st, z.st, n) /\ Still(y.st, z.st)
  /\ y.st.early \subseteq z.st.early
  /\ \A u \in Symbols \ S : Untouched(y, z, u)
  /\ \A u \in S :
       /\ Filled(y.st.camp[u]) # {} /\ Mix(y)[u] # Never
       /\ z.st.camp[u] = NoCampaign /\ u \in z.done /\ z.last[u] = t
       /\ z.prices[u] = y.prices[u] /\ z.closed[u] = y.closed[u]
       /\ z.st.replayed[u] = y.st.replayed[u]
       /\ u \notin syms => u \in z.st.early
       /\ Ordered(y.st, u) /\ NotAfter(y.st, u, t) => Ordered(z.st, u) /\ NotAfter(z.st, u, t)

\* The margin check does what Sells says.
LEMMA SellIs ==
  ASSUME NEW n \in Nat, NEW y \in ReplayStates(n), NEW syms \in SUBSET Symbols,
         quote \in [Symbols -> Int], NEW t \in Nat, t \in Times
  PROVE  \E S \in SUBSET Symbols :
           Sells(y, Sell(y, checkGlobalLiquidation(y.st, Mix(y), t), syms, t), syms, S, t, n)
<1> DEFINE st  == y.st
           mix == Mix(y)
           liq == checkGlobalLiquidation(st, mix, t)
           z   == Sell(y, liq, syms, t)
           D   == SoldBy(y, liq)
<1>1. st \in StoreSet /\ LedgerOK(st, n)
  BY DEF ReplayStates, BookSet
<1>2. mix \in [Symbols -> Int]
  BY DEF Mix, ReplayStates
<1> HIDE DEF st, mix
<1>3. Checked(st, liq, n, mix, t)
  BY <1>1, <1>2, LiquidationIs
<1>4. PICK S \in SUBSET Valued(st, mix) : Emptied(st, liq, n, t, S)
  BY <1>3 DEF Checked
<1>5. /\ Sweep(st, liq, n, t, S) /\ Frame(st, liq)
      /\ \A u \in S : liq.camp[u] = NoCampaign
      /\ \A u \in Symbols \ S : liq.camp[u] = st.camp[u]
  BY <1>4 DEF Emptied
<1>6. S \in SUBSET Symbols /\ \A u \in S : Filled(st.camp[u]) # {} /\ mix[u] # Never
  BY <1>4 DEF Valued
<1>7. D = S
  <2>1. \A u \in S : st.camp[u] # NoCampaign
    BY <1>6, NoneOK
  <2> QED
    BY <1>5, <1>6, <2>1 DEF SoldBy, st
<1> HIDE DEF D, liq
<1> DEFINE e == liq.early \cup (D \ syms)
           v == [liq EXCEPT !.early = e]
           l == [s \in Symbols |-> IF s \in D THEN t ELSE y.last[s]]
           d == y.done \cup D
<1>8. liq \in StoreSet
  BY <1>5 DEF Sweep
<1>9. /\ v \in StoreSet /\ v.camp = liq.camp /\ v.trades = liq.trades /\ v.early = e
      /\ v.chk = liq.chk /\ v.gap = liq.gap /\ v.at = liq.at /\ v.rec = liq.rec
      /\ v.since = liq.since /\ v.live = liq.live /\ v.replayed = liq.replayed
      /\ v.again = liq.again /\ v.slipped = liq.slipped /\ v.mixed = liq.mixed
  <2>1. e \in SUBSET Symbols
    BY <1>6, <1>7, <1>8 DEF StoreSet
  <2> HIDE DEF e
  <2> QED
    BY <1>8, <2>1 DEF StoreSet
<1>10. l \in [Symbols -> Times] /\ d \in SUBSET Symbols
  BY <1>6, <1>7 DEF ReplayStates
<1>11. z = [y EXCEPT !.st = v, !.done = d, !.last = l]
  BY Zenon DEF Sell, D, v, e
<1> HIDE DEF v, l, d, z
<1>12. Sweep(st, v, n, t, S)
  BY <1>5, <1>9, SweepInto DEF SameBooks
<1>13. v \in BookSet(n) /\ Follows(st, v, n) /\ Still(st, v)
  BY <1>5, <1>9, <1>12 DEF Sweep, BookSet, Follows, Still, Frame
<1>14. /\ z \in ReplayStates(n) /\ z.st = v /\ z.done = d /\ z.last = l
       /\ z.prices = y.prices /\ z.closed = y.closed
  BY <1>10, <1>11, <1>13 DEF ReplayStates
<1>15. st.early \subseteq v.early /\ v.early = st.early \cup (S \ syms) /\ v.replayed = st.replayed
  BY <1>5, <1>7, <1>9 DEF Frame, e
<1>16. ASSUME NEW u \in Symbols \ S PROVE Untouched(y, z, u)
  <2>1. Kept(st, v, u)
    BY <1>12 DEF Sweep
  <2>2. z.last[u] = y.last[u] /\ (u \in z.done <=> u \in y.done)
    BY <1>7, <1>14 DEF l, d
  <2> QED
    BY <1>14, <1>15, <2>1, <2>2 DEF Untouched, st
<1>17. ASSUME NEW u \in S
       PROVE  /\ z.st.camp[u] = NoCampaign /\ u \in z.done /\ z.last[u] = t
              /\ z.prices[u] = y.prices[u] /\ z.closed[u] = y.closed[u]
              /\ z.st.replayed[u] = y.st.replayed[u]
              /\ u \notin syms => u \in z.st.early
              /\ Ordered(y.st, u) /\ NotAfter(y.st, u, t) =>
                   Ordered(z.st, u) /\ NotAfter(z.st, u, t)
  <2>1. u \in Symbols /\ t \in Int
    BY <1>6
  <2>2. z.last[u] = t /\ u \in z.done
    BY <1>7, <1>14, <2>1 DEF l, d
  <2>3. z.st.camp[u] = NoCampaign
    BY <1>5, <1>9, <1>14
  <2>4. Ordered(st, u) /\ NotAfter(st, u, t) => Ordered(v, u) /\ NotAfter(v, u, t)
    BY <1>12, <2>1 DEF Sweep
  <2> QED
    BY <1>14, <1>15, <2>2, <2>3, <2>4 DEF st
<1>18. Sells(y, z, syms, S, t, n)
  BY <1>6, <1>13, <1>14, <1>15, <1>16, <1>17 DEF Sells, st, mix
<1> QED
  BY <1>6, <1>18 DEF z, liq, st, mix

\* What the margin check leaves of a replay.
LEMMA SellOK ==
  ASSUME NEW n \in Nat, NEW st \in StoreSet, NEW a, NEW syms, Asked(a, syms),
         NEW j \in 1..NInstants, NEW y, ReplayInv(st, y, a, syms, n, j),
         CloseOf(Inst(j)[1]) <= task.end, \A s \in Open(y, syms) : y.prices[s] # Never,
         NEW S \in SUBSET Symbols, NEW z, Sells(y, z, syms, S, At(j), n)
  PROVE  ReplayInv(st, z, a, syms, n, j)
<1> DEFINE m == Inst(j)[1]
<1>1. y \in ReplayStates(n) /\ y.st \in StoreSet
  BY DEF ReplayInv, ReplayStates, BookSet
<1>2. z \in ReplayStates(n) /\ Follows(st, z.st, n) /\ Still(st, z.st)
      /\ st.early \subseteq z.st.early
  BY FollowsTrans, StillTrans DEF Sells, ReplayInv
<1>3. /\ At(j) \in Nat /\ At(j) <= CloseOf(m) /\ CloseOf(m) \in Nat /\ m \in Nat
  BY AtIs, InstIs
<1>4. ASSUME NEW s \in Symbols \ S PROVE SymbolOK(st, z, a, syms, s, j)
  <2>1. Untouched(y, z, s) /\ SymbolOK(st, y, a, syms, s, j)
    BY DEF Sells, ReplayInv
  <2>2. y.last[s] \in Int
    BY <1>1 DEF ReplayStates, Times, Never
  <2> QED
    BY <2>1, <2>2, UntouchedOK, Zenon
<1>5. ASSUME NEW s \in S PROVE SymbolOK(st, z, a, syms, s, j)
  <2>1. s \in Symbols /\ SymbolOK(st, y, a, syms, s, j)
    BY DEF ReplayInv
  <2>2. /\ Filled(y.st.camp[s]) # {} /\ Mix(y)[s] # Never
        /\ z.st.camp[s] = NoCampaign /\ s \in z.done /\ z.last[s] = At(j)
        /\ z.prices[s] = y.prices[s] /\ z.closed[s] = y.closed[s]
        /\ z.st.replayed[s] = y.st.replayed[s]
        /\ s \notin syms => s \in z.st.early
        /\ Ordered(y.st, s) /\ NotAfter(y.st, s, At(j)) =>
             Ordered(z.st, s) /\ NotAfter(z.st, s, At(j))
    BY DEF Sells
  <2>3. CASE s \notin syms
    BY <2>1, <2>2, <2>3 DEF SymbolOK, Aside
  <2>4. CASE s \in syms
    <3>1. s \notin y.done
      BY <2>1, <2>2, NoneOK DEF SymbolOK
    <3>2. y.prices[s] # Never
      BY <2>2, <2>4, <3>1 DEF Open
    <3>3. Played(st, y, a, s, j)
      BY <2>1, <2>4, <3>2 DEF SymbolOK
    <3>4. y.closed[s] = CloseOf(m) /\ m \in a[s]
      BY <3>1, <3>3 DEF Played, Reached
    <3>5. Reached(z, a, s, j)
      BY <1>3, <2>2, <3>4 DEF Reached
    <3>6. ASSUME Calm(st, s) PROVE Ordered(z.st, s) /\ NotAfter(z.st, s, z.last[s])
      <4>1. Ordered(y.st, s) /\ NotAfter(y.st, s, y.last[s]) /\ y.last[s] \in Nat
            /\ y.last[s] <= At(j)
        BY <3>3, <3>6 DEF Played
      <4>2. NotAfter(y.st, s, At(j))
        BY <1>1, <1>3, <2>1, <4>1, NotAfterMore
      <4> QED
        BY <2>2, <4>1, <4>2
    <3>7. Played(st, z, a, s, j)
      BY <1>3, <2>2, <3>3, <3>4, <3>5, <3>6 DEF Played
    <3> QED
      BY <2>2, <2>4, <3>2, <3>7 DEF SymbolOK, Covered
  <2> QED
    BY <2>3, <2>4
<1> QED
  BY <1>2, <1>4, <1>5 DEF ReplayInv

\* One instant keeps what is said of a replay.
LEMMA ReplayInstantIs ==
  ASSUME NEW n \in Nat, NEW st \in StoreSet, NEW a, NEW syms, Asked(a, syms), market \in Tapes,
         quote \in [Symbols -> Int], NEW j \in 1..NInstants, NEW x,
         ReplayInv(st, x, a, syms, n, j - 1)
  PROVE  ReplayInv(st, ReplayInstant(x, a, syms, Instants[j]), a, syms, n, j)
<1> DEFINE i    == Inst(j)
           here == Here(a, syms, i)
           y    == Points(x, here)
           T    == {p.at : p \in UNION {here[s] : s \in Symbols}}
           at   == Max(T)
           z    == ReplayInstant(x, a, syms, i)
           l    == Sell(y, checkGlobalLiquidation(y.st, Mix(y), at), syms, at)
<1>0. Instants[j] = i
  BY InstIs
<1>1. z = IF \A s \in Symbols : here[s] = {} THEN x
          ELSE IF Open(y, syms) = {} \/ \E s \in Open(y, syms) : y.prices[s] = Never THEN y
          ELSE l
  BY InstantIs, Zenon
<1>2. ReplayInv(st, y, a, syms, n, j)
  BY PointsIs
<1>3. \A s \in Symbols : \A p \in here[s] :
        s \in syms /\ p \in PointsAt(a, s, i) /\ p.at = At(j) /\ At(j) \in Times
        /\ CloseOf(i[1]) <= task.end
  BY HereIs
<1>4. \A s \in syms : s \in Symbols /\ here[s] = PointsAt(a, s, i)
  BY DEF Here, Asked
<1>5. x \in ReplayStates(n) /\ y \in ReplayStates(n) /\ syms \in SUBSET Symbols
  BY <1>2 DEF ReplayInv, Asked
<1>6. At(j) \in Nat
  BY AtIs
<1> HIDE DEF z, y, l, here, i, at
<1>7. CASE \A s \in Symbols : here[s] = {}
  <2>1. z = x
    BY <1>1, <1>7
  <2>2. ASSUME NEW s \in Symbols PROVE SymbolOK(st, x, a, syms, s, j)
    <3>1. s \in syms => PointsAt(a, s, Inst(j)) = {}
      BY <1>4, <1>7 DEF i
    <3>2. SymbolOK(st, x, a, syms, s, j - 1)
      BY DEF ReplayInv
    <3> QED
      BY <3>1, <3>2, EmptyOK
  <2> QED
    BY <1>0, <2>1, <2>2 DEF ReplayInv, z
<1>8. CASE /\ ~ \A s \in Symbols : here[s] = {}
           /\ Open(y, syms) = {} \/ \E s \in Open(y, syms) : y.prices[s] = Never
  BY <1>0, <1>1, <1>2, <1>8, Zenon DEF z
<1>9. CASE /\ ~ \A s \in Symbols : here[s] = {}
           /\ ~(Open(y, syms) = {} \/ \E s \in Open(y, syms) : y.prices[s] = Never)
  <2>1. PICK s \in Symbols : here[s] # {}
    BY <1>9
  <2>2. At(j) \in Times /\ CloseOf(i[1]) <= task.end /\ T = {At(j)}
    BY <1>3, <2>1
  <2>3. at = At(j)
    <3>0. At(j) \in Int
      BY <1>6
    <3>1. Max({At(j), At(j)}) \in {At(j), At(j)}
      BY <3>0, MaxOfTwo, Zenon
    <3>2. {At(j), At(j)} = T
      BY <2>2
    <3> QED
      BY <3>1, <3>2, <2>2 DEF at
  <2>4. z = l
    BY <1>1, <1>9, Zenon
  <2>5. PICK S \in SUBSET Symbols : Sells(y, l, syms, S, At(j), n)
    BY <1>5, <1>6, <2>2, <2>3, SellIs DEF l
  <2>6. \A u \in Open(y, syms) : y.prices[u] # Never
    BY <1>9
  <2>7. ReplayInv(st, l, a, syms, n, j)
    BY <1>2, <2>2, <2>5, <2>6, SellOK DEF i
  <2> QED
    BY <1>0, <2>4, <2>7 DEF z
<1> QED
  BY <1>7, <1>8, <1>9

------------------------------------------------------------------------------
(* A replay                                                                 *)

\* A replay before its first instant.
ReplayStart(st) ==
  [st |-> st, done |-> {}, prices |-> [s \in Symbols |-> Never],
   last |-> [s \in Symbols |-> Never], closed |-> [s \in Symbols |-> Never]]

\* The fold of a replay as a function on sets of instants.
OneInstant(g, s, base, a, syms) ==
  IF s = {} THEN base ELSE ReplayInstant(g[s \ {Max(s)}], a, syms, Instants[Max(s)])

\* The function is one of these,
IsReplay(g, base, a, syms) ==
  g = [s \in SUBSET DOMAIN Instants |-> OneInstant(g, s, base, a, syms)]

\* and this is it.
ReplayOf(base, a, syms) == CHOOSE g : IsReplay(g, base, a, syms)

\* The fold of the library is this function.
LEMMA ReplayFold ==
  ASSUME NEW st, NEW a, NEW syms
  PROVE  Replay(st, a, syms) = ReplayOf(ReplayStart(st), a, syms)[DOMAIN Instants]
BY Zenon DEF Replay, FoldLeft, MapThenFoldSet, ReplayOf, IsReplay, OneInstant, ReplayStart

\* What is said of a replay holds before its first instant.
LEMMA StartOK ==
  ASSUME NEW n \in Nat, NEW st \in BookSet(n), NEW a, NEW syms, Asked(a, syms)
  PROVE  ReplayInv(st, ReplayStart(st), a, syms, n, 0)
<1> DEFINE x == ReplayStart(st)
<1>1. /\ x.st = st /\ x.done = {} /\ x \in ReplayStates(n)
      /\ \A s \in Symbols : x.prices[s] = Never /\ x.last[s] = Never /\ x.closed[s] = Never
  BY DEF ReplayStart, ReplayStates, Never, Times
<1> HIDE DEF x
<1>2. \A s \in Symbols : Kept(st, st, s)
  BY DEF Kept
<1>3. \A s \in syms : \A m \in a[s] : m \in Nat
  BY NeededIs
<1>4. \A s \in Symbols : SymbolOK(st, x, a, syms, s, 0)
  BY <1>1, <1>2, <1>3 DEF SymbolOK, Unseen, Aside, Covered
<1> QED
  BY <1>1, <1>4, FollowsSelf DEF ReplayInv, Still, x

\* The states a replay runs through.
ReplayRun(h, st, a, syms) ==
  /\ h[0] = ReplayStart(st)
  /\ \A k \in 1..NInstants : h[k] = ReplayInstant(h[k - 1], a, syms, Instants[k])
  /\ Replay(st, a, syms) = h[NInstants]

\* The points of an instant keep the types of a replay.
LEMMA PointsType ==
  ASSUME NEW n \in Nat, NEW x \in ReplayStates(n), NEW here, GoodPoints(here)
  PROVE  Points(x, here) \in ReplayStates(n)
<1> DEFINE W == Nat \X ReplayStates(n)
<1>1. PICK h : PointsRun(h, x, here)
  BY PointsRunExists
<1>2. NSymbols \in Nat
  BY SymbolsFinite
<1>3. <<0, h[0]>> \in W
  BY <1>1 DEF PointsRun
<1>4. ASSUME NEW k \in 1..NSymbols, <<k - 1, h[k - 1]>> \in W PROVE <<k, h[k]>> \in W
  <2>1. h[k - 1] \in ReplayStates(n) /\ k \in Symbols /\ k \in Nat
    BY <1>2, <1>4 DEF Symbols
  <2>2. h[k] = PointStep(h[k - 1], k, here)
    BY <1>1 DEF PointsRun
  <2>3. PointStep(h[k - 1], k, here) \in ReplayStates(n)
    <3> DEFINE v == h[k - 1]
               z == PointStep(v, k, here)
    <3>1. \/ z = v /\ (here[k] = {} \/ k \in v.done)
          \/ k \notin v.done /\ \E p \in here[k] : Takes(v, z, k, p, n)
      BY <2>1, PointStepIs
    <3> HIDE DEF v, z
    <3>2. v \in ReplayStates(n)
      BY <2>1 DEF v
    <3>3. z \in ReplayStates(n)
      BY <3>1, <3>2 DEF Takes
    <3> QED
      BY <3>3 DEF z, v
  <2> QED
    BY <2>1, <2>2, <2>3
<1> HIDE DEF W
<1>5. \A k \in 0..NSymbols : <<k, h[k]>> \in W
  BY <1>2, <1>3, <1>4, PrefixIn
<1>6. <<NSymbols, h[NSymbols]>> \in W
  BY <1>2, <1>5
<1> QED
  BY <1>1, <1>6 DEF W, PointsRun

\* So does the whole instant.
LEMMA InstantType ==
  ASSUME NEW n \in Nat, NEW a, NEW syms, Asked(a, syms), market \in Tapes,
         quote \in [Symbols -> Int], NEW j \in 1..NInstants, NEW x \in ReplayStates(n)
  PROVE  ReplayInstant(x, a, syms, Instants[j]) \in ReplayStates(n)
<1> DEFINE i    == Inst(j)
           here == Here(a, syms, i)
           y    == Points(x, here)
           T    == {p.at : p \in UNION {here[s] : s \in Symbols}}
           at   == Max(T)
           z    == ReplayInstant(x, a, syms, i)
           l    == Sell(y, checkGlobalLiquidation(y.st, Mix(y), at), syms, at)
<1>0. Instants[j] = i
  BY InstIs
<1>1. z = IF \A s \in Symbols : here[s] = {} THEN x
          ELSE IF Open(y, syms) = {} \/ \E s \in Open(y, syms) : y.prices[s] = Never THEN y
          ELSE l
  BY InstantIs, Zenon
<1>2. GoodPoints(here) /\ \A s \in Symbols : \A p \in here[s] : p.at = At(j) /\ At(j) \in Times
  BY HereIs
<1>3. syms \in SUBSET Symbols /\ At(j) \in Nat /\ At(j) \in Int
  BY AtIs DEF Asked
<1> HIDE DEF z, l, here, i, at
<1>4. y \in ReplayStates(n)
  BY <1>2, PointsType
<1> HIDE DEF y
<1>5. ASSUME ~ \A s \in Symbols : here[s] = {} PROVE l \in ReplayStates(n)
  <2>1. At(j) \in Times /\ T = {At(j)}
    BY <1>2, <1>5
  <2>2. at = At(j)
    <3>1. Max({At(j), At(j)}) \in {At(j), At(j)}
      BY <1>3, MaxOfTwo, Zenon
    <3>2. {At(j), At(j)} = T
      BY <2>1
    <3> QED
      BY <3>1, <3>2, <2>1 DEF at
  <2> QED
    BY <1>3, <1>4, <2>1, <2>2, SellIs DEF l, Sells
<1> QED
  BY <1>0, <1>1, <1>4, <1>5 DEF z

\* A replay has such a run.
LEMMA ReplayRunExists ==
  ASSUME NEW n \in Nat, NEW st \in BookSet(n), NEW a, NEW syms, Asked(a, syms),
         market \in Tapes, quote \in [Symbols -> Int]
  PROVE  \E h : ReplayRun(h, st, a, syms)
<1> DEFINE V == ReplayStates(n)
           len == NInstants
           x == ReplayStart(st)
           F == [p \in V \X (1..len) |-> ReplayInstant(p[1], a, syms, Instants[p[2]])]
<1>1. len \in Nat /\ DOMAIN Instants = 1..len
  BY LastIs DEF Instants, NInstants
<1>2. \A v \in V : \A i \in 1..len : ReplayInstant(v, a, syms, Instants[i]) \in V
  BY InstantType
<1>3. \A v \in V : \A i \in 1..len : F[<<v, i>>] = ReplayInstant(v, a, syms, Instants[i])
  OBVIOUS
<1>4. x \in V /\ \A v \in V : \A i \in 1..len : F[<<v, i>>] \in V
  BY <1>2, <1>3, StartOK DEF ReplayInv
<1> HIDE DEF V, F, len, x
<1>5. \E g : IsReplay(g, x, a, syms)
  <2>a. PICK g \in [SUBSET (1..len) -> V] : IsLeftFold(g, len, V, x, F)
    BY <1>1, <1>4, LeftFoldExists
  <2>1. \A s \in SUBSET (1..len) :
           /\ s # {} => Max(s) \in 1..len /\ g[s \ {Max(s)}] \in V
           /\ g[s] = IF s = {} THEN x ELSE F[<<g[s \ {Max(s)}], Max(s)>>]
    BY <2>a, Zenon DEF IsLeftFold
  <2>2. ASSUME NEW s \in SUBSET (1..len) PROVE g[s] = OneInstant(g, s, x, a, syms)
    <3>1. CASE s = {}
      BY <2>1, <3>1 DEF OneInstant
    <3>2. CASE s # {}
      <4>1. Max(s) \in 1..len /\ g[s \ {Max(s)}] \in V
        BY <2>1, <3>2
      <4>2. g[s] = F[<<g[s \ {Max(s)}], Max(s)>>]
        BY <2>1, <3>2
      <4>3. g[s] = ReplayInstant(g[s \ {Max(s)}], a, syms, Instants[Max(s)])
        BY <1>3, <4>1, <4>2
      <4> QED
        BY <3>2, <4>3 DEF OneInstant
    <3> QED
      BY <3>1, <3>2
  <2>3. g = [s \in SUBSET (1..len) |-> OneInstant(g, s, x, a, syms)]
    BY <2>1, <2>2
  <2>4. SUBSET DOMAIN Instants = SUBSET (1..len)
    BY <1>1
  <2>5. IsReplay(g, x, a, syms)
    BY <2>3, <2>4, Zenon DEF IsReplay
  <2> QED
    BY <2>5
<1> DEFINE g == ReplayOf(x, a, syms)
<1>6. IsReplay(g, x, a, syms)
  BY <1>5, Zenon DEF ReplayOf
<1>7. Replay(st, a, syms) = g[1..len]
  BY <1>1, ReplayFold, Zenon DEF x
<1> HIDE DEF g
<1>8. \A s \in SUBSET (1..len) : g[s] = OneInstant(g, s, x, a, syms)
  BY <1>1, <1>6, Zenon DEF IsReplay
<1> DEFINE h == [k \in 0..len |-> g[1..k]]
<1>9. h[0] = x
  <2>1. 1..0 = {} /\ {} \in SUBSET (1..len) /\ 0 \in 0..len
    BY <1>1
  <2>2. g[{}] = x
    BY <1>8, <2>1 DEF OneInstant
  <2> QED
    BY <2>1, <2>2
<1>10. ASSUME NEW k \in 1..len PROVE h[k] = ReplayInstant(h[k - 1], a, syms, Instants[k])
  <2>1. /\ k \in Nat \ {0} /\ k \in 0..len /\ k - 1 \in 0..len /\ 1..k \in SUBSET (1..len)
    BY <1>1
  <2>2. 1..k # {} /\ Max(1..k) = k /\ (1..k) \ {k} = 1..(k - 1)
    BY <2>1, LastOfPrefix
  <2>3. g[1..k] = OneInstant(g, 1..k, x, a, syms)
    BY <1>8, <2>1
  <2>4. g[1..k] = ReplayInstant(g[1..(k - 1)], a, syms, Instants[k])
    BY <2>2, <2>3, Zenon DEF OneInstant
  <2> QED
    BY <2>1, <2>4
<1>11. h[len] = g[1..len]
  BY <1>1
<1> HIDE DEF h
<1>12. ReplayRun(h, st, a, syms)
  BY <1>7, <1>9, <1>10, <1>11 DEF ReplayRun, len, x
<1> QED
  BY <1>12

\* Replay ends in a state of which ReplayInv holds.
LEMMA ReplayIs ==
  ASSUME NEW n \in Nat, NEW st \in BookSet(n), NEW a, NEW syms, Asked(a, syms),
         market \in Tapes, quote \in [Symbols -> Int]
  PROVE  ReplayInv(st, Replay(st, a, syms), a, syms, n, NInstants)
<1> DEFINE W == {p \in Nat \X ReplayStates(n) : ReplayInv(st, p[2], a, syms, n, p[1])}
<1>1. PICK h : ReplayRun(h, st, a, syms)
  BY ReplayRunExists
<1>2. NInstants \in Nat /\ st \in StoreSet
  BY LastIs DEF BookSet
<1>3. \A k \in Nat : \A y : ReplayInv(st, y, a, syms, n, k) => <<k, y>> \in W
  BY DEF ReplayInv
<1>4. <<0, h[0]>> \in W
  BY <1>1, <1>3, StartOK DEF ReplayRun
<1>5. ASSUME NEW k \in 1..NInstants, <<k - 1, h[k - 1]>> \in W PROVE <<k, h[k]>> \in W
  <2>1. ReplayInv(st, h[k - 1], a, syms, n, k - 1)
    BY <1>5
  <2>2. h[k] = ReplayInstant(h[k - 1], a, syms, Instants[k]) /\ k \in Nat
    BY <1>1, <1>2 DEF ReplayRun
  <2> HIDE DEF W
  <2>3. ReplayInv(st, h[k], a, syms, n, k)
    BY <1>2, <2>1, <2>2, ReplayInstantIs
  <2> QED
    BY <1>3, <2>2, <2>3
<1> HIDE DEF W
<1>6. \A k \in 0..NInstants : <<k, h[k]>> \in W
  BY <1>2, <1>4, <1>5, PrefixIn
<1>7. <<NInstants, h[NInstants]>> \in W
  BY <1>2, <1>6
<1> QED
  BY <1>1, <1>7 DEF W, ReplayRun
=============================================================================
