--------------------------- MODULE LiveClientProofs ---------------------------
(***************************************************************************)
(* Theorems about LiveClient, for any coins, any number of requests, of    *)
(* clicks and of failures.  None of its properties is inductive by itself: *)
(* a price passes through the form, the modal and the answers to the       *)
(* status; an answer says when it was asked for; a continuation of candles *)
(* trusts what the chart holds; and the buttons rest on details that are   *)
(* drawn only when they change.  The invariants build on each other:       *)
(* PricedInv, ToldInv, ChartInv, FormInv, FitInv.                          *)
(***************************************************************************)
EXTENDS LiveClient, FiniteSetTheorems, TLAPS

PageFields == {"coin", "interval", "rows", "loaded", "seen", "lines", "details", "told",
               "loops", "input", "modal", "pending", "reopened", "on"}

\* A campaign, a preview or a command has the price of its coin.
Priced(r) == {"coin", "price"} \subseteq DOMAIN r /\ r.price = r.coin

\* What the page shows and what waits in its modal; the form is empty or has the
\* price of the coin that is selected.
PageOK(p) ==
  /\ DOMAIN p = PageFields
  /\ p.input \in {NoPrice, p.coin}
  /\ Priced(p.seen.campaign)
  /\ p.pending # None => Priced(p.pending)

EngineOK(e) == DOMAIN e = {"version", "campaign", "held", "halt"} /\ Priced(e.campaign)

\* What is on its way.
StatusOK(r)  == r # None => DOMAIN r = {"kind", "who", "got"} /\ Priced(r.got.campaign)
PreviewOK(r) == r # None => Priced(r)
CommandOK(r) ==
  r # None => /\ DOMAIN r = {"kind", "coin", "price", "answer"}
              /\ r.kind \in {"campaign", "cancel", "emergency", "reconcile"}
              /\ r.kind = "campaign" => r.price = r.coin

InSlots(f) == DOMAIN f = Slots

PricedInv ==
  /\ PageOK(page)
  /\ EngineOK(engine)
  /\ InSlots(statuses) /\ \A s \in Slots : StatusOK(statuses[s])
  /\ InSlots(previews) /\ \A s \in Slots : PreviewOK(previews[s])
  /\ InSlots(commands) /\ \A s \in Slots : CommandOK(commands[s])

------------------------------------------------------------------------------
(* Slots                                                                    *)

\* A request that is sent fills one slot and leaves the others alone.
LEMMA SendOK ==
  ASSUME NEW f, NEW r, InSlots(f)
  PROVE  InSlots(Send(f, r)) /\ \A s \in Slots : Send(f, r)[s] \in {f[s], r}
BY DEF Send, InSlots

\* A request that ends empties its slot and leaves the others alone.
LEMMA DoneOK ==
  ASSUME NEW f, NEW s \in Slots, InSlots(f)
  PROVE  InSlots(Done(f, s)) /\ \A x \in Slots : Done(f, s)[x] \in {f[x], None}
BY DEF Done, InSlots

------------------------------------------------------------------------------
(* The page                                                                 *)

\* No price comes from nowhere: a campaign that is drawn is one of the coin selected.
LEMMA RenderOK ==
  ASSUME NEW p, PageOK(p)
  PROVE  PageOK(renderStatus(p))
<1>1. currentCampaign(p) # NoCampaign => currentCampaign(p).price = p.coin
  BY DEF currentCampaign, PageOK, Priced
<1> QED
  BY <1>1 DEF renderStatus, PageOK, PageFields, NoPrice, Priced

\* The buttons that come back change no price.
LEMMA ResumedOK ==
  ASSUME NEW p, NEW who, PageOK(p)
  PROVE  PageOK(Resumed(p, who))
BY DEF Resumed, PageOK, PageFields

\* The loops begin.
LEMMA StartedOK ==
  ASSUME NEW p, NEW who, PageOK(p)
  PROVE  PageOK(Started(p, who))
BY DEF Started, PageOK, PageFields

\* Candles have no price that was typed.
LEMMA DrawnOK ==
  ASSUME NEW p, NEW r, PageOK(p)
  PROVE  PageOK(Drawn(p, r))
BY DEF Drawn, PageOK, PageFields

\* The preview goes with its modal.
LEMMA ClosedOK ==
  ASSUME NEW p, PageOK(p)
  PROVE  PageOK(closed(p))
BY DEF closed, PageOK, PageFields

\* The button of the preview comes back.
LEMMA PreviewEndedOK ==
  ASSUME NEW p, PageOK(p)
  PROVE  PageOK(PreviewEnded(p))
BY DEF PreviewEnded, PageOK, PageFields

\* With the coin the form loses its price.
LEMMA SelectedOK ==
  ASSUME NEW c, PageOK(page)
  PROVE  PageOK(Selected(c))
BY DEF Selected, PageOK, PageFields

\* The candles change no price, whether a load is under way or not.
LEMMA LoadOK ==
  ASSUME NEW p, NEW initial, NEW who, NEW then, PageOK(p), PageOK(then),
         loadCandles(p, initial, who, then)
  PROVE  PageOK(page')
BY DEF loadCandles

\* A refresh that ends goes on to the candles at most.
LEMMA RefreshedOK ==
  ASSUME NEW p, NEW who, PageOK(p), Refreshed(p, who)
  PROVE  PageOK(page')
BY LoadOK, StartedOK DEF Refreshed

\* A refresh asks before it knows anything.
LEMMA RefreshOK ==
  ASSUME NEW p, NEW who, PageOK(p), PricedInv, refreshStatus(p, who)
  PROVE  PageOK(page') /\ InSlots(statuses') /\ \A s \in Slots : StatusOK(statuses'[s])
<1>1. StatusOK(StatusRequest(who))
  BY DEF StatusOK, StatusRequest, NoStatus, EngineInit, Priced, NoCampaign, NoPrice
<1>2. CASE statusBusy
  BY <1>2, ResumedOK DEF refreshStatus, PricedInv
<1>3. CASE ~statusBusy
  <2>1. page' = p /\ statuses' = Send(statuses, StatusRequest(who))
    BY <1>3 DEF refreshStatus
  <2> QED
    BY <2>1, <1>1, SendOK DEF PricedInv
<1> QED
  BY <1>2, <1>3

\* A command that is sent has the price of its coin, or none that matters.
LEMMA CommandSentOK ==
  ASSUME NEW kind \in {"campaign", "cancel", "emergency", "reconcile"}, NEW c, NEW price,
         PricedInv, Command(kind, c, price), kind = "campaign" => price = c
  PROVE  /\ InSlots(commands') /\ \A s \in Slots : CommandOK(commands'[s])
         /\ UNCHANGED <<statuses, previews, engine>>
<1> DEFINE r == [kind |-> kind, coin |-> c, price |-> price, answer |-> "none"]
<1>1. CommandOK(r)
  BY DEF CommandOK
<1>2. commands' = Send(commands, r) /\ UNCHANGED <<statuses, previews, engine>>
  BY DEF Command
<1> QED
  BY <1>1, <1>2, SendOK DEF PricedInv

------------------------------------------------------------------------------
(* Steps: what each leaves of the invariant                                 *)

StatusesOK == InSlots(statuses) /\ \A s \in Slots : StatusOK(statuses[s])
PreviewsOK == InSlots(previews) /\ \A s \in Slots : PreviewOK(previews[s])
CommandsOK == InSlots(commands) /\ \A s \in Slots : CommandOK(commands[s])

\* The invariant by parts, each of which a step keeps or changes as a whole.
LEMMA PricedInvParts ==
  PricedInv <=> PageOK(page) /\ EngineOK(engine) /\ StatusesOK /\ PreviewsOK /\ CommandsOK
BY DEF PricedInv, StatusesOK, PreviewsOK, CommandsOK

\* The form is empty, nothing is on its way but the first status, no campaign runs.
LEMMA PricedInit == Init => PricedInv
<1> SUFFICES ASSUME Init PROVE PricedInv
  OBVIOUS
<1>1. PageOK(page) /\ EngineOK(engine)
  BY DEF Init, PageOK, PageFields, EngineOK, EngineInit, NoStatus, NoCampaign, NoPrice, Priced, None
<1>2. StatusOK(StatusRequest("start")) /\ StatusOK(None) /\ PreviewOK(None) /\ CommandOK(None)
  BY DEF StatusOK, PreviewOK, CommandOK, StatusRequest, NoStatus, EngineInit, NoCampaign,
         NoPrice, Priced
<1>3. InSlots(Quiet) /\ \A s \in Slots : Quiet[s] = None
  BY DEF InSlots, Quiet
<1>4. StatusesOK
  BY <1>2, <1>3, SendOK DEF Init, StatusesOK
<1> QED
  BY <1>1, <1>2, <1>3, <1>4 DEF Init, PricedInv, StatusesOK

\* The engine fills entries and sells positions at the price it was given.
LEMMA EngineMovesOK == EngineOK(engine) /\ EngineMoves => EngineOK(engine')
<1> SUFFICES ASSUME EngineOK(engine), EngineMoves PROVE EngineOK(engine')
  OBVIOUS
<1>1. CASE engine' = Event([engine EXCEPT !.campaign.status = "open", !.held = engine.campaign.coin])
  <2>1. Priced([engine.campaign EXCEPT !.status = "open"])
    BY DEF EngineOK, Priced
  <2>2. DOMAIN engine' = DOMAIN engine /\ engine'.campaign = [engine.campaign EXCEPT !.status = "open"]
    BY <1>1 DEF EngineOK, Event
  <2> QED
    BY <2>1, <2>2 DEF EngineOK
<1>2. CASE engine' = Event([engine EXCEPT !.campaign = NoCampaign, !.held = "none"])
  BY <1>2 DEF EngineOK, Event, NoCampaign, NoPrice, Priced
<1>3. CASE \E h \in {"safe", "monitor"} : engine' = Event([engine EXCEPT !.halt = h])
  BY <1>3 DEF EngineOK, Event
<1> QED
  BY <1>1, <1>2, <1>3 DEF EngineMoves

\* A command that is accepted sets the price it brought.
LEMMA HandledOK ==
  ASSUME NEW r, EngineOK(engine), CommandOK(r), r # None
  PROVE  \A e \in Handled(engine, r) : EngineOK(e)
<1>1. DOMAIN r = {"kind", "coin", "price", "answer"} /\ (r.kind = "campaign" => r.price = r.coin)
  BY DEF CommandOK
<1>2. CASE r.kind = "campaign"
  <2> DEFINE e == Event([engine EXCEPT !.campaign = [coin |-> r.coin, price |-> r.price,
                                                     status |-> "waiting"]])
  <2>1. Handled(engine, r) = {e}
    BY <1>2 DEF Handled
  <2>2. EngineOK(e)
    BY <1>1, <1>2 DEF EngineOK, Event, Priced
  <2> QED
    BY <2>1, <2>2
<1>3. CASE r.kind \in {"cancel", "emergency"}
  <2> DEFINE e == Event([engine EXCEPT !.campaign = NoCampaign, !.held = "none"])
  <2>1. Handled(engine, r) = {e}
    BY <1>3 DEF Handled
  <2>2. EngineOK(e)
    BY DEF EngineOK, Event, Priced, NoCampaign, NoPrice
  <2> QED
    BY <2>1, <2>2
<1>4. CASE r.kind = "reconcile"
  BY <1>4 DEF Handled, EngineOK, Event, Priced
<1> QED
  BY <1>2, <1>3, <1>4 DEF CommandOK

\* The answer to a command leaves its price alone.
LEMMA ServeCommandOK ==
  PricedInv /\ ServeCommand => EngineOK(engine') /\ CommandsOK'
<1> SUFFICES ASSUME PricedInv, ServeCommand PROVE EngineOK(engine') /\ CommandsOK'
  OBVIOUS
<1>1. PICK s \in Slots :
        /\ commands[s] # None
        /\ commands' = [commands EXCEPT ![s].answer =
                          IF Accepts(engine, commands[s]) THEN "ok" ELSE "refused"]
        /\ engine' \in IF Accepts(engine, commands[s]) THEN Handled(engine, commands[s])
                       ELSE {engine}
  BY DEF ServeCommand
<1>2. EngineOK(engine')
  BY <1>1, HandledOK DEF PricedInv
<1>3. CommandOK(commands'[s])
  BY <1>1 DEF PricedInv, CommandOK, InSlots, None
<1>4. InSlots(commands') /\ \A x \in Slots \ {s} : commands'[x] = commands[x]
  BY <1>1 DEF PricedInv, InSlots
<1> QED
  BY <1>2, <1>3, <1>4 DEF CommandsOK, PricedInv

\* The status that is on its way is the state of the engine.
LEMMA ServeStatusOK == PricedInv /\ ServeStatus => StatusesOK'
<1> SUFFICES ASSUME PricedInv, ServeStatus PROVE StatusesOK'
  OBVIOUS
<1>1. PICK s \in Slots : statuses[s] # None /\ statuses' = [statuses EXCEPT ![s].got = engine]
  BY DEF ServeStatus
<1>2. StatusOK(statuses'[s])
  BY <1>1 DEF PricedInv, StatusOK, InSlots, EngineOK
<1>3. InSlots(statuses') /\ \A x \in Slots \ {s} : statuses'[x] = statuses[x]
  BY <1>1 DEF PricedInv, InSlots
<1> QED
  BY <1>2, <1>3 DEF StatusesOK, PricedInv

\* An answer that is taken leaves the rest on its way.
LEMMA TakenOK ==
  ASSUME NEW s \in Slots, PricedInv
  PROVE  /\ statuses' = Done(statuses, s) => StatusesOK'
         /\ previews' = Done(previews, s) => PreviewsOK'
         /\ commands' = Done(commands, s) => CommandsOK'
BY DoneOK DEF PricedInv, StatusesOK, PreviewsOK, CommandsOK, StatusOK, PreviewOK, CommandOK

\* The campaign of the status is drawn with the price it came with.
LEMMA StatusReturnsOK == PricedInv /\ StatusReturns => PageOK(page') /\ StatusesOK'
<1> SUFFICES ASSUME PricedInv, StatusReturns PROVE PageOK(page') /\ StatusesOK'
  OBVIOUS
<1>1. PICK s \in Slots :
        /\ statuses[s] # None /\ statuses' = Done(statuses, s)
        /\ \/ Refreshed(renderStatus([Resumed(page, statuses[s].who) EXCEPT
                                        !.seen = statuses[s].got]), statuses[s].who)
           \/ Refreshed(Resumed(page, statuses[s].who), statuses[s].who)
  BY DEF StatusReturns
<1>2. PageOK(Resumed(page, statuses[s].who))
  BY ResumedOK DEF PricedInv
<1>3. Priced(statuses[s].got.campaign)
  BY <1>1 DEF PricedInv, StatusOK
<1>4. PageOK([Resumed(page, statuses[s].who) EXCEPT !.seen = statuses[s].got])
  BY <1>2, <1>3 DEF PageOK, PageFields
<1>5. PageOK(page')
  BY <1>1, <1>2, <1>4, RenderOK, RefreshedOK
<1> QED
  BY <1>1, <1>5, TakenOK

\* Candles that come back to a selection draw the status again.
LEMMA CandlesReturnOK == PricedInv /\ CandlesReturn => PageOK(page')
<1> SUFFICES ASSUME PricedInv, CandlesReturn PROVE PageOK(page')
  OBVIOUS
<1>1. PICK s \in Slots :
        \E p \in {Drawn(page, candles[s]), page} :
          page' = IF candles[s].who = "select" THEN renderStatus(p) ELSE Started(p, candles[s].who)
  BY DEF CandlesReturn
<1> QED
  BY <1>1, DrawnOK, RenderOK, StartedOK DEF PricedInv

------------------------------------------------------------------------------
(* The user                                                                 *)

\* Another coin: its campaign is drawn, at its own price, over an empty form.
LEMMA SymbolChangeOK == PricedInv /\ symbolChange => PageOK(page')
<1> SUFFICES ASSUME PricedInv, symbolChange PROVE PageOK(page')
  OBVIOUS
<1>1. PICK c \in Coins : loadCandles(Selected(c), TRUE, "select", renderStatus(Selected(c)))
  BY DEF symbolChange
<1> QED
  BY <1>1, SelectedOK, RenderOK, LoadOK DEF PricedInv

\* Another interval leaves the coin and its price.
LEMMA IntervalChangeOK == PricedInv /\ intervalChange => PageOK(page')
<1> SUFFICES ASSUME PricedInv, intervalChange PROVE PageOK(page')
  OBVIOUS
<1>1. PICK i \in Intervals :
        LET p == [page EXCEPT !.interval = i, !.loaded = FALSE]
        IN  loadCandles(p, TRUE, "select", renderStatus(p))
  BY DEF intervalChange
<1>2. PageOK([page EXCEPT !.interval = i, !.loaded = FALSE])
  BY DEF PricedInv, PageOK, PageFields
<1> QED
  BY <1>1, <1>2, RenderOK, LoadOK

\* What is previewed is what the form shows, for the coin that is selected.
LEMMA PreviewGalkaOK == PricedInv /\ previewGalka => PageOK(page') /\ PreviewsOK'
<1> SUFFICES ASSUME PricedInv, previewGalka PROVE PageOK(page') /\ PreviewsOK'
  OBVIOUS
<1> DEFINE r == [kind |-> "preview", coin |-> page.coin, price |-> page.input]
<1>1. page.input # NoPrice /\ previews' = Send(previews, r)
      /\ page' = [page EXCEPT !.on.preview = FALSE, !.reopened = FALSE]
  BY DEF previewGalka
<1>2. PreviewOK(r)
  BY <1>1 DEF PreviewOK, Priced, PricedInv, PageOK
<1>3. PageOK(page')
  BY <1>1 DEF PricedInv, PageOK, PageFields
<1> HIDE DEF r
<1>4. PreviewsOK'
  BY <1>1, <1>2, SendOK DEF PricedInv, PreviewsOK
<1> QED
  BY <1>3, <1>4

\* What the modal shows is the preview that was asked for, whatever is selected now.
LEMMA PreviewReturnsOK == PricedInv /\ PreviewReturns => PageOK(page') /\ PreviewsOK'
<1> SUFFICES ASSUME PricedInv, PreviewReturns PROVE PageOK(page') /\ PreviewsOK'
  OBVIOUS
<1>1. PICK s \in Slots :
        /\ previews[s] # None /\ previews' = Done(previews, s)
        /\ \/ page' = PreviewEnded([page EXCEPT !.pending = previews[s], !.modal = TRUE,
                                                !.on.confirm = page.seen.halt # "safe"])
           \/ page' = PreviewEnded(page)
  BY DEF PreviewReturns
<1>2. PageOK([page EXCEPT !.pending = previews[s], !.modal = TRUE,
                          !.on.confirm = page.seen.halt # "safe"])
  BY <1>1 DEF PricedInv, PageOK, PageFields, PreviewOK
<1>3. PageOK(page')
  BY <1>1, <1>2, PreviewEndedOK DEF PricedInv
<1> QED
  BY <1>1, <1>3, TakenOK

\* A campaign that was sent leaves no preview behind, whatever came of it.
LEMMA CommandReturnsOK ==
  PricedInv /\ CommandReturns => PageOK(page') /\ StatusesOK' /\ CommandsOK'
<1> SUFFICES ASSUME PricedInv, CommandReturns PROVE PageOK(page') /\ StatusesOK' /\ CommandsOK'
  OBVIOUS
<1>1. PICK s \in Slots :
        LET p == IF commands[s].kind = "campaign" THEN closed(page) ELSE page
        IN  /\ commands' = Done(commands, s)
            /\ \/ refreshStatus(p, Waits(commands[s]))
               \/ page' = Resumed(page, Waits(commands[s])) /\ UNCHANGED statuses
  BY DEF CommandReturns
<1>2. PageOK(IF commands[s].kind = "campaign" THEN closed(page) ELSE page)
  BY ClosedOK DEF PricedInv
<1>3. PageOK(page') /\ StatusesOK'
  BY <1>1, <1>2, RefreshOK, ResumedOK DEF PricedInv, StatusesOK
<1> QED
  BY <1>1, <1>3, TakenOK

\* Only a confirmed preview becomes a campaign.
LEMMA CommandsSent ==
  ASSUME PricedInv, confirmLive \/ cancelCampaign \/ emergencyClose \/ reconcileState
  PROVE  PageOK(page') /\ CommandsOK' /\ UNCHANGED <<statuses, previews, engine>>
<1>1. CASE confirmLive
  <2>1. Priced(page.pending) /\ Command("campaign", page.pending.coin, page.pending.price)
        /\ page' = [page EXCEPT !.on.confirm = FALSE]
    BY <1>1 DEF confirmLive, PricedInv, PageOK
  <2>2. CommandsOK' /\ UNCHANGED <<statuses, previews, engine>>
    BY <2>1, CommandSentOK DEF CommandsOK, Priced
  <2> QED
    BY <2>1, <2>2 DEF PricedInv, PageOK, PageFields
<1>2. CASE cancelCampaign
  BY <1>2, CommandSentOK DEF cancelCampaign, CommandsOK, PricedInv
<1>3. CASE emergencyClose
  BY <1>3, CommandSentOK DEF emergencyClose, CommandsOK, PricedInv
<1>4. CASE reconcileState
  <2>1. page' = [page EXCEPT !.on.reconcile = FALSE] /\ Command("reconcile", "none", NoPrice)
    BY <1>4 DEF reconcileState
  <2>2. CommandsOK' /\ UNCHANGED <<statuses, previews, engine>>
    BY <2>1, CommandSentOK DEF CommandsOK
  <2> QED
    BY <2>1, <2>2 DEF PricedInv, PageOK, PageFields
<1> QED
  BY <1>1, <1>2, <1>3, <1>4

------------------------------------------------------------------------------
\* Every step keeps the invariant.
LEMMA PricedStep == PricedInv /\ [Next]_vars => PricedInv'
<1> SUFFICES ASSUME PricedInv, [Next]_vars PROVE PricedInv'
  OBVIOUS
<1> USE PricedInvParts
<1>0. PageOK(page) /\ EngineOK(engine) /\ StatusesOK /\ PreviewsOK /\ CommandsOK
  OBVIOUS
<1>1. CASE EngineMoves
  BY <1>0, <1>1, EngineMovesOK DEF EngineMoves, net, StatusesOK, PreviewsOK, CommandsOK, PricedInv
<1>2. CASE ServeStatus
  BY <1>2, ServeStatusOK DEF ServeStatus, StatusesOK, PricedInv
<1>3. CASE ServeCommand
  BY <1>3, ServeCommandOK DEF ServeCommand, CommandsOK, PricedInv
<1>4. CASE statusLoop
  BY <1>4, RefreshOK DEF statusLoop, PricedInv
<1>5. CASE StatusReturns
  BY <1>5, StatusReturnsOK DEF StatusReturns, StatusesOK, PricedInv
<1>6. CASE candleLoop
  BY <1>6, LoadOK DEF candleLoop, PricedInv
<1>7. CASE CandlesReturn
  BY <1>7, CandlesReturnOK DEF CandlesReturn, PricedInv
<1>8. CASE symbolChange
  BY <1>8, SymbolChangeOK DEF symbolChange, PricedInv
<1>9. CASE intervalChange
  BY <1>9, IntervalChangeOK DEF intervalChange, PricedInv
<1>10. CASE TypePrice
  BY <1>10 DEF TypePrice, net, PricedInv, PageOK, PageFields
<1>11. CASE previewGalka
  BY <1>11, PreviewGalkaOK DEF previewGalka, PreviewsOK, PricedInv
<1>12. CASE PreviewReturns
  BY <1>12, PreviewReturnsOK DEF PreviewReturns, PreviewsOK, PricedInv
<1>13. CASE closePreview
  BY <1>13, ClosedOK DEF closePreview, net, PricedInv
<1>14. CASE confirmLive \/ cancelCampaign \/ emergencyClose \/ reconcileState
  BY <1>14, CommandsSent DEF CommandsOK, PricedInv
<1>15. CASE CommandReturns
  BY <1>15, CommandReturnsOK DEF CommandReturns, StatusesOK, CommandsOK, PricedInv
<1>16. CASE UNCHANGED vars
  BY <1>16 DEF vars, net, PricedInv
<1> QED
  BY <1>1, <1>2, <1>3, <1>4, <1>5, <1>6, <1>7, <1>8, <1>9, <1>10, <1>11, <1>12, <1>13, <1>14,
     <1>15, <1>16 DEF Next

\* From what is typed to what runs, a price stays with the coin it was typed for,
\* however selections, previews, commands and answers interleave, and whatever
\* fails on the way (previewGalka, confirmLive, symbol.onchange, renderStatus).
THEOREM PriceStaysWithCoin == Spec => []PricedForItsCoin
<1>1. PricedInv => PricedForItsCoin
  BY DEF PricedInv, PricedForItsCoin, EngineOK, PreviewOK, CommandOK, Priced, None
<1> QED
  BY <1>1, PricedInit, PricedStep, PTL DEF Spec

------------------------------------------------------------------------------
(* Events                                                                   *)

\* From one page to another without an answer to the status: what was announced
\* stays, or all that the last status knows is announced.
Tells(p, q) == q.seen = p.seen /\ q.told \in {p.told, p.seen.version}

\* Answers know no less than the page and no more than the engine, and there is
\* never more than one on its way.
VersionsOrdered ==
  /\ page.told \in Int /\ page.seen.version \in Int /\ engine.version \in Int
  /\ page.told <= page.seen.version /\ page.seen.version <= engine.version
  /\ \A s \in Slots : statuses[s] # None /\ statuses[s].got # NoStatus =>
       /\ statuses[s].got.version \in Int
       /\ page.seen.version <= statuses[s].got.version
       /\ statuses[s].got.version <= engine.version

OneStatus == \A s, t \in Slots : statuses[s] # None /\ statuses[t] # None => s = t

ToldInv == PricedInv /\ VersionsOrdered /\ OneStatus

\* Drawing announces what the last status knows, or nothing.
LEMMA RenderTells ==
  ASSUME NEW p, PageOK(p)
  PROVE  Tells(p, renderStatus(p))
BY DEF renderStatus, Tells, PageOK, PageFields

\* Nothing else the page does to itself announces anything.
LEMMA QuietTells ==
  ASSUME NEW p, NEW who, NEW r, PageOK(p)
  PROVE  /\ Tells(p, p) /\ Tells(p, Resumed(p, who)) /\ Tells(p, Started(p, who))
         /\ Tells(p, Drawn(p, r)) /\ Tells(p, closed(p)) /\ Tells(p, PreviewEnded(p))
<1>1. Tells(p, p) /\ Tells(p, Resumed(p, who)) /\ Tells(p, Started(p, who))
  BY DEF Tells, Resumed, Started, PageOK, PageFields
<1>2. Tells(p, Drawn(p, r))
  BY DEF Tells, Drawn, PageOK, PageFields
<1>3. Tells(p, closed(p)) /\ Tells(p, PreviewEnded(p))
  BY DEF Tells, closed, PreviewEnded, PageOK, PageFields
<1> QED
  BY <1>1, <1>2, <1>3

\* A selection is drawn from the last status.
LEMMA SelectionTells ==
  ASSUME PageOK(page), symbolChange \/ intervalChange
  PROVE  Tells(page, page')
<1>1. ASSUME NEW p, PageOK(p), Tells(page, p), loadCandles(p, TRUE, "select", renderStatus(p))
      PROVE  Tells(page, page')
  <2>1. page' \in {p, renderStatus(p)}
    BY <1>1 DEF loadCandles
  <2> QED
    BY <1>1, <2>1, RenderTells DEF Tells
<1>2. CASE symbolChange
  <2>1. PICK c \in Coins : loadCandles(Selected(c), TRUE, "select", renderStatus(Selected(c)))
    BY <1>2 DEF symbolChange
  <2>2. Tells(page, Selected(c))
    BY DEF Tells, Selected, PageOK, PageFields
  <2> QED
    BY <1>1, <2>1, <2>2, SelectedOK
<1>3. CASE intervalChange
  <2>1. PICK i \in Intervals :
          LET p == [page EXCEPT !.interval = i, !.loaded = FALSE]
          IN  loadCandles(p, TRUE, "select", renderStatus(p))
    BY <1>3 DEF intervalChange
  <2> DEFINE p == [page EXCEPT !.interval = i, !.loaded = FALSE]
  <2>2. PageOK(p) /\ Tells(page, p)
    BY DEF Tells, PageOK, PageFields
  <2> HIDE DEF p
  <2> QED
    BY <1>1, <2>1, <2>2 DEF p
<1> QED
  BY <1>2, <1>3

\* Candles that come back draw from the last status at most.
LEMMA CandlesTell == PricedInv /\ CandlesReturn => Tells(page, page')
<1> SUFFICES ASSUME PricedInv, CandlesReturn PROVE Tells(page, page')
  OBVIOUS
<1>1. PICK s \in Slots :
        \E p \in {Drawn(page, candles[s]), page} :
          page' = IF candles[s].who = "select" THEN renderStatus(p) ELSE Started(p, candles[s].who)
  BY DEF CandlesReturn
<1>2. PICK p \in {Drawn(page, candles[s]), page} :
        page' = IF candles[s].who = "select" THEN renderStatus(p) ELSE Started(p, candles[s].who)
  BY <1>1
<1>3. PageOK(p) /\ Tells(page, p)
  BY <1>2, DrawnOK, QuietTells DEF PricedInv
<1>4. Tells(p, page')
  BY <1>2, <1>3, RenderTells, QuietTells
<1> QED
  BY <1>3, <1>4 DEF Tells

\* Previews, prices and commands leave the status as it was shown.
LEMMA UserTells ==
  ASSUME PricedInv,
         TypePrice \/ previewGalka \/ PreviewReturns \/ closePreview \/ confirmLive
           \/ cancelCampaign \/ emergencyClose \/ reconcileState
  PROVE  Tells(page, page')
<1> USE DEF PricedInv, PageOK, PageFields, Tells
<1>1. CASE TypePrice
  BY <1>1 DEF TypePrice
<1>2. CASE previewGalka
  BY <1>2 DEF previewGalka
<1>3. CASE PreviewReturns
  BY <1>3 DEF PreviewReturns, PreviewEnded
<1>4. CASE closePreview
  BY <1>4 DEF closePreview, closed
<1>5. CASE confirmLive
  BY <1>5 DEF confirmLive
<1>6. CASE cancelCampaign \/ emergencyClose
  BY <1>6 DEF cancelCampaign, emergencyClose
<1>7. CASE reconcileState
  BY <1>7 DEF reconcileState
<1> QED
  BY <1>1, <1>2, <1>3, <1>4, <1>5, <1>6, <1>7

\* A refresh that finds another under way asks nothing, and its answer is the only one.
LEMMA RefreshTells ==
  ASSUME NEW p, NEW who, PageOK(p), ToldInv, refreshStatus(p, who)
  PROVE  /\ Tells(p, page') /\ OneStatus'
         /\ \A s \in Slots : \/ statuses'[s] = statuses[s]
                             \/ statuses'[s].got = NoStatus
<1>1. CASE statusBusy
  BY <1>1, QuietTells DEF refreshStatus, ToldInv, OneStatus
<1>2. CASE ~statusBusy
  <2>1. page' = p /\ statuses' = Send(statuses, StatusRequest(who))
    BY <1>2 DEF refreshStatus
  <2>2. \A s \in Slots : statuses[s] = None
    BY <1>2 DEF statusBusy, Busy
  <2>3. \A s \in Slots :
          statuses'[s] = IF s = Min(Free(statuses)) THEN StatusRequest(who) ELSE None
    BY <2>1, <2>2 DEF Send, ToldInv, PricedInv, InSlots
  <2> QED
    BY <2>1, <2>2, <2>3, QuietTells DEF OneStatus, StatusRequest
<1> QED
  BY <1>1, <1>2

\* The engine's events are numbered upwards.
LEMMA EngineOnward ==
  ASSUME ToldInv, EngineMoves \/ ServeCommand
  PROVE  engine'.version \in Int /\ engine.version <= engine'.version
<1>0. EngineOK(engine) /\ engine.version \in Int
  BY DEF ToldInv, PricedInv, VersionsOrdered
<1>1. ASSUME NEW e, DOMAIN e = DOMAIN engine, e.version = engine.version, engine' = Event(e)
      PROVE  engine'.version = engine.version + 1
  BY <1>0, <1>1 DEF Event, EngineOK
<1>2. CASE EngineMoves
  <2>1. \E e : DOMAIN e = DOMAIN engine /\ e.version = engine.version /\ engine' = Event(e)
    <3>1. CASE engine' = Event([engine EXCEPT !.campaign.status = "open",
                                              !.held = engine.campaign.coin])
      BY <3>1, <1>0 DEF EngineOK
    <3>2. CASE engine' = Event([engine EXCEPT !.campaign = NoCampaign, !.held = "none"])
      BY <3>2, <1>0 DEF EngineOK
    <3>3. CASE \E h \in {"safe", "monitor"} : engine' = Event([engine EXCEPT !.halt = h])
      BY <3>3, <1>0 DEF EngineOK
    <3> QED
      BY <1>2, <3>1, <3>2, <3>3 DEF EngineMoves
  <2> QED
    BY <1>0, <1>1, <2>1
<1>3. CASE ServeCommand
  <2>1. PICK s \in Slots :
          /\ commands[s] # None
          /\ engine' \in IF Accepts(engine, commands[s]) THEN Handled(engine, commands[s])
                         ELSE {engine}
    BY <1>3 DEF ServeCommand
  <2>2. commands[s].kind \in {"campaign", "cancel", "emergency", "reconcile"}
    BY <2>1 DEF ToldInv, PricedInv, CommandOK
  <2>3. CASE engine' \in Handled(engine, commands[s])
    <3> DEFINE r == commands[s]
    <3>1. \/ engine' = Event([engine EXCEPT !.campaign = [coin |-> r.coin, price |-> r.price,
                                                          status |-> "waiting"]])
          \/ engine' = Event([engine EXCEPT !.campaign = NoCampaign, !.held = "none"])
          \/ \E h \in {"no", "safe"} : engine' = Event([engine EXCEPT !.halt = h])
      BY <2>2, <2>3 DEF Handled
    <3>2. \E e : DOMAIN e = DOMAIN engine /\ e.version = engine.version /\ engine' = Event(e)
      BY <3>1, <1>0 DEF EngineOK
    <3> QED
      BY <1>0, <1>1, <3>2
  <2> QED
    BY <1>0, <2>1, <2>3
<1> QED
  BY <1>2, <1>3

\* As long as no answer to the status is taken, the order of versions is kept by
\* whatever tells nothing new.
LEMMA VersionsKept ==
  ASSUME VersionsOrdered, Tells(page, page'),
         engine'.version \in Int, engine.version <= engine'.version,
         \A s \in Slots : \/ statuses'[s] = statuses[s]
                          \/ statuses'[s].got = NoStatus
  PROVE  VersionsOrdered'
BY DEF VersionsOrdered, Tells

\* What the server answers is what the engine has come to.
LEMMA ServeTells == ToldInv /\ ServeStatus => VersionsOrdered' /\ OneStatus'
<1> SUFFICES ASSUME ToldInv, ServeStatus PROVE VersionsOrdered' /\ OneStatus'
  OBVIOUS
<1>1. PICK s \in Slots : /\ statuses[s] # None /\ statuses' = [statuses EXCEPT ![s].got = engine]
                         /\ page' = page /\ engine' = engine
  BY DEF ServeStatus
<1>2. DOMAIN statuses = Slots /\ DOMAIN statuses[s] = {"kind", "who", "got"}
  BY <1>1 DEF ToldInv, PricedInv, InSlots, StatusOK
<1>3. statuses'[s].got = engine /\ \A x \in Slots \ {s} : statuses'[x] = statuses[x]
  BY <1>1, <1>2
<1>4. VersionsOrdered'
  BY <1>1, <1>3 DEF ToldInv, VersionsOrdered
<1>5. OneStatus'
  BY <1>1, <1>3 DEF ToldInv, OneStatus
<1> QED
  BY <1>4, <1>5

\* The page after a refresh, as far as it tells anything.
LEMMA RefreshedTells ==
  ASSUME NEW p, NEW who, PageOK(p), Refreshed(p, who)
  PROVE  Tells(p, page')
BY QuietTells DEF Refreshed, loadCandles

\* The only answer on its way is taken: the page knows what it says, and has announced
\* that or what it had announced before, which is no later.
LEMMA StatusReturnsTells ==
  ToldInv /\ StatusReturns => VersionsOrdered' /\ OneStatus' /\ page.told <= page'.told
<1> SUFFICES ASSUME ToldInv, StatusReturns
             PROVE  VersionsOrdered' /\ OneStatus' /\ page.told <= page'.told
  OBVIOUS
<1>1. PICK s \in Slots :
        /\ statuses[s] # None /\ statuses' = Done(statuses, s) /\ engine' = engine
        /\ \/ /\ statuses[s].got # NoStatus
              /\ Refreshed(renderStatus([Resumed(page, statuses[s].who) EXCEPT
                                           !.seen = statuses[s].got]), statuses[s].who)
           \/ Refreshed(Resumed(page, statuses[s].who), statuses[s].who)
  BY DEF StatusReturns
<1> DEFINE p == Resumed(page, statuses[s].who)
           q == [p EXCEPT !.seen = statuses[s].got]
<1>2. \A x \in Slots : statuses'[x] = None
  BY <1>1, DoneOK DEF ToldInv, PricedInv, OneStatus, Done, InSlots
<1>3. OneStatus'
  BY <1>2 DEF OneStatus
<1>4. PageOK(p) /\ Tells(page, p)
  BY ResumedOK, QuietTells DEF ToldInv, PricedInv
<1>5. PageOK(q) /\ q.seen = statuses[s].got /\ q.told = p.told
  <2>1. Priced(statuses[s].got.campaign)
    BY <1>1 DEF ToldInv, PricedInv, StatusOK
  <2> HIDE DEF p
  <2> QED
    BY <1>4, <2>1 DEF PageOK, PageFields
<1> HIDE DEF p, q
<1>6. CASE statuses[s].got # NoStatus /\ Refreshed(renderStatus(q), statuses[s].who)
  <2>1. Tells(q, page')
    BY <1>5, <1>6, RenderTells, RenderOK, RefreshedTells DEF Tells
  <2>2. page'.seen = statuses[s].got /\ page'.told \in {p.told, statuses[s].got.version}
    BY <2>1, <1>5 DEF Tells
  <2>3. p.told \in {page.told, page.seen.version}
    BY <1>4 DEF Tells
  <2> QED
    BY <1>1, <1>2, <1>3, <1>6, <2>2, <2>3 DEF ToldInv, VersionsOrdered
<1>7. CASE Refreshed(p, statuses[s].who)
  <2>1. Tells(p, page')
    BY <1>4, <1>7, RefreshedTells
  <2>2. page'.seen = page.seen /\ page'.told \in {page.told, page.seen.version}
    BY <1>4, <2>1 DEF Tells
  <2> QED
    BY <1>1, <1>2, <1>3, <2>2 DEF ToldInv, VersionsOrdered
<1> QED
  BY <1>1, <1>6, <1>7 DEF p, q

\* Whatever else is done tells nothing new, asks for a status only when none is on
\* its way, and leaves the engine where it is or ahead.
LEMMA OtherTells ==
  ASSUME ToldInv, [Next]_vars, ~ServeStatus, ~StatusReturns
  PROVE  VersionsOrdered' /\ OneStatus' /\ page.told <= page'.told
<1>1. /\ Tells(page, page') /\ OneStatus'
      /\ engine'.version \in Int /\ engine.version <= engine'.version
      /\ \A s \in Slots : statuses'[s] = statuses[s] \/ statuses'[s].got = NoStatus
  <2>0. /\ PricedInv /\ PageOK(page) /\ OneStatus /\ Tells(page, page)
        /\ engine.version \in Int /\ engine.version <= engine.version
    BY QuietTells DEF ToldInv, PricedInv, VersionsOrdered
  <2>1. CASE EngineMoves
    BY <2>0, <2>1, EngineOnward DEF EngineMoves, net, Tells, OneStatus
  <2>2. CASE ServeCommand
    BY <2>0, <2>2, EngineOnward DEF ServeCommand, Tells, OneStatus
  <2>3. CASE statusLoop
    BY <2>0, <2>3, RefreshTells DEF statusLoop
  <2>4. CASE candleLoop
    BY <2>0, <2>4 DEF candleLoop, loadCandles, Tells, OneStatus
  <2>5. CASE CandlesReturn
    BY <2>0, <2>5, CandlesTell DEF CandlesReturn, OneStatus
  <2>6. CASE symbolChange \/ intervalChange
    BY <2>0, <2>6, SelectionTells DEF symbolChange, intervalChange, OneStatus
  <2>7. CASE TypePrice \/ previewGalka \/ PreviewReturns \/ closePreview
    BY <2>0, <2>7, UserTells DEF TypePrice, previewGalka, PreviewReturns, closePreview, net, OneStatus
  <2>8. CASE confirmLive \/ cancelCampaign \/ emergencyClose \/ reconcileState
    <3>1. UNCHANGED <<statuses, engine>>
      BY <2>8 DEF confirmLive, cancelCampaign, emergencyClose, reconcileState, Command
    <3> QED
      BY <2>0, <2>8, <3>1, UserTells DEF OneStatus
  <2>9. CASE CommandReturns
    <3>1. PICK s \in Slots :
            LET p == IF commands[s].kind = "campaign" THEN closed(page) ELSE page
            IN  /\ engine' = engine
                /\ \/ refreshStatus(p, Waits(commands[s]))
                   \/ page' = Resumed(page, Waits(commands[s])) /\ UNCHANGED statuses
      BY <2>9 DEF CommandReturns
    <3> DEFINE p == IF commands[s].kind = "campaign" THEN closed(page) ELSE page
    <3>2. PageOK(p) /\ Tells(page, p)
      BY <2>0, ClosedOK, QuietTells
    <3> HIDE DEF p
    <3>3. CASE refreshStatus(p, Waits(commands[s]))
      BY <2>0, <3>1, <3>2, <3>3, RefreshTells DEF Tells
    <3>4. CASE page' = Resumed(page, Waits(commands[s])) /\ UNCHANGED statuses
      BY <2>0, <3>1, <3>4, QuietTells DEF OneStatus
    <3> QED
      BY <3>1, <3>3, <3>4 DEF p
  <2>10. CASE UNCHANGED vars
    BY <2>0, <2>10 DEF vars, net, Tells, OneStatus
  <2> QED
    BY <2>1, <2>2, <2>3, <2>4, <2>5, <2>6, <2>7, <2>8, <2>9, <2>10 DEF Next
<1>2. VersionsOrdered'
  BY <1>1, VersionsKept DEF ToldInv
<1> QED
  BY <1>1, <1>2 DEF Tells, ToldInv, VersionsOrdered

\* At the start nothing is known, and nothing was announced.
LEMMA ToldInit == Init => ToldInv
<1> SUFFICES ASSUME Init PROVE ToldInv
  OBVIOUS
<1>1. VersionsOrdered
  <2>1. \A s \in Slots : statuses[s] # None => statuses[s].got = NoStatus
    BY SendOK DEF Init, Quiet, InSlots, StatusRequest
  <2> QED
    BY <2>1 DEF Init, VersionsOrdered, NoStatus, EngineInit
<1>2. OneStatus
  BY DEF Init, OneStatus, Send, Quiet
<1> QED
  BY <1>1, <1>2, PricedInit DEF ToldInv

\* Every step keeps the order of versions and announces forward only.
LEMMA ToldStep == ToldInv /\ [Next]_vars => ToldInv' /\ page.told <= page'.told
<1> SUFFICES ASSUME ToldInv, [Next]_vars PROVE ToldInv' /\ page.told <= page'.told
  OBVIOUS
<1>1. PricedInv'
  BY PricedStep DEF ToldInv
<1>2. CASE ServeStatus
  <2>1. page' = page /\ page.told <= page.told
    BY <1>2 DEF ServeStatus, ToldInv, VersionsOrdered
  <2> QED
    BY <1>1, <1>2, <2>1, ServeTells DEF ToldInv
<1> QED
  BY <1>1, <1>2, StatusReturnsTells, OtherTells DEF ToldInv

\* No event of the engine is announced twice or after a later one, for any number of
\* requests on their way: refreshStatus asks only when no answer is awaited.
THEOREM EventsAreToldOnce == Spec => EventsToldOnce
<1>1. ToldInv /\ [Next]_vars => [page'.told # page.told => page'.told > page.told]_vars
  <2> SUFFICES ASSUME ToldInv, [Next]_vars, page'.told # page.told
               PROVE  page'.told > page.told
    OBVIOUS
  <2> QED
    BY ToldStep DEF ToldInv, VersionsOrdered
<1> QED
  BY <1>1, ToldInit, ToldStep, PTL DEF Spec, EventsToldOnce

------------------------------------------------------------------------------
(* Slots that are free                                                      *)

\* The first of the slots that are free.
LEMMA FirstFree == ASSUME NEW f, Free(f) # {} PROVE Min(Free(f)) \in Free(f)
<1>1. Free(f) \in SUBSET Nat
  BY DEF Free, Slots
<1>2. \E x \in Free(f) : \A y \in Free(f) : ~(<<y, x>> \in OpToRel(<, Nat))
  BY <1>1, NatLessThanWellFounded, WFMin
<1>3. \E x \in Free(f) : \A y \in Free(f) : ~(y < x)
  BY <1>1, <1>2 DEF OpToRel
<1>4. \E x \in Free(f) : \A y \in Free(f) : x =< y
  BY <1>1, <1>3
<1> QED
  BY <1>4 DEF Min

\* A set without two members.
LEMMA AtMostOne == ASSUME NEW S, \A a, b \in S : a = b PROVE Cardinality(S) <= 1
<1>1. CASE S = {}
  <2>1. Cardinality(S) = 0
    BY <1>1, FS_EmptySet
  <2> QED
    BY <2>1
<1>2. ASSUME NEW a \in S PROVE Cardinality(S) <= 1
  <2>1. S = {a}
    BY <1>2
  <2>2. Cardinality({a}) = 1
    BY FS_Singleton
  <2> QED
    BY <2>1, <2>2
<1> QED
  BY <1>1, <1>2

\* A request among others: it takes one free slot.
LEMMA SentAmong ==
  ASSUME NEW f, NEW r, InSlots(f), Free(f) # {}
  PROVE  \E s \in Slots : /\ f[s] = None /\ Send(f, r)[s] = r
                          /\ \A x \in Slots \ {s} : Send(f, r)[x] = f[x]
BY FirstFree DEF Send, InSlots, Free

\* A request where there was none is the only one.
LEMMA SentAlone ==
  ASSUME NEW f, NEW r, InSlots(f), ~Busy(f)
  PROVE  \E s \in Slots : Send(f, r)[s] = r /\ \A x \in Slots \ {s} : Send(f, r)[x] = None
<1>1. 1 \in Slots /\ f[1] = None
  BY LiveClientAssumption DEF Slots, Busy
<1>2. Free(f) # {}
  BY <1>1 DEF Free
<1>3. PICK s \in Slots : /\ f[s] = None /\ Send(f, r)[s] = r
                         /\ \A x \in Slots \ {s} : Send(f, r)[x] = f[x]
  BY <1>2, SentAmong
<1> QED
  BY <1>3 DEF Busy

------------------------------------------------------------------------------
(* The chart                                                                *)

\* One load of candles at a time, and one that was asked for as a continuation
\* continues what the chart holds.
CandlesOK ==
  /\ InSlots(candles)
  /\ \A s, t \in Slots : candles[s] # None /\ candles[t] # None => s = t
  /\ \A s \in Slots : candles[s] # None =>
       /\ DOMAIN candles[s] = {"kind", "coin", "interval", "full", "who"}
       /\ candles[s].full \in BOOLEAN
       /\ ~candles[s].full => page.rows = {<<candles[s].coin, candles[s].interval>>}

RowsOK(p) ==
  /\ \A a, b \in p.rows : a = b
  /\ p.loaded => p.rows = {<<p.coin, p.interval>>}

ChartInv == ToldInv /\ CandlesOK /\ RowsOK(page)

\* From one page to another without candles: the chart stays, and counts as loaded
\* for what it counted before, or not at all.
Charts(p, q) ==
  q.rows = p.rows /\ (q.loaded => p.loaded /\ q.coin = p.coin /\ q.interval = p.interval)

\* What the page does to itself leaves the chart.
LEMMA QuietCharts ==
  ASSUME NEW p, NEW who, PageOK(p)
  PROVE  /\ Charts(p, p) /\ Charts(p, renderStatus(p)) /\ Charts(p, Resumed(p, who))
         /\ Charts(p, Started(p, who)) /\ Charts(p, closed(p)) /\ Charts(p, PreviewEnded(p))
<1>1. Charts(p, p) /\ Charts(p, renderStatus(p))
  BY DEF Charts, renderStatus, PageOK, PageFields
<1>2. Charts(p, Resumed(p, who)) /\ Charts(p, Started(p, who))
  BY DEF Charts, Resumed, Started, PageOK, PageFields
<1>3. Charts(p, closed(p)) /\ Charts(p, PreviewEnded(p))
  BY DEF Charts, closed, PreviewEnded, PageOK, PageFields
<1> QED
  BY <1>1, <1>2, <1>3

\* A load that finds another under way asks nothing; otherwise it is the only one.
LEMMA LoadAsks ==
  ASSUME CandlesOK, NEW p, NEW initial, NEW who, NEW then, loadCandles(p, initial, who, then)
  PROVE  \/ page' = then /\ candles' = candles
         \/ /\ page' = p
            /\ \A s \in Slots : candles[s] = None
            /\ InSlots(candles')
            /\ \E s \in Slots : /\ candles'[s] = CandlesRequest(p, initial \/ ~p.loaded, who)
                                /\ \A x \in Slots \ {s} : candles'[x] = None
<1>1. CASE candleBusy
  BY <1>1 DEF loadCandles
<1>2. CASE ~candleBusy
  <2>1. page' = p /\ candles' = Send(candles, CandlesRequest(p, initial \/ ~p.loaded, who))
    BY <1>2 DEF loadCandles
  <2> QED
    BY <1>2, <2>1, SendOK, SentAlone DEF candleBusy, Busy, CandlesOK
<1> QED
  BY <1>1, <1>2

\* A chart that is left alone stays right.
LEMMA ChartsKept ==
  ASSUME NEW p, NEW q, RowsOK(p), Charts(p, q)
  PROVE  RowsOK(q) /\ q.rows = p.rows
BY DEF RowsOK, Charts

\* A load asks for a continuation only of what the chart holds.
LEMMA LoadCharts ==
  ASSUME CandlesOK, RowsOK(page), NEW p, NEW initial, NEW who, NEW then,
         loadCandles(p, initial, who, then), Charts(page, p), Charts(page, then)
  PROVE  CandlesOK' /\ RowsOK(page')
<1>1. page'.rows = page.rows /\ RowsOK(page')
  BY ChartsKept, LoadAsks
<1>2. CASE candles' = candles
  BY <1>1, <1>2 DEF CandlesOK, InSlots
<1>3. ASSUME page' = p, InSlots(candles'),
             NEW s \in Slots, candles'[s] = CandlesRequest(p, initial \/ ~p.loaded, who),
             \A x \in Slots \ {s} : candles'[x] = None
      PROVE  CandlesOK'
  <2> DEFINE r == candles'[s]
  <2>1. /\ DOMAIN r = {"kind", "coin", "interval", "full", "who"}
        /\ r.full = (initial \/ ~p.loaded) /\ r.coin = p.coin /\ r.interval = p.interval
    BY <1>3 DEF CandlesRequest
  <2>2. r.full \in BOOLEAN
    BY <2>1
  <2>3. ~r.full => p.rows = {<<r.coin, r.interval>>}
    BY <1>1, <1>3, <2>1 DEF RowsOK
  <2> HIDE DEF r
  <2> QED
    BY <1>3, <2>1, <2>2, <2>3 DEF CandlesOK, r
<1> QED
  BY <1>1, <1>2, <1>3, LoadAsks

\* The answer that is taken was the only one; what it draws is of one market.
LEMMA DrawnCharts ==
  ASSUME ToldInv, CandlesOK, RowsOK(page), CandlesReturn
  PROVE  CandlesOK' /\ RowsOK(page')
<1>1. PICK s \in Slots :
        /\ candles[s] # None /\ candles' = Done(candles, s)
        /\ \E p \in {Drawn(page, candles[s]), page} :
             page' = IF candles[s].who = "select" THEN renderStatus(p)
                     ELSE Started(p, candles[s].who)
  BY DEF CandlesReturn
<1>2. PICK p \in {Drawn(page, candles[s]), page} :
        page' = IF candles[s].who = "select" THEN renderStatus(p) ELSE Started(p, candles[s].who)
  BY <1>1
<1>3. PageOK(page) /\ PageOK(p)
  BY <1>2, DrawnOK DEF ToldInv, PricedInv
<1>4. RowsOK(Drawn(page, candles[s]))
  <2> DEFINE r == candles[s]
  <2>1. r.full \in BOOLEAN /\ (~r.full => page.rows = {<<r.coin, r.interval>>})
    BY <1>1 DEF CandlesOK
  <2> HIDE DEF r
  <2>2. CASE ~Wanted(page, r)
    BY <2>2 DEF Drawn, r
  <2>3. CASE Wanted(page, r) /\ r.full
    BY <1>3, <2>3 DEF Drawn, Wanted, RowsOK, PageOK, PageFields, r
  <2>4. CASE Wanted(page, r) /\ ~r.full
    <3>1. page.rows \cup {<<r.coin, r.interval>>} = page.rows
      BY <2>1, <2>4
    <3>2. Drawn(page, r) = [page EXCEPT !.rows = page.rows \cup {<<r.coin, r.interval>>}]
      BY <2>4 DEF Drawn
    <3> QED
      BY <1>3, <3>1, <3>2 DEF RowsOK, PageOK, PageFields, r
  <2> QED
    BY <2>1, <2>2, <2>3, <2>4
<1>5. RowsOK(page')
  BY <1>2, <1>3, <1>4, QuietCharts, ChartsKept
<1>6. InSlots(candles') /\ \A x \in Slots : candles'[x] = None
  BY <1>1, DoneOK DEF CandlesOK, Done, InSlots
<1> QED
  BY <1>5, <1>6 DEF CandlesOK

\* A refresh leaves the chart, and a start goes on to load it.
LEMMA RefreshCharts ==
  ASSUME NEW p, NEW who, PageOK(p), refreshStatus(p, who)
  PROVE  Charts(p, page')
BY QuietCharts DEF refreshStatus

\* The status is drawn beside the chart.
LEMMA StatusCharts ==
  ASSUME ChartInv, StatusReturns
  PROVE  CandlesOK' /\ RowsOK(page')
<1>1. PICK s \in Slots :
        /\ statuses[s] # None
        /\ \/ Refreshed(renderStatus([Resumed(page, statuses[s].who) EXCEPT
                                        !.seen = statuses[s].got]), statuses[s].who)
           \/ Refreshed(Resumed(page, statuses[s].who), statuses[s].who)
  BY DEF StatusReturns
<1>2. ASSUME NEW p, PageOK(p), Charts(page, p), Refreshed(p, statuses[s].who)
      PROVE  CandlesOK' /\ RowsOK(page')
  <2>1. CASE statuses[s].who = "start"
    <3>1. Charts(page, Started(p, "start"))
      BY <1>2, QuietCharts DEF Charts
    <3>2. loadCandles(p, TRUE, "start", Started(p, "start"))
      BY <1>2, <2>1 DEF Refreshed
    <3> QED
      BY <1>2, <3>1, <3>2, LoadCharts DEF ChartInv
  <2>2. CASE statuses[s].who # "start"
    <3>1. page' = p /\ candles' = candles
      BY <1>2, <2>2 DEF Refreshed
    <3> QED
      BY <1>2, <3>1, ChartsKept DEF ChartInv, CandlesOK, InSlots
  <2> QED
    BY <2>1, <2>2
<1> DEFINE p == Resumed(page, statuses[s].who)
           q == [p EXCEPT !.seen = statuses[s].got]
<1>3. PageOK(p) /\ Charts(page, p)
  BY ResumedOK, QuietCharts DEF ChartInv, ToldInv, PricedInv
<1>4. PageOK(q) /\ Charts(page, q)
  <2>1. Priced(statuses[s].got.campaign)
    BY <1>1 DEF ChartInv, ToldInv, PricedInv, StatusOK
  <2> HIDE DEF p
  <2> QED
    BY <1>3, <2>1 DEF PageOK, PageFields, Charts
<1> HIDE DEF p, q
<1>5. PageOK(renderStatus(q)) /\ Charts(page, renderStatus(q))
  BY <1>4, RenderOK, QuietCharts DEF Charts
<1> QED
  BY <1>1, <1>2, <1>3, <1>5 DEF p, q

\* A selection counts as not loaded until its own candles have come.
LEMMA SelectionCharts ==
  ASSUME ChartInv, symbolChange \/ intervalChange
  PROVE  CandlesOK' /\ RowsOK(page')
<1>1. ASSUME NEW p, PageOK(p), Charts(page, p), loadCandles(p, TRUE, "select", renderStatus(p))
      PROVE  CandlesOK' /\ RowsOK(page')
  <2>1. Charts(page, renderStatus(p))
    BY <1>1, QuietCharts DEF Charts
  <2> QED
    BY <1>1, <2>1, LoadCharts DEF ChartInv
<1>2. CASE symbolChange
  <2>1. PICK c \in Coins : loadCandles(Selected(c), TRUE, "select", renderStatus(Selected(c)))
    BY <1>2 DEF symbolChange
  <2>2. PageOK(Selected(c)) /\ Charts(page, Selected(c))
    BY SelectedOK DEF Charts, Selected, ChartInv, ToldInv, PricedInv, PageOK, PageFields
  <2> QED
    BY <1>1, <2>1, <2>2
<1>3. CASE intervalChange
  <2>1. PICK i \in Intervals :
          LET p == [page EXCEPT !.interval = i, !.loaded = FALSE]
          IN  loadCandles(p, TRUE, "select", renderStatus(p))
    BY <1>3 DEF intervalChange
  <2> DEFINE p == [page EXCEPT !.interval = i, !.loaded = FALSE]
  <2>2. PageOK(p) /\ Charts(page, p)
    BY DEF Charts, ChartInv, ToldInv, PricedInv, PageOK, PageFields
  <2> HIDE DEF p
  <2> QED
    BY <1>1, <2>1, <2>2 DEF p
<1> QED
  BY <1>2, <1>3

\* Whatever else is done neither asks for candles nor takes any.
LEMMA OtherCharts ==
  ASSUME ChartInv, [Next]_vars, ~StatusReturns, ~candleLoop, ~CandlesReturn,
         ~symbolChange, ~intervalChange
  PROVE  candles' = candles /\ Charts(page, page')
<1>0. PageOK(page) /\ Charts(page, page)
  BY QuietCharts DEF ChartInv, ToldInv, PricedInv
<1>1. CASE EngineMoves \/ ServeStatus \/ ServeCommand \/ UNCHANGED vars
  BY <1>0, <1>1 DEF EngineMoves, ServeStatus, ServeCommand, vars, net
<1>2. CASE statusLoop
  BY <1>0, <1>2, RefreshCharts DEF statusLoop
<1>3. CASE TypePrice \/ previewGalka
  BY <1>0, <1>3 DEF TypePrice, previewGalka, net, Charts, PageOK, PageFields
<1>4. CASE PreviewReturns
  BY <1>0, <1>4 DEF PreviewReturns, PreviewEnded, Charts, PageOK, PageFields
<1>5. CASE closePreview
  BY <1>0, <1>5, QuietCharts DEF closePreview, net
<1>6. CASE confirmLive \/ cancelCampaign \/ emergencyClose \/ reconcileState
  <2>1. candles' = candles
    BY <1>6 DEF confirmLive, cancelCampaign, emergencyClose, reconcileState, Command
  <2>2. page' \in {page, [page EXCEPT !.on.confirm = FALSE], [page EXCEPT !.on.reconcile = FALSE]}
    BY <1>6 DEF confirmLive, cancelCampaign, emergencyClose, reconcileState
  <2> QED
    BY <1>0, <2>1, <2>2 DEF Charts, PageOK, PageFields
<1>7. CASE CommandReturns
  <2>1. PICK s \in Slots :
          LET p == IF commands[s].kind = "campaign" THEN closed(page) ELSE page
          IN  /\ candles' = candles
              /\ \/ refreshStatus(p, Waits(commands[s]))
                 \/ page' = Resumed(page, Waits(commands[s])) /\ UNCHANGED statuses
    BY <1>7 DEF CommandReturns
  <2> DEFINE p == IF commands[s].kind = "campaign" THEN closed(page) ELSE page
  <2>2. PageOK(p) /\ Charts(page, p)
    BY <1>0, ClosedOK, QuietCharts
  <2> HIDE DEF p
  <2>3. CASE refreshStatus(p, Waits(commands[s]))
    BY <2>1, <2>2, <2>3, RefreshCharts DEF Charts
  <2>4. CASE page' = Resumed(page, Waits(commands[s]))
    BY <1>0, <2>1, <2>4, QuietCharts
  <2> QED
    BY <2>1, <2>3, <2>4 DEF p
<1> QED
  BY <1>1, <1>2, <1>3, <1>4, <1>5, <1>6, <1>7 DEF Next

\* At the start the chart is empty and nothing was asked for it.
LEMMA ChartInit == Init => ChartInv
BY ToldInit DEF Init, ChartInv, CandlesOK, RowsOK, InSlots, Quiet

\* Every step keeps the chart to one market.
LEMMA ChartStep == ChartInv /\ [Next]_vars => ChartInv'
<1> SUFFICES ASSUME ChartInv, [Next]_vars PROVE ChartInv'
  OBVIOUS
<1>1. ToldInv'
  BY ToldStep DEF ChartInv
<1>2. CandlesOK' /\ RowsOK(page')
  <2>1. CASE StatusReturns
    BY <2>1, StatusCharts
  <2>2. CASE candleLoop
    <3>1. loadCandles(page, FALSE, "loop", page) /\ Charts(page, page)
      BY <2>2 DEF candleLoop, Charts
    <3> QED
      BY <3>1, LoadCharts DEF ChartInv
  <2>3. CASE CandlesReturn
    BY <2>3, DrawnCharts DEF ChartInv
  <2>4. CASE symbolChange \/ intervalChange
    BY <2>4, SelectionCharts
  <2>5. CASE ~(StatusReturns \/ candleLoop \/ CandlesReturn \/ symbolChange \/ intervalChange)
    <3>1. candles' = candles /\ Charts(page, page')
      BY <2>5, OtherCharts
    <3>2. RowsOK(page') /\ page'.rows = page.rows
      BY <3>1, ChartsKept DEF ChartInv
    <3> QED
      BY <3>1, <3>2 DEF ChartInv, CandlesOK, InSlots
  <2> QED
    BY <2>1, <2>2, <2>3, <2>4, <2>5
<1> QED
  BY <1>1, <1>2 DEF ChartInv

\* The chart never mixes two instruments or intervals, for any number of requests:
\* an answer for what is no longer selected is dropped, and a continuation is asked
\* for only of what is there (loadCandles).
THEOREM ChartOfOneMarket == Spec => []SeriesOfOneMarket
<1>1. ChartInv => SeriesOfOneMarket
  <2> SUFFICES ASSUME ChartInv PROVE SeriesOfOneMarket
    OBVIOUS
  <2>1. Cardinality(page.rows) <= 1
    BY AtMostOne DEF ChartInv, RowsOK
  <2> QED
    BY <2>1 DEF SeriesOfOneMarket, ChartInv, RowsOK
<1> QED
  BY <1>1, ChartInit, ChartStep, PTL DEF Spec

------------------------------------------------------------------------------
(* The modal and the buttons                                                *)

Buttons == {"preview", "input", "cancel", "emergency", "reconcile", "confirm"}

FormOK(p) ==
  /\ p.on \in [Buttons -> BOOLEAN]
  /\ p.modal \in BOOLEAN
  /\ p.modal = TRUE <=> p.pending # None

\* A reconcile is on its way, or the refresh that follows it.
Reconciling(s) == commands[s] # None /\ commands[s].kind = "reconcile"
Reviewing(s)   == statuses[s] # None /\ statuses[s].who = "reconcile"

\* The button is off exactly then, and there is only one of either.
OneReconcile ==
  /\ page.on.reconcile = FALSE <=> \E s \in Slots : Reconciling(s) \/ Reviewing(s)
  /\ \A s, t \in Slots : Reconciling(s) /\ Reconciling(t) => s = t
  /\ \A s, t \in Slots : ~(Reconciling(s) /\ Reviewing(t))

FormInv == ChartInv /\ FormOK(page) /\ OneReconcile

\* From one page to another that leaves the reconcile button alone.
Forms(p, q) == FormOK(q) /\ q.on.reconcile = p.on.reconcile

\* What the page does to itself leaves the reconcile button, unless it is for that
\* button that a refresh ends.
LEMMA QuietForms ==
  ASSUME NEW p, NEW who, NEW r, PageOK(p), FormOK(p)
  PROVE  /\ Forms(p, p) /\ Forms(p, renderStatus(p)) /\ Forms(p, Started(p, who))
         /\ Forms(p, Drawn(p, r)) /\ Forms(p, closed(p)) /\ Forms(p, PreviewEnded(p))
         /\ who # "reconcile" => Forms(p, Resumed(p, who))
         /\ who = "reconcile" => FormOK(Resumed(p, who)) /\ Resumed(p, who).on.reconcile = TRUE
<1> USE DEF Forms, FormOK, PageOK, PageFields, Buttons
<1>1. Forms(p, p)
  OBVIOUS
<1>2. Forms(p, renderStatus(p))
  <2>1. CASE p.seen = NoStatus
    BY <2>1 DEF renderStatus
  <2>2. CASE p.seen # NoStatus
    <3> DEFINE q == renderStatus(p)
    <3>1. q.modal = p.modal /\ q.pending = p.pending
      BY <2>2 DEF renderStatus
    <3>2. q.on \in [Buttons -> BOOLEAN] /\ q.on.reconcile = p.on.reconcile
      BY <2>2 DEF renderStatus, renderCampaignDetails, currentPosition
    <3> QED
      BY <3>1, <3>2
  <2> QED
    BY <2>1, <2>2
<1>3. Forms(p, Started(p, who))
  BY DEF Started
<1>4. Forms(p, Drawn(p, r))
  BY DEF Drawn
<1>5. Forms(p, closed(p))
  BY DEF closed
<1>6. Forms(p, PreviewEnded(p))
  BY DEF PreviewEnded
<1>7. who # "reconcile" => Forms(p, Resumed(p, who))
  BY DEF Resumed
<1>8. who = "reconcile" => FormOK(Resumed(p, who)) /\ Resumed(p, who).on.reconcile = TRUE
  BY DEF Resumed
<1> QED
  BY <1>1, <1>2, <1>3, <1>4, <1>5, <1>6, <1>7, <1>8

\* A step that leaves the reconcile button, and what is on its way for it, alone.
LEMMA ReconcileKept ==
  ASSUME OneReconcile, page'.on.reconcile = page.on.reconcile,
         \A s \in Slots : Reconciling(s)' <=> Reconciling(s),
         \A s \in Slots : Reviewing(s)' <=> Reviewing(s)
  PROVE  OneReconcile'
BY DEF OneReconcile

\* A selection leaves the form but for the price.
LEMMA SelectionForms ==
  ASSUME FormInv, symbolChange \/ intervalChange
  PROVE  Forms(page, page')
<1>0. PageOK(page) /\ FormOK(page)
  BY DEF FormInv, ChartInv, ToldInv, PricedInv
<1>1. ASSUME NEW p, PageOK(p), Forms(page, p), loadCandles(p, TRUE, "select", renderStatus(p))
      PROVE  Forms(page, page')
  <2>1. page' \in {p, renderStatus(p)}
    BY <1>1 DEF loadCandles
  <2>2. Forms(p, renderStatus(p))
    BY <1>1, QuietForms DEF Forms
  <2> QED
    BY <1>1, <2>1, <2>2 DEF Forms
<1>2. CASE symbolChange
  <2>1. PICK c \in Coins : loadCandles(Selected(c), TRUE, "select", renderStatus(Selected(c)))
    BY <1>2 DEF symbolChange
  <2>2. PageOK(Selected(c)) /\ Forms(page, Selected(c))
    BY <1>0, SelectedOK DEF Forms, FormOK, Selected, PageOK, PageFields
  <2> QED
    BY <1>1, <2>1, <2>2
<1>3. CASE intervalChange
  <2>1. PICK i \in Intervals :
          LET p == [page EXCEPT !.interval = i, !.loaded = FALSE]
          IN  loadCandles(p, TRUE, "select", renderStatus(p))
    BY <1>3 DEF intervalChange
  <2> DEFINE p == [page EXCEPT !.interval = i, !.loaded = FALSE]
  <2>2. PageOK(p) /\ Forms(page, p)
    BY <1>0 DEF Forms, FormOK, PageOK, PageFields
  <2> HIDE DEF p
  <2> QED
    BY <1>1, <2>1, <2>2 DEF p
<1> QED
  BY <1>2, <1>3

\* Candles, previews and prices leave the reconcile button.
LEMMA OtherForms ==
  ASSUME FormInv,
         CandlesReturn \/ candleLoop \/ TypePrice \/ previewGalka \/ PreviewReturns \/ closePreview
           \/ confirmLive \/ cancelCampaign \/ emergencyClose
  PROVE  Forms(page, page')
<1>0. PageOK(page) /\ FormOK(page) /\ Forms(page, page)
  BY QuietForms DEF FormInv, ChartInv, ToldInv, PricedInv
<1>1. CASE CandlesReturn
  <2>1. PICK s \in Slots :
          \E p \in {Drawn(page, candles[s]), page} :
            page' = IF candles[s].who = "select" THEN renderStatus(p)
                    ELSE Started(p, candles[s].who)
    BY <1>1 DEF CandlesReturn
  <2>2. PICK p \in {Drawn(page, candles[s]), page} :
          page' = IF candles[s].who = "select" THEN renderStatus(p)
                  ELSE Started(p, candles[s].who)
    BY <2>1
  <2>3. PageOK(p) /\ Forms(page, p)
    BY <1>0, <2>2, DrawnOK, QuietForms
  <2> QED
    BY <2>2, <2>3, QuietForms DEF Forms
<1>2. CASE candleLoop
  BY <1>0, <1>2 DEF candleLoop, loadCandles
<1>3. CASE TypePrice \/ previewGalka \/ confirmLive
  <2> USE DEF Forms, FormOK, Buttons, PageOK, PageFields
  <2>1. CASE TypePrice
    BY <1>0, <2>1 DEF TypePrice
  <2>2. CASE previewGalka
    BY <1>0, <2>2 DEF previewGalka
  <2>3. CASE confirmLive
    BY <1>0, <2>3 DEF confirmLive
  <2> QED
    BY <1>3, <2>1, <2>2, <2>3
<1>4. CASE PreviewReturns
  <2>1. PICK s \in Slots :
          /\ previews[s] # None
          /\ \/ page' = PreviewEnded([page EXCEPT !.pending = previews[s], !.modal = TRUE,
                                                  !.on.confirm = page.seen.halt # "safe"])
             \/ page' = PreviewEnded(page)
    BY <1>4 DEF PreviewReturns
  <2> DEFINE p == [page EXCEPT !.pending = previews[s], !.modal = TRUE,
                               !.on.confirm = page.seen.halt # "safe"]
  <2>2. PageOK(p)
    BY <1>0, <2>1 DEF FormInv, ChartInv, ToldInv, PricedInv, PreviewOK, PageOK, PageFields
  <2>3. Forms(page, p)
    BY <1>0, <2>1 DEF Forms, FormOK, Buttons, PageOK, PageFields
  <2> HIDE DEF p
  <2>4. Forms(p, PreviewEnded(p)) /\ Forms(page, PreviewEnded(page))
    BY <1>0, <2>2, <2>3, QuietForms DEF Forms
  <2>5. page' \in {PreviewEnded(p), PreviewEnded(page)}
    BY <2>1 DEF p
  <2> QED
    BY <2>3, <2>4, <2>5 DEF Forms
<1>5. CASE closePreview
  BY <1>0, <1>5, QuietForms DEF closePreview
<1>6. CASE cancelCampaign \/ emergencyClose
  BY <1>0, <1>6 DEF cancelCampaign, emergencyClose
<1> QED
  BY <1>1, <1>2, <1>3, <1>4, <1>5, <1>6

\* A refresh that is not for the reconcile button leaves it alone.
LEMMA RefreshForms ==
  ASSUME FormInv, NEW p, NEW who, who # "reconcile", PageOK(p), Forms(page, p),
         refreshStatus(p, who)
  PROVE  Forms(page, page') /\ \A s \in Slots : Reviewing(s)' <=> Reviewing(s)
<1>1. CASE statusBusy
  <2>1. page' = Resumed(p, who) /\ statuses' = statuses
    BY <1>1 DEF refreshStatus
  <2>2. Forms(p, Resumed(p, who))
    BY QuietForms DEF Forms
  <2> QED
    BY <2>1, <2>2 DEF Forms, Reviewing
<1>2. CASE ~statusBusy
  <2>1. page' = p /\ statuses' = Send(statuses, StatusRequest(who))
    BY <1>2 DEF refreshStatus
  <2>2. \A s \in Slots : statuses[s] = None
    BY <1>2 DEF statusBusy, Busy
  <2>3. \A s \in Slots : statuses'[s] \in {None, StatusRequest(who)}
    BY <2>1, <2>2, SendOK DEF FormInv, ChartInv, ToldInv, PricedInv
  <2>4. StatusRequest(who).who = who
    BY DEF StatusRequest
  <2> QED
    BY <2>1, <2>2, <2>3, <2>4 DEF Reviewing
<1> QED
  BY <1>1, <1>2

\* When the only refresh ends, none is left, and the button it was for is back.
LEMMA StatusForms ==
  ASSUME FormInv, StatusReturns
  PROVE  FormOK(page') /\ OneReconcile'
<1>1. PICK s \in Slots :
        /\ statuses[s] # None /\ statuses' = Done(statuses, s) /\ commands' = commands
        /\ \/ Refreshed(renderStatus([Resumed(page, statuses[s].who) EXCEPT
                                        !.seen = statuses[s].got]), statuses[s].who)
           \/ Refreshed(Resumed(page, statuses[s].who), statuses[s].who)
  BY DEF StatusReturns
<1> DEFINE who == statuses[s].who
           p == Resumed(page, who)
           q == [p EXCEPT !.seen = statuses[s].got]
<1>2. PageOK(page) /\ FormOK(page) /\ OneStatus /\ InSlots(statuses)
  BY DEF FormInv, ChartInv, ToldInv, PricedInv
<1>3. \A x \in Slots : ~Reviewing(x)'
  BY <1>1, <1>2, DoneOK DEF OneStatus, Done, InSlots, Reviewing
<1>4. \A x \in Slots : Reviewing(x) => x = s /\ who = "reconcile"
  BY <1>1, <1>2 DEF OneStatus, Reviewing
<1>5. PageOK(p) /\ FormOK(p)
  BY <1>2, ResumedOK, QuietForms DEF Forms
<1>6. p.on.reconcile = IF who = "reconcile" THEN TRUE ELSE page.on.reconcile
  BY <1>2, QuietForms DEF Forms
<1>7. PageOK(q) /\ Forms(p, q)
  <2>1. Priced(statuses[s].got.campaign)
    BY <1>1 DEF FormInv, ChartInv, ToldInv, PricedInv, StatusOK
  <2> HIDE DEF p
  <2> QED
    BY <1>5, <2>1 DEF PageOK, PageFields, Forms, FormOK, Buttons
<1> HIDE DEF p, q
<1>8. ASSUME NEW r, PageOK(r), FormOK(r), Refreshed(r, who)
      PROVE  Forms(r, page')
  <2>1. page' \in {r, Started(r, "start")}
    BY <1>8 DEF Refreshed, loadCandles
  <2>2. Forms(r, r) /\ Forms(r, Started(r, "start"))
    BY <1>8, QuietForms
  <2> QED
    BY <2>1, <2>2
<1>9. FormOK(page') /\ page'.on.reconcile = p.on.reconcile
  <2>1. PageOK(renderStatus(q)) /\ Forms(q, renderStatus(q)) /\ FormOK(q)
    BY <1>7, RenderOK, QuietForms DEF Forms
  <2>2. CASE Refreshed(renderStatus(q), who)
    <3>1. Forms(renderStatus(q), page')
      BY <1>8, <2>1, <2>2 DEF Forms
    <3> QED
      BY <1>7, <2>1, <3>1 DEF Forms
  <2>3. CASE Refreshed(p, who)
    BY <1>5, <1>8, <2>3 DEF Forms
  <2> QED
    BY <1>1, <2>2, <2>3 DEF p, q
<1> HIDE DEF who
<1>10. \A x \in Slots : Reconciling(x)' <=> Reconciling(x)
  BY <1>1 DEF Reconciling
<1>11. CASE who = "reconcile"
  <2>1. page'.on.reconcile = TRUE
    BY <1>6, <1>9, <1>11
  <2>2. Reviewing(s)
    BY <1>1, <1>11 DEF Reviewing, who
  <2> QED
    BY <1>3, <1>9, <1>10, <2>1, <2>2 DEF FormInv, OneReconcile
<1>12. CASE who # "reconcile"
  <2>1. page'.on.reconcile = page.on.reconcile /\ \A x \in Slots : ~Reviewing(x)
    BY <1>4, <1>6, <1>9, <1>12
  <2> QED
    BY <1>3, <1>9, <1>10, <2>1 DEF FormInv, OneReconcile
<1> QED
  BY <1>11, <1>12

\* A command is one more on its way; whatever it is, the others stay.
LEMMA CommandAmong ==
  ASSUME FormInv, NEW kind, NEW c, NEW price, Command(kind, c, price)
  PROVE  \E s \in Slots : /\ ~Reconciling(s)
                          /\ Reconciling(s)' <=> kind = "reconcile"
                          /\ \A x \in Slots \ {s} : Reconciling(x)' <=> Reconciling(x)
                          /\ \A x \in Slots : Reviewing(x)' <=> Reviewing(x)
<1> DEFINE r == [kind |-> kind, coin |-> c, price |-> price, answer |-> "none"]
<1>1. Free(commands) # {} /\ commands' = Send(commands, r) /\ statuses' = statuses
  BY DEF Command
<1>2. r # None /\ r.kind = kind
  BY DEF None
<1> HIDE DEF r
<1>3. InSlots(commands)
  BY DEF FormInv, ChartInv, ToldInv, PricedInv
<1>4. PICK s \in Slots : /\ commands[s] = None /\ commands'[s] = r
                         /\ \A x \in Slots \ {s} : commands'[x] = commands[x]
  BY <1>1, <1>3, SentAmong
<1> QED
  BY <1>1, <1>2, <1>4 DEF Reconciling, Reviewing

\* The reconcile button goes off with its command; the others leave it.
LEMMA CommandForms ==
  ASSUME FormInv, confirmLive \/ cancelCampaign \/ emergencyClose \/ reconcileState
  PROVE  FormOK(page') /\ OneReconcile'
<1>1. CASE confirmLive \/ cancelCampaign \/ emergencyClose
  <2>1. PICK kind \in {"campaign", "cancel", "emergency"} :
          \E c, price : Command(kind, c, price)
    BY <1>1 DEF confirmLive, cancelCampaign, emergencyClose
  <2>2. \A x \in Slots : (Reconciling(x)' <=> Reconciling(x)) /\ (Reviewing(x)' <=> Reviewing(x))
    BY <2>1, CommandAmong
  <2>3. Forms(page, page')
    BY <1>1, OtherForms
  <2> QED
    BY <2>2, <2>3, ReconcileKept DEF Forms, FormInv
<1>2. CASE reconcileState
  <2>1. /\ page.on.reconcile /\ page' = [page EXCEPT !.on.reconcile = FALSE]
        /\ Command("reconcile", "none", NoPrice)
    BY <1>2 DEF reconcileState
  <2>2. FormOK(page') /\ page'.on.reconcile = FALSE
    BY <2>1 DEF FormInv, ChartInv, ToldInv, PricedInv, PageOK, PageFields, FormOK, Buttons
  <2>3. page.on.reconcile = TRUE
    BY <2>1 DEF FormInv, FormOK, Buttons
  <2>4. \A x \in Slots : ~Reconciling(x) /\ ~Reviewing(x)
    BY <2>3 DEF FormInv, OneReconcile
  <2>5. PICK s \in Slots : /\ Reconciling(s)'
                           /\ \A x \in Slots \ {s} : ~Reconciling(x)'
                           /\ \A x \in Slots : ~Reviewing(x)'
    BY <2>1, <2>4, CommandAmong
  <2> QED
    BY <2>2, <2>5 DEF OneReconcile
<1> QED
  BY <1>1, <1>2

\* A command that comes back frees its button at once, or leaves that to the refresh.
LEMMA AnswerForms ==
  ASSUME FormInv, CommandReturns
  PROVE  FormOK(page') /\ OneReconcile'
<1>1. PICK s \in Slots :
        LET p == IF commands[s].kind = "campaign" THEN closed(page) ELSE page
        IN  /\ commands[s] # None /\ commands' = Done(commands, s)
            /\ \/ refreshStatus(p, Waits(commands[s]))
               \/ page' = Resumed(page, Waits(commands[s])) /\ UNCHANGED statuses
  BY DEF CommandReturns
<1> DEFINE p == IF commands[s].kind = "campaign" THEN closed(page) ELSE page
           who == Waits(commands[s])
<1>2. PageOK(page) /\ FormOK(page) /\ InSlots(commands) /\ CommandOK(commands[s])
  BY DEF FormInv, ChartInv, ToldInv, PricedInv
<1>3. PageOK(p) /\ Forms(page, p)
  BY <1>2, ClosedOK, QuietForms
<1>4. who = "reconcile" <=> Reconciling(s)
  BY <1>1, <1>2 DEF Waits, Reconciling, CommandOK
<1>5. ~Reconciling(s)' /\ \A x \in Slots \ {s} : Reconciling(x)' <=> Reconciling(x)
  BY <1>1, <1>2 DEF Done, InSlots, Reconciling
<1>6. refreshStatus(p, who) \/ (page' = Resumed(page, who) /\ statuses' = statuses)
  BY <1>1
<1> HIDE DEF p, who
<1>7. CASE who # "reconcile"
  <2>1. Forms(page, page') /\ \A x \in Slots : Reviewing(x)' <=> Reviewing(x)
    <3>1. CASE refreshStatus(p, who)
      BY <1>3, <1>7, <3>1, RefreshForms
    <3>2. CASE page' = Resumed(page, who) /\ statuses' = statuses
      BY <1>2, <1>7, <3>2, QuietForms DEF Reviewing
    <3> QED
      BY <1>6, <3>1, <3>2
  <2>2. \A x \in Slots : Reconciling(x)' <=> Reconciling(x)
    BY <1>4, <1>5, <1>7
  <2> QED
    BY <2>1, <2>2, ReconcileKept DEF Forms, FormInv
<1>8. CASE who = "reconcile"
  <2>1. Reconciling(s)
    BY <1>4, <1>8
  <2>2. (\A x \in Slots : ~Reconciling(x)') /\ \A x \in Slots : ~Reviewing(x)
    BY <1>5, <2>1 DEF FormInv, OneReconcile
  <2>3. page.on.reconcile = FALSE
    BY <2>1 DEF FormInv, OneReconcile
  <2>4. ASSUME page' \in {Resumed(p, who), Resumed(page, who)}, statuses' = statuses
        PROVE  FormOK(page') /\ OneReconcile'
    <3>1. FormOK(page') /\ page'.on.reconcile = TRUE
      <4>1. ASSUME NEW q, PageOK(q), FormOK(q)
            PROVE  FormOK(Resumed(q, who)) /\ Resumed(q, who).on.reconcile = TRUE
        BY <1>8, <4>1, QuietForms
      <4> QED
        BY <1>2, <1>3, <2>4, <4>1 DEF Forms
    <3>2. \A x \in Slots : ~Reviewing(x)'
      BY <2>2, <2>4 DEF Reviewing
    <3> QED
      BY <2>2, <3>1, <3>2 DEF OneReconcile
  <2>5. ASSUME ~statusBusy, page' = p, statuses' = Send(statuses, StatusRequest(who))
        PROVE  FormOK(page') /\ OneReconcile'
    <3>1. InSlots(statuses) /\ ~Busy(statuses)
      BY <2>5 DEF FormInv, ChartInv, ToldInv, PricedInv, statusBusy
    <3>2. PICK x \in Slots : /\ statuses'[x] = StatusRequest(who)
                             /\ \A y \in Slots \ {x} : statuses'[y] = None
      BY <2>5, <3>1, SentAlone
    <3>3. Reviewing(x)'
      BY <1>8, <3>2 DEF Reviewing, StatusRequest, None
    <3> QED
      BY <1>3, <2>2, <2>3, <2>5, <3>3 DEF Forms, OneReconcile
  <2> QED
    BY <1>6, <2>4, <2>5 DEF refreshStatus
<1> QED
  BY <1>7, <1>8

\* At the start the button is on, and nothing was asked on its behalf.
LEMMA FormInit == Init => FormInv
<1> SUFFICES ASSUME Init PROVE FormInv
  OBVIOUS
<1>1. FormOK(page)
  <2>1. page.modal = FALSE /\ page.pending = None
    BY DEF Init
  <2>2. page.on = [preview |-> TRUE, input |-> TRUE, cancel |-> TRUE, emergency |-> TRUE,
                   reconcile |-> TRUE, confirm |-> TRUE]
    BY DEF Init
  <2>3. DOMAIN page.on = Buttons /\ page.on = [b \in DOMAIN page.on |-> page.on[b]]
    BY <2>2 DEF Buttons
  <2>4. /\ page.on.preview = TRUE /\ page.on.input = TRUE /\ page.on.cancel = TRUE
        /\ page.on.emergency = TRUE /\ page.on.reconcile = TRUE /\ page.on.confirm = TRUE
    BY <2>2
  <2>5. \A b \in Buttons : page.on[b] \in BOOLEAN
    BY <2>4 DEF Buttons
  <2>6. page.on \in [Buttons -> BOOLEAN]
    BY <2>3, <2>5
  <2> QED
    BY <2>1, <2>6 DEF FormOK
<1>2. \A s \in Slots : ~Reconciling(s)
  BY DEF Init, Quiet, Reconciling
<1>3. \A s \in Slots : statuses[s] \in {None, StatusRequest("start")}
  BY SendOK DEF Init, Quiet, InSlots
<1>4. \A s \in Slots : ~Reviewing(s)
  BY <1>3 DEF Reviewing, StatusRequest
<1>5. page.on.reconcile = TRUE
  BY DEF Init
<1> QED
  BY <1>1, <1>2, <1>4, <1>5, ChartInit DEF FormInv, OneReconcile

\* Every step keeps the modal with its preview and the button with its reconcile.
LEMMA FormStep == FormInv /\ [Next]_vars => FormInv'
<1> SUFFICES ASSUME FormInv, [Next]_vars PROVE FormInv'
  OBVIOUS
<1>1. ChartInv'
  BY ChartStep DEF FormInv
<1>2. FormOK(page') /\ OneReconcile'
  <2>0. PageOK(page) /\ FormOK(page) /\ OneReconcile /\ Forms(page, page) /\ InSlots(commands)
    BY QuietForms DEF FormInv, ChartInv, ToldInv, PricedInv
  <2>1. CASE EngineMoves \/ UNCHANGED vars
    BY <2>0, <2>1 DEF EngineMoves, vars, net, OneReconcile, Reconciling, Reviewing
  <2>2. CASE ServeStatus
    <3>1. PICK s \in Slots : /\ statuses[s] # None /\ page' = page /\ commands' = commands
                             /\ statuses' = [statuses EXCEPT ![s].got = engine]
      BY <2>2 DEF ServeStatus
    <3>2. InSlots(statuses) /\ DOMAIN statuses[s] = {"kind", "who", "got"}
      BY <3>1 DEF FormInv, ChartInv, ToldInv, PricedInv, StatusOK
    <3>3. /\ statuses'[s].who = statuses[s].who /\ DOMAIN statuses'[s] = {"kind", "who", "got"}
          /\ \A x \in Slots \ {s} : statuses'[x] = statuses[x]
      BY <3>1, <3>2 DEF InSlots
    <3>4. \A x \in Slots : (Reviewing(x)' <=> Reviewing(x)) /\ (Reconciling(x)' <=> Reconciling(x))
      BY <3>1, <3>3 DEF Reviewing, Reconciling, None
    <3> QED
      BY <2>0, <3>1, <3>4, ReconcileKept
  <2>3. CASE ServeCommand
    <3>1. PICK s \in Slots :
            /\ commands[s] # None /\ page' = page /\ statuses' = statuses
            /\ commands' = [commands EXCEPT ![s].answer =
                              IF Accepts(engine, commands[s]) THEN "ok" ELSE "refused"]
      BY <2>3 DEF ServeCommand
    <3>2. DOMAIN commands[s] = {"kind", "coin", "price", "answer"}
      BY <3>1 DEF FormInv, ChartInv, ToldInv, PricedInv, CommandOK
    <3>3. /\ commands'[s].kind = commands[s].kind
          /\ DOMAIN commands'[s] = {"kind", "coin", "price", "answer"}
          /\ \A x \in Slots \ {s} : commands'[x] = commands[x]
      BY <2>0, <3>1, <3>2 DEF InSlots
    <3>4. \A x \in Slots : (Reviewing(x)' <=> Reviewing(x)) /\ (Reconciling(x)' <=> Reconciling(x))
      BY <3>1, <3>3 DEF Reviewing, Reconciling, None
    <3> QED
      BY <2>0, <3>1, <3>4, ReconcileKept
  <2>4. CASE statusLoop
    <3>1. /\ refreshStatus(page, "loop")
          /\ \A s \in Slots : Reconciling(s)' <=> Reconciling(s)
      BY <2>4 DEF statusLoop, Reconciling
    <3> QED
      BY <2>0, <3>1, RefreshForms, ReconcileKept DEF Forms
  <2>5. CASE StatusReturns
    BY <2>5, StatusForms
  <2>6. CASE CommandReturns
    BY <2>6, AnswerForms
  <2>7. CASE confirmLive \/ cancelCampaign \/ emergencyClose \/ reconcileState
    BY <2>7, CommandForms
  <2>8. CASE symbolChange \/ intervalChange \/ CandlesReturn \/ candleLoop \/ TypePrice
               \/ previewGalka \/ PreviewReturns \/ closePreview
    <3>1. statuses' = statuses /\ commands' = commands
      BY <2>8 DEF symbolChange, intervalChange, CandlesReturn, candleLoop, TypePrice,
                  previewGalka, PreviewReturns, closePreview, net
    <3>2. Forms(page, page')
      BY <2>8, SelectionForms, OtherForms
    <3> QED
      BY <2>0, <3>1, <3>2, ReconcileKept DEF Forms, Reconciling, Reviewing
  <2> QED
    BY <2>1, <2>2, <2>3, <2>4, <2>5, <2>6, <2>7, <2>8 DEF Next
<1> QED
  BY <1>1, <1>2 DEF FormInv

\* What is not free.
LEMMA Taken == ASSUME NEW f PROVE \A s \in Slots \ Free(f) : f[s] # None
BY DEF Free

\* For any number of slots there is never a second refresh or load, the modal is open
\* exactly while a preview waits, and the reconcile button is off exactly while a
\* reconcile or its refresh is under way (refreshStatus, loadCandles, reconcileState).
THEOREM OneOfEach == Spec => []LiveClientTypeOK
<1>1. FormInv => LiveClientTypeOK
  <2> SUFFICES ASSUME FormInv PROVE LiveClientTypeOK
    OBVIOUS
  <2>1. Cardinality(Slots \ Free(statuses)) <= 1
    BY Taken, AtMostOne DEF FormInv, ChartInv, ToldInv, OneStatus
  <2>2. Cardinality(Slots \ Free(candles)) <= 1
    BY Taken, AtMostOne DEF FormInv, ChartInv, CandlesOK
  <2>3. page.modal = (page.pending # None)
    BY DEF FormInv, FormOK
  <2>4. page.seen.version <= engine.version
    BY DEF FormInv, ChartInv, ToldInv, VersionsOrdered
  <2>5. ~page.on.reconcile <=> \/ \E s \in Slots : commands[s].kind = "reconcile"
                               \/ \E s \in Slots : statuses[s] # None /\ statuses[s].who = "reconcile"
    <3>1. page.on.reconcile \in BOOLEAN
      BY DEF FormInv, FormOK, Buttons
    <3>2. \A s \in Slots : commands[s].kind = "reconcile" <=> Reconciling(s)
      BY DEF Reconciling, None
    <3> QED
      BY <3>1, <3>2 DEF FormInv, OneReconcile, Reviewing
  <2> QED
    BY <2>1, <2>2, <2>3, <2>4, <2>5 DEF LiveClientTypeOK
<1> QED
  BY <1>1, FormInit, FormStep, PTL DEF Spec

------------------------------------------------------------------------------
(* What is drawn                                                            *)

\* The buttons in the details are those of the campaign and the position that were
\* drawn there; nothing drawn says nothing.
DetailsOK(p) ==
  p.details # <<>> =>
    /\ p.on.cancel = TRUE <=> (p.details[1].status = "waiting" /\ ~p.details[2])
    /\ p.on.emergency = TRUE <=> p.details[2]

\* All that is drawn is of the last status and the selected coin.
Fits(p) ==
  p.seen # NoStatus =>
    /\ p.details = detailsSignature(p) /\ p.lines = currentCampaign(p)
    /\ p.on.preview = TRUE => /\ currentCampaign(p) = NoCampaign
                              /\ p.seen.halt = "no" \/ (p.reopened = TRUE /\ p.seen.halt # "safe")
    /\ p.on.input = TRUE <=> (currentCampaign(p) = NoCampaign /\ p.seen.halt = "no")

FitInv == FormInv /\ DetailsOK(page) /\ (~Selecting => Fits(page))

\* From one page to another that draws nothing: the button of the preview may come
\* back, as the last status allows.
Shows(p, q) ==
  /\ q.coin = p.coin /\ q.seen = p.seen /\ q.details = p.details /\ q.lines = p.lines
  /\ q.on.cancel = p.on.cancel /\ q.on.emergency = p.on.emergency /\ q.on.input = p.on.input
  /\ q.on.preview = TRUE =>
       \/ p.on.preview = TRUE /\ q.reopened = p.reopened
       \/ /\ currentCampaign(p) = NoCampaign
          /\ p.seen.halt = "no" \/ (q.reopened = TRUE /\ p.seen.halt # "safe")

\* What is drawn stays as right as it was.
LEMMA ShowsKept ==
  ASSUME NEW p, NEW q, Shows(p, q), DetailsOK(p)
  PROVE  DetailsOK(q) /\ (Fits(p) => Fits(q))
<1>1. DetailsOK(q)
  BY DEF Shows, DetailsOK
<1>2. currentCampaign(q) = currentCampaign(p) /\ detailsSignature(q) = detailsSignature(p)
  BY DEF Shows, currentCampaign, detailsSignature, currentPosition
<1>3. Fits(p) => Fits(q)
  BY <1>2 DEF Shows, Fits
<1> QED
  BY <1>1, <1>3

\* Drawing makes everything fit, whether the details are drawn again or found to be
\* the same.
LEMMA RenderFits ==
  ASSUME NEW p, PageOK(p), FormOK(p), DetailsOK(p)
  PROVE  DetailsOK(renderStatus(p)) /\ Fits(renderStatus(p))
<1>1. CASE p.seen = NoStatus
  BY <1>1 DEF renderStatus, Fits
<1>2. CASE p.seen # NoStatus
  <2> DEFINE q == renderStatus(p)
             c == currentCampaign(p)
             h == currentPosition(p)
             same == detailsSignature(p) = p.details
  <2>1. /\ q.coin = p.coin /\ q.seen = p.seen
        /\ q.details = detailsSignature(p) /\ q.lines = c
    BY <1>2 DEF renderStatus, PageOK, PageFields
  <2>2. /\ q.on.preview = (c = NoCampaign /\ p.seen.halt = "no")
        /\ q.on.input = (c = NoCampaign /\ p.seen.halt = "no")
        /\ q.on.cancel = IF same THEN p.on.cancel ELSE (c.status = "waiting" /\ ~h)
        /\ q.on.emergency = IF same THEN p.on.emergency ELSE h
    BY <1>2 DEF renderStatus, renderCampaignDetails, PageOK, PageFields, FormOK, Buttons
  <2>3. currentCampaign(q) = c /\ currentPosition(q) = h /\ detailsSignature(q) = detailsSignature(p)
    BY <2>1 DEF currentCampaign, currentPosition, detailsSignature
  <2>4. Fits(q)
    BY <2>1, <2>2, <2>3 DEF Fits
  <2>5. q.details[1] = c /\ (q.details[2] <=> h)
    BY <2>1 DEF detailsSignature
  <2>6. same => (p.on.cancel = TRUE <=> (c.status = "waiting" /\ ~h)) /\ (p.on.emergency = TRUE <=> h)
    <3> SUFFICES ASSUME same
                 PROVE  (p.on.cancel = TRUE <=> (c.status = "waiting" /\ ~h)) /\ (p.on.emergency = TRUE <=> h)
      OBVIOUS
    <3>1. p.details = <<c, h>>
      BY DEF detailsSignature
    <3> HIDE DEF c, h
    <3>2. p.details # <<>>
      BY <3>1
    <3>3. p.details[1] = c
      BY <3>1
    <3>4. p.details[2] = h
      BY <3>1
    <3> QED
      BY <3>2, <3>3, <3>4 DEF DetailsOK
  <2>7. DetailsOK(q)
    BY <2>2, <2>5, <2>6 DEF DetailsOK
  <2> QED
    BY <2>4, <2>7
<1> QED
  BY <1>1, <1>2

\* What the page does to itself without drawing.
LEMMA QuietShows ==
  ASSUME NEW p, NEW who, NEW r, PageOK(p), FormOK(p)
  PROVE  /\ Shows(p, p) /\ Shows(p, Resumed(p, who)) /\ Shows(p, Started(p, who))
         /\ Shows(p, Drawn(p, r)) /\ Shows(p, closed(p)) /\ Shows(p, PreviewEnded(p))
<1> USE DEF Shows, PageOK, PageFields, FormOK, Buttons
<1>1. Shows(p, p)
  OBVIOUS
<1>2. Shows(p, Resumed(p, who))
  BY DEF Resumed
<1>3. Shows(p, Started(p, who))
  BY DEF Started
<1>4. Shows(p, Drawn(p, r))
  BY DEF Drawn
<1>5. Shows(p, closed(p))
  BY DEF closed
<1>6. Shows(p, PreviewEnded(p))
  BY DEF PreviewEnded
<1> QED
  BY <1>1, <1>2, <1>3, <1>4, <1>5, <1>6

\* A load that does not belong to a selection hides none that does.
LEMMA LoadSelects ==
  ASSUME CandlesOK, NEW p, NEW initial, NEW who, NEW then, loadCandles(p, initial, who, then)
  PROVE  /\ page' \in {p, then}
         /\ Selecting => Selecting'
         /\ who = "select" => Selecting' \/ page' = then
<1>1. CASE page' = then /\ candles' = candles
  BY <1>1 DEF Selecting
<1>2. ASSUME page' = p, \A s \in Slots : candles[s] = None,
             NEW s \in Slots, candles'[s] = CandlesRequest(p, initial \/ ~p.loaded, who)
      PROVE  /\ page' \in {p, then}
             /\ Selecting => Selecting'
             /\ who = "select" => Selecting' \/ page' = then
  <2>1. ~Selecting
    BY <1>2 DEF Selecting
  <2>2. candles'[s] # None /\ candles'[s].who = who
    BY <1>2 DEF CandlesRequest, None
  <2> QED
    BY <1>2, <2>1, <2>2 DEF Selecting
<1> QED
  BY <1>1, <1>2, LoadAsks

\* A page that shows what the last one showed keeps what fits.
LEMMA FitsOn ==
  ASSUME FitInv, Shows(page, page'), Selecting => Selecting'
  PROVE  DetailsOK(page') /\ (~Selecting' => Fits(page'))
BY ShowsKept DEF FitInv

\* A selection is drawn when its candles have come, or at once.
LEMMA SelectionFits ==
  ASSUME FitInv, symbolChange \/ intervalChange
  PROVE  DetailsOK(page') /\ (~Selecting' => Fits(page'))
<1>0. PageOK(page) /\ FormOK(page) /\ DetailsOK(page) /\ CandlesOK
  BY DEF FitInv, FormInv, ChartInv, ToldInv, PricedInv
<1>1. ASSUME NEW p, PageOK(p), FormOK(p), DetailsOK(p),
             loadCandles(p, TRUE, "select", renderStatus(p))
      PROVE  DetailsOK(page') /\ (~Selecting' => Fits(page'))
  <2>1. page' \in {p, renderStatus(p)} /\ (Selecting' \/ page' = renderStatus(p))
    BY <1>0, <1>1, LoadSelects
  <2>2. DetailsOK(renderStatus(p)) /\ Fits(renderStatus(p))
    BY <1>1, RenderFits
  <2> QED
    BY <1>1, <2>1, <2>2
<1>2. CASE symbolChange
  <2>1. PICK c \in Coins : loadCandles(Selected(c), TRUE, "select", renderStatus(Selected(c)))
    BY <1>2 DEF symbolChange
  <2>2. PageOK(Selected(c))
    BY <1>0, SelectedOK
  <2>3. FormOK(Selected(c)) /\ Selected(c).details = <<>>
    BY <1>0 DEF Selected, FormOK, PageOK, PageFields
  <2> QED
    BY <1>1, <2>1, <2>2, <2>3 DEF DetailsOK
<1>3. CASE intervalChange
  <2>1. PICK i \in Intervals :
          LET p == [page EXCEPT !.interval = i, !.loaded = FALSE]
          IN  loadCandles(p, TRUE, "select", renderStatus(p))
    BY <1>3 DEF intervalChange
  <2> DEFINE p == [page EXCEPT !.interval = i, !.loaded = FALSE]
  <2>2. PageOK(p) /\ FormOK(p) /\ p.details = page.details /\ p.on = page.on
    BY <1>0 DEF FormOK, PageOK, PageFields
  <2>3. DetailsOK(p)
    BY <1>0, <2>2 DEF DetailsOK
  <2> HIDE DEF p
  <2> QED
    BY <1>1, <2>1, <2>2, <2>3 DEF p
<1> QED
  BY <1>2, <1>3

\* The candles of a selection draw what is selected; other candles draw nothing.
LEMMA CandlesFit ==
  ASSUME FitInv, CandlesReturn
  PROVE  DetailsOK(page') /\ (~Selecting' => Fits(page'))
<1>0. PageOK(page) /\ FormOK(page) /\ DetailsOK(page) /\ CandlesOK
  BY DEF FitInv, FormInv, ChartInv, ToldInv, PricedInv
<1>1. PICK s \in Slots :
        /\ candles[s] # None
        /\ \E p \in {Drawn(page, candles[s]), page} :
             page' = IF candles[s].who = "select" THEN renderStatus(p)
                     ELSE Started(p, candles[s].who)
  BY DEF CandlesReturn
<1>2. PICK p \in {Drawn(page, candles[s]), page} :
        page' = IF candles[s].who = "select" THEN renderStatus(p) ELSE Started(p, candles[s].who)
  BY <1>1
<1>3. PageOK(p) /\ FormOK(p) /\ Shows(page, p)
  BY <1>0, <1>2, DrawnOK, QuietForms, QuietShows DEF Forms
<1>4. DetailsOK(p) /\ (Fits(page) => Fits(p))
  BY <1>0, <1>3, ShowsKept
<1>5. CASE candles[s].who = "select"
  BY <1>2, <1>3, <1>4, <1>5, RenderFits
<1>6. CASE candles[s].who # "select"
  <2>1. ~Selecting
    BY <1>0, <1>1, <1>6 DEF Selecting, CandlesOK
  <2>2. Fits(p)
    BY <1>4, <2>1 DEF FitInv
  <2>3. page' = Started(p, candles[s].who) /\ Shows(p, Started(p, candles[s].who))
    BY <1>2, <1>3, <1>6, QuietShows
  <2> QED
    BY <1>4, <2>2, <2>3, ShowsKept
<1> QED
  BY <1>5, <1>6

\* A status that arrives is drawn; one that does not leaves what is drawn.
LEMMA StatusFits ==
  ASSUME FitInv, StatusReturns
  PROVE  DetailsOK(page') /\ (~Selecting' => Fits(page'))
<1>0. PageOK(page) /\ FormOK(page) /\ DetailsOK(page) /\ CandlesOK
  BY DEF FitInv, FormInv, ChartInv, ToldInv, PricedInv
<1>1. PICK s \in Slots :
        /\ statuses[s] # None
        /\ \/ Refreshed(renderStatus([Resumed(page, statuses[s].who) EXCEPT
                                        !.seen = statuses[s].got]), statuses[s].who)
           \/ Refreshed(Resumed(page, statuses[s].who), statuses[s].who)
  BY DEF StatusReturns
<1> DEFINE who == statuses[s].who
           p == Resumed(page, who)
           q == [p EXCEPT !.seen = statuses[s].got]
<1>2. PageOK(p) /\ FormOK(p) /\ Shows(page, p)
  BY <1>0, ResumedOK, QuietForms, QuietShows DEF Forms
<1>3. DetailsOK(p) /\ (Fits(page) => Fits(p))
  BY <1>0, <1>2, ShowsKept
<1>4. PageOK(q) /\ FormOK(q) /\ DetailsOK(q)
  <2>1. Priced(statuses[s].got.campaign)
    BY <1>1 DEF FitInv, FormInv, ChartInv, ToldInv, PricedInv, StatusOK
  <2> HIDE DEF p
  <2>2. PageOK(q) /\ q.on = p.on /\ q.modal = p.modal /\ q.pending = p.pending /\ q.details = p.details
    BY <1>2, <2>1 DEF PageOK, PageFields
  <2> HIDE DEF q
  <2> QED
    BY <1>2, <1>3, <2>2 DEF FormOK, DetailsOK
<1> HIDE DEF p, q
<1>5. ASSUME NEW r, PageOK(r), FormOK(r), Refreshed(r, who)
      PROVE  Shows(r, page') /\ (Selecting => Selecting')
  <2>1. CASE who = "start"
    <3>1. loadCandles(r, TRUE, "start", Started(r, "start"))
      BY <1>5, <2>1 DEF Refreshed
    <3>2. page' \in {r, Started(r, "start")} /\ (Selecting => Selecting')
      BY <1>0, <3>1, LoadSelects
    <3> QED
      BY <1>5, <3>2, QuietShows
  <2>2. CASE who # "start"
    <3>1. page' = r /\ candles' = candles
      BY <1>5, <2>2 DEF Refreshed
    <3> QED
      BY <1>5, <3>1, QuietShows DEF Selecting
  <2> QED
    BY <2>1, <2>2
<1>6. CASE Refreshed(renderStatus(q), who)
  <2>1. PageOK(renderStatus(q)) /\ FormOK(renderStatus(q))
    BY <1>4, RenderOK, QuietForms DEF Forms
  <2>2. DetailsOK(renderStatus(q)) /\ Fits(renderStatus(q))
    BY <1>4, RenderFits
  <2> QED
    BY <1>5, <1>6, <2>1, <2>2, ShowsKept
<1>7. CASE Refreshed(p, who)
  <2>1. Shows(p, page') /\ (Selecting => Selecting')
    BY <1>2, <1>5, <1>7
  <2>2. DetailsOK(page') /\ (Fits(p) => Fits(page'))
    BY <1>3, <2>1, ShowsKept
  <2> QED
    BY <1>3, <2>1, <2>2 DEF FitInv
<1> QED
  BY <1>1, <1>6, <1>7 DEF p, q

\* Nothing else draws, or lets the button of the preview back against the status.
LEMMA OtherShows ==
  ASSUME FormInv, [Next]_vars, ~StatusReturns, ~CandlesReturn, ~symbolChange, ~intervalChange
  PROVE  Shows(page, page') /\ (Selecting => Selecting')
<1>0. PageOK(page) /\ FormOK(page) /\ Shows(page, page) /\ CandlesOK
  BY QuietShows DEF FormInv, ChartInv, ToldInv, PricedInv
<1>1. CASE EngineMoves \/ ServeStatus \/ ServeCommand \/ UNCHANGED vars
  BY <1>0, <1>1 DEF EngineMoves, ServeStatus, ServeCommand, vars, net, Selecting
<1>2. CASE statusLoop
  BY <1>0, <1>2, QuietShows DEF statusLoop, refreshStatus, Selecting
<1>3. CASE candleLoop
  <2>1. loadCandles(page, FALSE, "loop", page)
    BY <1>3 DEF candleLoop
  <2> QED
    BY <1>0, <2>1, LoadSelects
<1>4. CASE TypePrice \/ previewGalka \/ confirmLive \/ reconcileState
  <2> USE DEF Shows, FormOK, Buttons, PageOK, PageFields
  <2>1. candles' = candles
    BY <1>4 DEF TypePrice, previewGalka, confirmLive, reconcileState, Command, net
  <2>2. CASE TypePrice
    BY <1>0, <2>1, <2>2 DEF TypePrice, Selecting
  <2>3. CASE previewGalka
    BY <1>0, <2>1, <2>3 DEF previewGalka, Selecting
  <2>4. CASE confirmLive
    BY <1>0, <2>1, <2>4 DEF confirmLive, Selecting
  <2>5. CASE reconcileState
    BY <1>0, <2>1, <2>5 DEF reconcileState, Selecting
  <2> QED
    BY <1>4, <2>2, <2>3, <2>4, <2>5
<1>5. CASE PreviewReturns
  <2>1. PICK s \in Slots :
          /\ previews[s] # None /\ candles' = candles
          /\ \/ page' = PreviewEnded([page EXCEPT !.pending = previews[s], !.modal = TRUE,
                                                  !.on.confirm = page.seen.halt # "safe"])
             \/ page' = PreviewEnded(page)
    BY <1>5 DEF PreviewReturns
  <2> DEFINE p == [page EXCEPT !.pending = previews[s], !.modal = TRUE,
                               !.on.confirm = page.seen.halt # "safe"]
  <2>2. PageOK(p)
    BY <1>0, <2>1 DEF FormInv, ChartInv, ToldInv, PricedInv, PreviewOK, PageOK, PageFields
  <2>3. FormOK(p) /\ Shows(page, p)
    BY <1>0, <2>1 DEF Shows, FormOK, Buttons, PageOK, PageFields
  <2> HIDE DEF p
  <2>4. Shows(p, PreviewEnded(p)) /\ Shows(page, PreviewEnded(page))
    BY <1>0, <2>2, <2>3, QuietShows
  <2>5. Shows(page, PreviewEnded(p))
    BY <2>3, <2>4 DEF Shows, currentCampaign
  <2>6. page' \in {PreviewEnded(p), PreviewEnded(page)}
    BY <2>1 DEF p
  <2> QED
    BY <2>1, <2>4, <2>5, <2>6 DEF Selecting
<1>6. CASE closePreview
  BY <1>0, <1>6, QuietShows DEF closePreview, net, Selecting
<1>7. CASE cancelCampaign \/ emergencyClose
  BY <1>0, <1>7 DEF cancelCampaign, emergencyClose, Command, Selecting
<1>8. CASE CommandReturns
  <2>1. PICK s \in Slots :
          LET p == IF commands[s].kind = "campaign" THEN closed(page) ELSE page
          IN  /\ candles' = candles
              /\ \/ refreshStatus(p, Waits(commands[s]))
                 \/ page' = Resumed(page, Waits(commands[s])) /\ UNCHANGED statuses
    BY <1>8 DEF CommandReturns
  <2> DEFINE p == IF commands[s].kind = "campaign" THEN closed(page) ELSE page
             who == Waits(commands[s])
  <2>2. PageOK(p) /\ FormOK(p) /\ Shows(page, p)
    BY <1>0, ClosedOK, QuietForms, QuietShows DEF Forms
  <2>3. page' \in {p, Resumed(p, who), Resumed(page, who)}
    BY <2>1 DEF refreshStatus
  <2> HIDE DEF p, who
  <2>4. Shows(p, Resumed(p, who)) /\ Shows(page, Resumed(page, who))
    BY <1>0, <2>2, QuietShows
  <2>5. Shows(page, Resumed(p, who))
    BY <2>2, <2>4 DEF Shows, currentCampaign
  <2> QED
    BY <2>1, <2>2, <2>3, <2>4, <2>5 DEF Selecting
<1> QED
  BY <1>1, <1>2, <1>3, <1>4, <1>5, <1>6, <1>7, <1>8 DEF Next

\* Before the first status nothing is drawn, and nothing must fit.
LEMMA FitInit == Init => FitInv
BY FormInit DEF Init, FitInv, DetailsOK, Fits

\* Every step draws what fits, or leaves it.
LEMMA FitStep == FitInv /\ [Next]_vars => FitInv'
<1> SUFFICES ASSUME FitInv, [Next]_vars PROVE FitInv'
  OBVIOUS
<1>1. FormInv'
  BY FormStep DEF FitInv
<1>2. DetailsOK(page') /\ (~Selecting' => Fits(page'))
  <2>1. CASE StatusReturns
    BY <2>1, StatusFits
  <2>2. CASE CandlesReturn
    BY <2>2, CandlesFit
  <2>3. CASE symbolChange \/ intervalChange
    BY <2>3, SelectionFits
  <2>4. CASE ~(StatusReturns \/ CandlesReturn \/ symbolChange \/ intervalChange)
    BY <2>4, OtherShows, FitsOn DEF FitInv
  <2> QED
    BY <2>1, <2>2, <2>3, <2>4
<1> QED
  BY <1>1, <1>2 DEF FitInv

\* Unless a selection is being drawn, form, campaign buttons and lines are those of the last
\* status: leaving the details alone when they would be the same never leaves a wrong button,
\* and nothing but the end of a preview under a dead monitor enables the preview against it
\* (renderStatus, renderCampaignDetails, previewGalka).
THEOREM ButtonsFitTheStatus == Spec => []ButtonsFit
<1>1. FitInv => ButtonsFit
  <2> SUFFICES ASSUME FitInv, page.seen # NoStatus, ~Selecting
               PROVE  /\ page.on.preview =>
                           /\ currentCampaign(page) = NoCampaign
                           /\ page.seen.halt = "no" \/ (page.reopened /\ page.seen.halt # "safe")
                      /\ page.on.input = (currentCampaign(page) = NoCampaign /\ page.seen.halt = "no")
                      /\ page.on.cancel = (currentCampaign(page).status = "waiting" /\ ~currentPosition(page))
                      /\ page.on.emergency = currentPosition(page)
                      /\ page.lines = currentCampaign(page)
    BY DEF ButtonsFit
  <2> DEFINE c == currentCampaign(page)
             h == page.seen.held = page.coin
  <2>1. /\ page.on.preview \in BOOLEAN /\ page.on.input \in BOOLEAN /\ page.on.cancel \in BOOLEAN /\ page.on.emergency \in BOOLEAN
        /\ DetailsOK(page) /\ Fits(page)
    BY DEF FitInv, FormInv, FormOK, Buttons
  <2>2. page.details = <<c, h>> /\ page.lines = c
    BY <2>1 DEF Fits, detailsSignature, currentPosition
  <2>3. page.on.preview => /\ c = NoCampaign
                           /\ page.seen.halt = "no" \/ (page.reopened /\ page.seen.halt # "safe")
    BY <2>1 DEF Fits
  <2>6. page.on.input = (c = NoCampaign /\ page.seen.halt = "no")
    BY <2>1 DEF Fits
  <2> HIDE DEF c
  <2>4. /\ page.on.cancel = TRUE <=> (c.status = "waiting" /\ ~h)
        /\ page.on.emergency = TRUE <=> h
    <3> HIDE DEF h
    <3>1. page.details # <<>>
      BY <2>2
    <3>2. page.details[1] = c
      BY <2>2
    <3>3. page.details[2] = h
      BY <2>2
    <3> QED
      BY <2>1, <3>1, <3>2, <3>3 DEF DetailsOK
  <2>5. page.on.cancel = (c.status = "waiting" /\ ~h) /\ page.on.emergency = h
    BY <2>1, <2>4
  <2> QED
    BY <2>2, <2>3, <2>5, <2>6 DEF c, currentPosition
<1> QED
  BY <1>1, FitInit, FitStep, PTL DEF Spec
==============================================================================
