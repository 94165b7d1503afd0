------------------------------ MODULE LiveClient ------------------------------
(***************************************************************************)
(* terminal/live.js: the page that shows the LIVE engine and commands it.  *)
(* It polls the status and the candles, keeps the last answer, and draws   *)
(* buttons, chart and lines from it; the user changes the instrument while *)
(* requests are on their way.                                              *)
(*                                                                         *)
(* One action is one JavaScript task: from an event, an answer or a timer  *)
(* to the next await.  The server handles a request at some moment between *)
(* its sending and its answer.  A price is known by the coin it was typed  *)
(* for.  LIVE writes are enabled; the drawer and all wording are left out. *)
(***************************************************************************)
EXTENDS Integers, FiniteSets, FiniteSetsExt

CONSTANTS
  Coins,       \* instruments
  Intervals,   \* candle intervals
  MaxFlight,   \* bound: requests of one kind on their way
  MaxClicks,   \* bound: commands of the user, a confirmation not counted
  MaxVersion,  \* bound: events of the engine that are not commands of this page
  MaxFaults    \* bound: requests that fail

ASSUME LiveClientAssumption ==
  /\ Coins # {} /\ Intervals # {} /\ MaxFlight \in Nat \ {0}
  /\ MaxClicks \in Nat /\ MaxVersion \in Nat /\ MaxFaults \in Nat

VARIABLES
  page,      \* runtime, the form and the buttons (and "reopened", for ButtonsFit only)
  statuses, candles, previews, commands, \* requests on their way, in slots
  engine,    \* external: the engine behind the server
  clicks, faults

net  == <<statuses, candles, previews, commands>>
vars == <<page, net, engine, clicks, faults>>

Slots      == 1..MaxFlight
None       == [kind |-> "none"]
Quiet      == [s \in Slots |-> None]
Busy(f)    == \E s \in Slots : f[s] # None
Free(f)    == {s \in Slots : f[s] = None}
Send(f, r) == [f EXCEPT ![Min(Free(f))] = r]
Done(f, s) == [f EXCEPT ![s] = None]

NoPrice    == "none"
NoCampaign == [coin |-> "none", price |-> NoPrice, status |-> "none"]

------------------------------------------------------------------------------
(* The engine, as far as the page can tell                                  *)

EngineInit == [version |-> 0, campaign |-> NoCampaign, held |-> "none", halt |-> "no"]

Event(e) == [e EXCEPT !.version = @ + 1]

\* One campaign across all coins; entries fill and positions are sold, SAFE MODE
\* goes on, the monitor thread ends.
EngineMoves ==
  /\ engine.version < MaxVersion
  /\ \/ /\ engine.campaign.status = "waiting"
        /\ engine' = Event([engine EXCEPT !.campaign.status = "open",
                                          !.held = engine.campaign.coin])
     \/ /\ engine.campaign.status = "open"
        /\ engine' = Event([engine EXCEPT !.campaign = NoCampaign, !.held = "none"])
     \/ \E h \in {"safe", "monitor"} :
          engine.halt = "no" /\ engine' = Event([engine EXCEPT !.halt = h])
  /\ UNCHANGED <<page, net, clicks, faults>>

\* The command is accepted, or refused and nothing changes.
Accepts(e, r) ==
  CASE r.kind = "campaign"  -> e.campaign = NoCampaign /\ e.held = "none" /\ e.halt = "no"
    [] r.kind = "cancel"    -> e.campaign.coin = r.coin /\ e.campaign.status = "waiting"
    [] r.kind = "emergency" -> e.held = r.coin \/ e.campaign.coin = r.coin
    [] r.kind = "reconcile" -> e.halt = "safe"

\* A reconcile answers whether it ends SAFE MODE or not; one without SAFE MODE is taken as
\* refused, and a new risk that it finds is one of EngineMoves.
Handled(e, r) ==
  CASE r.kind = "campaign" ->
         {Event([e EXCEPT !.campaign = [coin |-> r.coin, price |-> r.price, status |-> "waiting"]])}
    [] r.kind \in {"cancel", "emergency"} ->
         {Event([e EXCEPT !.campaign = NoCampaign, !.held = "none"])}
    [] r.kind = "reconcile" ->
         {Event([e EXCEPT !.halt = h]) : h \in {"no", "safe"}}

------------------------------------------------------------------------------
(* Rendering                                                                *)

NoStatus == [EngineInit EXCEPT !.version = -1]

currentCampaign(p) == IF p.seen.campaign.coin = p.coin THEN p.seen.campaign ELSE NoCampaign
currentPosition(p) == p.seen.held = p.coin

\* Mutant: the signature leaves the campaign out.
positionSignature(p) == <<currentPosition(p)>>

detailsSignature(p) == <<currentCampaign(p), currentPosition(p)>>

\* The details are drawn again only if they differ from what was drawn; the
\* newest event is announced, unless it is the first the page sees.
renderCampaignDetails(p) == [cancel    |-> currentCampaign(p).status = "waiting" /\ ~currentPosition(p),
                             emergency |-> currentPosition(p)]

renderStatus(p) ==
  LET campaign == currentCampaign(p)
      idle     == campaign = NoCampaign
      free     == idle /\ p.seen.halt = "no"
      same     == detailsSignature(p) = p.details
  IN  IF p.seen = NoStatus THEN p
      ELSE [p EXCEPT !.on.preview = free, !.on.input = free, !.reopened = FALSE,
                     !.input = IF idle THEN @ ELSE campaign.price,
                     !.on.cancel = IF same THEN @ ELSE renderCampaignDetails(p).cancel,
                     !.on.emergency = IF same THEN @ ELSE renderCampaignDetails(p).emergency,
                     !.details = detailsSignature(p), !.told = p.seen.version, !.lines = campaign]

------------------------------------------------------------------------------
(* Status                                                                   *)

\* refreshStatus on behalf of "who", which goes on when it ends.
StatusRequest(who) == [kind |-> "status", who |-> who, got |-> NoStatus]

\* What follows the refresh: the button of a command comes back.
Resumed(p, who) ==
  CASE who = "confirm"   -> [p EXCEPT !.on.confirm = TRUE]
    [] who = "reconcile" -> [p EXCEPT !.on.reconcile = TRUE]
    [] OTHER             -> p

\* Mutant: two refreshes may be under way.
statusFull == Free(statuses) = {}

statusBusy == Busy(statuses)

\* With a refresh under way a second one ends at once.
refreshStatus(p, who) ==
  IF statusBusy
    THEN page' = Resumed(p, who) /\ UNCHANGED statuses
    ELSE page' = p /\ statuses' = Send(statuses, StatusRequest(who))

statusLoop ==
  /\ page.loops /\ ~statusBusy
  /\ refreshStatus(page, "loop")
  /\ UNCHANGED <<candles, previews, commands, engine, clicks, faults>>

ServeStatus ==
  /\ \E s \in Slots : /\ statuses[s] # None /\ statuses[s].got = NoStatus
                      /\ statuses' = [statuses EXCEPT ![s].got = engine]
  /\ UNCHANGED <<page, candles, previews, commands, engine, clicks, faults>>

Fault == faults < MaxFaults /\ faults' = faults + 1

CandlesRequest(p, full, who) ==
  [kind |-> "candles", coin |-> p.coin, interval |-> p.interval, full |-> full, who |-> who]

candleBusy == Busy(candles)

\* loadCandles, and what follows when one is under way.
loadCandles(p, initial, who, then) ==
  IF candleBusy
    THEN page' = then /\ UNCHANGED candles
    ELSE page' = p /\ candles' = Send(candles, CandlesRequest(p, initial \/ ~p.loaded, who))

Started(p, who) == IF who = "start" THEN [p EXCEPT !.loops = TRUE] ELSE p

\* The start goes on to the candles.
Refreshed(p, who) ==
  IF who = "start" THEN loadCandles(p, TRUE, "start", Started(p, "start"))
  ELSE page' = p /\ UNCHANGED candles

StatusReturns ==
  \E s \in Slots :
    /\ statuses[s] # None /\ statuses' = Done(statuses, s)
    /\ \E p \in {Resumed(page, statuses[s].who)} :
         \/ /\ statuses[s].got # NoStatus /\ UNCHANGED faults
            /\ Refreshed(renderStatus([p EXCEPT !.seen = statuses[s].got]), statuses[s].who)
         \/ Refreshed(p, statuses[s].who) /\ Fault
    /\ UNCHANGED <<previews, commands, engine, clicks>>

------------------------------------------------------------------------------
(* Candles                                                                  *)

candleLoop ==
  /\ page.loops /\ ~candleBusy
  /\ loadCandles(page, FALSE, "loop", page)
  /\ UNCHANGED <<statuses, previews, commands, engine, clicks, faults>>

\* Mutant: only the coin of an answer is compared.
WantedCoin(p, r) == r.coin = p.coin

\* An answer for what is no longer selected is dropped.
Wanted(p, r) == r.coin = p.coin /\ r.interval = p.interval

Drawn(p, r) ==
  CASE ~Wanted(p, r)          -> p
    [] Wanted(p, r) /\ r.full -> [p EXCEPT !.rows = {<<r.coin, r.interval>>}, !.loaded = TRUE]
    [] Wanted(p, r) /\ ~r.full -> [p EXCEPT !.rows = @ \cup {<<r.coin, r.interval>>}]

\* Mutant: an answer that is dropped leaves the load marked as under way.
CandlesReturnStuck ==
  \E s \in Slots :
    /\ candles[s] # None
    /\ candles' = IF Wanted(page, candles[s]) THEN Done(candles, s) ELSE candles
    /\ page' = Started(Drawn(page, candles[s]), candles[s].who)
    /\ UNCHANGED <<statuses, previews, commands, engine, clicks, faults>>

\* The answer came, was empty, or did not come.
CandlesReturn ==
  \E s \in Slots :
    LET r == candles[s]
        After(p) == IF r.who = "select" THEN renderStatus(p) ELSE Started(p, r.who)
    IN  /\ r # None /\ candles' = Done(candles, s)
        /\ \/ page' = After(Drawn(page, r)) /\ UNCHANGED faults
           \/ page' = After(page) /\ Fault
        /\ UNCHANGED <<statuses, previews, commands, engine, clicks>>

------------------------------------------------------------------------------
(* The user                                                                 *)

Click == clicks < MaxClicks /\ clicks' = clicks + 1

\* The modal covers everything else.
Reach == ~page.modal

\* Mutant: the price typed stays in the form.
SelectedOnly(c) ==
  [page EXCEPT !.coin = c, !.loaded = FALSE, !.details = <<>>]

\* symbol.onchange: price and signatures of the old coin are dropped, then the chart
\* is loaded and the rest drawn; until then the old lines stay.
Selected(c) ==
  [page EXCEPT !.coin = c, !.loaded = FALSE, !.details = <<>>, !.input = NoPrice]

symbolChange ==
  /\ Reach /\ Click
  /\ \E c \in Coins \ {page.coin} :
       loadCandles(Selected(c), TRUE, "select", renderStatus(Selected(c)))
  /\ UNCHANGED <<statuses, previews, commands, engine, faults>>

intervalChange ==
  /\ Reach /\ Click
  /\ \E i \in Intervals \ {page.interval} :
       LET p == [page EXCEPT !.interval = i, !.loaded = FALSE]
       IN  loadCandles(p, TRUE, "select", renderStatus(p))
  /\ UNCHANGED <<statuses, previews, commands, engine, faults>>

TypePrice ==
  /\ Reach /\ page.on.input /\ page.input = NoPrice
  /\ page' = [page EXCEPT !.input = page.coin]
  /\ UNCHANGED <<net, engine, clicks, faults>>

\* The button, or Enter in the field, which keeps the focus under the modal.
previewGalka ==
  /\ (Reach /\ page.on.preview) \/ page.on.input
  /\ page.input # NoPrice /\ Click /\ Free(previews) # {}
  /\ previews' = Send(previews, [kind |-> "preview", coin |-> page.coin, price |-> page.input])
  /\ page' = [page EXCEPT !.on.preview = FALSE, !.reopened = FALSE]
  /\ UNCHANGED <<statuses, candles, commands, engine, faults>>

\* The finally of previewGalka looks at SAFE MODE, not at a dead monitor, which
\* renderStatus treats alike.
PreviewEnded(p) ==
  LET free == currentCampaign(p) = NoCampaign /\ p.seen.halt # "safe"
  IN  [p EXCEPT !.on.preview = free, !.reopened = free /\ p.seen.halt # "no"]

PreviewReturns ==
  \E s \in Slots :
    LET r == previews[s]
        shown == [page EXCEPT !.pending = r, !.modal = TRUE, !.on.confirm = page.seen.halt # "safe"]
    IN  /\ r # None /\ previews' = Done(previews, s)
        /\ \/ page' = PreviewEnded(shown) /\ UNCHANGED faults
           \/ page' = PreviewEnded(page) /\ Fault
        /\ UNCHANGED <<statuses, candles, commands, engine, clicks>>

\* Mutant: the preview outlives its modal.
closedOnly(p) == [p EXCEPT !.modal = FALSE]

closed(p) == [p EXCEPT !.modal = FALSE, !.pending = None]

closePreview ==
  /\ page.modal /\ page' = closed(page)
  /\ UNCHANGED <<net, engine, clicks, faults>>

Command(kind, c, price) ==
  /\ Free(commands) # {}
  /\ commands' = Send(commands, [kind |-> kind, coin |-> c, price |-> price, answer |-> "none"])
  /\ UNCHANGED <<statuses, candles, previews, engine, faults>>

confirmLive ==
  /\ page.modal /\ page.on.confirm /\ page.pending # None
  /\ page' = [page EXCEPT !.on.confirm = FALSE]
  /\ Command("campaign", page.pending.coin, page.pending.price)
  /\ UNCHANGED clicks

cancelCampaign ==
  /\ Reach /\ page.on.cancel /\ Click /\ UNCHANGED page
  /\ Command("cancel", page.coin, NoPrice)

emergencyClose ==
  /\ Reach /\ page.on.emergency /\ Click /\ UNCHANGED page
  /\ Command("emergency", page.coin, NoPrice)

reconcileState ==
  /\ Reach /\ page.on.reconcile /\ Click
  /\ page' = [page EXCEPT !.on.reconcile = FALSE]
  /\ Command("reconcile", "none", NoPrice)

ServeCommand ==
  \E s \in Slots :
    LET r == commands[s]
    IN  /\ r # None /\ r.answer = "none"
        /\ commands' = [commands EXCEPT ![s].answer = IF Accepts(engine, r) THEN "ok" ELSE "refused"]
        /\ engine' \in IF Accepts(engine, r) THEN Handled(engine, r) ELSE {engine}
        /\ UNCHANGED <<page, statuses, candles, previews, clicks, faults>>

\* Who waits for the refresh after a command.
Waits(r) == CASE r.kind = "campaign" -> "confirm" [] OTHER -> r.kind

\* An accepted command is followed by a refresh; a refused or lost one is not.
CommandReturns ==
  \E s \in Slots :
    LET r == commands[s]
        p == IF r.kind = "campaign" THEN closed(page) ELSE page
    IN  /\ r # None /\ commands' = Done(commands, s)
        /\ \/ r.answer = "ok" /\ refreshStatus(p, Waits(r)) /\ UNCHANGED faults
           \/ r.answer = "refused" /\ page' = Resumed(page, Waits(r)) /\ UNCHANGED <<statuses, faults>>
           \/ page' = Resumed(page, Waits(r)) /\ Fault /\ UNCHANGED statuses
        /\ UNCHANGED <<candles, previews, engine, clicks>>

------------------------------------------------------------------------------
\* No button is disabled in live.html.
Init ==
  /\ LET c == CHOOSE x \in Coins : TRUE
         i == CHOOSE x \in Intervals : TRUE
     IN  page = [coin |-> c, interval |-> i, rows |-> {}, loaded |-> FALSE, seen |-> NoStatus,
                 lines |-> NoCampaign, details |-> <<>>, told |-> -1, loops |-> FALSE,
                 input |-> NoPrice, modal |-> FALSE, pending |-> None, reopened |-> FALSE,
                 on |-> [preview |-> TRUE, input |-> TRUE, cancel |-> TRUE, emergency |-> TRUE,
                         reconcile |-> TRUE, confirm |-> TRUE]]
  /\ statuses = Send(Quiet, StatusRequest("start"))
  /\ candles = Quiet /\ previews = Quiet /\ commands = Quiet
  /\ engine = EngineInit /\ clicks = 0 /\ faults = 0

Next ==
  \/ EngineMoves \/ ServeStatus \/ ServeCommand
  \/ statusLoop \/ StatusReturns \/ candleLoop \/ CandlesReturn
  \/ symbolChange \/ intervalChange \/ TypePrice
  \/ previewGalka \/ PreviewReturns \/ closePreview \/ confirmLive
  \/ cancelCampaign \/ emergencyClose \/ reconcileState \/ CommandReturns

\* Requests are handled and end, timers fire; nothing is asked of the user or of
\* the engine.
Fairness ==
  /\ WF_vars(statusLoop \/ ServeStatus \/ StatusReturns)
  /\ WF_vars(candleLoop \/ CandlesReturn)
  /\ WF_vars(ServeCommand \/ CommandReturns \/ PreviewReturns)

Spec == Init /\ [][Next]_vars /\ Fairness

------------------------------------------------------------------------------
(* Properties                                                               *)

\* At most one refresh and one load of candles are under way, the modal is open
\* exactly while a preview waits for its confirmation, and the reconcile button
\* is off exactly while a reconcile or its refresh is under way.
LiveClientTypeOK ==
  /\ Cardinality(Slots \ Free(statuses)) <= 1 /\ Cardinality(Slots \ Free(candles)) <= 1
  /\ page.modal = (page.pending # None)
  /\ page.seen.version <= engine.version
  /\ ~page.on.reconcile = \/ \E s \in Slots : commands[s].kind = "reconcile"
                          \/ \E s \in Slots : statuses[s] # None /\ statuses[s].who = "reconcile"

\* The chart never holds candles of two instruments or intervals, and candles
\* that count as loaded are those of the selected ones, however selections and
\* answers interleave (loadCandles).
SeriesOfOneMarket ==
  /\ Cardinality(page.rows) <= 1
  /\ page.loaded => page.rows = {<<page.coin, page.interval>>}

\* No campaign is ever asked for, or runs, at a price typed for another coin
\* (previewGalka, confirmLive, symbol.onchange).
PricedForItsCoin ==
  /\ engine.campaign.price = engine.campaign.coin
  /\ \A s \in Slots : /\ previews[s] # None => previews[s].price = previews[s].coin
                      /\ commands[s].kind = "campaign" => commands[s].price = commands[s].coin

\* The selection waits for its candles before the rest is drawn.
Selecting == \E s \in Slots : candles[s] # None /\ candles[s].who = "select"

\* The form, the buttons of the campaign and the lines fit the last status for the selected
\* coin, except while a selection is being drawn, although details are drawn only when their
\* signature changed (renderStatus, renderCampaignDetails).  Under a dead monitor the preview
\* button is on only since a preview ended, until the next status is drawn (previewGalka).
\* The confirm button is not drawn from the status once the modal is open.
ButtonsFit ==
  page.seen # NoStatus /\ ~Selecting =>
    /\ page.on.preview => /\ currentCampaign(page) = NoCampaign
                          /\ page.seen.halt = "no" \/ (page.reopened /\ page.seen.halt # "safe")
    /\ page.on.input = (currentCampaign(page) = NoCampaign /\ page.seen.halt = "no")
    /\ page.on.cancel = (currentCampaign(page).status = "waiting" /\ ~currentPosition(page))
    /\ page.on.emergency = currentPosition(page)
    /\ page.lines = currentCampaign(page)

\* LIVE_HYPERLIQUID.md:68-69: a monitor failure enables SAFE MODE, SAFE MODE blocks new
\* campaigns.  What live.js 403-404 and 422 make of it, the end of a preview does not.
PreviewHeedsMonitor ==
  page.seen # NoStatus /\ ~Selecting /\ page.on.preview => page.seen.halt = "no"

\* The same of the button that places real orders (live.js 518, 549).
ConfirmHeedsSafeMode ==
  page.seen # NoStatus /\ page.modal /\ page.on.confirm => page.seen.halt = "no"

\* No event of the engine is announced twice, or after a later one: answers to
\* the status never overtake each other (refreshStatus, renderEvents).
EventsToldOnce == [][page'.told # page.told => page'.told > page.told]_vars

\* Once the user, the engine and the failures have come to rest, the page shows
\* the candles of what is selected and the state the engine is in.
ScreenSettles ==
  <>[](/\ page.rows = {<<page.coin, page.interval>>}
       /\ page.seen = engine /\ page.lines = currentCampaign(page)
       /\ page.details = detailsSignature(page))
==============================================================================
