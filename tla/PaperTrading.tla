----------------------------- MODULE PaperTrading -----------------------------
(***************************************************************************)
(* terminal/pro.js: simulated trading in a browser page that is hidden,    *)
(* frozen, disconnected, killed and loaded again.  Quotes of the socket    *)
(* drive the campaigns of all symbols; a gap is made up for by replaying   *)
(* closed minute candles, and quotes that arrive meanwhile wait in a       *)
(* buffer.                                                                 *)
(*                                                                         *)
(* The store in memory and its copy in localStorage are one variable: a    *)
(* task that changes a campaign or the ledger saves before it ends, and    *)
(* cursors alone are saved every five seconds, which is less than a tick.  *)
(*                                                                         *)
(* Time is in ticks.  One action is one JavaScript task: nothing else runs *)
(* inside it, and a kill falls between two tasks.  A gap's replay has two  *)
(* awaits, for the candles and for the charts.  An open socket delivers    *)
(* every quote of the tape.                                                *)
(*                                                                         *)
(* Left out: other tasks between the quotes of two symbols of one tick,    *)
(* the last quote seen being processed again when a 15-minute candle       *)
(* closes (pro.js 479), connectWs while a socket is open (1446, 1567), and *)
(* automatic campaigns that leave at the target, an old setting: those of  *)
(* Stored trail.                                                           *)
(***************************************************************************)
EXTENDS PaperEngine, SequencesExt

CONSTANTS
  NSymbols,    \* instruments, 1..NSymbols
  Tapes,       \* what the market can do: of each minute, of each symbol, Minute prices
  Stored,      \* kinds of campaigns a start can find: of each symbol one
  GalkaLevels, \* prices the user sets a GALKA at
  Balance,     \* startingBalance, in the unit of prices
  MaxBuffer,   \* RECOVERY_MAX_BUFFER; the quarter that is dropped leaves a moment's quotes
  MaxRecovery, \* how far back a replay reaches: 336 hours
  Horizon,     \* bound: last tick
  MaxEvents    \* bound: gaps, kills, failed requests and commands of the user

Symbols == 1..NSymbols
Minutes == 0..(Horizon \div Minute)
Times   == 0..Horizon \cup {Never}
Skip    == -2      \* a symbol without a campaign, which is not fetched

ASSUME PaperTradingAssumption ==
  /\ NSymbols \in Nat \ {0} /\ MaxBuffer \in Nat \ {0} /\ MaxRecovery \in Nat \ {0}
  /\ MaxBuffer >= NSymbols + MaxBuffer \div 4
  /\ \A tape \in Tapes : \A m \in Minutes : tape[m + 1] \in [Symbols -> [1..Minute -> Nat]]
  /\ Stored \subseteq [Symbols -> {"none", "manual", "auto"}] /\ Stored # {}
  /\ GalkaLevels \subseteq Int /\ Balance \in Nat
  /\ Horizon \in Nat /\ MaxEvents \in Nat

VARIABLES
  now, market,  \* the clock, and the tape it plays
  store,        \* campaigns, ledger and cursors
  page,         \* "down", "shown", "hidden" or "frozen"
  ws,           \* "none" before the first connection, then "open" or "lost"
  quote,        \* runtime.quotes: the last price seen of each symbol
  task,         \* the replay under way (recoveryPromise)
  buffer,       \* recoveryQuoteBuffer: moments <<tick, symbol>>
  overflowAt,   \* recoveryOverflowAt, Never unless quotes were dropped
  rerun,        \* the timer that starts another replay after an overflow
  modal,        \* pendingManual: the level waiting for a confirmation
  ids,          \* campaigns so far
  events        \* gaps, kills, failures and commands so far

env  == <<now, market>>
user == <<modal, ids>>
vars == <<env, store, page, ws, quote, task, buffer, overflowAt, rerun, user, events>>

Idle    == [phase |-> "idle", end |-> 0, at |-> 0, gapped |-> FALSE,
            after |-> [s \in Symbols |-> Skip]]
NoModal == [sym |-> 0, level |-> 0]

PriceIn(mk, s, t) == mk[(t \div Minute) + 1][s][(t % Minute) + 1]

\* createDefaultStore and createPaperRecoveryState.  The last two lines are no
\* part of the program: when the store got its cursors, the minutes each symbol
\* was followed in and those it had the candle of, the symbols that had a candle
\* twice, those that met a known hole of the recovery (see GapsCovered), those
\* whose quotes were out of order, and those that a margin check sold at a moment
\* they were not replayed to (see HoldingsDisjoint).
DefaultStore ==
  [camp |-> [s \in Symbols |-> NoCampaign], trades |-> <<>>, realized |-> 0,
   chk |-> Never, gap |-> Never,
   at |-> [s \in Symbols |-> Never], rec |-> [s \in Symbols |-> Never],
   since |-> Never, live |-> [s \in Symbols |-> {}], replayed |-> [s \in Symbols |-> {}],
   again |-> {}, slipped |-> {}, mixed |-> {}, early |-> {}]

\* What the first start can find: a store that is new, or that another page left.
StoredCampaign(s, kind) ==
  CASE kind = "none"   -> NoCampaign
    [] kind = "manual" -> createCampaign(s, "manual", 3, 0)
    [] kind = "auto"   -> createCampaign(s, "auto", 2, 0)

Init ==
  /\ now = 0 /\ market \in Tapes
  /\ \E kinds \in Stored :
       LET t == IF \A s \in Symbols : kinds[s] = "none" THEN Never ELSE 0
       IN  store = [DefaultStore EXCEPT !.camp = [s \in Symbols |-> StoredCampaign(s, kinds[s])],
                                        !.chk = t, !.since = t, !.at = [s \in Symbols |-> t]]
  /\ page = "down" /\ ws = "none"
  /\ quote = [s \in Symbols |-> Never]
  /\ task = Idle /\ buffer = <<>> /\ overflowAt = Never /\ rerun = FALSE
  /\ modal = NoModal /\ ids = NSymbols /\ events = 0

Running    == page \in {"shown", "hidden"}
Recovering == task.phase # "idle"
Event      == events < MaxEvents /\ events' = events + 1

------------------------------------------------------------------------------
(* Bookkeeping of one symbol                                                *)

Recorded(st, id, cycle) ==
  \E i \in DOMAIN st.trades : st.trades[i].id = id /\ st.trades[i].cycle = cycle

\* A position that was sold goes into the ledger.
Book(st, s, held, cycle, price, t) ==
  [st EXCEPT
     !.trades = Append(@, [id |-> held.id, sym |-> s, cycle |-> cycle,
                           entry |-> Entered(held), exit |-> t]),
     !.realized = @ + Unrealized(held, price)]

Final == 0   \* the "cycle" of the trade that ends a campaign

recordL1Cycle(st, s, o, t) ==
  IF Recorded(st, o.held.id, o.campaign.cycles) THEN st
  ELSE Book(st, s, o.held, o.campaign.cycles, o.price, t)

\* Mutant: the trade is booked and the campaign stays.
closeKeepsCampaign(st, s, held, price, t) ==
  IF Filled(held) = {} \/ Recorded(st, held.id, Final) THEN st
  ELSE Book(st, s, held, Final, price, t)

closeCampaign(st, s, held, price, t) ==
  LET done == [st EXCEPT !.camp[s] = NoCampaign]
  IN  IF Filled(held) = {} THEN st
      ELSE IF Recorded(st, held.id, Final) THEN done
      ELSE Book(done, s, held, Final, price, t)

\* What an outcome of the engine does to the store.
Settle(st, s, o, price, t) ==
  LET kept == [st EXCEPT !.camp[s] = o.campaign]
  IN  CASE o.exit = "none"     -> kept
        [] o.exit = "l1_cycle" -> recordL1Cycle(kept, s, o, t)
        [] o.exit = "expired"  -> [st EXCEPT !.camp[s] = NoCampaign]
        [] OTHER               -> closeCampaign(kept, s, o.held, price, t)

Terminal(o) == o.exit \notin {"none", "l1_cycle"}

\* Positions with a known price; only those are counted and sold.
Valued(st, prices) ==
  {s \in Symbols : Filled(st.camp[s]) # {} /\ prices[s] # Never}

\* paperPortfolioSnapshot, with a maintenance margin of nothing.
Equity(st, prices) ==
  Balance + st.realized
    + MapThenSumSet(LAMBDA s : Unrealized(st.camp[s], prices[s]), Valued(st, prices))

checkGlobalLiquidation(st, prices, t) ==
  IF Equity(st, prices) > 0 THEN st
  ELSE FoldSet(LAMBDA s, x : closeCampaign(x, s, x.camp[s], prices[s], t),
               st, Valued(st, prices))

processBotQuote(st, s, prices, t) ==
  LET o == processCampaignQuote(st.camp[s], prices[s], prices[s], t)
      n == Settle(st, s, o, o.price, t)
  IN  IF o.exit \notin {"none", "l1_cycle", "expired"} THEN n
      ELSE checkGlobalLiquidation(n, prices, t)

markMarketProcessed(st, s, t, clock) ==
  [st EXCEPT !.at[s] = Max({@, t}), !.chk = clock, !.live[s] = @ \cup {t \div Minute},
             !.mixed = IF st.gap = Never THEN @ ELSE @ \cup {s}]

\* processQuote for a sequence of moments, in order; the state it runs on is
\* the store together with the quotes shown.
processQuotes(st, q, moments, mk, clock) ==
  FoldLeft(LAMBDA x, m :
             LET seen == [x.quote EXCEPT ![m[2]] = PriceIn(mk, m[2], m[1])]
             IN  [quote |-> seen,
                  st |-> processBotQuote(markMarketProcessed(x.st, m[2], m[1], clock),
                                         m[2], seen, m[1])],
           [st |-> st, quote |-> q], moments)

------------------------------------------------------------------------------
(* Gaps                                                                     *)

ActiveSymbols(st) == {s \in Symbols : Active(st.camp[s])}

\* The gap begins at the last moment every active symbol is known to have had;
\* a symbol without a cursor counts from the beginning of time.
markPaperGap(st, t) ==
  LET had   == {IF st.at[s] = Never THEN 0 ELSE st.at[s] : s \in ActiveSymbols(st)}
      start == Min({t} \cup had)
  IN  [st EXCEPT !.gap = IF @ = Never THEN start ELSE Min({@, start}), !.chk = t]

needsPaperRecovery(st, t) ==
  \/ st.gap # Never
  \/ \E s \in ActiveSymbols(st) : st.at[s] < LastClosed(t)

\* Mutant: the candles that were replayed are not remembered.
startForgetsReplayed(st, s, t) ==
  LET cursors == {st.gap, st.at[s], st.chk} \ {Never}
  IN  Max({IF cursors = {} THEN t ELSE Min(cursors), t - MaxRecovery, st.camp[s].createdAt})

\* From the earliest cursor, but nothing that was replayed, that is older than a
\* replay reaches, or older than the campaign.
recoveryStartForSymbol(st, s, t) ==
  LET cursors == {st.gap, st.at[s], st.chk} \ {Never}
  IN  Max({IF cursors = {} THEN t ELSE Min(cursors), st.rec[s] + 1, t - MaxRecovery,
           st.camp[s].createdAt})

\* catchUpAfterReconnect: a replay under way is shared, not repeated.
catchUp(st) ==
  IF Recovering THEN task
  ELSE [phase |-> "fetch", end |-> LastClosed(now), at |-> now, gapped |-> FALSE,
        after |-> [s \in Symbols |-> IF Active(st.camp[s])
                                     THEN recoveryStartForSymbol(st, s, now) ELSE Skip]]

\* A gap that begins while a replay runs keeps that replay from closing it.
Gapped == [task EXCEPT !.gapped = Recovering]

------------------------------------------------------------------------------
(* The market and the socket                                                *)

Advance ==
  /\ now < Horizon /\ now' = now + 1 /\ UNCHANGED market

Moments == [s \in Symbols |-> <<now', s>>]

TickUnseen ==
  /\ Advance
  /\ ~Running \/ ws # "open"
  /\ UNCHANGED <<store, page, ws, quote, task, buffer, overflowAt, rerun, user, events>>

TickLive ==
  /\ Advance
  /\ Running /\ ws = "open" /\ ~Recovering
  /\ LET r == processQuotes(store, quote, Moments, market, now')
     IN  store' = r.st /\ quote' = r.quote
  /\ UNCHANGED <<page, ws, task, buffer, overflowAt, rerun, user, events>>

\* Mutant: the buffer grows without a limit.
BufferedAll(b) ==
  FoldLeft(LAMBDA x, m : [b |-> Append(x.b, m), at |-> x.at], b, Moments)

\* bufferRecoveryQuote: a full buffer drops its oldest quarter first.
Buffered(b) ==
  FoldLeft(LAMBDA x, m :
             LET drop == IF Len(x.b) < MaxBuffer THEN 0 ELSE Max({1, MaxBuffer \div 4})
                 gone == {x.b[i][1] : i \in 1..drop}
             IN  [b |-> Append(SubSeq(x.b, drop + 1, Len(x.b)), m),
                  at |-> IF gone = {} THEN x.at
                         ELSE Min(gone \cup ({x.at} \ {Never}))],
           b, Moments)

\* Mutant: quotes are processed while a replay is under way.
TickUnbuffered ==
  /\ Advance
  /\ Running /\ ws = "open" /\ Recovering
  /\ LET r == processQuotes(store, quote, Moments, market, now')
     IN  store' = r.st /\ quote' = r.quote
  /\ UNCHANGED <<page, ws, task, buffer, overflowAt, rerun, user, events>>

TickBuffered ==
  /\ Advance
  /\ Running /\ ws = "open" /\ Recovering
  /\ LET r == Buffered([b |-> buffer, at |-> overflowAt])
     IN  buffer' = r.b /\ overflowAt' = r.at
  /\ quote' = [s \in Symbols |-> PriceIn(market, s, now')]
  /\ UNCHANGED <<store, page, ws, task, rerun, user, events>>

\* onclose of the current socket, opened or not.
SocketLost ==
  /\ Running /\ Event
  /\ ws = "open" \/ (ws = "none" /\ ~Recovering)
  /\ ws' = "lost"
  /\ store' = markPaperGap(store, now) /\ task' = Gapped
  /\ UNCHANGED <<env, page, quote, buffer, overflowAt, rerun, user>>

\* The page is connected in the minute under way; what was missed of it is not
\* made up for.
Follow(st) == [st EXCEPT !.live = [s \in Symbols |-> @[s] \cup {now \div Minute}]]

\* connectWs and onopen: by the reconnect timer, or when the page is shown.
SocketOpens ==
  /\ Running /\ ws # "open"
  /\ ws = "none" => ~Recovering
  /\ ws' = "open"
  /\ task' = IF ws = "lost" \/ needsPaperRecovery(store, now) THEN catchUp(store) ELSE task
  /\ LET seen == Follow(store)
     IN  store' = IF Recovering /\ ~task.gapped THEN [seen EXCEPT !.slipped = Symbols] ELSE seen
  /\ UNCHANGED <<env, page, quote, buffer, overflowAt, rerun, user, events>>

------------------------------------------------------------------------------
(* The replay                                                               *)

\* The candles asked for, and those the service sends: all, or all but one.
Fetched     == {s \in Symbols : task.after[s] # Skip}
NeededBy(s) == Needed(task.after[s], task.end)
Holes       == {{}} \cup {{m} : m \in Minutes}
Answers     == {[s \in Fetched |-> NeededBy(s) \ hole[s]] : hole \in [Fetched -> Holes]}
Good(a)     == {s \in Fetched : Complete(a[s], task.after[s], task.end)}

\* The instants of all symbols on one time line: minute by minute, in each the
\* four points of the path, at each the symbols in their order.
Instants == [i \in 1..4 * Cardinality(Minutes) |-> <<(i - 1) \div 4, ((i - 1) % 4) + 1>>]
InOrder  == [s \in Symbols |-> s]

PointsAt(a, s, i) ==
  IF i[1] \notin a[s] THEN {}
  ELSE {p \in recoveryCandlePath(i[1], market[i[1] + 1][s], task.after[s]) : p.k = i[2]}

\* One instant of one symbol; a campaign that ended takes no more of them.  A
\* trailing exit executes at the stop that stood before the instant.
ReplayPoint(x, s, p) ==
  LET c == x.st.camp[s]
      o == processCampaignQuote(c, p.price, p.price, p.at)
      price == IF o.exit = "trailing_stop" /\ c.armed THEN c.stop ELSE o.price
  IN  IF s \in x.done THEN x
      ELSE [st |-> [Settle(x.st, s, o, price, p.at) EXCEPT !.replayed[s] = @ \cup {p.minute}],
            done |-> IF Terminal(o) THEN x.done \cup {s} ELSE x.done,
            prices |-> [x.prices EXCEPT ![s] = p.price],
            last |-> [x.last EXCEPT ![s] = p.at],
            closed |-> [x.closed EXCEPT ![s] = CloseOf(p.minute)]]

\* The points of one instant, then the margin check once every open position of
\* the replay has a price; symbols outside the replay count at their quote.
ReplayInstant(x, a, syms, i) ==
  LET here == [s \in Symbols |-> IF s \in syms THEN PointsAt(a, s, i) ELSE {}]
      y    == FoldLeft(LAMBDA z, s : IF here[s] = {} THEN z
                                     ELSE ReplayPoint(z, s, CHOOSE p \in here[s] : TRUE),
                       x, InOrder)
      open == {s \in syms \ y.done : Filled(y.st.camp[s]) # {}}
      mix  == [s \in Symbols |-> IF y.prices[s] = Never THEN quote[s] ELSE y.prices[s]]
      at   == Max({p.at : p \in UNION {here[s] : s \in Symbols}})
      liq  == checkGlobalLiquidation(y.st, mix, at)
      sold == {s \in Symbols : y.st.camp[s] # liq.camp[s]}
  IN  CASE \A s \in Symbols : here[s] = {} -> x
        [] OTHER -> IF open = {} \/ \E s \in open : y.prices[s] = Never THEN y
                    ELSE [y EXCEPT !.st = [liq EXCEPT !.early = @ \cup (sold \ syms)],
                                   !.done = @ \cup sold,
                                   !.last = [s \in Symbols |-> IF s \in sold THEN at ELSE @[s]]]

Replay(st, a, syms) ==
  LET none == [s \in Symbols |-> Never]
      zero == [st |-> st, done |-> {}, prices |-> none, last |-> none, closed |-> none]
  IN  FoldLeft(LAMBDA x, i : ReplayInstant(x, a, syms, i), zero, Instants)

\* recoverMissedPaperTrading, from the last answer to the end: the campaigns are
\* those of now, the starting points those of the call.
FetchReturns ==
  /\ Running /\ task.phase = "fetch"
  /\ \E a \in Answers :
       LET good == Good(a)
           syms == {s \in good : store.camp[s] # NoCampaign}
           r    == Replay(store, a, syms)
           done == good = Fetched /\ ~task.gapped /\ page = "shown"
       IN  /\ IF good = Fetched THEN UNCHANGED events ELSE Event
           /\ store' = [r.st EXCEPT
                !.again = @ \cup {s \in syms : a[s] \cap store.replayed[s] # {}},
                !.slipped = IF store.gap = Never THEN @ \cup (Fetched \ good) ELSE @,
                !.rec = [s \in Symbols |-> IF s \in syms THEN Max({@[s], r.closed[s]}) ELSE @[s]],
                !.at  = [s \in Symbols |-> IF s \in syms THEN Max({@[s], r.last[s]}) ELSE @[s]],
                !.gap = IF done THEN Never ELSE @,
                !.chk = task.at]
  /\ task' = [task EXCEPT !.phase = "charts"]
  /\ UNCHANGED <<env, page, ws, quote, buffer, overflowAt, rerun, user>>

\* The charts are loaded: live quotes count again, the waiting ones first.  If
\* some were dropped the gap reopens there and another replay is scheduled.
flushRecoveryQuotes ==
  LET r == processQuotes(store, quote, buffer, market, now)
      dropped == [markPaperGap(r.st, overflowAt) EXCEPT !.mixed = Symbols]
  IN  [st |-> IF overflowAt = Never THEN r.st ELSE dropped,
       quote |-> r.quote, left |-> <<>>]

ChartsReturn ==
  /\ Running /\ task.phase = "charts"
  /\ LET r == flushRecoveryQuotes
     IN  /\ store' = r.st /\ quote' = r.quote /\ buffer' = r.left
  /\ rerun' = (rerun \/ overflowAt # Never)
  /\ task' = Idle /\ overflowAt' = Never
  /\ UNCHANGED <<env, page, ws, user, events>>

OverflowReplay ==
  /\ Running /\ rerun
  /\ rerun' = FALSE /\ task' = catchUp(store)
  /\ UNCHANGED <<env, store, page, ws, quote, buffer, overflowAt, user, events>>

------------------------------------------------------------------------------
(* The page                                                                 *)

\* loadStore and bootstrap.  A store without cursors gets its baseline; one with
\* a gap is replayed before the socket opens, unless the charts fail to load.
Start ==
  /\ page = "down" /\ page' = "shown"
  /\ LET base == [store EXCEPT !.chk = now, !.since = now,
                              !.at = [s \in Symbols |-> IF @[s] = Never THEN now ELSE @[s]]]
         new  == store.chk = Never /\ store.gap = Never
     IN  /\ store' = IF new THEN base ELSE store
         /\ \/ /\ task' = IF ~new /\ needsPaperRecovery(store, now) THEN catchUp(store) ELSE task
               /\ UNCHANGED events
            \/ Event /\ UNCHANGED task
  /\ UNCHANGED <<env, ws, quote, buffer, overflowAt, rerun, user>>

\* visibilitychange: the gap is marked, the socket stays.
Hide ==
  /\ page = "shown" /\ page' = "hidden" /\ Event
  /\ store' = markPaperGap(store, now) /\ task' = Gapped
  /\ UNCHANGED <<env, ws, quote, buffer, overflowAt, rerun, user>>

\* The system suspends a hidden page; its socket may die.
Freeze ==
  /\ page = "hidden" /\ page' = "frozen"
  /\ ws' \in {ws, IF ws = "open" THEN "lost" ELSE ws}
  /\ UNCHANGED <<env, store, quote, task, buffer, overflowAt, rerun, user, events>>

Show ==
  /\ page \in {"hidden", "frozen"} /\ page' = "shown"
  /\ task' = IF ws = "open" THEN catchUp(store) ELSE task
  /\ LET seen == IF ws = "open" THEN Follow(store) ELSE store
     IN  store' = IF Recovering /\ ~task.gapped THEN [seen EXCEPT !.slipped = Symbols] ELSE seen
  /\ UNCHANGED <<env, ws, quote, buffer, overflowAt, rerun, user, events>>

Volatile ==
  /\ page' = "down" /\ ws' = "none" /\ quote' = [s \in Symbols |-> Never]
  /\ task' = Idle /\ buffer' = <<>> /\ overflowAt' = Never /\ rerun' = FALSE
  /\ modal' = NoModal

\* pagehide: an orderly end marks the gap and saves.
Leave ==
  /\ Running /\ Event /\ Volatile
  /\ store' = markPaperGap(store, now)
  /\ UNCHANGED <<env, ids>>

\* The tab is killed: only the store survives.
Kill ==
  /\ page # "down" /\ Event /\ Volatile
  /\ UNCHANGED <<env, store, ids>>

------------------------------------------------------------------------------
(* Commands of the user                                                     *)

Idling == page = "shown" /\ modal = NoModal
Quiet  == UNCHANGED <<env, page, ws, quote, task, buffer, overflowAt, rerun>>

Command(st) ==
  /\ Event /\ store' = st
  /\ Quiet /\ UNCHANGED <<modal, ids>>

\* manualLevelAllowed: the first limit must still be below the price.
Allowed(s, level) == quote[s] = Never \/ quote[s] > level - 1

\* A level is offered for a symbol that holds nothing...
setManualGalka ==
  /\ Idling /\ Event
  /\ \E s \in Symbols, level \in GalkaLevels :
       /\ Filled(store.camp[s]) = {} /\ Allowed(s, level)
       /\ modal' = [sym |-> s, level |-> level]
  /\ Quiet /\ UNCHANGED <<store, ids>>

\* ... and confirmed later; only the price is looked at again.
confirmManualGalka ==
  /\ page = "shown" /\ modal # NoModal /\ modal' = NoModal
  /\ IF Allowed(modal.sym, modal.level)
       THEN /\ ids' = ids + 1
            /\ store' = [store EXCEPT !.camp[modal.sym] =
                         createCampaign(ids', "manual", modal.level, now)]
       ELSE UNCHANGED <<ids, store>>
  /\ Quiet /\ UNCHANGED events

closePretrade ==
  /\ page = "shown" /\ modal # NoModal /\ modal' = NoModal
  /\ Quiet /\ UNCHANGED <<store, ids, events>>

cancelManualSelection ==
  /\ Idling
  /\ \E s \in Symbols : /\ Filled(store.camp[s]) = {}
                        /\ Command([store EXCEPT !.camp[s] = NoCampaign])

updateManualLevel ==
  /\ Idling
  /\ \E s \in Symbols, level \in GalkaLevels :
       /\ Editable(store.camp[s]) /\ Allowed(s, level)
       /\ Command([store EXCEPT !.camp[s] = moveManualCampaign(@, level)])

\* Everything but the settings and the cursors is dropped, after a question.
resetPaper ==
  /\ Idling
  /\ Command([store EXCEPT !.camp = DefaultStore.camp, !.trades = <<>>, !.realized = 0])

------------------------------------------------------------------------------
Next ==
  \/ TickUnseen \/ TickLive \/ TickBuffered
  \/ SocketLost \/ SocketOpens
  \/ FetchReturns \/ ChartsReturn \/ OverflowReplay
  \/ Start \/ Hide \/ Freeze \/ Show \/ Leave \/ Kill
  \/ setManualGalka \/ confirmManualGalka \/ closePretrade
  \/ cancelManualSelection \/ updateManualLevel \/ resetPaper

Spec == Init /\ [][Next]_vars

------------------------------------------------------------------------------
(* Properties                                                               *)

StoreOK(st) ==
  /\ \A s \in Symbols :
       LET c == st.camp[s]
       IN  /\ c.status \in {"none", "waiting", "open", "trailing"}
           /\ (c.status = "none") = (c = NoCampaign)
           /\ c.status = "open" => Filled(c) # {}
           /\ c.armed = (c.status = "trailing")
           /\ c.armed => c.source = "auto" /\ c.stop >= c.vLow /\ c.high >= c.reclaim
  /\ st.gap \in Times /\ st.chk \in Times
  /\ \A s \in Symbols : st.at[s] \in Times /\ st.rec[s] \in Times

\* The shape of the store and of the page's own state: a campaign's status, its
\* filled levels and its trailing fields agree, no cursor is in the future, and
\* the buffer stays within its limit (store.js and pro.js runtime).
PaperTypeOK ==
  /\ StoreOK(store)
  /\ page \in {"down", "shown", "hidden", "frozen"} /\ ws \in {"none", "open", "lost"}
  /\ task.phase \in {"idle", "fetch", "charts"}
  /\ Len(buffer) <= MaxBuffer /\ (buffer # <<>> => Recovering)
  /\ overflowAt \in Times /\ rerun \in BOOLEAN

\* The ledger and the campaigns tell the same story: no trade is there twice, a
\* campaign that is alive has no final trade, and as many cycles of its first
\* level are on the books as it counts.
LedgerMatches ==
  /\ \A i, j \in DOMAIN store.trades :
       /\ store.trades[i].id = store.trades[j].id
       /\ store.trades[i].cycle = store.trades[j].cycle
       => i = j
  /\ \A s \in ActiveSymbols(store) :
       LET own == {i \in DOMAIN store.trades : store.trades[i].id = store.camp[s].id}
       IN  /\ Cardinality(own) = store.camp[s].cycles
           /\ \A i \in own : store.trades[i].cycle # Final

\* The minutes that are over, within the reach of a replay, and that the campaign
\* of s lived through, as far as the store has cursors.
Lived(s) ==
  {m \in Minutes : /\ Active(store.camp[s]) /\ store.since # Never
                  /\ CloseOf(m) < now /\ CloseOf(m) > now - MaxRecovery
                  /\ OpenOf(m) > Max({store.camp[s].createdAt, store.since})}

\* The next replay will ask for it.
Awaited(s, m) ==
  /\ CloseOf(m) > recoveryStartForSymbol(store, s, now)
  /\ store.gap # Never \/ store.at[s] < CloseOf(m)

Forgotten(s) == {m \in Lived(s) \ (store.live[s] \cup store.replayed[s]) : ~Awaited(s, m)}

\* After any sequence of gaps, kills, failed and incomplete answers and dropped
\* quotes, every minute of an active campaign that closed in the last 336 hours has
\* been seen, or is still to be replayed from what the store holds, also if the page
\* dies now: a minute is lost only by staying unreplayed until it is older, which
\* GALKA_PAPER_RECOVERY.md:29 calls truncated.  Two holes of
\* the code are set apart by "slipped": a page that wakes up or reconnects while a
\* replay is under way shares that replay, which ends at the time it was started;
\* and a request that fails while no gap is marked leaves none.
GapsCovered == \A s \in Symbols \ store.slipped : Forgotten(s) = {}

\* GALKA_PAPER_RECOVERY.md:9: on resume the missed candles of an active campaign
\* are replayed before new live quotes are applied; pro.js:430 promises another
\* attempt at the next reconnect where a request failed.
ResumeReplaysAll == \A s \in Symbols : Forgotten(s) = {}

\* GALKA_PAPER_RECOVERY.md: a candle that was replayed for a symbol is not
\* replayed again by a retry, a later gap or another page.
ReplayedOnce == store.again = {}

\* A position leaves the store by a trade of its campaign that was not on the
\* books before, by the user's reset, or by a new manual level (which
\* confirmManualGalka lets replace it), and in no other way: no expiry, replay,
\* flush or restart loses it.
SoldNow(c) ==
  \E i \in DOMAIN store'.trades :
    LET trade == store'.trades[i]
    IN  trade.id = c.id /\ ~Recorded(store, c.id, trade.cycle)

PositionLeavesByTrade ==
  [][\A s \in Symbols :
       LET c == store.camp[s]
       IN  (Filled(c) # {} /\ store'.camp[s].id # c.id) =>
             \/ SoldNow(c)
             \/ store'.trades = <<>> /\ store'.realized = 0 /\ store'.camp = DefaultStore.camp
             \/ ids' # ids]_vars

\* README.md:120: reconnects do not fill twice.  One symbol holds one position
\* at a time, so the spans of its trades do not overlap, however live quotes,
\* boundary candles, replays and the buffer meet.  Set apart by "mixed": quotes
\* that are processed while earlier ones are still to be replayed, which is what a
\* hidden page and a buffer that overflowed do; and by "early": a replay's margin
\* check sells what a symbol outside the replay holds (see ReplayIsChronological).
HoldingsDisjoint ==
  \A i, j \in DOMAIN store.trades :
    LET a == store.trades[i]
        b == store.trades[j]
    IN  a.sym \notin store.mixed \cup store.early =>
          /\ a.entry <= a.exit
          /\ (i # j /\ a.sym = b.sym) => (a.exit <= b.entry \/ b.exit <= a.entry)

\* PRODUCTION_READINESS_REPORT.md:57: a reconnect replays closed candles in
\* chronological order on one time line of all symbols, so that no position is sold
\* before it was bought unless quotes were already out of order.
ReplayIsChronological ==
  \A i \in DOMAIN store.trades :
    store.trades[i].sym \notin store.mixed => store.trades[i].entry <= store.trades[i].exit
==============================================================================
