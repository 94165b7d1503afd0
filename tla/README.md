# Botizvideo (GALKA): TLA+ models, checks and proofs

GALKA buys a dip with a *ladder* of eight limit orders below a pattern's low and sells
at the pattern's price. The repository holds a LIVE engine that trades this on
Hyperliquid (Python), a browser terminal that trades it on paper with Binance quotes
(JavaScript), and an offline research lab. This directory models the parts whose
correctness depends on the order of things: what happens between two calls to an
exchange, when a process dies, when an answer is lost, when a user trades by hand on the
same account.

Contents

1. [Inventory](#1-inventory)
2. [Modules and how they correspond to the code](#2-modules-and-how-they-correspond-to-the-code)
3. [Runs, bounds and what they show](#3-runs-bounds-and-what-they-show)
4. [Disagreements between documents and code](#4-disagreements-between-documents-and-code)
5. [Proofs](#5-proofs)
6. [What is not modelled](#6-what-is-not-modelled)
7. [Plan](#7-plan)

How to run: `tlc -config LiveFaults.cfg LiveEngine.tla` (and so on, see the table of
runs), and `tlapm` on `FoldLemmas` and each of the modules whose name ends in `Proofs`.

## 1. Inventory

### LIVE side (`live/`)

| part | state | operations | correct when |
|---|---|---|---|
| campaign engine, `engine.py` | one `activeCampaign` (status, managed size, order maps, seen fills, deepest level, `automaticRearmBlocked`), `system.safeMode`, `coins` | `create_campaign`, `cancel_waiting_campaign`, `emergency_close`, `reconcile_system`, the monitor loop (`_sync_campaign`, `_ensure_target_coverage`, `_enter_recovery`, `_sync_recovery`, `_finish_cycle`, `_scan_global_risks`), start | no fill is lost or counted twice; a closed campaign leaves nothing on the book; nothing is bought once something unexplained happened; a position keeps its target; SAFE MODE is left only after a clean comparison |
| persistence, `engine.py` 113-298 | `state.json`, `state.prev.json`, temporary and quarantined files | `_save_locked`, `_atomic_replace_bytes`, `_load_state` | a save that returned survives every crash; damage is noticed |
| gateway, `hyperliquid_gateway.py` | none of its own; behind it the account: position, resting orders, TPs attached to entries, fills | read account, orders, fills; place an entry with its TP, place or change a target, cancel, market close | each answer is checked; a failed call may still have taken effect |
| ladder sizing, `live_ladder.py` | none | `build_ladder`, `_allocate_targets` | sums to the requested total, no level under the minimum |
| configuration, `config.py` | environment, read once | load and validate | secrets and limits are sane before LIVE starts |
| local server, `server.py` | process lock, session token | HTTP handlers that call the engine | one engine per state directory; nothing served before the first reconcile |
| browser client, `terminal/live.js` | last status polled | buttons and forms | offers only what the engine would accept |

One lock, `action_lock`, serialises the operations: at any time one thread is inside the
engine, and the monitor and the HTTP threads take turns. `lock` protects the state dict
for short sections only. The engine's environment does not take turns: between any two
gateway calls entries fill, TPs appear, the owner of the account may trade, and the
process may die. That is where the difficulty is, and it is what `LiveEngine` models.

### Browser side (`terminal/`)

| part | state | operations | correct when |
|---|---|---|---|
| paper engine, `modules/paper-engine.js` | a campaign: levels, fills, trailing stop, L1 cycles | `processCampaignQuote`, `closeAndRearmL1`, `moveManualCampaign`, candle replay | a quote fills levels in order, a campaign ends once, replaying a minute never sells what was not bought |
| paper trading and recovery, `pro.js` | trades, cursor of each symbol, gap, buffer of quotes | quotes, reconnect, replay of closed minutes, `recordL1Cycle`, `closeCampaign`, global liquidation | no exit is recorded twice, no gap is forgotten, quotes are applied in order |
| shadow engine, `modules/shadow-engine.js` | capped list of observation records | register, quote, close, label | watches only what is confirmed after it was started; a record only advances |
| radar and statistics, `modules/radar-engine.js`, `modules/galka-stats.js` | none; the downloaded pack | scan a chart, admit a confirmed pattern, check the pack | a pattern that was shown as confirmed is never taken back |
| store, `modules/store.js`; backup, `modules/backup.js` | everything the browser keeps, as one entry of localStorage; a copy made before a restore | load, migrate, save, export, check, restore | a restore keeps what it replaces; a kill loses nothing the code did not choose to risk |
| terminal, `pro.js` | alerts, labels, switches, layout | the handlers of the page, what one quote changes and saves | an alert is announced once |
| charts, drawings, replay training, service worker | caches | presentation | not modelled |

One JavaScript thread runs one task at a time; what is hard lies between the tasks: every
`await` lets quotes, clicks and timers in, the operating system hides, freezes or kills the
page between any two, and a write to localStorage may be refused in the middle of one.

### Research and operations

`research/` computes statistics offline and sequentially over price series;
`scripts/` install, roll back and check; `src/app.js` is a viewer of finished reports.

### What is hard here

The hazards are listed one by one, at their lines, in `PROJECT.json`. They are of six
kinds: the venue moves between two reads of a confirmation; a call fails although it
took effect; the process dies between a call and the save of its result; the user trades
on the same account; a state file is damaged or a rename lost; in the browser, quotes
and replayed candles race each other.

## 2. Modules and how they correspond to the code

```
Venue  <-- LiveEngine --refines--> CampaignContract
               ^
               |-- LiveEngineProofs <-- LiveLedgerProofs

StateStore --refines--> DurableState
    ^
    |-- StateStoreProofs

LiveClient                       (with a small engine of its own)
    ^
    |-- LiveClientProofs

PaperEngine <-- PaperTrading <-- MCPaper
                     ^
                     |-- PaperReplayProofs <-- PaperTradingProofs

ShadowEngine, Radar <-- Workspace <-- MCWorkspace
                            ^
                            |-- WorkspaceProofs

FoldLemmas                       (used by PaperReplayProofs and WorkspaceProofs)
```

### Venue

The Hyperliquid account of one coin. External to the repository: it is modelled from
what `engine.py` and `hyperliquid_gateway.py` expect of it, and made as free as they must
tolerate. `entry[l]` and `target[l]` are the open units of owned orders, `target[0]` is
the fallback target (the code files it under level 0 as well). `due[l]` are filled units
whose attached TP (`normalTpsl`) is not listed yet; this is the state in which the book
looks clean and is not. `strayBuy` and `straySell` are orders on no map of the engine,
whether placed by hand or by a call of the engine whose answer was lost. `unseen`
aggregates the fills no sync has read; `_apply_new_fills` depends on them only through
the units bought and sold, the deepest level and whether one of them is foreign.

Assumed of the venue: a buy fills only when no better owned buy rests above it; a TP is
listed only after its entry filled; reduce-only orders cannot turn a position around and
disappear without one.

### LiveEngine

| variable | in `engine.py` |
|---|---|
| `c` | `state["activeCampaign"]`: status, `managed` (`managedSize`), `had` (`hadPosition`), `deepest`, `blocked` (`automaticRearmBlocked`), `zero` (`recoveryZeroReads`) |
| `safe` | `state["system"]["safeMode"]` |
| `disk` | what `_save_locked` wrote last |
| `unsaved` | fills applied in memory since that save |
| `pc` | the gateway call the thread is about to make |
| `op` | the operation that holds `action_lock` |
| `regs` | the locals that survive a call: the position and orders it has read, loop counters |
| `faults` | failed calls and crashes so far (a bound) |

Every action is one gateway call and the local work up to the next one, so that `Venue`
and `Crash` interleave exactly where they can. The groups of actions are the methods:

| group | method |
|---|---|
| `Sync` | `_sync_campaign`, `_apply_new_fills` |
| `Cover` | `_ensure_target_coverage` |
| `Recovery` | `_enter_recovery`, `_sync_recovery` |
| `Finish` | `_finish_cycle`, `_cancel_level_orders`, `_confirm_flat`, `_cancel_owned_orders` |
| `Confirm` | `_confirm_flat_and_clean` |
| `Cancel` | `cancel_waiting_campaign` |
| `Emergency` | `emergency_close` |
| `Global` | `_scan_global_risks`, `_initial_reconcile`, `reconcile_system` |
| `Create` | `create_campaign`, `_creation_failure` |
| `Crash`, `Restart` | process death, `__init__`, `start` |

`SyncReturn`, `SyncRaise`, `RecoveryReturn` are the returns to the several callers.

Simplifications, all of them stated in the module too: one coin; LIVE is enabled; sizes
are exact; a trading call that fails has either taken effect or never will (a call whose
sender died may still take effect, `CallInFlight`); a save does not fail (that is
`StateStore`); the guards on more than 1990 fills, malformed targets and margin are left
out; `abortAfterClose` is read but never set, and left out. Restarting does not skip the
initial reconcile, and a failed one leaves SAFE MODE on as in the code.

Fills are read exactly once. The code gets there with a cursor that reaches two seconds back
and a list of the keys of the last 4000 fills (`_fill_key`, `seenFills`, `engine.py` 831-838,
943-951, 1021); that this list is long enough and its keys differ is assumed, not shown. So
`LedgerExact` is about when fills are read, applied and saved, not about how two fills are
told apart. An owned fill is always recognised as such: a failure of `order_status` that
`engine.py` 915-919 swallows, after which the fill counts as foreign and the engine goes into
recovery, is left out.

### CampaignContract

What `LIVE_HYPERLIQUID.md` promises of a campaign, without calls and crashes: five phases,
when entries may be put on the book, that a hold blocks the automatic rearm, and that a
campaign closes only over a clean book and stops only with no entry resting. `LiveEngine`
instantiates it with `phase` from the status, `resting` the levels with an entry on the
book, `blocked` **as it is on disk** (a block that a crash forgets is none) and `clean`
that no owned order rests or is still to be listed.

### StateStore and DurableState

`StateStore` is the file protocol, one action per system call that a crash can separate: a
save renames the backup, syncs the directory, writes the temporary file, renames the primary
and syncs the directory again; a start reads primary, quarantine, backup, temporary files,
nothing. A file is the version of the state it holds. A rename that was not followed by a
directory fsync may be undone by a power loss, the backup's as well as the primary's; an
error of the backup's rename or sync is swallowed and the save goes on. `prior` (the save
before the last one that returned) and `stale` (the backup was last not renewed, or from an
unreadable primary) are there for the properties only. `DurableState` is what
`LiveEngine` relies on when it treats a save as one step: a start finds the last returned
save or one that had begun since, and once a file was damaged an older one under SAFE MODE,
or, with nothing readable, the empty state.

### PaperEngine and PaperTrading

`PaperEngine` is the pure part: what one quote does to one campaign (`processCampaignQuote`),
the path a closed minute candle is replayed as (`recoveryCandlePath`) and which answers of
the candle service are accepted (`validateRecoveryCandleRange`). Prices are ranks: level *l*
rests *l* ranks below the GALKA, and only comparisons with levels, target and stop decide
anything.

`PaperTrading` is the page around it. One action is one task, from an event to the next
`await` or the end. `store` is what localStorage holds: campaigns, trades, and the cursors
(`at` = `lastMarketAt`, `rec` = `lastRecoveredCloseAt`, `chk` = `checkpointAt`, `gap` =
`gapStartedAt`). `task` is the replay under way: it waits for the candles, applies them in
one task, and waits for the charts before it flushes `buffer`. `page` and `ws` say whether
the page is shown, hidden, frozen or gone and the socket open. The market is a constant tape,
from which live quotes and candles are both derived; that is what makes "replayed equals
seen" a question at all. `MaxRecovery` is the cap of 336 hours on how far back a replay asks
for candles (`pro.js` 337-341). A few fields of `store` exist for the properties only: `since`, `live` and `replayed` (the
minutes a symbol was followed in, and those it had the candle of), `again` (a candle twice),
and the flags of symbols that met a known hole, `slipped`, `mixed` and `early`. No action
reads them.

Left out: other tasks between the quotes of two symbols of one tick, the last quote being
processed once more when a 15-minute candle closes (`pro.js` 479), `connectWs` while a socket
is open (1446, 1567). Automatic campaigns come from an older store only, since the settings of
a loaded store are always those of manual trading; of theirs, those that leave at the target
(`paper-engine.js` 40, 212) are left out and those that trail are modelled.

### ShadowEngine, Radar and Workspace

`ShadowEngine` is `shadow-engine.js` as functions on the shadow's state. `Radar` is the scan
of a chart: pivots, score and merging (`radar-engine.js`), and the admission of a pattern
that six more candles have confirmed (`researchFeaturesAt` and its use in `pro.js`). Candles
are built from the ticks of a tape, the newest as far as it has come, so that "forming" and
"closed" mean what they mean in the program. A chart is what its updates made it: it ends at
the last kline received, and a candle whose last update was lost stays as the one before left
it, although the clock, which decides what counts as closed, has passed its end. Ratios are
multiplied out, and a score is an integer.

`Workspace` is the page that keeps: `store` in memory, `disk` (localStorage), `backup` (the
copy `confirmRestore` makes), `files` and `layouts` the user has exported. Every interval has
a chart, with the ticks it got no update at (`page.lost`): those without a socket, and those
of an interval the socket does not carry. `ReloadCharts` fetches the candles again and mends
them. A task that saves several times is a list of stores
(`Saves`): if the *i*-th write is refused, the rest of the task does not happen, as an
exception in the code ends it. What one quote saves, in the order alerts, campaigns, shadow,
is `QuoteSteps`; the announcement of an alert may throw before the save that would have kept
it (`NotificationThrows`, `pro.js` 846-848). A restore may fail before, between and after its
writes (1344-1345). `Kill` brings the store back to `disk`. `told`, `page.since` and
`page.refused` are there for the properties only.

Left out: a chart's first load is taken as new and successful, a tick without a socket counts
as a fault, and an answer of the candle service is never older than the tick it comes at.

### LiveClient

The page of the LIVE engine: polling of status and candles, each with its flag against a
second request, the selection of coin and interval, the preview and its modal, the commands
and the refresh that follows each. Requests are in slots, are handled by the server at some
moment, and are answered in any order; a request may be lost before or after that. `engine`
is an external abstraction: one campaign, entries that fill, SAFE MODE, a dead monitor, a
reconcile that answers although SAFE MODE stays on. A typed price is known by the coin it was
typed for, which is all `PricedForItsCoin` needs. `reopened` notes, for `ButtonsFit` only,
that the preview button was switched on by the end of a preview and not by a status.

## 3. Runs, bounds and what they show

The runs of the engine, the store and the LIVE client check for deadlock: none of them can
get stuck. `paper_trading`, `paper_resume` and `workspace` do not, because there time ends
at the `Horizon` and the user's commands run out.

| run | configuration | result |
|---|---|---|
| `live_faults` | 2 levels of 1 unit, 2 faults | 2.2 million states, about 2 minutes |
| `live_manual` | 1 level of 2 units, 1 action by hand | 2.1 million states, about a minute |
| `live_progress` | 1 level of 1 unit, 1 fault and 1 action by hand, `FairSpec` | 0.3 million states, about a minute |
| `state_store` | 4 saves, 3 crashes or failed writes, 2 damaged files | 20 thousand states |
| `paper_trading` | 2 symbols (a manual and an automatic campaign), 2 levels, 2 minutes of 3 ticks, buffer of 2, any 2 events | 0.4 million states, 1 to 4 minutes |
| `live_client` | 2 coins, 2 intervals, 1 lost request; with fairness | 0.5 million states, about 2 minutes |
| `workspace` | 2 intervals, 2 tapes of 19 ticks, 3 commands, 1 refused write, failed download or kill | 0.7 million states, about 1.5 minutes |
| `live_emergency`, `live_half_placed`, `live_stray_buy`, `state_store_empty`, `paper_resume` | | violated, see section 4 |

What the properties say:

* `ClosedIsClean`: a campaign reported canceled, completed or `recovery_closed` has no
  owned order on the venue and no TP still to be listed. The code establishes it with
  several clean reads in a row, which do not see the same moment; the property is that
  they suffice.
* `LedgerExact`, `LedgerSurvivesCrash`: managed size plus unread fills is the position,
  in memory and in what a restart would find. Claimed while nobody trades by hand and
  nothing foreign was seen, when equality is what the engine itself checks against the
  account.
* `ExposureBounded`: position and resting buys together never exceed one ladder, stray
  orders of the engine's own lost calls included.
* `NoBuyWhenBlocked`: no buy goes out once the rearm is blocked.
* `RearmReplacesL1`: a fresh L1 needs the old one gone, to the last unit and TP.
* `SafeModeReleased`: SAFE MODE ends by a reconcile only, never during recovery, and
  without a campaign only over an empty book. It does not say that the position is zero.
* `RecoveryEnds`, `RecoveryProtects`: recovery comes to its end over a flat position, and
  a position in recovery gets reduce-only orders for all of it. Both are stated up to the
  process being down: nobody restarts it but the user.
* `ImplementsContract`, `ImplementsDurable`: the refinements.
* `DamageCostsOneSave`: damage to one file costs no more than the last save that returned,
  whichever kills and power losses there were. Set apart, by `stale`, is a backup whose last
  renewal failed, which `_save_locked` tolerates, or was made from a primary that was damaged
  already. (That the backup is never ahead of the primary, which one might expect, is not
  true: a start may read a primary whose rename was not synced, the next save renews the
  backup from it, and a power loss undoes the one rename and not the other.)
* `LedgerMatches`: no exit is on the books twice, a running campaign has no final trade and
  as many L1 records as it counts cycles. `ReplayedOnce`: no candle is replayed twice for a
  symbol. `PositionLeavesByTrade`: a position goes by a new trade, a reset or a new manual
  level, never by expiry, a replay or a restart.
* `GapsCovered`: every minute a campaign lived through in the last 336 hours was seen, was
  replayed, or will be. Older ones are truncated, as `GALKA_PAPER_RECOVERY.md:29` says; in
  `paper_trading` that is what `MaxRecovery = 5` of 6 ticks is for.
  `HoldingsDisjoint`: the holdings of a symbol follow one another. Each sets apart known
  holes of the code, by a flag the model raises where the hole is met. `slipped`: a page that
  wakes up or reconnects during a replay shares that replay although it ends earlier, and a
  request that fails while no gap is marked (`paper_resume` shows that one). `mixed`: quotes
  processed while earlier ones are still to be replayed (a hidden page; a buffer that
  overflowed). `early`: a margin check that sells what the replay does not bring along (see
  section 4).
* `SeriesOfOneMarket`, `PricedForItsCoin`, `ButtonsFit`, `EventsToldOnce`: the LIVE page
  never mixes two markets, never sends a price typed for another coin, draws form, buttons and
  lines as the last status wants them for the selected coin, and announces no event twice.
  `ButtonsFit` has two exceptions, which are disagreements of section 4: under a dead monitor
  the preview button may be on since the end of a preview, and nothing is claimed of the
  confirm button. `ScreenSettles`: once user, engine and failures rest, the page shows the
  selected chart and the engine's state.
* `NoRepaint`: a record enters the ledger only for a pattern that the chart, had it every
  candle, shows as confirmed from then on; the forming candle never confirms one. It speaks of
  charts that got the last update of every candle that has ended (`SeenToTheEnd`): without
  that it is false of the code (section 4). `NoBackfill`: no task of
  a living page but a restore, which installs the ledger it was given, adds a record of a
  pattern that was confirmed before the shadow began to watch. `RecordsOnlyAdvance`: fills
  stay, stops do not fall, ended records stay ended.
* `AlertToldOnce`, `KillLosesOnlyProgress`: an alert that was announced is not armed again by
  a crash; a kill loses only how far a trail has come. Both set apart a page whose last save
  was refused, or was never made because announcing an alert threw.

Why the bounds suffice. Two levels distinguish "only L1 filled" (rearm) from "deeper"
(finish), the only distinction the code makes on levels. One unit per level gives
everything but partial fills; `live_manual` has those. The numbers of confirming reads
are 2 rather than 3 or 4: with 2 there is already a first and a further read, and the
proof of `ClosedIsClean` holds for every number. Two faults allow a failure and then a
crash while it is handled. `CloseTries = 1`, `EmergencyTries = 2` reach both the retry and
the last try. A run with both faults and manual actions over two levels (9.3 million
states) and one over a level of two units (10.8 million) pass as well, but take close to
five minutes each and are not part of the regular runs; neither is the liveness of
recovery over a level of two units, which holds with one fault (0.9 million states).

On the browser side the market is a tape that makes everything happen: in `MCPaper` a minute
that touches the first level and returns, one that goes through both and returns, and one
that ends below; in `MCWorkspace` a dip that one chart has confirmed before the start and the other
confirms at it, under the same id, a second dip that is confirmed while the page watches,
two equal lows that merge, and a market that falls through them while the confirming
candle is forming. Two symbols are needed because candles of all
are applied in the order of time and liquidation looks at all. Three commands are what a
snapshot, its restore and its confirmation take. `MaxRecords = 1` lets the cap drop an open
record.

Fairness. `LiveClient` assumes that timers fire, that the server handles what it received and
that every request ends (`WF` of the status loop, of the candle loop, and of commands and
previews). The last is an assumption about the browser: the code sets no timeout, and with a
request that never ends the loop it belongs to does stop. Nothing is assumed of the user,
the engine or the selection. `FairSpec` of the engine is `WF_vars(Thread \/ StartMonitor)`: the thread inside an operation
goes on, and when none is, the monitor loop (`engine.py` 1600-1641) begins its next round.
The calls have timeouts, so a thread is never inside one for ever; the loop runs every few
seconds as long as the process lives. Nothing is assumed of the venue, of commands, or of
a restart. Faults are finitely many by the bound `MaxFaults`; the code, too, can promise
progress only once calls succeed again.

## 4. Disagreements between documents and code

Each is a run that is expected to be violated and has a finding in `PROJECT.json`.

* `EmergencyIsFlat`. An emergency close reads the position, then the orders, cancels what
  is left and reads only the orders again. An entry that fills between that position read
  and that cancel leaves a position behind a campaign called `emergency_closed`. (SAFE MODE
  is on at that point, and the next global check sees the position.)
* `NoHalfPlacedLadder`. A crash while the ladder is being placed leaves `placing` with some
  of the entries resting; the syncs after the restart find nothing unexplained and neither
  finish the ladder nor enter recovery.
* `RecoveryLeavesNoBuy`. The client ids of a rearmed L1 are recorded only when its place
  call has returned. If that call fails although the venue accepted the order, recovery does
  not know it, cannot cancel it, and closes over it. (`ExposureBounded` still holds, and SAFE
  MODE stays on because the order is foreign.)
* `DamagedIsNotEmpty`. A damaged primary is renamed to `.broken`; if the process dies before
  the first save, the next start finds no file it looks for, takes itself for a first start
  and leaves SAFE MODE off.
* `ResumeReplaysAll`. A replay is also started when only a cursor is behind and no gap is
  marked. If the request then fails, no gap is left either; the next live quote moves the
  cursor on, and the missed minutes are never replayed, though the page says it will try
  again at the next reconnect. (A related hole, without a run of its own: a page that wakes
  up during a replay shares that replay's promise, and its end clears the gap although the
  replay ended before the freeze.)

One more was found by the proof of `HoldingsDisjoint` and is not among the regular runs;
`tlc -config PaperMargin.cfg MCPaper.tla` shows it in half a minute.

* `ReplayIsChronological`. `PRODUCTION_READINESS_REPORT.md:57` says that a reconnect replays
  closed candles in chronological order on one time line of all instruments. The margin check
  inside the replay (`pro.js` 384-385, 1172-1180) sells the positions of *every* symbol with a
  price, also one whose own request failed and which this replay does not move, at its last
  quote and at the replay's moment, which may be before it was bought. In the trace the first
  replay buys symbol 2 at tick 3 while the request of symbol 1 fails; at the next reconnect
  symbol 1 is replayed from tick 0 while the request of symbol 2 fails, the margin check at
  tick 1 finds the account empty, and symbol 2 is sold at tick 1, two ticks before its entry.

Four more have configurations of their own, which end in a counterexample when run as
`tlc -config <file> <module>`, and are not among the regular runs.

* `PreviewHeedsMonitor` (`LivePreview.cfg`, `LiveClient`). `LIVE_HYPERLIQUID.md:68-69`: a
  monitor failure enables SAFE MODE and SAFE MODE blocks new campaigns. `live.js` 403-404 and
  422 switch the preview off when the status says the monitor is dead; the end of a preview
  (523-524) looks at SAFE MODE and the campaign only and switches it on again, until the next
  status is drawn. (The server refuses; only the button is wrong.)
* `ConfirmHeedsSafeMode` (`LiveConfirm.cfg`, `LiveClient`). The button that places real orders
  is switched on when the preview is shown (518) and after a failed attempt (549), whatever the
  status has said meanwhile; no status switches it off. (The server refuses here, too.)
* `NoRepaintEver` (`WorkspaceStale.cfg`, `MCWorkspace`). `research/galka_lab/README.md` has a
  no-lookahead contract: a pivot uses a named right-side confirmation window. A candle counts
  as closed when `Date.now()` is past its end (862-864). If its last kline is still to come or
  the socket was lost, the row is half done; switching the Radar on, or the arrival of the pack,
  scans it as it is (`ensureData` without `force`, 293-296), and a pattern confirmed on it can
  be taken back by the candles that are loaded later.
* `DamageIsRecovered` (`StateStoreDamage.cfg`, `StateStore`).
  `PRODUCTION_READINESS_REPORT.md:46` and `test_live_engine.py` 502-513: a damaged primary is
  recovered from the backup or a temporary file. If a save follows the damage before the
  process ends, the damaged primary is copied over the good backup (`engine.py` 286-292 copies
  it without a look), and until the primary itself has been replaced, or if that fails, there
  is nothing that can be read.

Without a run, because no document promises otherwise: `savePaperSettings` has no upper limit
for the starting balance but `validateStoreBounds` has, so a store with more than 10^9
exports a snapshot that no restore accepts (`prepareRestore` in the model refuses it, too);
`importWorkspace` replaces the layout without a backup; a restore whose last write is refused
and that is then confirmed again backs up the store it has just installed, and the one before
the restore is lost (`pro.js` 1344); an alert's announcement may throw (846), and then neither
the alert's end nor what the quote did is saved; a record that the cap of the ledger dropped is
registered again if its pattern is still on the chart.

## 5. Proofs

| theorem | module | statement |
|---|---|---|
| `TypeCorrect` | `LiveEngineProofs` | `Spec => []TypeOK` |
| `ClosedClean` | `LiveEngineProofs` | `Spec => []ClosedIsClean` |
| `StoreTypeCorrect` | `StateStoreProofs` | `Spec => []StoreTypeOK` |
| `DamageCostsLittle` | `StateStoreProofs` | `Spec => []DamageCostsOneSave` |
| `StoreImplementsDurable` | `StateStoreProofs` | `Spec => ImplementsDurable` |
| `BlockedPlacesNothing` | `LiveEngineProofs` | `Spec => NoBuyWhenBlocked` |
| `RearmOnlyReplaces` | `LiveEngineProofs` | `Spec => RearmReplacesL1` |
| `SafeModeEndsByReconcile` | `LiveEngineProofs` | `Spec => SafeModeReleased` |
| `EngineImplementsContract` | `LiveEngineProofs` | `Spec => ImplementsContract` |
| `LedgerCorrect` | `LiveLedgerProofs` | `Spec => []LedgerExact` |
| `LedgerDurable` | `LiveLedgerProofs` | `Spec => []LedgerSurvivesCrash` |
| `OneLadderAtMost` | `LiveLedgerProofs` | `Spec => []ExposureBounded` |
| `PriceStaysWithCoin` | `LiveClientProofs` | `Spec => []PricedForItsCoin` |
| `EventsAreToldOnce` | `LiveClientProofs` | `Spec => EventsToldOnce` |
| `ChartOfOneMarket` | `LiveClientProofs` | `Spec => []SeriesOfOneMarket` |
| `OneOfEach` | `LiveClientProofs` | `Spec => []LiveClientTypeOK` |
| `ButtonsFitTheStatus` | `LiveClientProofs` | `Spec => []ButtonsFit` |
| `StoresAreSound` | `WorkspaceProofs` | `Spec => []WorkspaceTypeOK` |
| `RecordsGoForward` | `WorkspaceProofs` | `Spec => RecordsOnlyAdvance` |
| `NothingBackfilled` | `WorkspaceProofs` | `Spec => NoBackfill` |
| `AlertsToldOnce` | `WorkspaceProofs` | `Spec => []AlertToldOnce` |
| `KillLosesLittle` | `WorkspaceProofs` | `Spec => []KillLosesOnlyProgress` |
| `NothingRepainted` | `WorkspaceProofs` | `Spec => NoRepaint` |
| `PaperTyped` | `PaperTradingProofs` | `Spec => []PaperTypeOK` |
| `LedgerStays` | `PaperTradingProofs` | `Spec => []LedgerMatches` |
| `PositionsLeaveByTrade` | `PaperTradingProofs` | `Spec => PositionLeavesByTrade` |
| `CandlesReplayOnce` | `PaperTradingProofs` | `Spec => []ReplayedOnce` |
| `HoldingsStayDisjoint` | `PaperTradingProofs` | `Spec => []HoldingsDisjoint` |
| `GapsStayCovered` | `PaperTradingProofs` | `Spec => []GapsCovered` |

### The engine

The theorems about `LiveEngine` hold for all values of the constants that satisfy the assumptions `NLevelsAssumption`,
`LotAssumption`, `MaxManualAssumption` (`Venue`), `ReadsAssumption`, `TriesAssumption`,
`MaxFaultsAssumption` (`LiveEngine`): any number of levels and units, any number of
confirming reads from one (two for recovery, whose first clean sync only starts the
count), any number of tries, faults and manual actions.

`TypeOK` is inductive. The proof has one lemma per group of actions; the content is in the
places where a size is computed (`Applied` cuts off at zero, the fallback has the missing
size) and in the helpers that name a program point or a status.

`ClosedIsClean` is not inductive: a state that has passed the last clean read with an order
still on the book would violate it in one step. The strengthening is

    CleanInv == TypeOK /\ StateInv /\ ControlInv

* `StateInv`: the campaign in memory *and the one on disk* are clean if closed, so that a
  crash cannot bring back a closed campaign over a book with orders; if the one on disk is
  closed the one in memory is too; and without a position no TP is due.
* `ControlInv`: what each confirming loop already knows. In `_confirm_flat_and_clean` a
  first read with no position and no owned order means that no entry rests any more; nobody
  but the engine puts entries on the book, so this stays true while it reads on, and without
  entries and position no TP can become due. In recovery the same fact is carried by the
  counter of clean syncs, `zero`, which outlives the operation and even a crash, because it
  is saved.

The one place where more than one read is needed is recovery: there the position is read
with the sync and the orders later, and only from the second clean sync on is the absence of
entries a fact about the time *before* the position was read. `ReadsAssumption` asks exactly
this (`RecoveryReads` at least 2; the code has 3), and the mutant `CountedOnce`, which closes
after the first, is caught by the run.

**Orders and SAFE MODE**. None of the three action properties follows
from the guard of one step: when an order is placed, what made it admissible was read several
calls before. `OrderInv == CleanInv /\ OrderState /\ OrderControl` carries it. `OrderControl`
says, place by place, what is known there: a rearm manages nothing, its second part has no
unit of the old L1 on the book and, after one confirming read, none of its TPs due; while a
ladder is placed the levels from `regs.k` on are empty. `OrderState` compares memory with
disk: they agree on SAFE MODE and on whether a campaign is active, memory is blocked whenever
the disk is, and a campaign held in memory is held, and blocked, on disk. This is what makes
a block last: without it a crash could bring back a campaign that may rearm.

**The contract**. The same invariant is enough for the refinement.
Each step is looked at twice, for what it does to the book (entries only go and a clean book
stays clean, except where an entry or the fallback target is placed, by a call that returns or
by one whose answer is lost) and for what it does to the campaign (it keeps
its phase, is held, or turns as the contract allows, with the block on disk). One lemma
combines the two into a step of the contract.

**The ledger** (`LiveLedgerProofs`). `LedgerExact` speaks of the statuses in which the engine
itself compares with the account; the invariant claims it of every active one, in memory and
on disk. What is not inductive is the beginning: a new campaign starts with nothing managed,
so the account must be flat when it does, and stay so while `create_campaign` looks at it.
It stays flat because no buy is open that the engine does not know. Such an order comes only
from a rearm whose answer was lost, and `StrayState` says where it can be: SAFE MODE stays on
or the campaign stays active until it is gone. This is an argument over `create_campaign`,
rearm, recovery and reconcile together, and no test reaches it.

`ExposureBounded` needs the room for what is placed next (`ExposureState`): with the ladder
placed up to level *k* - 1 at most *k* - 1 levels are taken, and a rearm leaves one free. The sum over
levels is a fold of the community modules; nothing is known of one before it is shown that the
function it chooses exists (`SumExists`, built level by level over the finite set). From there
on the lemmas are the usual ones: a sum changes by what one summand changes, is monotone, and
is bounded.

### The state file

The theorems about `StateStore` hold for every number of saves and damaged files and, as
`StoreAssumption` says, up to four crashes (`_load_state` looks at five temporary files).
Their invariant is

    StoreInv == StoreTypeOK /\ FilesInv /\ BackupInv
    FilesInv == VersionsKnown /\ SaveIsNewest /\ PrimaryFresh /\ Intact
    BackupInv == BackupServes /\ BackupReady

A power loss brings back the files of the last directory sync, in any combination, so
everything must be known of both pairs, those there are and those that were synced: `Intact`
says that while nothing is damaged neither primary is behind what was acknowledged. A missing
primary then means that nothing was ever acknowledged, and this is why a start may go on to the
backup and the temporary files. `PrimaryFresh` keeps one half of it after damage: a primary
that can be read is never an old one, so a start that reads it need not turn SAFE MODE on.

`BackupServes` is what `DamageCostsLittle` needs: while nothing is damaged and no renewal has
failed both backups hold at least the save before the last acknowledged one, and after one
damage this is so or both primaries can be read. It cannot be kept by looking at the end of a
save alone: the backup must be ahead of what it will have to serve before the primary is
replaced (`BackupReady`), because from the rename of the primary on there is no other copy.
The refinement maps `SaveBegins` to `BeginSave`, `SaveSync` to
`EndSave`, each way a load can end to `Start`, and everything else to `Stop`, `Damage` or a
stutter.

### The browser

The theorems about `LiveClient` hold for any coins and intervals and any number of requests
on their way, clicks, events and failures. `PricedInv` follows a price along its way: what is
in the form is empty or of the coin selected (this is what `symbol.onchange` must clear and
what `renderStatus` fills in again), the preview that waits in the modal, the previews and
commands on their way, the campaign of the engine, and the campaign in every status that was
answered or shown carry the price of their coin. `ToldInv` adds that versions only grow from
what was announced over what the page knows and what is on its way to where the engine is,
and that there is never more than one status on its way (`OneStatus`): without it a late
answer would take the page back.

The other three build on these, one invariant on the other. `ChartInv`: at most one load of
candles is under way, one that asks only for the newest candles was asked for over a chart of
its own instrument and interval, and the chart holds one series, the selected one once it
counts as loaded. `FormInv`: the modal is open for a preview that waits, and the reconcile
button is off exactly while the command or the refresh that follows is on its way, of which
there is one; then the answer that finds the button must be its own. `FitInv`: the details are
drawn again only if their signature changed, so one must know that what is drawn is what the
signature says (`DetailsOK`), whichever answers were skipped in between; and `reopened`, the
exception `ButtonsFit` makes, is known to end with the next status that is drawn.

The theorems about `Workspace` hold for any tapes and intervals, any limit of the ledger, any
depths of the ladder of a record, and any number of commands, refused writes and kills. The
invariant `WorkInv` asks the same of every store there is, in memory, on disk, in the backup,
in the files: it is one of `Stores(now)`. A task is a list of stores, of which the write of
any may be refused; the lemma about `Saves` asks of each store of the list what is asked of
the last, and then one lemma per task suffices (`TaskStep`, `LiveStep`, `QuoteStep`). Below
the page there are three layers: one record under one price (`QuotedRecord`), a ledger under
a price or a candidate (`Quoted`, `Went`), and the candidates of a scan registered one after
the other, a fold again. Three lemmas serve every fold of these proofs: it exists
(`FoldExists`), it keeps what each of its steps keeps (`FoldIn`, by the smallest subset that
would fail), and it is the function the community modules choose. About charts it is proved
that a candle's end is never before its beginning and that only what is confirmed by now is
admitted.

* `RecordsOnlyAdvance` and `NoBackfill` follow from one lemma about steps between two moments
  of a living page (`LivingLedger`); that the shadow was enabled no earlier than `since` is
  part of `WorkInv`.
* `AlertToldOnce` must also be known of the disk, unless the last write stands refused.
* `KillLosesOnlyProgress`: memory and disk, both loaded, differ in trails at most. The step
  with content is a quote that does not save, because nothing important happened to any
  record (`UneventfulSettled`).

* `NoRepaint` is the longest argument. `LivingLedger` says that a record that is new was, with
  its level and the moment of its confirmation, a pattern the chart showed as confirmed at the
  end of the step. What remains is about charts alone: `ShownIsHeld`, what a chart with every
  last update shows is held by the complete chart at every later moment. Such a chart agrees
  with the complete one on every candle that has ended (`WholeChart`). Rows are only added, and
  those closed at the earlier moment never change (`ChartGrows`); score, average range and
  research levels of a pivot look at the rows up to `Around` after it, its confirmation at those
  up to `Side` or `Around` after it, and all of them were closed (`SameLows`, `SameAtr`,
  `SameFeature`, `SameResearch`). So the pivot scores the same. The scan is a fold that finds
  nothing but what scored (`FoundScored`); the property, and the theorem, are about patterns
  that score and are confirmed: a better neighbour may still replace one in the list the Radar
  shows (`mergedWith`).
  `RadarAssumption` says what this rests on: `Side <= Around`, in
  the code 4 and 6. A candle that is confirmed before its surroundings are closed could
  be taken back.

The proof found a wrong property. `NoBackfill` used to say that every step from a living page
that adds a record leaves a living page. With two faults a restore whose write is refused,
and then a kill, bring back a ledger that was restored from a file, with records older than
the page: the run had one fault and did not see it. Nothing is wrong in the program, which
promises this of scans and not of restores. The property now speaks of steps between two
moments of one living page, and in return of any new record, not only one registered in that
very step. It passes with one fault and with two (1.9 million states).

### Paper trading

The theorems about `PaperTrading` hold for any number of symbols, levels, minutes, events and
commands, any tapes of prices that are not negative, any stored campaigns, and these
assumptions. `PaperEngineAssumption`: a minute has at least two ticks, so that its open and
its close are two moments, as those of a candle are (59 999 ms apart).
`PaperTradingAssumption`: when the full buffer drops its oldest quarter, the rest has room for
one quote of each symbol (50 000 quotes and three symbols in the code); with less a moment
could be dropped while it is put in. Prices are natural numbers because -1 stands for none.

A task is a fold: of the quotes that waited, of the positions that a margin check sells, of
the instants of a replay and, in each, of the symbols. `FoldLemmas` restates a fold over a
finite set or a sequence as a function on its subsets, shows that it exists when its step
keeps within a set (`FoldExists`, `LeftFoldExists`), and that what every step keeps the whole
keeps (`FoldIn`, `PrefixIn`, by the least step that would fail). The proofs do this once for
each fold of the model, and from there on a task is a run of states (`QuoteRun`, `BufferRun`,
`PointsRun`, `ReplayRun`) with one lemma for its step.

Whatever touches the books is a sequence of moves of one campaign (`Move`): it grows, expires,
or is sold. Each keeps the ledger in step with the campaigns (`LedgerOK`), keeps every position
or books its trade (`Leads`), adds trades after those that are there (`Ordered`, `NotAfter`, if
the move is not earlier than they are), and starts no campaign (`Heirs`). The margin check
needs one fact beyond: it sells all that has a price or nothing, each symbol once (`Checked`).

On this stands the invariant `Shape == Typed /\ Paged /\ Cursors`:

* `Typed`: the types, and `LedgerOK` of the store.
* `Paged`: quotes wait only during a replay, in the order of time and later than its start,
  those that were dropped are not later than those that wait, a hidden page and a replay that
  must not close the gap have a gap marked, and a page that is down keeps nothing.
* `Cursors`: no cursor is in the future, and they all come with the first start.

`PaperTyped`, `LedgerStays` and `PositionsLeaveByTrade` follow from it; the others add one
invariant each.

* `Replays`, for `CandlesReplayOnce`: the candles that were replayed close no later than `rec`,
  and a replay under way asks only for later ones, whatever the store was changed to since.
* `Orderly`, for `HoldingsStayDisjoint`: what the books hold of a symbol is not later than its
  candle cursor, or than a moment that all other cursors have passed (`Bounded`). Then nothing
  that is still to be replayed or flushed is earlier than what was traded. The two ways are
  both needed: a replay moves the books of one symbol past the cursors of the others.
* `Coverage`, for `GapsStayCovered`: a minute that was neither seen nor replayed and is not
  older than `MaxRecovery` is after every cursor a replay would start from, is asked for by the replay under way, or waits in its
  buffer (`Dues`). The buffer is why cursors alone are not enough: what waits came by a socket
  that is still open, unless a gap is known (`Attended`), and the minute before the first quote
  that waits was seen (`Fronted`), so that what is flushed and what is replayed leave nothing
  between them. `Watched` is the same for the minute under way, `Fresh` for campaigns the
  replay does not know.

Trying to prove these properties changed the model:

* `early` was missing. `HoldingsDisjoint` is false without it (section 4); the tapes of the run,
  on which no margin check fails while a request does, had not shown it.
* A reconnect during a replay that no gap was marked for is the same hole as a page that wakes
  up during one (both get the promise of the replay under way); only the second raised
  `slipped`.
* `GapsCovered` used to accept a minute whose quotes were in the buffer, which a kill would
  lose. The property now asks that the minute can be replayed from what the store holds, and
  it holds: during a replay the cursors are behind what waits.
* Two steps of a replay (`ReplayInstant`, `Replay`) were written as a fold over a set of one point and over a selected
  sequence; they now say the same with a choice and a case, and the runs agree.

### Model-checked only

Liveness: `RecoveryEnds` and `RecoveryProtects` of the engine and `ScreenSettles` of the LIVE
page. They need fairness and `ENABLED`, which are out of the prover's reach. Every other
property of a passing run is proved. `PaperEngine`, `Radar` and `ShadowEngine` are operators;
what is proved of them are the facts the modules above them need (`Engine`, for
`processCampaignQuote`), not that their results are the best ones.

## 6. What is not modelled

Prices as numbers, fees, PnL and margin: no safety property above depends on them, except
that the paper side decides liquidation from a balance, which is kept in units of prices.
The wording of events. The venue's limit on how many fills one request returns. Several
coins in the engine: a second coin can only contribute foreign orders or positions, which
`_scan_global_risks` treats like stray ones.

The HTTP layer and its process lock, the configuration, ladder sizing. In the browser:
drawings and their undo, replay training, the automatic signal's detection of a pattern,
classification of patterns and the statistics tables, old store schemas, several tabs (the
code does not coordinate them: the last save wins), the service worker. Presentation,
offline statistics and installation scripts are left out for good. `PROJECT.json` gives the
reason for each component.

## 7. Plan

Done: `Venue`, `LiveEngine`, `CampaignContract` with type correctness and `ClosedIsClean`;
`StateStore`, `DurableState` with the refinement proved; `PaperEngine`, `PaperTrading`;
`ShadowEngine`, `Radar`, `Workspace`; `LiveClient`. Proved: every invariant and safety
property of `LiveEngine`, `StateStore`, `LiveClient`, `Workspace` and `PaperTrading` that a
passing run checks, and the two refinements.

Next, in order of importance:

1. `LiveServer`: process lock, start and stop, the death of the monitor thread.
2. An abstract ledger that `PaperTrading` refines: each exit happens at most once and money is
   the sum of the records. `LedgerStays` and `PositionsLeaveByTrade` are most of its proof.
3. `Ladder`: allocation and rounding as functions, against a reference definition.
