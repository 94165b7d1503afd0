------------------------------ MODULE Workspace ------------------------------
(***************************************************************************)
(* terminal/pro.js, modules/store.js, modules/backup.js: what one browser  *)
(* page keeps and how it survives.  The store is changed in memory by      *)
(* quotes and by the user and written to localStorage as a whole; a page   *)
(* dies at any moment, a write can be refused, and a snapshot file can     *)
(* replace everything.  Shadow records are followed meanwhile.             *)
(*                                                                         *)
(* One action is one JavaScript task.  A task saves several times; a save  *)
(* that throws ends it there.  The instrument is one, with several chart   *)
(* intervals; its paper campaigns and trades are a number that grows when  *)
(* they change (see PaperTrading), and of its settings there is one, the   *)
(* starting balance, which is huge or not.  The activity log and the       *)
(* drawings are left out.                                                  *)
(*                                                                         *)
(* Every interval has a chart of its own, loaded when it is first shown.   *)
(* Its candles are updated by the klines of the socket, which carries      *)
(* those of the default interval and of one more; what a chart missed it   *)
(* gets back with the next reload only.                                    *)
(***************************************************************************)
EXTENDS ShadowEngine, Radar

CONSTANTS
  Intervals,   \* chart intervals
  Default,     \* the one a new user sees, and the socket always carries
  Length,      \* ticks of a candle of each interval
  Tapes,       \* external: what the market can do, from tick -Past to the Horizon
  AlertPrice,  \* where alerts are set
  MaxAlerts,   \* bound: alerts created
  MaxLedger,   \* bound: changes of the paper ledger
  Horizon,     \* bound: last tick
  MaxClicks,   \* bound: commands of the user
  MaxFaults    \* bound: refused writes, failed requests, ticks without a socket, kills

ASSUME WorkspaceAssumption ==
  /\ Default \in Intervals /\ Length \in [Intervals -> Nat \ {0}]
  /\ Tapes \subseteq [1..(Past + Horizon + 1) -> Int] /\ Tapes # {}
  /\ MaxAlerts \in Nat /\ MaxLedger \in Nat
  /\ Horizon \in Nat /\ MaxClicks \in Nat /\ MaxFaults \in Nat

VARIABLES
  now, last,   \* the clock, and the price the page shows
  market,      \* the tape that is played
  store,       \* the store in memory
  disk,        \* STORAGE_KEY
  backup,      \* PRE_RESTORE_BACKUP_KEY
  files,       \* snapshots the user has downloaded
  layouts,     \* workspace files the user has downloaded
  page,        \* runtime
  told,        \* not in the program: alerts announced and not set again since
  clicks, faults

keeps  == <<backup, files, layouts>>
vars   == <<now, last, market, store, disk, keeps, page, told, clicks, faults>>

Labels == {"positive", "negative"}

\* Ticks at which a chart may miss its update: those before were loaded with the page.
Ticks  == 1..Horizon
Losses == {lost : lost \in SUBSET Ticks}

\* What the Radar shows, for each tape, interval, updates missed and moment.
Found ==
  [mk \in Tapes |-> [i \in Intervals |-> [lost \in Losses |-> [t \in 0..Horizon |->
     decorateRadarCandidates(chartRows(mk, Length[i], t, lost), Length[i], t)]]]]

Ids ==
  {c.id : c \in UNION {Found[mk][i][lost][t] :
                         mk \in Tapes, i \in Intervals, lost \in Losses, t \in 0..Horizon}}
None   == [none |-> TRUE]

createDefaultStore ==
  [shadow |-> createShadowState, interval |-> Default, radar |-> FALSE, alerts |-> {},
   labels |-> [i \in Ids \X Intervals |-> "none"], paper |-> 0, huge |-> FALSE]

\* Mutant: the shadow goes on after a load.
migrateKeepsShadow(st) == [st EXCEPT !.radar = FALSE, !.shadow = normalizeShadowState(@)]

migrateStore(st) ==
  [st EXCEPT !.radar = FALSE, !.shadow = [normalizeShadowState(@) EXCEPT !.enabled = FALSE]]

\* loaded: the charts in memory; lost: the ticks at which each got no update; carried:
\* the interval the socket was opened for; pending: the store a restore would install.
\* The last two are not in the program: since when the shadow has watched without a
\* break, and whether a task ended without the save it should have made since the
\* last good one.
Fresh(interval, t) ==
  [up |-> TRUE, interval |-> interval, loaded |-> {Default, interval},
   lost |-> [i \in Intervals |-> {}], carried |-> interval,
   pack |-> "none", enabling |-> FALSE, checked |-> FALSE,
   dirty |-> FALSE, pending |-> None, since |-> t, refused |-> FALSE]

Down == [up |-> FALSE, refused |-> FALSE]

Init ==
  /\ now = 0 /\ last = Never /\ market \in Tapes
  /\ store = createDefaultStore /\ disk = createDefaultStore
  /\ backup = None /\ files = {} /\ layouts = {}
  /\ page = Down /\ told = {}
  /\ clicks = 0 /\ faults = 0

Fault == faults < MaxFaults /\ faults' = faults + 1
Click == page.up /\ clicks < MaxClicks /\ clicks' = clicks + 1

\* No task saves more often.
Turns == 1..3

\* A task that brings the store from one state to the next and saves each of
\* "steps"; what is left in memory when all went well is "end".  Without a
\* refused write the page goes on as "done"; if the i-th is refused, as broken[i].
Saves(steps, end, done, broken) ==
  \/ /\ store' = end
     /\ disk' = IF steps = <<>> THEN disk ELSE Last(steps)
     /\ page' = IF steps = <<>> THEN done ELSE [done EXCEPT !.refused = FALSE]
     /\ UNCHANGED faults
  \/ \E i \in DOMAIN steps :
       /\ Fault
       /\ store' = steps[i]
       /\ disk' = IF i = 1 THEN disk ELSE steps[i - 1]
       /\ page' = [broken[i] EXCEPT !.refused = TRUE]

\* One change, one save, and nothing after it that matters.
Keep(st) == Saves(<<st>>, st, page, [i \in Turns |-> page])

When(condition, st) == IF condition THEN <<st>> ELSE <<>>

------------------------------------------------------------------------------
(* Charts                                                                   *)

\* updateCandleMap at the next tick: the charts of "got" are updated.
Ticked(p, got) ==
  [p EXCEPT !.lost = [i \in Intervals |-> IF i \in p.loaded \ got THEN @[i] \cup {now + 1} ELSE @[i]]]

\* ensureData: the charts of "some" get what the exchange answers.
Loaded(p, some) ==
  [p EXCEPT !.loaded = @ \cup some, !.lost = [i \in Intervals |-> IF i \in some THEN {} ELSE @[i]]]

\* The socket opens again, or a replay of what was missed begins: the default chart and
\* the one on the screen are loaded anew.  A request may fail.
ReloadCharts ==
  /\ page.up
  /\ \E some \in SUBSET {Default, page.interval} :
       /\ page' = [Loaded(page, some) EXCEPT !.carried = page.interval]
       /\ IF some = {Default, page.interval} THEN UNCHANGED faults ELSE Fault
  /\ UNCHANGED <<now, last, market, store, disk, keeps, told, clicks>>

------------------------------------------------------------------------------
(* Radar and shadow                                                         *)

Visible ==
  IF page.interval \in page.loaded THEN Found[market][page.interval][page.lost[page.interval]][now]
                                   ELSE {}

\* Those with a type.
Typed == {c \in Visible : c.typed}

\* The pattern that came last.
Latest(found) == CHOOSE c \in found : \A d \in found : d.id <= c.id

\* syncShadowCandidates: what the scan of the chart found, in the order of time.
syncShadow(st) ==
  [st EXCEPT !.shadow =
     MapThenFoldSet(LAMBDA c, sh :
                      registerShadowCandidate(sh, c, st.labels[<<c.id, page.interval>>], now),
                    @, LAMBDA c : c, Latest, Typed)]

\* scanRadar and updateMarkers: a candle closed, or a chart was loaded.
ScanRadar ==
  /\ page.up /\ page.pack = "ready" /\ store.shadow.enabled
  /\ LET st == syncShadow(store) IN st # store /\ Keep(st)
  /\ UNCHANGED <<now, last, market, keeps, told, clicks>>

\* ensureGalkaStats: one download, shared.
ensurePack(p) == IF p.pack = "none" THEN [p EXCEPT !.pack = "loading"] ELSE p

\* The pack is asked for after the scan has been saved.
toggleRadar ==
  /\ Click
  /\ LET s1 == [store EXCEPT !.radar = ~@]
         s2 == IF page.pack = "ready" THEN syncShadow(s1) ELSE s1
         p  == IF s1.radar THEN ensurePack(page) ELSE page
         steps == <<s1>> \o When(s2 # s1, s2) \o <<s2>>
     IN  Saves(steps, s2, p, [i \in Turns |-> IF i < Len(steps) THEN page ELSE p])
  /\ UNCHANGED <<now, last, market, keeps, told>>

\* The rest of toggleShadowMode once the pack is there: the Radar goes on too,
\* and the chart is scanned.  "before" are the saves the task has made so far.
Enable(before, p) ==
  LET s1 == [store EXCEPT !.shadow = setShadowEnabled(@, TRUE, now), !.radar = TRUE]
      s2 == syncShadow(s1)
      on == [p EXCEPT !.checked = TRUE, !.enabling = FALSE,
                      !.since = IF store.shadow.enabled THEN @ ELSE now]
      no == [p EXCEPT !.checked = FALSE, !.enabling = FALSE]
  IN  Saves(before \o <<s1>> \o When(s2 # s1, s2), s2, on,
            [i \in Turns |-> IF i <= Len(before) THEN no ELSE on])

\* The checkbox is clicked; it is free while the pack loads.
ShadowOn ==
  /\ Click /\ ~page.checked
  /\ IF page.pack = "ready" THEN Enable(<<>>, page)
     ELSE /\ page' = [ensurePack(page) EXCEPT !.checked = TRUE, !.enabling = TRUE]
          /\ UNCHANGED <<store, disk, faults>>
  /\ UNCHANGED <<now, last, market, keeps, told>>

ShadowOff ==
  /\ Click /\ page.checked
  /\ LET st  == [store EXCEPT !.shadow = setShadowEnabled(@, FALSE, now)]
         off == [page EXCEPT !.checked = FALSE]
     IN  Saves(<<st>>, st, off, [i \in Turns |-> off])
  /\ UNCHANGED <<now, last, market, keeps, told>>

\* What the server or the cache may answer: the file that belongs to this program,
\* another one (a stale or a damaged copy), or nothing.
Answers == {"pack", "other", "none"}

\* The status, the checksum of the bytes, then the versions and the contents.
loadGalkaStatsPack(answer) == answer = "pack"

PackArrives(answer) ==
  /\ page.up /\ page.pack = "loading" /\ loadGalkaStatsPack(answer)
  /\ LET p == [page EXCEPT !.pack = "ready", !.checked = store.shadow.enabled]
     IN  IF page.enabling THEN Enable(<<store>>, p)
         ELSE Saves(<<store>>, store, p, [i \in Turns |-> p])
  /\ UNCHANGED <<now, last, market, keeps, told, clicks>>

PackFails(answer) ==
  /\ page.up /\ page.pack = "loading" /\ ~loadGalkaStatsPack(answer) /\ Fault
  /\ page' = [page EXCEPT !.pack = "none", !.enabling = FALSE, !.checked = FALSE]
  /\ UNCHANGED <<now, last, market, store, disk, keeps, told, clicks>>

\* After the save the socket is opened for the interval and its chart is loaded, unless
\* it is in memory: then it is shown as it was left.
changeInterval ==
  /\ Click
  /\ \E i \in Intervals \ {page.interval} :
       LET st == [store EXCEPT !.interval = i]
           p  == [page EXCEPT !.interval = i]
       IN  Saves(<<st>>, st, [Loaded(p, {i} \ p.loaded) EXCEPT !.carried = i], [n \in Turns |-> p])
  /\ UNCHANGED <<now, last, market, keeps, told>>

\* Any candidate can be labelled.  The label is kept with the interval it was given on;
\* a record of the pattern gets it whatever interval it was registered from.
labelRadarCandidate ==
  /\ Click /\ store.radar
  /\ \E c \in Visible, value \in Labels :
       Keep([store EXCEPT !.labels[<<c.id, page.interval>>] = value,
                          !.shadow = labelShadowCandidate(@, c.id, value)])
  /\ UNCHANGED <<now, last, market, keeps, told>>

------------------------------------------------------------------------------
(* Quotes                                                                   *)

Crossed(a, price) ==
  IF a.above THEN last < a.price /\ price >= a.price ELSE last > a.price /\ price <= a.price

\* processAlerts: those that are hit are announced and put out.
Hit(price) == {a \in store.alerts : last # Never /\ a.active /\ Crossed(a, price)}

\* Mutant: alerts are put out in memory only.
StepsUnsaved(s1, s2, s3, observed) == When(s2 # s1, s2) \o When(observed, s3)

\* The saves of processQuote: alerts, campaigns, shadow.
QuoteSteps(s1, s2, s3, observed) ==
  When(s1 # store, s1) \o When(s2 # s1, s2) \o When(observed, s3)

PutOut(some) == [store EXCEPT !.alerts = (@ \ some) \cup {[a EXCEPT !.active = FALSE] : a \in some}]

\* The klines that come with a tick while the socket is open.
Carried == {Default, page.carried}

\* processQuote of a live quote.  What is no event of a shadow record is saved
\* only every five seconds and waits as "dirty" otherwise.
Quote ==
  /\ page.up /\ now < Horizon /\ now' = now + 1
  /\ \E ledger \in {store.paper, store.paper + 1}, due \in BOOLEAN :
       LET price == PriceAt(market, now')
           hit == Hit(price)
           s1  == PutOut(hit)
           s2  == [s1 EXCEPT !.paper = ledger]
           s3  == [s2 EXCEPT !.shadow = processShadowBook(@, price, price, now')]
           observed == s3 # s2 /\ (due \/ Important(s2.shadow, s3.shadow))
           steps == QuoteSteps(s1, s2, s3, observed)
           dirt(d) == [Ticked(page, Carried) EXCEPT !.dirty = d]
       IN  /\ ledger <= MaxLedger
           /\ due => s3 # s2
           /\ last' = price /\ told' = told \cup {a.id : a \in hit}
           /\ Saves(steps, s3, dirt(IF observed THEN FALSE ELSE page.dirty \/ s3 # s2),
                    [i \in Turns |-> dirt(page.dirty \/ (observed /\ i = Len(steps)))])
  /\ UNCHANGED <<market, keeps, clicks>>

\* "new Notification" throws, as it does in a browser that knows them from a worker
\* only: the alerts up to that one are out in memory, and the quote ends there.
NotificationThrows ==
  /\ page.up /\ now < Horizon /\ now' = now + 1 /\ Fault
  /\ \E some \in SUBSET Hit(PriceAt(market, now')) \ {{}} :
       /\ store' = PutOut(some) /\ told' = told \cup {a.id : a \in some}
       /\ last' = PriceAt(market, now')
       /\ page' = [Ticked(page, Carried) EXCEPT !.refused = TRUE]
  /\ UNCHANGED <<market, disk, keeps, clicks>>

\* Time passes without a live quote: no page, no socket, or a replay whose waiting
\* quotes move the price shown and nothing else, while the klines come.
Unseen ==
  /\ now < Horizon /\ now' = now + 1
  /\ \/ ~page.up /\ UNCHANGED <<last, page, faults>>
     \/ page.up /\ last' = last /\ page' = Ticked(page, {}) /\ Fault
     \/ page.up /\ last' = PriceAt(market, now') /\ page' = Ticked(page, Carried) /\ UNCHANGED faults
  /\ UNCHANGED <<market, store, disk, keeps, told, clicks>>

\* The one-second timer.
SaveDirty ==
  /\ page.up /\ page.dirty
  /\ Saves(<<store>>, store, [page EXCEPT !.dirty = FALSE], [i \in Turns |-> page])
  /\ UNCHANGED <<now, last, market, keeps, told, clicks>>

------------------------------------------------------------------------------
(* Alerts and settings of the user                                          *)

createAlert ==
  /\ Click
  /\ \E id \in (1..MaxAlerts) \ {a.id : a \in store.alerts}, above \in BOOLEAN :
       /\ Keep([store EXCEPT !.alerts =
                  @ \cup {[id |-> id, above |-> above, price |-> AlertPrice, active |-> TRUE]}])
       /\ told' = told \ {id}
  /\ UNCHANGED <<now, last, market, keeps>>

toggleAlert ==
  /\ Click
  /\ \E a \in store.alerts :
       /\ Keep([store EXCEPT !.alerts = (@ \ {a}) \cup {[a EXCEPT !.active = ~@]}])
       /\ told' = told \ {a.id}
  /\ UNCHANGED <<now, last, market, keeps>>

deleteAlert ==
  /\ Click
  /\ \E a \in store.alerts : Keep([store EXCEPT !.alerts = @ \ {a}])
  /\ UNCHANGED <<now, last, market, keeps, told>>

savePaperSettings ==
  /\ Click
  /\ \E huge \in BOOLEAN : Keep([store EXCEPT !.huge = huge])
  /\ UNCHANGED <<now, last, market, keeps, told>>

------------------------------------------------------------------------------
(* Files                                                                    *)

exportFullSnapshot ==
  /\ Click
  /\ files' = files \cup {store} /\ Keep(store)
  /\ UNCHANGED <<now, last, market, backup, layouts, told>>

\* A file of the user that is no snapshot, or too large, too deep or too long.
Garbage == [garbage |-> TRUE]
auditJsonTree(file) == file # Garbage

\* migrateStore has cut the lists to their limits before, and savePaperSettings
\* keeps the settings within theirs, but for the upper one of the starting balance.
validateStoreBounds(st) == ~st.huge

validateBackupSnapshot(file) ==
  IF auditJsonTree(file) /\ validateStoreBounds(migrateStore(file)) THEN migrateStore(file) ELSE None

\* A file is read and checked; a bad one leaves nothing to confirm.
prepareRestore ==
  /\ Click
  /\ \E file \in files \cup {Garbage} :
       page' = [page EXCEPT !.pending = validateBackupSnapshot(file)]
  /\ UNCHANGED <<now, last, market, store, disk, keeps, told, faults>>

\* The button, and closeModals on the way to anything else.
closeRestore ==
  /\ page.up /\ page.pending # None
  /\ page' = [page EXCEPT !.pending = None]
  /\ UNCHANGED <<now, last, market, store, disk, keeps, told, clicks, faults>>

\* First the backup, then a file, then the new store, then the page is loaded again.
\* The backup is refused; or the file cannot be made; or the new store is refused: then
\* the page goes on with it in memory, and the question stays open.
confirmRestore ==
  /\ page.up /\ page.pending # None
  /\ LET st == migrateStore(page.pending)
     IN  \/ Fault /\ UNCHANGED <<store, disk, backup, files, page, told>>
         \/ Fault /\ backup' = store /\ UNCHANGED <<store, disk, files, page, told>>
         \/ /\ backup' = store /\ files' = files \cup {store}
            /\ told' = {} /\ store' = st
            /\ \/ disk' = st /\ page' = Down /\ UNCHANGED faults
               \/ Fault /\ page' = [page EXCEPT !.refused = TRUE] /\ UNCHANGED disk
  /\ UNCHANGED <<now, last, market, layouts, clicks>>

exportWorkspace ==
  /\ Click
  /\ layouts' = layouts \cup {[interval |-> store.interval, alerts |-> store.alerts, radar |-> store.radar]}
  /\ UNCHANGED <<now, last, market, store, disk, backup, files, page, told, faults>>

\* The layout is replaced without a backup.
importWorkspace ==
  /\ Click
  /\ \E ui \in layouts :
       LET st == [store EXCEPT !.interval = ui.interval, !.alerts = ui.alerts, !.radar = ui.radar]
       IN  Saves(<<st>>, st, Down, [i \in Turns |-> page])
  /\ told' = {}
  /\ UNCHANGED <<now, last, market, keeps>>

------------------------------------------------------------------------------
(* The page                                                                 *)

loadStore == migrateStore(disk)

Start ==
  /\ ~page.up
  /\ page' = Fresh(loadStore.interval, now)
  /\ store' = loadStore /\ last' = Never
  /\ UNCHANGED <<now, market, disk, keeps, told, clicks, faults>>

\* The tab is closed or killed.
Kill ==
  /\ page.up /\ Fault
  /\ page' = Down /\ last' = Never /\ store' = disk
  /\ told' = IF page.refused THEN {} ELSE told
  /\ UNCHANGED <<now, market, disk, keeps, clicks>>

------------------------------------------------------------------------------
Next ==
  \/ ReloadCharts \/ ScanRadar \/ toggleRadar \/ ShadowOn \/ ShadowOff
  \/ \E answer \in Answers : PackArrives(answer) \/ PackFails(answer)
  \/ changeInterval \/ labelRadarCandidate
  \/ Quote \/ NotificationThrows \/ Unseen \/ SaveDirty
  \/ createAlert \/ toggleAlert \/ deleteAlert \/ savePaperSettings
  \/ exportFullSnapshot \/ prepareRestore \/ closeRestore \/ confirmRestore
  \/ exportWorkspace \/ importWorkspace
  \/ Start \/ Kill

Spec == Init /\ [][Next]_vars

------------------------------------------------------------------------------
(* Properties                                                               *)

\* The confirmed patterns of a chart that missed nothing, merged with another or not.
Holding ==
  [mk \in Tapes |-> [i \in Intervals |-> [t \in 0..Horizon |->
     LET rows == chartRows(mk, Length[i], t, {})
     IN  {<<rows[n].time, rows[n].low, ConfirmationAt(rows, n, Length[i])>> :
            n \in {x \in Scored(rows) : researchFeaturesAt(rows, x, Length[i])}}]]]

RecordOK(r) ==
  /\ r.id \in Ids /\ r.label \in Labels \cup {"none"}
  /\ r.confirmed <= r.registered /\ r.registered <= now
  /\ r.status \in {"waiting", "open", "trailing", "closed", "expired"}
  /\ r.filled \subseteq 1..NDepths
  /\ r.status \in {"waiting", "expired"} => r.filled = {}
  /\ r.status = "open" => ~r.armed
  /\ r.status = "trailing" => r.armed
  /\ r.armed => r.filled # {} /\ r.stop >= r.level /\ r.top >= r.stop
  /\ Followed(r) <=> r.exit = Never
  /\ r.returned # Never => r.returned >= r.registered

StoreOK(st) ==
  LET rs == st.shadow.records
  IN  /\ Len(rs) <= MaxRecords
      /\ \A i, j \in DOMAIN rs : rs[i].id = rs[j].id => i = j
      /\ \A i \in DOMAIN rs : RecordOK(rs[i])
      /\ st.shadow.enabled => st.shadow.startedAt \in 0..now
      /\ \A a, b \in st.alerts : a.id = b.id => a = b
      /\ st.paper \in 0..MaxLedger /\ st.huge \in BOOLEAN

\* Types, and the shape of a shadow ledger: never more records than the limit, one
\* record of a pattern, nothing armed that holds nothing, no stop below the
\* pattern, an end exactly for what is no longer followed.
WorkspaceTypeOK ==
  /\ now \in 0..Horizon /\ last \in {market[k] : k \in DOMAIN market} \cup {Never}
  /\ StoreOK(store) /\ StoreOK(disk)
  /\ \A f \in files : StoreOK(f)
  /\ backup # None => StoreOK(backup)
  /\ told \subseteq 1..MaxAlerts
  /\ page.up => /\ page.interval \in Intervals
                /\ page.pack \in {"none", "loading", "ready"}
                /\ page.since \in 0..now
  /\ page.up /\ store.shadow.enabled => page.pack = "ready"

\* "Shadow mode never backfills candidates from before its start time"
\* (research/galka_lab/README.md): no task but a restore puts a record in the ledger
\* of a pattern that was confirmed before the shadow began to watch, in this page and
\* this time; not after a reload, an off and on, or a restored ledger that was
\* enabled.
NoBackfill ==
  [][page.up /\ page'.up /\ ~confirmRestore =>
       \A i \in DOMAIN store'.shadow.records :
         LET r == store'.shadow.records[i]
         IN  ~Known(store.shadow, r.id) => r.confirmed >= page'.since]_vars

Advanced(r, q) ==
  /\ <<q.id, q.level, q.confirmed, q.registered>> = <<r.id, r.level, r.confirmed, r.registered>>
  /\ r.filled \subseteq q.filled
  /\ r.returned # Never => q.returned = r.returned
  /\ r.armed => q.armed /\ q.filled = r.filled /\ q.stop >= r.stop
  /\ r.exit # Never => q = [r EXCEPT !.label = q.label]

\* While a page lives, a shadow record only goes forward: an ended one changes no
\* more except for its label, what is filled stays filled, nothing fills once the
\* trail is armed and the stop does not fall; a record goes only as the oldest of
\* a full ledger.  (GALKA_CONSTITUTION.md: the trailing stop "never decreases".)
RecordsOnlyAdvance ==
  [][page.up /\ page'.up /\ ~confirmRestore =>
       LET a == store.shadow.records
           b == store'.shadow.records
       IN  \E gone \in 0..Len(a) :
             /\ gone > 0 => Len(b) = MaxRecords
             /\ Len(b) >= Len(a) - gone
             /\ \A i \in (gone + 1)..Len(a) : Advanced(a[i], b[i - gone])
             /\ \A j \in (Len(a) - gone + 1)..Len(b) :
                  b[j].registered = now /\ b[j].status = "waiting"]_vars

\* A record that enters the ledger is a pattern the chart it came from holds from then
\* on, whatever comes next and whoever loads it.
HeldFromNow(r) ==
  \A t \in now..Horizon : <<r.id, r.level, r.confirmed>> \in Holding[market][page.interval][t]

\* The chart on the screen got the last update of every candle that has ended.
SeenToTheEnd ==
  LET length == Length[page.interval]
  IN  \A k \in 1..((now + Past) \div length) :
        k * length - Past - 1 \notin page.lost[page.interval]

\* "A pivot uses a named right-side confirmation window" (research/galka_lab/
\* README.md, No-lookahead contract): a record is never of a pattern that later
\* candles, or the rest of the forming one, take back.  Set apart is a chart with a
\* candle whose last update was lost (NoRepaintEver).
NoRepaint ==
  [][page.up /\ page'.up /\ ~confirmRestore /\ SeenToTheEnd =>
       \A i \in DOMAIN store'.shadow.records :
         LET r == store'.shadow.records[i]
         IN  ~Known(store.shadow, r.id) => HeldFromNow(r)]_vars

\* The same of every chart.  The code does not keep it: a candle is taken for finished
\* when the clock is past its end, though the chart may hold it half done.
NoRepaintEver ==
  [][page.up /\ page'.up /\ ~confirmRestore =>
       \A i \in DOMAIN store'.shadow.records :
         LET r == store'.shadow.records[i]
         IN  ~Known(store.shadow, r.id) => HeldFromNow(r)]_vars

\* An alert that has been announced is not armed again but by the user: not by a
\* crash, not by another tick on the same side.  Set apart is a page that died
\* while its last save was refused or never made.
AlertToldOnce == \A a \in store.alerts : a.active => a.id \notin told

\* The part of a record that may be lost: how far its trail has come.
Unarmed(r) ==
  [r EXCEPT !.armed = FALSE, !.top = Never, !.stop = Never,
            !.status = IF @ = "trailing" THEN "open" ELSE @]

Settled(st) ==
  [st EXCEPT !.shadow.records = [i \in DOMAIN @ |-> Unarmed(@[i])]]

\* A page that is killed loses nothing but the progress of trails: alerts, labels,
\* the paper ledger, and fills, returns and ends of the shadow are on disk as soon
\* as the task that made them ends, unless its save was refused or never made.
KillLosesOnlyProgress ==
  page.up /\ ~page.refused => Settled(loadStore) = Settled(migrateStore(store))
==============================================================================
