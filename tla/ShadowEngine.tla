----------------------------- MODULE ShadowEngine -----------------------------
(***************************************************************************)
(* terminal/modules/shadow-engine.js: patterns the Radar confirmed are     *)
(* followed as if a ladder had been placed at each, without a position     *)
(* anywhere.  A record is a value; the ledger of records is a value too.   *)
(*                                                                         *)
(* Prices and times are integers, level i lies i below the pattern, and    *)
(* fees, weights, extremes and returns in per cent are left out.  Records  *)
(* are of one instrument: a quote of another one changes none of them.     *)
(***************************************************************************)
EXTENDS Integers, Sequences, FiniteSets, FiniteSetsExt, SequencesExt

CONSTANTS
  NDepths,       \* levels of the profile
  ReclaimBuffer, \* reclaimBufferPct: above the pattern by this much arms the trail
  TrailDistance, \* trailDistancePct
  MaxAge,        \* SHADOW_MAX_HOURS
  MaxRecords     \* SHADOW_MAX_RECORDS

ASSUME ShadowEngineAssumption ==
  /\ NDepths \in Nat \ {0} /\ ReclaimBuffer \in Nat /\ TrailDistance \in Nat
  /\ MaxAge \in Nat \ {0} /\ MaxRecords \in Nat \ {0}

Never == -1

createShadowState == [enabled |-> FALSE, startedAt |-> Never, records |-> <<>>]

\* Mutant: one record too many is kept.
NewestAndOne(records) ==
  SubSeq(records, Max({1, Len(records) - MaxRecords}), Len(records))

\* What a load or an import makes of a ledger: the newest records of it.
Newest(records) ==
  SubSeq(records, Max({1, Len(records) - MaxRecords + 1}), Len(records))

normalizeShadowState(sh) == [sh EXCEPT !.records = Newest(@)]

setShadowEnabled(sh, on, t) ==
  [sh EXCEPT !.enabled = on, !.startedAt = IF on /\ ~sh.enabled THEN t ELSE @]

------------------------------------------------------------------------------
(* Registration                                                             *)

Record(c, label, t) ==
  [id |-> c.id, level |-> c.level, confirmed |-> c.confirmed, registered |-> t, label |-> label,
   status |-> "waiting", filled |-> {}, returned |-> Never,
   armed |-> FALSE, top |-> Never, stop |-> Never, exit |-> Never]

Known(sh, id) == \E i \in DOMAIN sh.records : sh.records[i].id = id

\* A candidate without a type, a level or a usable profile is refused before
\* anything else and is no candidate here.
Registers(sh, c) ==
  /\ sh.enabled /\ sh.startedAt # Never
  /\ c.confirmed >= sh.startedAt
  /\ ~Known(sh, c.id)

\* Above the limit the oldest record goes, finished or not.
registerShadowCandidate(sh, c, label, t) ==
  IF Registers(sh, c) THEN [sh EXCEPT !.records = Newest(Append(@, Record(c, label, t)))] ELSE sh

labelShadowCandidate(sh, id, label) ==
  [sh EXCEPT !.records = [i \in DOMAIN @ |-> IF @[i].id = id THEN [@[i] EXCEPT !.label = label]
                                                             ELSE @[i]]]

------------------------------------------------------------------------------
(* One quote of one record, step by step as in processShadowQuote           *)

Followed(r) == r.status \in {"waiting", "open", "trailing"}
Expired(r, t) == t >= r.confirmed + MaxAge

closeRecord(r, t) == [r EXCEPT !.status = "closed", !.exit = t]

Expire(r, t) ==
  IF r.filled # {} THEN closeRecord(r, t) ELSE [r EXCEPT !.status = "expired", !.exit = t]

\* Levels fill until the trail is armed.
Filled(r, ask) ==
  LET hit == {i \in 1..NDepths \ r.filled : ask <= r.level - i}
  IN  IF r.armed \/ hit = {} THEN r ELSE [r EXCEPT !.filled = @ \cup hit, !.status = "open"]

Returned(r, bid, t) ==
  IF r.returned = Never /\ bid >= r.level THEN [r EXCEPT !.returned = t] ELSE r

Armed(r, bid) ==
  IF ~r.armed /\ bid >= r.level + ReclaimBuffer
    THEN [r EXCEPT !.armed = TRUE, !.status = "trailing", !.top = bid, !.stop = r.level] ELSE r

\* Mutant: the stop follows the last price and not the highest one.
RaisedToLast(r, bid) ==
  IF r.armed THEN [r EXCEPT !.top = bid, !.stop = Max({r.level, bid - TrailDistance})] ELSE r

Raised(r, bid) ==
  IF r.armed
    THEN LET top == Max({r.top, bid})
         IN  [r EXCEPT !.top = top, !.stop = Max({@, r.level, top - TrailDistance})]
    ELSE r

Stopped(r, bid, t) == IF r.armed /\ bid <= r.stop THEN closeRecord(r, t) ELSE r

\* A record that holds something: return, arming, stop.
Managed(r, bid, t) ==
  IF r.filled = {} THEN r ELSE Stopped(Raised(Armed(Returned(r, bid, t), bid), bid), bid, t)

processShadowQuote(r, bid, ask, t) ==
  IF ~Followed(r)       THEN r
  ELSE IF Expired(r, t) THEN Expire(r, t)
  ELSE Managed(Filled(r, ask), bid, t)

processShadowBook(sh, bid, ask, t) ==
  IF sh.enabled
    THEN [sh EXCEPT !.records = [i \in DOMAIN @ |-> processShadowQuote(@[i], bid, ask, t)]]
    ELSE sh

\* A fill, a return or an end; arming and raising the stop are none of these.
Event(r, q) == r.filled # q.filled \/ r.returned # q.returned \/ r.exit # q.exit

Important(sh, after) ==
  \E i \in DOMAIN sh.records : Event(sh.records[i], after.records[i])
==============================================================================
